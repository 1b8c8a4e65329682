------------------------------ MODULE EdiPacket ------------------------------
(***************************************************************************)
(* The layout of the EDI packets of STI-D: TAG items, TAG packets and AF   *)
(* packets as edi::TagItems, TagPacket and AFPacketiser write them, and as *)
(* EdiDecoder::TagDispatcher and STIDecoder read them; and the timestamps  *)
(* they carry.                                                             *)
(*                                                                         *)
(* A packet is a sequence of bytes.  For the CRC stands the number of bits *)
(* set in the bytes in front of it.                                        *)
(***************************************************************************)
EXTENDS Integers, Sequences, FiniteSets, SequencesExt

CONSTANTS
    Frames,       \* what is given to the TAG items, see Frame
    Alignments,   \* values of tagpacket_alignment
    FirstDlfcs, FirstSeqs,   \* the counters a sender starts with
    MaxWritten,   \* bound on the packets of a behaviour
    Ticks,        \* of a millisecond, 2^14 in the code
    Delays        \* values of tist-delay, in milliseconds

DlfcWrap == 5000
Word == 65536
Second == 1000 * Ticks
NullTsta == 16777215
EdiEpoch == 946684800   \* 1 January 2000

(***************************************************************************)
(* A frame: time (0 without one) and TAI-UTC; the optional fields of dsti  *)
(* are sequences, empty when absent; levels and version likewise.          *)
(***************************************************************************)
VARIABLES
    dlfc,    \* TagDSTI::dlfc
    m_seq,   \* AFPacketiser::m_seq
    written, \* number of packets written
    given,   \* the frame last written, with its counters
    packet   \* its AF packet

vars == <<dlfc, m_seq, written, given, packet>>

Bytes(n, x) == [i \in 1..n |-> (x \div 256^(n - i)) % 256]
Number(s) == FoldLeft(LAMBDA x, y : 256 * x + y, 0, s)
Part(s, offset, n) == SubSeq(s, offset + 1, offset + n)
Bit(x, n) == (x \div 2^n) % 2 = 1
Flag(b, n) == IF b THEN 2^n ELSE 0

StarPtr == <<42, 112, 116, 114>>
Dsti == <<100, 115, 116, 105>>
Ss == <<115, 115>>
StarDmy == <<42, 100, 109, 121>>
OdrA == <<79, 68, 82, 97>>
OdrV == <<79, 68, 82, 118>>
Protocol == <<68, 83, 84, 73>>

-----------------------------------------------------------------------------
(* TAG items *)

\* The length is in bits.
TagItem(name, value) == name \o Bytes(4, 8 * Len(value)) \o value

\* TagDSTI::set_edi_time.
Utco(f) == f.taiUtc - 32
EdiSeconds(f) == f.time - EdiEpoch + Utco(f)

\* dfcth and dfctl.
Dfct(d) == 256 * (d \div 250) + (d % 250)

TagDSTI(f, d) ==
    TagItem(Dsti,
        Bytes(2, Dfct(d) + Flag(f.rfad # <<>>, 13) + Flag(f.time # 0, 14) + Flag(f.sti # <<>>, 15))
        \o f.sti
        \o (IF f.time = 0 THEN <<>>
            ELSE <<Utco(f)>> \o Bytes(4, EdiSeconds(f)) \o Bytes(3, f.tsta))
        \o f.rfad)

\* rfa, tid, tidext, crcstf and stid in three bytes.
TagSSm(f) ==
    TagItem(Ss \o Bytes(2, f.id), Bytes(3, f.rfa * 2^19 + f.tid * 2^16 + f.stid) \o f.istd)

TagOptional(name, value) == IF value = <<>> THEN <<>> ELSE TagItem(name, value)

Items(f, d) ==
    TagItem(StarPtr, Protocol \o Bytes(4, 0)) \o TagDSTI(f, d) \o TagSSm(f)
        \o TagOptional(OdrA, f.levels) \o TagOptional(OdrV, f.version)

\* TagPacket::Assemble.  Above 8 the item *dmy has a fixed size, whatever the packet needs.
Padding(items, alignment) ==
    IF alignment = 8 THEN [i \in 1..((-Len(items)) % 8) |-> 0]
    ELSE IF alignment > 8 THEN TagItem(StarDmy, [i \in 1..(alignment - 8) |-> 0])
    ELSE <<>>
TagPacket(f, d, alignment) == Items(f, d) \o Padding(Items(f, d), alignment)

HeaderLen == 10
Crc(s) == Bytes(2, Cardinality({p \in (DOMAIN s) \X (0..7) : Bit(s[p[1]], p[2])}))

\* AFPacketiser::Assemble.
AFPacket(payload, seq) ==
    LET packed == <<65, 70>> \o Bytes(4, Len(payload)) \o Bytes(2, seq) \o <<144, 84>> \o payload
    IN  packed \o Crc(packed)

-----------------------------------------------------------------------------
(* The decoder *)

AtEnd(payload, i) == i + 8 >= Len(payload)

Known(name) == name \in {StarPtr, Dsti, StarDmy, OdrA, OdrV} \/ Part(name, 0, 2) = Ss

\* decode_tagpacket: the items up to the end, a length that makes no sense, or the
\* first unknown item.
TagsFrom(payload) ==
    LET from[i \in Nat] ==
        LET name == Part(payload, i, 4)
            bits == Number(Part(payload, i + 4, 4))
            length == bits \div 8
        IN  IF \/ AtEnd(payload, i)
               \/ bits % 8 # 0 \/ i + 8 + length > Len(payload) \/ ~Known(name)
            THEN <<>>
            ELSE <<[name |-> name, value |-> Part(payload, i + 8, length)]>> \o from[i + 8 + length]
    IN  from[0]

\* decode_afpacket: enough data, a CRC, TAG items, the right CRC.
Payload(p) == Part(p, HeaderLen, Number(Part(p, 2, 4)))
ValidAF(p) ==
    /\ Len(p) >= HeaderLen
    /\ Len(p) >= HeaderLen + Number(Part(p, 2, 4)) + 2
    /\ Bit(p[9], 7) /\ p[10] = 84
    /\ LET length == HeaderLen + Number(Part(p, 2, 4))
       IN  Part(p, length, 2) = Crc(Part(p, 0, length))

Value(tags, name) ==
    LET named == SelectSeq(tags, LAMBDA t : Part(t.name, 0, Len(name)) = name)
    IN  IF named = <<>> THEN <<>> ELSE named[Len(named)].value

\* STIDecoder::decode_dsti: the fields in front of each other, as the flags say.
DecodeDsti(v) ==
    LET header == Number(Part(v, 0, 2))
        stihf == Bit(header, 15)
        atstf == Bit(header, 14)
        rfadf == Bit(header, 13)
        time == 2 + (IF stihf THEN 3 ELSE 0)
        rfad == time + (IF atstf THEN 8 ELSE 0)
    IN  [dlfc |-> ((header \div 256) % 32) * 250 + (header % 256),
         sti |-> IF stihf THEN Part(v, 2, 3) ELSE <<>>,
         utco |-> IF atstf THEN v[time + 1] ELSE 0,
         seconds |-> IF atstf THEN Number(Part(v, time + 1, 4)) ELSE 0,
         tsta |-> IF atstf THEN Number(Part(v, time + 5, 3)) ELSE NullTsta,
         rfad |-> IF rfadf THEN Part(v, rfad, 9) ELSE <<>>,
         fits |-> Len(v) = rfad + (IF rfadf THEN 9 ELSE 0)]

\* frame_timestamp_t::to_unix_epoch.
ToUnixEpoch(t) == EdiEpoch + t.seconds - t.utco

\* decode_ssn; the fields behind tid are not used by the STIWriter.
DecodeSs(name, v) ==
    [id |-> Number(Part(name, 2, 2)), rfa |-> v[1] \div 8, tid |-> v[1] % 8, istd |-> Part(v, 3, Len(v) - 3)]

-----------------------------------------------------------------------------
(* Timestamps *)

\* Mutant: the carry comes at one tick too much.
AddedLate(t, ms) ==
    LET tsta == t.tsta + (ms % 1000) * Ticks
    IN  [seconds |-> t.seconds + (IF tsta > Second THEN 1 ELSE 0) + ms \div 1000,
         tsta |-> IF tsta > Second THEN tsta - Second ELSE tsta]

\* frame_timestamp_t::operator+=, for delays that are not negative.
Added(t, ms) ==
    LET tsta == t.tsta + (ms % 1000) * Ticks
    IN  [seconds |-> t.seconds + (IF tsta > Second - 1 THEN 1 ELSE 0) + ms \div 1000,
         tsta |-> IF tsta > Second - 1 THEN tsta - Second ELSE tsta]

-----------------------------------------------------------------------------
Nothing == [dlfc |-> -1]

Init ==
    /\ dlfc \in FirstDlfcs /\ m_seq \in FirstSeqs
    /\ written = 0 /\ given = Nothing /\ packet = <<>>

\* Sender::write: the counters advance in Assemble.
Write ==
    /\ written < MaxWritten
    /\ \E f \in Frames, alignment \in Alignments :
          /\ given' = [frame |-> f, dlfc |-> dlfc, seq |-> m_seq]
          /\ packet' = AFPacket(TagPacket(f, dlfc, alignment), m_seq)
    /\ dlfc' = (dlfc + 1) % DlfcWrap
    /\ m_seq' = (m_seq + 1) % Word
    /\ written' = written + 1

Next == Write
Spec == Init /\ [][Next]_vars

-----------------------------------------------------------------------------
\* The decoder reads back what was given to the TAG items, whatever the padding, the
\* optional fields and the counters are.
FrameReadsBack ==
    LET tags == TagsFrom(Payload(packet))
        f == given.frame
        dsti == DecodeDsti(Value(tags, Dsti))
        ss == SelectSeq(tags, LAMBDA t : Part(t.name, 0, 2) = Ss)
    IN  /\ ValidAF(packet) /\ Number(Part(packet, 6, 2)) = given.seq
        /\ Value(tags, StarPtr) = Protocol \o Bytes(4, 0)
        /\ Value(tags, Dsti) # <<>> /\ Len(ss) = 1
        /\ dsti.fits /\ dsti.dlfc = given.dlfc /\ dsti.sti = f.sti /\ dsti.rfad = f.rfad
        /\ dsti.tsta = IF f.time = 0 THEN NullTsta ELSE f.tsta
        /\ f.time # 0 => ToUnixEpoch(dsti) = f.time
        /\ DecodeSs(ss[1].name, ss[1].value)
               = [id |-> f.id, rfa |-> f.rfa, tid |-> f.tid, istd |-> f.istd]
        /\ Value(tags, OdrA) = f.levels /\ Value(tags, OdrV) = f.version

\* A delay moves the time by as much, and the fraction stays below a second.
DelayAdds(t, ms) ==
    LET moved == Added(t, ms)
    IN  /\ moved.tsta \in 0..(Second - 1)
        /\ Second * (moved.seconds - t.seconds) + moved.tsta = t.tsta + ms * Ticks

ReadsBack ==
    packet # <<>> =>
        /\ FrameReadsBack
        /\ given.frame.time # 0 =>
              LET dsti == DecodeDsti(Value(TagsFrom(Payload(packet)), Dsti))
              IN  \A ms \in Delays : DelayAdds(dsti, ms)
=============================================================================
