----------------------------- MODULE FIGContents -----------------------------
(***************************************************************************)
(* How the FIGs fill the fast information blocks: each walks over a list   *)
(* of the ensemble and writes entries until the space the carousel gave it *)
(* is used up, goes on from there at the next call, and says when it has   *)
(* come to the end.  The remote control and the announcements may change   *)
(* meanwhile what is to be sent.                                           *)
(*                                                                         *)
(* One specification for all of them: a FIG is its name, and what differs  *)
(* between their files is in the operators of the first section.  A byte   *)
(* is only counted.  FIG 0/6 (its list is rebuilt on every cycle) and      *)
(* FIG 1/1 (FIGPhaseLock) are left out.                                    *)
(***************************************************************************)
EXTENDS Integers, Sequences

CONSTANTS
    Figs,         \* the FIGs of the instance
    Kinds(_),     \* the elements of the lists a FIG walks over
    MaxItems(_),  \* length of the longest list
    Spaces,       \* bytes the carousel may offer; 30 is a whole FIB
    MaxChanges    \* bound on changes of what is to be sent

FibSize == 30

ASSUME SpacesAssumption == Spaces \subseteq 0..FibSize /\ FibSize \in Spaces

VARIABLES
    fig,        \* the FIG
    list,       \* the services, components, subchannels... it walks over
    textControl,\* ensemble->label.fig2_uses_text_control()
    wanted,     \* positions to be sent: language or PTy set, active, ...
    changes,    \* number of changes of wanted
    reversed,   \* FIG0_1: the snapshot of the subchannels is reversed
    pos,        \* the iterator, Len + 1 is end()
    piece,      \* fi_frequency_index, current_segment_index()
    half,       \* m_transmit_programme, m_inserting_audio_not_data
    filling,    \* inside fill()
    remaining,
    header,     \* the header written last in this fill, or NoHeader
    shifted,    \* a receiver of this fill no longer knows where the next entry begins
    complete,   \* complete_fig_transmitted of the last fill
    cycles,     \* 0, 1: cycles completed; 2: several
    sent,       \* pieces of each entry sent in this cycle
    malformed,  \* entries of this cycle that a receiver misreads
    changed     \* positions that entered or left wanted in this cycle

config == <<fig, list, textControl>>
place == <<reversed, pos, piece, half>>
block == <<remaining, header, shifted>>
history == <<cycles, sent, malformed, changed>>
vars == <<config, wanted, changes, place, filling, block, complete, history>>

-----------------------------------------------------------------------------
(* What differs between the FIGs.                                          *)

\* Written as one piece, or one after the other in calls of their own.
Single == {"0/0", "0/7", "0/9", "0/10", "1/0", "2/0"}

\* Two walks, one with PD = 0 and one with PD = 1, make a cycle.
Alternating == {"0/2", "0/8", "0/13"}

ProgrammeOnly == {"0/8 programme", "2/1"}
DataOnly == {"0/8 data", "1/5", "2/5"}
PacketOnly == {"0/3", "0/14"}

\* FIGs that put whatever they find.  (A service without components, which
\* FIG 0/2 would pass over, does not get through the startup.)
AlwaysWanted == {"0/0", "0/1", "0/2", "0/3", "0/8", "0/8 programme", "0/8 data",
                 "0/9", "0/10", "0/21", "0/24", "1/5"}

\* Those whose contents change at run time: PTy and announcements.
Changeable == {"0/17", "0/19"}

\* The iterator is initialised with end(), so the first fill finds nothing to do.
StartsAtEnd == {"0/3", "0/5", "0/8", "0/8 programme", "0/8 data", "0/13", "0/17",
                "0/18", "0/20", "1/4", "1/5", "2/1", "2/4", "2/5"}

\* No position is kept: each fill collects the clusters anew.
Restarting == {"0/19"}

\* An entry consists of several frequencies or label segments.
InPieces == {"0/21", "2/0", "2/1", "2/4", "2/5"}

\* Each entry is a FIG of its own.
OwnHeader == {"1/0", "1/4", "1/5", "2/0", "2/1", "2/4", "2/5"}

\* An element of a list: of a programme service; packet mode or, for FIG 0/21,
\* FM; EEP, other ensemble, or FIG 2 text control; the number of components,
\* applications, clusters, frequencies, segments... it has.
Element == [programme : BOOLEAN, packet : BOOLEAN, alt : BOOLEAN, n : Nat]

ASSUME KindsAssumption ==
    \A f \in Figs : \A e \in Kinds(f) : e \in Element /\ (f \in InPieces => e.n >= 1)
ASSUME MaxItemsAssumption == \A f \in Figs : MaxItems(f) \in Nat

IdSize(e) == IF e.programme THEN 2 ELSE 4

\* Bytes of a frequency of FIG 0/21, how many of them go into a list, and the
\* bytes in front of them.  FM, DAB, and DRM or AMSS.
Frequency(e) == IF e.packet THEN 1 ELSE IF e.programme THEN 3 ELSE 2
PerList(e) == IF e.packet THEN 7 ELSE IF e.programme THEN 2 ELSE 3
ListHeader(e) == IF e.packet \/ e.programme THEN 5 ELSE 6

LabelHeader(text) == IF text THEN 1 ELSE 3

\* What the fill function of each FIG puts for an entry e, or for piece p of it: the
\* bytes without the two of the header, and the space below which it does not begin.
Entry(bytes) == [size |-> bytes, least |-> 0]
AtLeast(space, bytes) == [size |-> bytes, least |-> space]

\* The ensemble identifier, the alarm flag and the frame count.
FIG0_0 == AtLeast(6, 4)
\* The subchannel, its start address, and the size in the short form or the long one.
FIG0_1(e) == AtLeast(6, IF e.alt THEN 4 ELSE 3)
\* The service, the number of its components, and two bytes for each.
FIG0_2(e) == Entry(IdSize(e) + 1 + 2 * e.n)
\* The component in packet mode: identifier, DSCTy, subchannel and packet address.
FIG0_3 == Entry(5)
\* The short form: the subchannel and its language.
FIG0_5 == Entry(2)
\* The number of services and the reconfiguration counter; none if it is negative.
FIG0_7 == AtLeast(4, 2)
\* The component of a service, with a subchannel, or in packet mode with its identifier.
FIG0_8(e) == Entry(IdSize(e) + (IF e.packet THEN 3 ELSE 2))
\* Local time offset and country of the ensemble, and those of the n bytes of services
\* of other countries, collected when none are yet.
FIG0_9(e) == Entry(3 + e.n)
\* Date and time in the long form.
FIG0_10 == AtLeast(8, 6)
\* The n user applications of a component, with an X-PAD field for audio only.
FIG0_13(e) == Entry(IF e.packet THEN 5 + 2 * e.n ELSE 3 + 4 * e.n)
\* The subchannel and its FEC scheme.
FIG0_14 == Entry(1)
\* The service and its programme type, without language.
FIG0_17 == Entry(4)
\* The announcements a service supports, and its n clusters.
FIG0_18(e) == Entry(5 + e.n)
\* An active cluster: its announcements and the subchannel.
FIG0_19 == Entry(4)
\* The change of a service component, when, and the n bytes of the service and
\* ensemble it goes to.
FIG0_20(e) == Entry(IdSize(e) + 1 + 3 + e.n)
\* The service and the n ensembles that carry it.
FIG0_24(e) == Entry(IdSize(e) + 1 + 2 * e.n)
\* The ensemble, its label and the flag of its short label.
FIG1_0 == Entry(2 + 16 + 2)
\* The component, whose identifier P/D and SCIdS precede, and its label.
FIG1_4(e) == Entry(1 + IdSize(e) + 16 + 2)
\* A data service and its label.
FIG1_5 == Entry(4 + 16 + 2)
\* A segment of 16 bytes of the label of the ensemble, of a service or of a component.
FIG2_0(p, tc) == Entry(2 + 16 + (IF p = 0 THEN LabelHeader(tc) ELSE 0))
FIG2_1_and_5(e, p, tc) == Entry(IdSize(e) + 16 + (IF p = 0 THEN LabelHeader(tc) ELSE 0))
FIG2_4(e, p) == Entry(1 + IdSize(e) + 16 + (IF p = 0 THEN LabelHeader(e.alt) ELSE 0))

\* FIG 2/1 and 2/5 look at the text control of the ensemble label.
EntryOf(f, e, p, tc) ==
    CASE f = "0/0" -> FIG0_0 [] f = "0/1" -> FIG0_1(e) [] f = "0/2" -> FIG0_2(e)
      [] f = "0/3" -> FIG0_3 [] f = "0/5" -> FIG0_5 [] f = "0/7" -> FIG0_7
      [] f \in {"0/8", "0/8 programme", "0/8 data"} -> FIG0_8(e)
      [] f = "0/9" -> FIG0_9(e) [] f = "0/10" -> FIG0_10 [] f = "0/13" -> FIG0_13(e)
      [] f = "0/14" -> FIG0_14 [] f = "0/17" -> FIG0_17 [] f = "0/18" -> FIG0_18(e)
      [] f = "0/19" -> FIG0_19 [] f = "0/20" -> FIG0_20(e) [] f = "0/24" -> FIG0_24(e)
      [] f = "1/0" -> FIG1_0 [] f = "1/4" -> FIG1_4(e) [] f = "1/5" -> FIG1_5
      [] f = "2/0" -> FIG2_0(p, tc) [] f \in {"2/1", "2/5"} -> FIG2_1_and_5(e, p, tc)
      [] f = "2/4" -> FIG2_4(e, p)
      [] OTHER -> Entry(0)

EntrySize(f, e, p, tc) == EntryOf(f, e, p, tc).size

\* required_size: what a FIG wants to see free before it writes the entry.  FIG 0/21
\* wants room for one frequency, and counts its two-byte field twice.
Required(f, e, p, tc) ==
    IF f = "0/21" THEN 2 + ListHeader(e) + Frequency(e) ELSE EntrySize(f, e, p, tc)

Lesser(a, b) == IF a <= b THEN a ELSE b

\* Pieces that go in at once with so many bytes free behind the header.
Batch(f, e, p, room) ==
    IF f = "0/21"
    THEN Lesser(Lesser(PerList(e), e.n - p), (room - ListHeader(e)) \div Frequency(e))
    ELSE 1

\* What the entry takes in the end: FIG 0/24 advances four bytes for the five of a
\* data service, FIG 2/1 and 2/5 write the header of the service's own label.
Advance(f, e, p, k, tc) ==
    IF f = "0/21" THEN ListHeader(e) + k * Frequency(e)
    ELSE IF f = "0/24" THEN (IF e.programme THEN 3 ELSE 4) + 2 * e.n
    ELSE EntrySize(f, e, p, IF f \in {"2/1", "2/5"} THEN e.alt ELSE tc)

\* What a receiver takes the entry for: by its format, and by the length in front of
\* it, which FIG 2/1 and 2/5 take from the required size.
Announced(f, e, p, k, tc) ==
    IF f = "0/24" THEN IdSize(e) + 1 + 2 * e.n
    ELSE IF f \in {"2/1", "2/5"} THEN EntrySize(f, e, p, tc)
    ELSE Advance(f, e, p, k, tc)

\* max_size below which a FIG does not begin, whatever it has to send.
AnyElement == [programme |-> TRUE, packet |-> FALSE, alt |-> FALSE, n |-> 0]
Least(f) == EntryOf(f, AnyElement, 0, FALSE).least

Pieces(f, e) == IF f \in InPieces THEN e.n ELSE 1

\* P/D and OE that the format demands for the entry.
Header(f, e) ==
    [pd |-> \/ f \in {"0/2", "0/8", "0/8 data", "0/20", "0/24", "1/4", "2/4"} /\ ~e.programme
            \/ f = "0/13" /\ e.packet,
     oe |-> f \in {"0/21", "0/24"} /\ e.alt]
TooOften == 99

NoHeader == [pd |-> FALSE, oe |-> FALSE, none |-> TRUE]

-----------------------------------------------------------------------------
N == Len(list)
End == N + 1
FirstHalf(f) == f \notin {"0/8", "0/13"}
LastHalf(f) == f # "0/2"

Init ==
    /\ fig \in Figs
    /\ textControl \in IF fig \in {"2/0", "2/1", "2/5"} THEN BOOLEAN ELSE {FALSE}
    /\ \E n \in IF fig \in Single THEN {1} ELSE 0..MaxItems(fig) :
          list \in [1..n -> Kinds(fig)]
    /\ wanted \in IF fig \in AlwaysWanted THEN {DOMAIN list} ELSE SUBSET DOMAIN list
    /\ changes = 0
    /\ reversed \in IF fig = "0/1" THEN BOOLEAN ELSE {FALSE}
    /\ pos = IF fig \in StartsAtEnd THEN End ELSE 1
    /\ piece = 0
    /\ half = FirstHalf(fig)
    /\ filling = FALSE /\ remaining = 0 /\ header = NoHeader /\ shifted = FALSE
    /\ complete = FALSE /\ cycles = 0
    /\ sent = [i \in DOMAIN list |-> 0] /\ malformed = {} /\ changed = {}

\* The element under the iterator, and whether it is to be sent in this walk.
At == IF reversed THEN End - pos ELSE pos
Matches(e, h) ==
    /\ fig \in {"0/2", "0/8"} => e.programme = h
    /\ fig = "0/13" => e.packet = ~h
    /\ fig \in ProgrammeOnly => e.programme
    /\ fig \in DataOnly => ~e.programme
    /\ fig \in PacketOnly => e.packet
Takes(i) == i \in wanted /\ Matches(list[i], half)

\* Mutant: every fill begins with the first entry.
ResumeAtBegin == 1

Resume == IF fig \in Restarting THEN 1 ELSE pos

\* The carousel calls fill(buf, max_size), unless the last call has written more than it
\* was given: of that it makes an exception, which ends the program.  A cycle begins after
\* the last one was complete, and for FIG 0/19 with every call.
Begin(space) ==
    LET anew == complete \/ fig \in Restarting IN
    /\ ~filling /\ remaining >= 0
    /\ filling' = (space >= Least(fig))
    /\ remaining' = space
    /\ header' = NoHeader /\ shifted' = FALSE
    /\ complete' = FALSE
    /\ pos' = Resume
    /\ sent' = IF anew THEN [i \in DOMAIN list |-> 0] ELSE sent
    /\ malformed' = IF anew THEN {} ELSE malformed
    /\ changed' = IF anew THEN {} ELSE changed
    /\ UNCHANGED <<config, wanted, changes, reversed, piece, half, cycles>>

\* continue
Skip ==
    /\ filling /\ pos < End /\ ~Takes(At)
    /\ fig = "1/5" => remaining >= 24
    /\ pos' = pos + 1
    /\ UNCHANGED <<config, wanted, changes, reversed, piece, half, filling, block,
                   complete, history>>

\* A header goes before the first entry, and where the other ensemble flag changes;
\* FIG 0/24 compares with a flag that it never sets (last_oe).
NewHeader(e) ==
    \/ header = NoHeader
    \/ fig \in OwnHeader
    \/ fig = "0/21" /\ header.oe # e.alt
    \/ fig = "0/24" /\ e.alt

Needs(e) == Required(fig, e, piece, textControl) + (IF NewHeader(e) THEN 2 ELSE 0)

\* FIG 2/0 writes one segment per call; FIG 1/5 looks at the space before it looks
\* whether the service has data.
HasRoom(e) == Needs(e) <= remaining /\ ~(fig = "2/0" /\ header # NoHeader)

\* Mutant: the entry that does not fit is left out of this cycle.
BreakAdvances ==
    /\ filling' = FALSE
    /\ pos' = pos + 1

\* break: the next call goes on with the same entry.
Break ==
    /\ filling' = FALSE
    /\ pos' = pos

NoRoom ==
    /\ filling /\ pos < End
    /\ IF fig = "1/5" THEN remaining < 24 ELSE Takes(At) /\ ~HasRoom(list[At])
    /\ Break
    /\ UNCHANGED <<config, wanted, changes, reversed, piece, half, block, complete,
                   history>>

\* A wrong length, or a wrong P/D, makes the receiver look for the next entry in the wrong
\* place.  It finds the next FIG again if only the parts of an entry were not as announced,
\* but not behind a FIG whose own length is wrong, that of the FIGs with one entry each.
Put ==
    LET e == list[At]
        new == NewHeader(e)
        room == remaining - (IF new THEN 2 ELSE 0)
        k == Batch(fig, e, piece, room)
        h == IF new THEN Header(fig, e) ELSE header
        last == piece + k = Pieces(fig, e)
        wide == Advance(fig, e, piece, k, textControl)
        found == shifted => new /\ fig \notin OwnHeader
        fits == wide = Announced(fig, e, piece, k, textControl)
    IN  /\ filling /\ pos < End /\ Takes(At) /\ HasRoom(e)
        /\ header' = h
        /\ remaining' = room - wide
        /\ piece' = IF last THEN 0 ELSE piece + k
        /\ pos' = IF last THEN pos + 1 ELSE pos
        /\ sent' = [sent EXCEPT ![At] = IF @ + k <= Pieces(fig, e) THEN @ + k ELSE TooOften]
        /\ shifted' = ~(found /\ h.pd = Header(fig, e).pd /\ fits)
        /\ malformed' = IF found /\ h = Header(fig, e) /\ fits
                        THEN malformed ELSE malformed \union {At}
        /\ UNCHANGED <<config, wanted, changes, reversed, half, filling, complete,
                       cycles, changed>>

\* The iterator has reached end(): it is put back, or m_initialised reset, and the
\* cycle is complete with its last walk.
EndOfList ==
    /\ filling /\ pos = End
    /\ filling' = FALSE
    /\ complete' = (fig \in Alternating => half = LastHalf(fig))
    /\ cycles' = IF complete' /\ cycles < 2 THEN cycles + 1 ELSE cycles
    /\ pos' = 1
    /\ half' = IF fig \in Alternating THEN ~half ELSE half
    /\ reversed' \in IF fig = "0/1" THEN BOOLEAN ELSE {FALSE}
    /\ UNCHANGED <<config, wanted, changes, piece, block, sent, malformed, changed>>

\* The remote control sets a PTy, or an announcement begins or ends.  FIG 0/19 works on the set
\* that it collected when it was called.
Change(i) ==
    /\ fig \in Changeable /\ changes < MaxChanges
    /\ fig \in Restarting => ~filling
    /\ wanted' = IF i \in wanted THEN wanted \ {i} ELSE wanted \union {i}
    /\ changed' = changed \union {i}
    /\ changes' = changes + 1
    /\ UNCHANGED <<config, place, filling, block, complete, cycles, sent, malformed>>

Fill == Skip \/ NoRoom \/ Put \/ EndOfList

Next ==
    \/ \E space \in Spaces : Begin(space)
    \/ Fill
    \/ \E i \in DOMAIN list : Change(i)

\* A fill runs to its end, and the carousel offers a whole FIB again and again.
Spec == Init /\ [][Next]_vars /\ WF_vars(Fill) /\ SF_vars(Begin(FibSize))

-----------------------------------------------------------------------------
(* Properties.                                                             *)

\* No fill writes more than it was given, unless a label of FIG 2/1 or 2/5 is without the
\* text control that the ensemble label has: of its header only one byte is counted.
Overrun ==
    /\ remaining < 0
    /\ fig \in {"2/1", "2/5"} /\ textControl
    /\ \E i \in wanted : ~list[i].alt

\* The iterator and the index within an entry stay in their ranges.
TypeOK ==
    /\ remaining \in 0..FibSize \/ Overrun
    /\ pos \in 1..End /\ half \in BOOLEAN /\ reversed \in BOOLEAN
    /\ piece # 0 => pos < End /\ piece < Pieces(fig, list[At])
    /\ wanted \subseteq DOMAIN list /\ changed \subseteq DOMAIN list
    /\ malformed \subseteq DOMAIN list /\ shifted \in BOOLEAN
    /\ filling \in BOOLEAN /\ complete \in BOOLEAN
    /\ sent \in [DOMAIN list -> Nat]

\* The entries that a receiver may misread.  FIG 0/20 and 0/24 take P/D, and 0/24 also OE,
\* from the first entry behind a header; FIG 0/24 overwrites the last byte of a data
\* service; FIG 2/1 and 2/5 announce the size of a header with the text control of the
\* ensemble label.
MayMisread(i) ==
    LET e == list[i] IN
    \/ fig = "0/20" /\ \E j \in wanted : j < i /\ list[j].programme # e.programme
    \/ fig = "0/24" /\ ~e.programme
    \/ fig = "0/24" /\ ~e.alt /\ \E j \in wanted : j < i /\ (list[j].alt \/ ~list[j].programme)
    \/ fig \in {"2/1", "2/5"} /\ \E j \in wanted : j <= i /\ list[j].alt # textControl

\* What a cycle is to carry.  The first one of a FIG whose iterator starts at the end has no
\* first walk.
Carried(i) ==
    /\ i \in wanted
    /\ \E h \in BOOLEAN :
          /\ Matches(list[i], h)
          /\ fig \in StartsAtEnd /\ cycles = 1 => fig \in Alternating /\ h = LastHalf(fig)

\* When a FIG says that it has sent everything, it has sent each entry that was to
\* be sent all the while exactly once and in whole, whatever the spaces, and none that was
\* not to be sent; the first time, a FIG whose iterator starts at the end has sent nothing,
\* or of two walks the second.  A receiver reads every entry as it was meant, but for those
\* of the mixed lists of MayMisread.
CycleIsExact ==
    complete =>
        /\ \A i \in malformed : MayMisread(i)
        /\ \A i \in DOMAIN list \ changed :
              sent[i] = IF Carried(i) THEN Pieces(fig, list[i]) ELSE 0

\* A FIG that is offered whole FIBs again and again completes its cycle again and
\* again: neither small spaces in between nor a large entry stop it.  Only an Overrun does.
CycleEnds == []<>complete \/ <>Overrun

\* What the status of fill promises in FIG.h: that the complete set of information was
\* transmitted.  The code does not keep it for the mixed lists, and not the first time.
SetIsTransmitted ==
    complete =>
        /\ malformed = {}
        /\ \A i \in wanted \ changed :
              (\E h \in BOOLEAN : Matches(list[i], h)) => sent[i] = Pieces(fig, list[i])
=============================================================================
