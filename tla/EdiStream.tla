------------------------------ MODULE EdiStream ------------------------------
(***************************************************************************)
(* An EDI input over TCP: Socket::TCPReceiveServer takes connections and   *)
(* blocks of bytes, Edi::m_run hands them to the TagDispatcher, which cuts *)
(* the stream into AF packets, and the STIWriter puts a frame together     *)
(* from the TAG items of a packet.                                         *)
(*                                                                         *)
(* An AF packet is PacketPieces pieces, the first with its header; a block *)
(* ends between two pieces.  Its items are in the order of the sender, see *)
(* EdiPacket; every packet has its number as data, time and frame count.   *)
(***************************************************************************)
EXTENDS Integers, Sequences

CONSTANTS
    Contents,        \* what a packet may hold: sequences of Tag
    PacketPieces,    \* pieces of a packet
    MaxPackets,      \* bound on the packets of the source
    MaxConnections,  \* bound on the connections of the source
    MaxFlight,       \* bound on the pieces in flight
    MaxQueue,        \* bound on m_queue, which has none in the code
    MaxTimeouts,     \* max_num_timeouts
    MaxInterrupts    \* bound on the interruptions of recv by a signal

VARIABLES
    net,            \* pieces in flight, of the connection that is open
    peer,           \* "none", "open", "closed" in order, or "reset"
    connections, packets, piece,   \* the source: so many so far, and the piece it is at
    contents,       \* of the packet being sent, if any
    sock, num_timeouts, interrupts,   \* TCPReceiveServer::process
    m_queue,
    m_input_data,
    decoding,       \* whether push_bytes is in its loop
    fresh,          \* no piece of an earlier connection can be in front of one of this one
    m_proto_valid, m_management_data, m_payload, m_seconds,   \* of the STIWriter; 0 is none
    frame           \* the frame last handed on

source == <<peer, connections, packets, piece, contents>>
server == <<sock, num_timeouts, interrupts>>
writer == <<m_proto_valid, m_management_data, m_payload, m_seconds>>
vars == <<net, source, server, m_queue, m_input_data, decoding, fresh, writer, frame>>

Protocol == {"ptr", "ptr_wrong", "ptr_short"}
Management == {"dsti", "dsti_null", "dsti_short"}
Tag == Protocol \cup Management \cup {"ss", "unknown"}

\* The order of the encoders: the protocol and the management data, and then the payload.
InOrderOfEncoders(tags) ==
    /\ tags \in Seq(Tag)
    /\ \A i \in DOMAIN tags : tags[i] = "ss" =>
          /\ \E j \in 1..(i - 1) : tags[j] \in Protocol
          /\ \E j \in 1..(i - 1) : tags[j] \in Management
          /\ \A j \in DOMAIN tags : j > i => tags[j] \notin Protocol \cup Management

NoFrame == [data |-> 0, count |-> 0, seconds |-> 0, timed |-> FALSE]
Disconnected == <<>>

Init ==
    /\ net = <<>> /\ peer = "none" /\ connections = 0 /\ packets = 0 /\ piece = 0 /\ contents = <<>>
    /\ sock = FALSE /\ num_timeouts = 0 /\ interrupts = 0
    /\ m_queue = <<>> /\ m_input_data = <<>> /\ decoding = FALSE /\ fresh = TRUE
    /\ m_proto_valid = FALSE /\ m_management_data = [count |-> 0, timed |-> FALSE]
    /\ m_payload = 0 /\ m_seconds = 0
    /\ frame = NoFrame

-----------------------------------------------------------------------------
(* The source *)

notSource == <<server, m_queue, m_input_data, decoding, fresh, writer, frame>>

Connect ==
    /\ peer = "none" /\ ~sock /\ connections < MaxConnections
    /\ peer' = "open" /\ connections' = connections + 1 /\ piece' = 0 /\ contents' = <<>>
    /\ UNCHANGED <<net, packets, notSource>>

\* A piece of a packet; a new packet begins only on this connection.
Send ==
    /\ peer = "open" /\ Len(net) < MaxFlight
    /\ piece = 0 => packets < MaxPackets
    /\ packets' = IF piece = 0 THEN packets + 1 ELSE packets
    /\ piece' = (piece + 1) % PacketPieces
    /\ \E tags \in IF piece = 0 THEN Contents ELSE {contents} :
          /\ net' = Append(net, [id |-> packets', piece |-> piece, tags |-> tags])
          /\ contents' = IF piece' = 0 THEN <<>> ELSE tags
    /\ UNCHANGED <<peer, connections, notSource>>

Close ==
    /\ peer = "open" /\ peer' = "closed"
    /\ UNCHANGED <<net, connections, packets, piece, contents, notSource>>

\* What is in flight is lost.
Reset ==
    /\ peer = "open" /\ peer' = "reset" /\ net' = <<>>
    /\ UNCHANGED <<connections, packets, piece, contents, notSource>>

-----------------------------------------------------------------------------
(* TCPReceiveServer::process *)

notServer == <<connections, packets, piece, contents, m_input_data, decoding, writer, frame>>

Accept ==
    /\ ~sock /\ peer # "none"
    /\ sock' = TRUE /\ num_timeouts' = 0
    /\ UNCHANGED <<net, peer, interrupts, m_queue, fresh, notServer>>

\* A block of any length.
Recv ==
    /\ sock /\ net # <<>> /\ Len(m_queue) < MaxQueue
    /\ \E n \in 1..Len(net) :
          /\ m_queue' = Append(m_queue, SubSeq(net, 1, n))
          /\ net' = SubSeq(net, n + 1, Len(net))
    /\ UNCHANGED <<peer, server, fresh, notServer>>

EndConnection ==
    /\ sock /\ sock' = FALSE
    /\ peer' = "none" /\ net' = <<>>
    /\ UNCHANGED num_timeouts

\* recv throws, and the connection is closed and reported.
RecvFails ==
    /\ EndConnection
    /\ peer = "reset" /\ Len(m_queue) < MaxQueue
    /\ m_queue' = Append(m_queue, Disconnected)
    /\ UNCHANGED <<interrupts, fresh, notServer>>

\* recv returns 0.
RecvClosed ==
    /\ EndConnection
    /\ peer = "closed" /\ net = <<>> /\ Len(m_queue) < MaxQueue
    /\ m_queue' = Append(m_queue, Disconnected)
    /\ UNCHANGED <<interrupts, fresh, notServer>>

\* The timeouts of a connection are counted over its life.
TimesOut ==
    /\ sock /\ net = <<>> /\ peer = "open" /\ num_timeouts < MaxTimeouts
    /\ num_timeouts' = num_timeouts + 1
    /\ UNCHANGED <<net, peer, sock, interrupts, m_queue, fresh, notServer>>
TimesOutAgain ==
    /\ net = <<>> /\ peer = "open" /\ num_timeouts = MaxTimeouts /\ Len(m_queue) < MaxQueue
    /\ EndConnection
    /\ m_queue' = Append(m_queue, Disconnected)
    /\ UNCHANGED <<interrupts, fresh, notServer>>

\* A signal: the socket is destroyed, and nobody is told.
Interrupted ==
    /\ interrupts < MaxInterrupts
    /\ EndConnection
    /\ interrupts' = interrupts + 1
    /\ fresh' = FALSE
    /\ UNCHANGED <<m_queue, notServer>>

-----------------------------------------------------------------------------
(* Edi::m_run, TagDispatcher::push_bytes *)

notReceiver == <<net, source, server>>

\* Mutant: what was not decoded yet is kept over a disconnection.
TakeKeeping ==
    /\ ~decoding /\ m_queue # <<>>
    /\ m_queue' = Tail(m_queue)
    /\ m_input_data' = m_input_data \o Head(m_queue) /\ decoding' = (Head(m_queue) # Disconnected)
    /\ UNCHANGED <<notReceiver, fresh, writer, frame>>

\* A message of TCPReceiveServer::receive; a disconnection clears the buffer.
Take ==
    /\ ~decoding /\ m_queue # <<>>
    /\ m_queue' = Tail(m_queue)
    /\ IF Head(m_queue) = Disconnected THEN m_input_data' = <<>> /\ UNCHANGED decoding
       ELSE m_input_data' = m_input_data \o Head(m_queue) /\ decoding' = TRUE
    /\ UNCHANGED <<notReceiver, fresh, writer, frame>>

Front == Head(m_input_data)
Rest(n) == SubSeq(m_input_data, n + 1, Len(m_input_data))
Cut == SubSeq(m_input_data, 1, PacketPieces)
CrcRight == \A i \in 1..PacketPieces : Cut[i] = [Front EXCEPT !.piece = i - 1]

\* The loop waits for more bytes: nothing, or less than the length in the header.
MissingData ==
    /\ decoding
    /\ m_input_data # <<>> => Front.piece = 0 /\ Len(m_input_data) < PacketPieces
    /\ decoding' = FALSE
    /\ UNCHANGED <<notReceiver, m_queue, m_input_data, fresh, writer, frame>>

\* Bytes that are neither AF nor PF.
Unknown ==
    /\ decoding /\ m_input_data # <<>> /\ Front.piece # 0
    /\ m_input_data' = Rest(1)
    /\ UNCHANGED <<notReceiver, m_queue, decoding, fresh, writer, frame>>

Whole == decoding /\ Len(m_input_data) >= PacketPieces /\ Front.piece = 0

\* What follows a packet in error waits until more bytes come.
CrcWrong ==
    /\ Whole /\ ~CrcRight
    /\ m_input_data' = Rest(PacketPieces) /\ decoding' = FALSE
    /\ UNCHANGED <<notReceiver, m_queue, fresh, writer, frame>>

-----------------------------------------------------------------------------
(* STIDecoder and STIWriter: the items of a packet, as far as they are looked at *)

\* STIWriter::update_edi_time throws as long as no protocol has been seen.
TooEarly(tags, i) ==
    tags[i] = "dsti" /\ ~m_proto_valid /\ \A j \in 1..(i - 1) : tags[j] # "ptr"

\* The loop of decode_tagpacket leaves at the first item that is not known, or fails.
Ends(tags, i) ==
    tags[i] \in {"unknown", "ptr_wrong", "ptr_short", "dsti_short"} \/ TooEarly(tags, i)
Looked(tags) == {i \in DOMAIN tags : \A j \in 1..(i - 1) : ~Ends(tags, j)}
Found(tags, tag) == {i \in Looked(tags) : tags[i] = tag /\ ~TooEarly(tags, i)}

\* What the writer then has, and the outcome.
Written(id, tags) ==
    LET Has(tag) == Found(tags, tag) # {}
        timed == \E i \in Found(tags, "dsti") : \A j \in Found(tags, "dsti_null") : j < i
    IN  [proto |-> ~Has("ptr_wrong") /\ (m_proto_valid \/ Has("ptr")),
         management |-> IF Has("dsti") \/ Has("dsti_null") THEN [count |-> id, timed |-> timed]
                        ELSE m_management_data,
         payload |-> IF Has("ss") THEN id ELSE m_payload,
         seconds |-> IF Has("dsti") THEN id ELSE m_seconds,
         outcome |-> IF Has("ptr_short") \/ Has("dsti_short") THEN "failed"
                     ELSE IF Has("ptr_wrong") \/ \E i \in Looked(tags) : TooEarly(tags, i)
                          THEN "thrown"
                     ELSE "ok"]

NoManagement == [count |-> 0, timed |-> FALSE]
Complete(w) == w.proto /\ w.management # NoManagement /\ w.payload # 0

Store(w) ==
    /\ m_proto_valid' = w.proto /\ m_management_data' = w.management
    /\ m_payload' = w.payload /\ m_seconds' = w.seconds

\* An exception, of the packet or of assemble: m_run clears the buffer.
Throws ==
    /\ Whole /\ CrcRight
    /\ LET w == Written(Front.id, Front.tags)
       IN  /\ w.outcome = "thrown" \/ (w.outcome = "ok" /\ ~Complete(w))
           /\ Store(w)
    /\ m_input_data' = <<>> /\ decoding' = FALSE
    /\ UNCHANGED <<notReceiver, m_queue, fresh, frame>>

Fails ==
    /\ Whole /\ CrcRight
    /\ LET w == Written(Front.id, Front.tags) IN w.outcome = "failed" /\ Store(w)
    /\ m_input_data' = Rest(PacketPieces) /\ decoding' = FALSE
    /\ UNCHANGED <<notReceiver, m_queue, fresh, frame>>

HandOn(w) ==
    /\ w.outcome = "ok" /\ Complete(w)
    /\ frame' = [data |-> w.payload, count |-> w.management.count, seconds |-> w.seconds,
                 timed |-> w.management.timed]
    /\ m_seconds' = w.seconds
    /\ m_proto_valid' = FALSE /\ m_management_data' = NoManagement

\* Mutant: the data stay valid once they have been handed on.
AssembleKeeping(w) == HandOn(w) /\ m_payload' = w.payload

\* STIWriter::assemble.
Assemble(w) == HandOn(w) /\ m_payload' = 0

Completes ==
    /\ Whole /\ CrcRight
    /\ Assemble(Written(Front.id, Front.tags))
    /\ m_input_data' = Rest(PacketPieces)
    /\ UNCHANGED <<notReceiver, m_queue, decoding, fresh>>

-----------------------------------------------------------------------------
Source == Connect \/ Send \/ Close \/ Reset
Server ==
    \/ Accept \/ Recv \/ RecvFails \/ RecvClosed \/ TimesOut \/ TimesOutAgain \/ Interrupted
Receiver == Take \/ MissingData \/ Unknown \/ CrcWrong \/ Throws \/ Fails \/ Completes
Next == Source \/ Server \/ Receiver

Spec == Init /\ [][Next]_vars
-----------------------------------------------------------------------------
\* "Pushing an empty buf will clear the internal decoder state to ensure realignment
\* (e.g. on stream reconnection)" (STIDecoder.hpp): what is cut out of the stream is a packet
\* of one connection, however many connections ended in the middle of one, unless recv was
\* interrupted.
Realigned == fresh /\ Whole => CrcRight

\* A frame is made of one packet: its data, its count and, if it is used, its time, whatever
\* packets before it were not understood.
FrameOfOnePacket ==
    frame.data = frame.count /\ (frame.timed => frame.seconds = frame.data)
=============================================================================
