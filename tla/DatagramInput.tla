---------------------------- MODULE DatagramInput ----------------------------
(***************************************************************************)
(* The inputs that read datagrams in the call of readFrame itself: class   *)
(* Inputs::Udp for raw data, and Inputs::Sti_d_Rtp for STI-D frames in     *)
(* RTP.  The network delivers any datagram that was sent any number of     *)
(* times, in any order, or never; the socket keeps a few of them, and does *)
(* not block when there is none.                                           *)
(*                                                                         *)
(* "Reorders incoming datagrams" is said of Sti_d_Rtp, but nothing looks   *)
(* at the frame number that receive_packet computes ("TODO reordering"):   *)
(* what the input gives is in the order in which it arrived, and so the    *)
(* datagrams are numbered by their arrival.                                *)
(*                                                                         *)
(* A raw datagram has as many bytes as a frame.  Headers and lengths of an *)
(* RTP packet are reduced to whether receive_packet accepts the packet and *)
(* whether the first stream in it has the size of the subchannel.          *)
(***************************************************************************)
EXTENDS Integers, Sequences

CONSTANTS
    Protocols,    \* subset of {"udp", "rtp"}
    Datagrams,    \* bound: number of datagrams the source sends
    MaxArrivals,  \* bound: number of times the network delivers one of them
    SocketSize    \* datagrams the socket keeps

VARIABLES
    protocol,
    launched,    \* what was sent so far
    deliveries,  \* number of times the network has delivered a datagram
    socketIn,    \* datagrams in the socket
    m_queue,     \* m_queue of Sti_d_Rtp, m_buffer of Udp in datagrams
    given,       \* the arrival whose data was given last, or -1
    sourceGiven  \* and its number in the source

vars == <<protocol, launched, deliveries, socketIn, m_queue, given, sourceGiven>>

\* What a datagram may be: data, STI data of another size, not valid (a short or
\* foreign header, DFS or NST of zero, lengths beyond the end), or empty.
Contents == {"data", "other", "invalid"}

Init ==
    /\ protocol \in Protocols
    /\ launched = <<>> /\ deliveries = 0 /\ socketIn = <<>>
    /\ m_queue = <<>>
    /\ given = -1 /\ sourceGiven = -1

Launch(what) ==
    /\ Len(launched) < Datagrams
    /\ launched' = Append(launched, what)
    /\ protocol = "udp" => what = "data"
    /\ UNCHANGED <<protocol, deliveries, socketIn, m_queue, given, sourceGiven>>

\* The network delivers the datagram that was sent as number i, perhaps not for the first
\* time, perhaps after a later one.  A full socket drops it.
Arrive(i) ==
    /\ deliveries < MaxArrivals
    /\ deliveries' = deliveries + 1
    /\ socketIn' = IF Len(socketIn) < SocketSize
                   THEN Append(socketIn, [id |-> deliveries, source |-> i, what |-> launched[i]])
                   ELSE socketIn
    /\ UNCHANGED <<protocol, launched, m_queue, given, sourceGiven>>

\* receive_packet takes one datagram, if there is one, and drops what is not valid.
Valid(d) == d.what # "invalid"
Queued(queue, socket) ==
    IF socket # <<>> /\ Valid(Head(socket)) THEN Append(queue, Head(socket)) ELSE queue
Left(socket) == IF socket = <<>> THEN <<>> ELSE Tail(socket)

\* Mutant: the frame is left in the queue.
Kept(queue) == queue

Rest(queue) == Tail(queue)

\* Sti_d_Rtp::readFrame: two packets are received, one frame is given.
ReadStiRtp ==
    LET queue == Queued(Queued(m_queue, socketIn), Left(socketIn)) IN
    /\ protocol = "rtp"
    /\ socketIn' = Left(Left(socketIn))
    /\ IF queue = <<>> THEN UNCHANGED <<m_queue, given, sourceGiven>>
       ELSE /\ m_queue' = Rest(queue)
            /\ IF Head(queue).what = "data"
               THEN given' = Head(queue).id /\ sourceGiven' = Head(queue).source
               ELSE UNCHANGED <<given, sourceGiven>>
    /\ UNCHANGED <<protocol, launched, deliveries>>

\* Udp::readFrame: what is in front of the buffer is given and stays there.
ReadUdp ==
    LET buffer == IF socketIn = <<>> THEN m_queue ELSE Append(m_queue, Head(socketIn)) IN
    /\ protocol = "udp"
    /\ socketIn' = Left(socketIn)
    /\ m_queue' = buffer
    /\ IF buffer = <<>> THEN UNCHANGED <<given, sourceGiven>>
       ELSE given' = Head(buffer).id /\ sourceGiven' = Head(buffer).source
    /\ UNCHANGED <<protocol, launched, deliveries>>

Next ==
    \/ \E what \in Contents : Launch(what)
    \/ \E i \in DOMAIN launched : Arrive(i)
    \/ ReadStiRtp \/ ReadUdp

Spec == Init /\ [][Next]_vars

-----------------------------------------------------------------------------
(***************************************************************************)
(* "Reorders incoming datagrams": what is given moves on in the source.    *)
(* It does not hold: two datagrams that arrive in the wrong order are      *)
(* given so, and one that arrives twice is given twice.  What holds is     *)
(* that every arrival is given at most once, in the order of arrival.      *)
(***************************************************************************)
SourceOrder == [][protocol = "rtp" => sourceGiven' = sourceGiven \/ sourceGiven' > sourceGiven]_vars
=============================================================================
