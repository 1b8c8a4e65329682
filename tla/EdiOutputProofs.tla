--------------------------- MODULE EdiOutputProofs ---------------------------
(***************************************************************************)
(* What a client of the EDI output can rely on, for any number of clients  *)
(* and packets, any sizes of queues and preroll, and every interleaving of *)
(* the threads: of the TCP server (EdiSender) each connection gets a piece *)
(* of the sequence of packets without a hole; of the TCP client            *)
(* (TcpSendClient) the remote gets the newest packets and none twice; and  *)
(* no queue grows beyond its limit.                                        *)
(***************************************************************************)
EXTENDS MCEdiOutput, SequenceTheorems, TLAPS

PacketNo == 0..(WireMod - 1)

TypeOK ==
    /\ wire \in PacketNo /\ preroll \in Seq(PacketNo)
    /\ thread \in [Clients -> {"none", "wait", "poll", "send", "ended"}]
    /\ connRunning \in [Clients -> BOOLEAN]
    /\ queue \in [Clients -> Seq(PacketNo \union {Marker})]
    /\ item \in [Clients -> PacketNo \union {Nothing}]
    /\ got \in [Clients -> PacketNo \union {Nothing}]
    /\ victim \in Clients \union {"nobody"}
    /\ listener \in Clients \union {"accept", "ended"}

(***************************************************************************)
(* Who holds the mutex of the dispatcher, and which threads are over when  *)
(* the connections are closed: nobody pushes to a connection while it is   *)
(* destroyed or before it has its preroll.                                 *)
(***************************************************************************)
Mutex ==
    /\ sender \in {"push", "remove"} <=> dispatcherLock = "sender"
    /\ listener \in Clients <=> dispatcherLock = "listener"
    /\ main \in {"joinListener", "close", "ended"} => sender = "ended"
    /\ main \in {"close", "ended"} => listener = "ended"
    /\ victim # "nobody" => sender = "remove" \/ main = "close"

\* What a connection has at each place of its life; the marker comes last, and once.
Life(c) ==
    /\ thread[c] = "none" => queue[c] = <<>> /\ item[c] = Nothing /\ got[c] = Nothing /\ victim # c
    /\ thread[c] = "wait" => item[c] = Nothing
    /\ thread[c] \in {"poll", "send"} => item[c] # Nothing
    /\ listener = c => thread[c] = "wait" /\ queue[c] = <<>> /\ got[c] = Nothing
    /\ \A i \in 1..Len(queue[c]) : queue[c][i] = Marker => i = Len(queue[c]) /\ victim = c

\* A sequence without a hole, which goes up to the packet transmitted last: of a
\* connection, only when that one has been pushed.
Chained(s) == \A i \in 1..(Len(s) - 1) : s[i + 1] = After(s[i])
EndsWith(s, n) == s # <<>> => s[Len(s)] = n
EndsBefore(s, n) == s # <<>> => After(s[Len(s)]) = n

PrerollOK == Chained(preroll) /\ EndsWith(preroll, wire) /\ Len(preroll) <= Preroll
StreamOK(c) ==
    thread[c] # "none" =>
        /\ Chained(Stream(c))
        /\ IF sender = "push" THEN EndsBefore(Stream(c), wire) ELSE EndsWith(Stream(c), wire)

\* One packet too many until the overfull connections are removed, and the marker.
Longest == IF Preroll > MaxQueue THEN Preroll ELSE MaxQueue
Fits(c) ==
    Len(queue[c]) <= Longest + (IF sender = "remove" THEN 1 ELSE 0) + (IF victim = c THEN 1 ELSE 0)

ConnectionOK(c) == Life(c) /\ StreamOK(c) /\ Fits(c)
IInv == TypeOK /\ Mutex /\ PrerollOK /\ \A c \in Clients : ConnectionOK(c)

-----------------------------------------------------------------------------
(* Sequences without a hole.                                               *)

LEMMA AfterIsAPacket == ASSUME NEW n \in PacketNo PROVE After(n) \in PacketNo
<1>1. WireMod \in Nat \ {0} /\ n + 1 \in Nat
    BY SenderAssumption DEF PacketNo
<1>2. \A k \in Nat : k % WireMod \in 0..(WireMod - 1)
    BY <1>1
<1> QED BY <1>1, <1>2 DEF After, PacketNo

LEMMA ChainAppend ==
    ASSUME NEW s \in Seq(Int), NEW n \in Int, Chained(s), EndsBefore(s, n)
    PROVE  /\ Append(s, n) \in Seq(Int)
           /\ Chained(Append(s, n)) /\ EndsWith(Append(s, n), n)
<1> DEFINE t == Append(s, n)
<1>1. /\ t \in Seq(Int) /\ t # <<>> /\ Len(s) \in Nat /\ Len(t) = Len(s) + 1
      /\ \A i \in 1..Len(s) : t[i] = s[i]
      /\ t[Len(s) + 1] = n
    BY AppendProperties
<1> HIDE DEF t
<1>2. ASSUME NEW i \in 1..(Len(t) - 1) PROVE t[i + 1] = After(t[i])
  <2>1. CASE i = Len(s)
    <3>1. s # <<>> /\ i \in 1..Len(s)
      BY <1>1, <2>1
    <3>2. t[i] = s[Len(s)] /\ t[i + 1] = n
      BY <1>1, <2>1, <3>1
    <3> QED BY <3>1, <3>2 DEF EndsBefore
  <2>2. CASE i # Len(s)
    <3>1. i \in 1..Len(s) /\ i + 1 \in 1..Len(s) /\ i \in 1..(Len(s) - 1)
      BY <1>1, <2>2
    <3>2. t[i] = s[i] /\ t[i + 1] = s[i + 1]
      BY <1>1, <3>1
    <3> QED BY <3>1, <3>2 DEF Chained
  <2> QED BY <2>1, <2>2
<1> QED BY <1>1, <1>2 DEF Chained, EndsWith, t

LEMMA ChainTail ==
    ASSUME NEW s \in Seq(Int), s # <<>>, Chained(s)
    PROVE  /\ Tail(s) \in Seq(Int) /\ Chained(Tail(s))
           /\ \A n : EndsWith(s, n) => EndsWith(Tail(s), n)
           /\ \A n : EndsBefore(s, n) => EndsBefore(Tail(s), n)
<1> DEFINE t == Tail(s)
<1>1. /\ t \in Seq(Int) /\ Len(s) \in Nat \ {0} /\ Len(t) = Len(s) - 1
      /\ \A i \in 1..Len(t) : t[i] = s[i + 1]
    BY HeadTailProperties, EmptySeq
<1> HIDE DEF t
<1>2. ASSUME NEW i \in 1..(Len(t) - 1) PROVE t[i + 1] = After(t[i])
  <2>1. i \in 1..Len(t) /\ i + 1 \in 1..Len(t) /\ i + 1 \in 1..(Len(s) - 1)
    BY <1>1, <1>2
  <2>2. t[i] = s[i + 1] /\ t[i + 1] = s[(i + 1) + 1]
    BY <1>1, <2>1
  <2> QED BY <2>1, <2>2 DEF Chained
<1>3. t # <<>> => t[Len(t)] = s[Len(s)]
  <2>1. SUFFICES ASSUME t # <<>> PROVE t[Len(t)] = s[Len(s)]
    OBVIOUS
  <2>2. Len(t) \in Nat \ {0}
    BY <1>1, <2>1, EmptySeq
  <2> QED BY <1>1, <2>2
<1> QED BY <1>1, <1>2, <1>3 DEF Chained, EndsWith, EndsBefore, t

-----------------------------------------------------------------------------
(* The packets of a queue, and the marker.                                 *)
Queued == Seq(PacketNo \union {Marker})
MarkerLast(q) == \A i \in 1..Len(q) : q[i] = Marker => i = Len(q)
NoMarker(q) == \A i \in 1..Len(q) : q[i] # Marker

LEMMA NumbersDiffer == Marker \notin PacketNo /\ Nothing \notin PacketNo /\ Marker # Nothing
                       /\ PacketNo \subseteq Int /\ Marker \in Int
BY SenderAssumption DEF PacketNo, Marker, Nothing

LEMMA PacketsAreNumbers ==
    ASSUME NEW q \in Queued, MarkerLast(q) PROVE Packets(q) \in Seq(Int)
<1>1. q \in Seq(Int) /\ Len(q) \in Nat
  <2>1. PacketNo \union {Marker} \subseteq Int
    BY NumbersDiffer
  <2>2. q \in Seq(Int)
    BY <2>1, SeqMonotonic DEF Queued
  <2> QED BY <2>2
<1>2. SubSeq(q, 1, Len(q) - 1) \in Seq(Int)
    BY <1>1
<1> QED BY <1>1, <1>2 DEF Packets

LEMMA PacketsWithoutMarker ==
    ASSUME NEW q \in Queued, NoMarker(q)
    PROVE  /\ Packets(q) = q
           /\ Append(q, Marker) \in Queued /\ Packets(Append(q, Marker)) = q
           /\ MarkerLast(Append(q, Marker)) /\ Len(Append(q, Marker)) = Len(q) + 1
<1> DEFINE t == Append(q, Marker)
<1>1. /\ t \in Queued /\ t # <<>> /\ Len(q) \in Nat /\ Len(t) = Len(q) + 1
      /\ \A i \in 1..Len(q) : t[i] = q[i]
      /\ t[Len(q) + 1] = Marker
    BY AppendProperties DEF Queued
<1> HIDE DEF t
<1>2. Packets(q) = q
    BY LenProperties, EmptySeq DEF NoMarker, Packets, Queued
<1>3. Packets(t) = SubSeq(t, 1, Len(q))
    BY <1>1 DEF Packets
<1>4. SubSeq(t, 1, Len(q)) = q
    BY <1>1 DEF Queued
<1>5. MarkerLast(t)
    BY <1>1 DEF MarkerLast, NoMarker
<1> QED BY <1>1, <1>2, <1>3, <1>4, <1>5 DEF t

LEMMA MarkerInFront ==
    ASSUME NEW q \in Queued, MarkerLast(q), q # <<>>, Head(q) = Marker
    PROVE  Tail(q) = <<>> /\ Packets(q) = <<>>
<1>1. Len(q) \in Nat \ {0} /\ q[1] = Marker
    BY EmptySeq DEF Queued
<1>2. Len(q) = 1
    BY <1>1 DEF MarkerLast
<1>3. Tail(q) = <<>>
  <2>1. Tail(q) \in Queued /\ Len(Tail(q)) = 0
    BY <1>2, HeadTailProperties DEF Queued
  <2> QED BY <2>1, EmptySeq DEF Queued
<1>4. SubSeq(q, 1, Len(q) - 1) = <<>>
    BY <1>2 DEF Queued
<1> QED BY <1>1, <1>2, <1>3, <1>4 DEF Packets

LEMMA PacketInFront ==
    ASSUME NEW q \in Queued, MarkerLast(q), q # <<>>, Head(q) # Marker
    PROVE  /\ Head(q) \in PacketNo /\ Tail(q) \in Queued /\ Len(Tail(q)) = Len(q) - 1
           /\ Packets(q) = <<Head(q)>> \o Packets(Tail(q))
           /\ \A i \in 1..Len(Tail(q)) : Tail(q)[i] = q[i + 1]
<1> DEFINE t == Tail(q)  h == Head(q)  n == Len(q)
<1>1. /\ n \in Nat \ {0} /\ h = q[1] /\ h \in PacketNo /\ t \in Queued /\ Len(t) = n - 1
      /\ \A i \in 1..(n - 1) : t[i] = q[i + 1]
    BY EmptySeq, HeadTailProperties DEF Queued
<1>2. CASE q[n] = Marker
  <2>1. n > 1 /\ t # <<>> /\ t[n - 1] = Marker
    BY <1>1, <1>2
  <2>2. Packets(q) = SubSeq(q, 1, n - 1) /\ Packets(t) = SubSeq(t, 1, n - 2)
    BY <1>1, <1>2, <2>1 DEF Packets
  <2>3. SubSeq(q, 1, n - 1) = <<h>> \o SubSeq(t, 1, n - 2)
    <3>1. SubSeq(q, 1, n - 1) = <<h>> \o SubSeq(q, 2, n - 1)
      BY <1>1, <2>1, SubSeqRecursiveFirst DEF Queued
    <3>2. SubSeq(q, 2, n - 1) = SubSeq(t, 1, n - 2)
      BY <1>1, <2>1 DEF Queued
    <3> QED BY <3>1, <3>2
  <2> QED BY <1>1, <2>2, <2>3
<1>3. CASE q[n] # Marker
  <2>1. Packets(q) = q
    BY <1>3 DEF Packets
  <2>2. Packets(t) = t
    <3>1. CASE t = <<>>
      BY <3>1 DEF Packets
    <3>2. CASE t # <<>>
      <4>1. Len(t) \in Nat \ {0}
        BY <1>1, <3>2, EmptySeq DEF Queued
      <4>2. t[Len(t)] = q[n]
        BY <1>1, <4>1
      <4> QED BY <1>3, <4>2 DEF Packets
    <3> QED BY <3>1, <3>2
  <2>3. q = <<h>> \o t
    BY <1>1 DEF Queued
  <2> QED BY <1>1, <2>1, <2>2, <2>3, Zenon
<1> QED BY <1>2, <1>3, Zenon

LEMMA OneInFront ==
    ASSUME NEW n \in Int, NEW s \in Seq(Int)
    PROVE  <<n>> \o s # <<>> /\ Tail(<<n>> \o s) = s
<1> DEFINE t == <<n>> \o s
<1>1. <<n>> \in Seq(Int) /\ Len(<<n>>) = 1 /\ Len(s) \in Nat
    OBVIOUS
<1>2. /\ t \in Seq(Int) /\ Len(t) = Len(s) + 1
      /\ \A i \in 1..Len(s) : t[i + 1] = s[i]
    BY <1>1, ConcatProperties
<1> HIDE DEF t
<1>3. t # <<>>
    BY <1>1, <1>2, EmptySeq
<1>4. t \in Seq(Int)
    BY <1>2
<1>5. PICK r \in Seq(Int) : /\ r = Tail(t) /\ Len(r) = Len(t) - 1
                          /\ \A i \in 1..Len(r) : r[i] = t[i + 1]
    BY <1>3, <1>4, HeadTailProperties
<1>6. Len(r) = Len(s) /\ \A i \in 1..Len(s) : r[i] = s[i]
    BY <1>1, <1>2, <1>5
<1>7. r = s
    BY <1>6, SeqEqual
<1> QED BY <1>3, <1>5, <1>7 DEF t

\* l is a, then b.
Concatenates(l, a, b) ==
    /\ l \in Seq(Int) /\ Len(a) \in Nat /\ Len(b) \in Nat /\ Len(l) = Len(a) + Len(b)
    /\ \A i \in 1..Len(a) : l[i] = a[i]
    /\ \A i \in (Len(a) + 1)..Len(l) : l[i] = b[i - Len(a)]

LEMMA Concat ==
    ASSUME NEW a \in Seq(Int), NEW b \in Seq(Int)
    PROVE  Concatenates(a \o b, a, b)
BY DEF Concatenates

LEMMA Regrouped ==
    ASSUME NEW f \in Seq(Int), NEW g \in Seq(Int), NEW h \in Seq(Int)
    PROVE  f \o (g \o h) = (f \o g) \o h
<1> DEFINE a == f \o g  b == g \o h  l == f \o b  r == a \o h
<1>1. Concatenates(a, f, g) /\ Concatenates(b, g, h)
    BY Concat, Zenon
<1>2. a \in Seq(Int) /\ b \in Seq(Int)
    BY <1>1, Zenon DEF Concatenates
<1> HIDE DEF a, b
<1>3. Concatenates(l, f, b) /\ Concatenates(r, a, h)
    BY <1>2, Concat, Zenon
<1> HIDE DEF l, r
<1>4. l \in Seq(Int) /\ r \in Seq(Int)
    BY <1>3, Zenon DEF Concatenates
<1>5. /\ Len(f) \in Nat /\ Len(g) \in Nat /\ Len(h) \in Nat
      /\ Len(a) = Len(f) + Len(g) /\ Len(b) = Len(g) + Len(h)
      /\ Len(l) = Len(f) + Len(b) /\ Len(r) = Len(a) + Len(h)
    BY <1>1, <1>3, Zenon DEF Concatenates
<1>6. Len(l) = Len(r)
    BY <1>5
<1>7. ASSUME NEW i \in 1..Len(l) PROVE l[i] = r[i]
  <2>1. CASE i <= Len(f)
    <3>1. i \in 1..Len(f) /\ i \in 1..Len(a)
      BY <1>5, <2>1
    <3> QED BY <1>1, <1>3, <3>1, Zenon DEF Concatenates
  <2>2. CASE i > Len(f) /\ i <= Len(a)
    <3>1. /\ i - Len(f) \in 1..Len(g) /\ i \in (Len(f) + 1)..Len(a)
          /\ i \in 1..Len(a) /\ i \in (Len(f) + 1)..Len(l)
      BY <1>5, <2>2
    <3> QED BY <1>1, <1>3, <3>1, Zenon DEF Concatenates
  <2>3. CASE i > Len(a)
    <3>1. i \in (Len(f) + 1)..Len(l) /\ i \in (Len(a) + 1)..Len(r)
      BY <1>6, <1>5, <2>3
    <3>2. l[i] = b[i - Len(f)] /\ r[i] = h[i - Len(a)]
      BY <1>3, <3>1, Zenon DEF Concatenates
    <3>3. i - Len(f) \in (Len(g) + 1)..Len(b) /\ (i - Len(f)) - Len(g) = i - Len(a)
      BY <1>6, <1>5, <2>3
    <3>4. b[i - Len(f)] = h[(i - Len(f)) - Len(g)]
      BY <1>1, <3>3, Zenon DEF Concatenates
    <3> QED BY <3>2, <3>3, <3>4, Zenon
  <2> QED BY <1>5, <2>1, <2>2, <2>3
<1>8. l = r
    BY <1>4, <1>6, <1>7, SeqEqual
<1> QED BY <1>8, Zenon DEF l, r, a, b

LEMMA OptionalIsASeq ==
    ASSUME NEW n \in PacketNo \union {Nothing} PROVE Optional(n) \in Seq(Int)
BY NumbersDiffer DEF Optional

LEMMA StreamIsASeq == ASSUME TypeOK, NEW c \in Clients, Life(c) PROVE Stream(c) \in Seq(Int)
<1>1. /\ got[c] \in PacketNo \union {Nothing} /\ item[c] \in PacketNo \union {Nothing}
      /\ queue[c] \in Queued
    BY DEF TypeOK, Queued
<1>2. MarkerLast(queue[c])
    BY DEF Life, MarkerLast
<1>3. Optional(got[c]) \in Seq(Int) /\ Optional(item[c]) \in Seq(Int) /\ Packets(queue[c]) \in Seq(Int)
    BY <1>1, <1>2, OptionalIsASeq, PacketsAreNumbers
<1> QED BY <1>3, ConcatProperties DEF Stream

-----------------------------------------------------------------------------
(* The mutex, the threads and the destructors.                             *)

LEMMA MutexKept ==
    ASSUME TypeOK, Mutex, \A c \in Clients : Life(c), [Next]_vars PROVE Mutex'
<1> USE NamesAssumption DEF TypeOK, Mutex
<1>1. CASE UNCHANGED vars
    BY <1>1 DEF vars, spreader, dispatcher, connections
<1>2. CASE SendAfPacket \/ GetStats \/ StopSender
    BY <1>2 DEF SendAfPacket, GetStats, StopSender, dispatcher, connections
<1>3. CASE StopDispatcher \/ JoinListener
    BY <1>3 DEF StopDispatcher, JoinListener, dispatcher, connections
<1>4. CASE CloseNext \/ JoinNext
  <2> HIDE DEF TypeOK, Mutex
  <2>1. CASE CloseNext
    <3>1. main = "close" /\ UNCHANGED <<main, sender, listener, dispatcherLock>>
      BY <2>1 DEF CloseNext, dispatcher
    <3> QED BY <3>1 DEF Mutex
  <2>2. CASE JoinNext
    <3>1. main = "close" /\ UNCHANGED <<main, sender, listener, dispatcherLock>>
      BY <2>2 DEF JoinNext, dispatcher
    <3> QED BY <3>1 DEF Mutex
  <2> QED BY <1>4, <2>1, <2>2
<1>5. CASE TimePasses \/ ReadTime \/ BeginTick \/ EndTick \/ EndSender
    BY <1>5 DEF TimePasses, ReadTime, BeginTick, EndTick, EndSender, dispatcher, connections
<1>6. CASE BeginWrite \/ WriteThrows \/ PushToAll \/ EndWrite
    BY <1>6 DEF BeginWrite, WriteThrows, PushToAll, EndWrite, dispatcher, connections
<1>7. CASE RemoveOverfull \/ JoinOverfull
    BY <1>7 DEF RemoveOverfull, JoinOverfull, Close, Joined, dispatcher, connections
<1>8. CASE PushPreroll \/ AcceptFails \/ EndListener
    BY <1>8 DEF PushPreroll, AcceptFails, EndListener, dispatcher, connections
<1>9. ASSUME NEW c \in Clients, Accept(c) PROVE Mutex'
    BY <1>9 DEF Accept
<1>10. ASSUME NEW c \in Clients, WaitAndPop(c) \/ PollReady(c) \/ Sent(c) \/ GiveUp(c) \/ SendFails(c)
       PROVE  Mutex'
    BY <1>10 DEF WaitAndPop, PollReady, Sent, GiveUp, SendFails, NotOthers, dispatcher
<1>11. CASE Destroyed
  <2>1. victim = "nobody"
    BY <1>11 DEF Destroyed, Open, Life
  <2> QED BY <1>11, <2>1 DEF Destroyed, dispatcher, connections
<1> HIDE DEF TypeOK, Mutex
<1> QED BY <1>1, <1>2, <1>3, <1>4, <1>5, <1>6, <1>7, <1>8, <1>9, <1>10, <1>11
        DEF Next, Main, Stopping, Sender

-----------------------------------------------------------------------------
(* The connections: a step that leaves one alone.                          *)

LEMMA AloneKept ==
    ASSUME NEW d \in Clients, ConnectionOK(d),
           thread'[d] = thread[d], queue'[d] = queue[d], item'[d] = item[d], got'[d] = got[d],
           wire' = wire, victim' = d <=> victim = d, listener' = d => listener = d,
           sender' = "push" <=> sender = "push", sender' = "remove" <=> sender = "remove"
    PROVE  ConnectionOK(d)'
<1>1. Stream(d)' = Stream(d)
    BY DEF Stream
<1>2. Life(d)'
    BY DEF ConnectionOK, Life
<1>3. StreamOK(d)'
    BY <1>1 DEF ConnectionOK, StreamOK
<1>4. Fits(d)'
    BY DEF ConnectionOK, Fits
<1> QED BY <1>2, <1>3, <1>4 DEF ConnectionOK

Rest == TypeOK /\ PrerollOK /\ \A c \in Clients : ConnectionOK(c)

\* Most steps of the main loop, the sender and the listener leave all of them alone.
LEMMA QuietKept ==
    ASSUME IInv, UNCHANGED <<wire, preroll, connections, victim>>,
           listener' = listener \/ listener' = "ended",
           sender' = "push" <=> sender = "push", sender' = "remove" <=> sender = "remove"
    PROVE  Rest'
<1>1. TypeOK'
    BY DEF IInv, TypeOK, connections
<1>2. PrerollOK'
    BY DEF IInv, PrerollOK, Chained, EndsWith
<1>3. ASSUME NEW c \in Clients PROVE ConnectionOK(c)'
  <2>1. listener' = c => listener = c
    BY NamesAssumption
  <2> QED BY <2>1, AloneKept DEF IInv, connections
<1> QED BY <1>1, <1>2, <1>3 DEF Rest

LEMMA QuietSteps ==
    ASSUME IInv,
           \/ SendAfPacket \/ GetStats \/ StopSender \/ StopDispatcher \/ JoinListener \/ Destroyed
           \/ TimePasses \/ ReadTime \/ BeginTick \/ EndTick \/ EndSender \/ WriteThrows
           \/ AcceptFails \/ EndListener \/ UNCHANGED vars
    PROVE  Rest'
<1>1. CASE UNCHANGED vars
    BY <1>1, QuietKept DEF vars, dispatcher
<1>2. CASE SendAfPacket \/ GetStats \/ StopSender \/ StopDispatcher \/ JoinListener \/ Destroyed
    BY <1>2, QuietKept DEF SendAfPacket, GetStats, StopSender, StopDispatcher, JoinListener,
                           Destroyed, dispatcher
<1>3. CASE TimePasses \/ ReadTime \/ BeginTick \/ EndTick \/ EndSender \/ WriteThrows
    BY <1>3, QuietKept DEF TimePasses, ReadTime, BeginTick, EndTick, EndSender, WriteThrows,
                           dispatcher
<1>4. CASE AcceptFails \/ EndListener
    BY <1>4, QuietKept DEF AcceptFails, EndListener, dispatcher
<1> QED BY <1>1, <1>2, <1>3, <1>4

\* When nothing is overfull any more, the packet in excess is gone.
LEMMA EndWriteKept == ASSUME IInv, EndWrite PROVE Rest'
<1>1. /\ UNCHANGED <<wire, preroll, connections, victim, listener>>
      /\ sender = "remove" /\ sender' = "tick" /\ victim = "nobody"
    BY DEF EndWrite
<1>2. TypeOK'
    BY <1>1 DEF IInv, TypeOK, connections
<1>3. PrerollOK'
    BY <1>1 DEF IInv, PrerollOK, Chained, EndsWith
<1>4. ASSUME NEW c \in Clients PROVE ConnectionOK(c)'
  <2>1. Stream(c)' = Stream(c)
    BY <1>1 DEF Stream, connections
  <2>2. Life(c)' /\ StreamOK(c)'
    BY <1>1, <2>1 DEF IInv, ConnectionOK, Life, StreamOK, connections
  <2>3. Fits(c)'
    <3>1. MaxQueue \in Nat /\ Preroll \in Nat /\ queue[c] \in Seq(PacketNo \union {Marker})
      BY SenderAssumption DEF IInv, TypeOK
    <3>2. CASE thread[c] = "none"
      <4>1. Len(queue[c]) = 0
        BY <3>2 DEF IInv, ConnectionOK, Life
      <4> QED BY <1>1, <3>1, <4>1 DEF Fits, Longest, connections
    <3>3. CASE thread[c] # "none"
      <4>1. ~(Len(queue[c]) > MaxQueue)
        BY <3>3 DEF EndWrite, Overfull, Open
      <4>2. Len(queue[c]) \in Nat
        BY <3>1
      <4>3. victim' # c
        BY <1>1, NamesAssumption
      <4> QED BY <1>1, <3>1, <4>1, <4>2, <4>3 DEF Fits, Longest, connections
    <3> QED BY <3>2, <3>3
  <2> QED BY <2>2, <2>3 DEF ConnectionOK
<1> QED BY <1>2, <1>3, <1>4 DEF Rest

\* A new packet joins the preroll, and is now the one that connections do not have yet.
LEMMA BeginWriteKept == ASSUME IInv, BeginWrite PROVE Rest'
<1>1. /\ sender = "tick" /\ sender' = "push" /\ wire' = After(wire)
      /\ UNCHANGED <<connections, victim, listener>>
      /\ preroll' = IF Len(preroll) < Preroll THEN Append(preroll, wire')
                    ELSE IF Preroll = 0 THEN <<>> ELSE Append(Tail(preroll), wire')
    BY DEF BeginWrite
<1>2. /\ TypeOK /\ PrerollOK /\ wire \in PacketNo /\ wire' \in PacketNo /\ wire' \in Int
      /\ preroll \in Seq(PacketNo) /\ preroll \in Seq(Int) /\ Preroll \in Nat
    BY <1>1, AfterIsAPacket, SeqMonotonic, NumbersDiffer, SenderAssumption DEF IInv, TypeOK
<1>3. preroll' \in Seq(PacketNo) /\ PrerollOK'
  <2>1. \A s : s = <<>> => Chained(s) /\ EndsWith(s, wire') /\ s \in Seq(PacketNo) /\ Len(s) = 0
    BY DEF Chained, EndsWith
  <2>2. CASE Len(preroll) < Preroll
    <3>1. EndsBefore(preroll, wire')
      BY <1>1, <1>2 DEF PrerollOK, EndsWith, EndsBefore
    <3>2. Chained(preroll') /\ EndsWith(preroll', wire')
      BY <1>1, <1>2, <2>2, <3>1, ChainAppend DEF PrerollOK
    <3>3. preroll' \in Seq(PacketNo) /\ Len(preroll') = Len(preroll) + 1 /\ Len(preroll) \in Nat
      BY <1>1, <1>2, <2>2, AppendProperties
    <3> QED BY <1>2, <2>2, <3>2, <3>3 DEF PrerollOK
  <2>3. CASE ~(Len(preroll) < Preroll) /\ Preroll = 0
    BY <1>1, <1>2, <2>1, <2>3 DEF PrerollOK
  <2>4. CASE ~(Len(preroll) < Preroll) /\ Preroll # 0
    <3> DEFINE t == Tail(preroll)
    <3>1. preroll # <<>> /\ Len(preroll) = Preroll
      BY <1>2, <2>4 DEF PrerollOK
    <3>2. t \in Seq(PacketNo) /\ Len(t) = Preroll - 1
      BY <1>2, <3>1, HeadTailProperties
    <3>3. t \in Seq(Int) /\ Chained(t) /\ EndsWith(t, wire)
      BY <1>2, <3>1, ChainTail DEF PrerollOK
    <3>4. preroll' = Append(t, wire')
      BY <1>1, <2>4
    <3> HIDE DEF t
    <3>5. EndsBefore(t, wire')
      BY <1>1, <3>3 DEF EndsWith, EndsBefore
    <3>6. Chained(preroll') /\ EndsWith(preroll', wire')
      BY <1>2, <3>3, <3>4, <3>5, ChainAppend
    <3>7. preroll' \in Seq(PacketNo) /\ Len(preroll') = Preroll
      BY <1>2, <3>2, <3>4, AppendProperties
    <3> QED BY <1>2, <3>6, <3>7 DEF PrerollOK
  <2> QED BY <2>2, <2>3, <2>4
<1>4. TypeOK'
    BY <1>1, <1>2, <1>3 DEF TypeOK, connections
<1>5. ASSUME NEW c \in Clients PROVE ConnectionOK(c)'
  <2>1. Stream(c)' = Stream(c)
    BY <1>1 DEF Stream, connections
  <2>2. Life(c)'
    BY <1>1 DEF IInv, ConnectionOK, Life, connections
  <2>3. StreamOK(c)'
    BY <1>1, <2>1 DEF IInv, ConnectionOK, StreamOK, EndsWith, EndsBefore, connections
  <2>4. Fits(c)'
    BY <1>1 DEF IInv, ConnectionOK, Fits, connections
  <2> QED BY <2>2, <2>3, <2>4 DEF ConnectionOK
<1> QED BY <1>3, <1>4, <1>5 DEF Rest

\* Each connection gets the packet, behind the one before.
LEMMA PushToAllKept == ASSUME IInv, PushToAll PROVE Rest'
<1>1. /\ sender = "push" /\ sender' = "remove"
      /\ queue' = [c \in Clients |-> IF c \in Open THEN Append(queue[c], wire) ELSE queue[c]]
      /\ UNCHANGED <<main, wire, preroll, listener, thread, connRunning, item, got, victim>>
    BY DEF PushToAll, dispatcher
<1>2. TypeOK /\ Mutex /\ PrerollOK /\ wire \in PacketNo /\ wire \in Int /\ wire # Marker
    BY NumbersDiffer DEF IInv, TypeOK
<1>3. victim = "nobody" /\ listener \notin Clients
    BY <1>1, <1>2 DEF Mutex
<1>4. ASSUME NEW c \in Clients PROVE ConnectionOK(c)' /\ queue'[c] \in Queued
  <2>1. /\ Life(c) /\ StreamOK(c) /\ Fits(c) /\ queue[c] \in Queued /\ victim # c
        /\ got[c] \in PacketNo \union {Nothing} /\ item[c] \in PacketNo \union {Nothing}
    BY <1>2, <1>3, NamesAssumption DEF IInv, ConnectionOK, TypeOK, Queued
  <2>2. NoMarker(queue[c])
    BY <2>1 DEF Life, NoMarker
  <2>3. CASE thread[c] = "none"
    <3>1. /\ queue'[c] = queue[c] /\ item'[c] = item[c] /\ got'[c] = got[c]
          /\ thread'[c] = "none" /\ victim' = victim /\ listener' = listener
      BY <1>1, <2>3 DEF Open
    <3>2. Life(c)' /\ StreamOK(c)'
      BY <2>1, <2>3, <3>1 DEF Life, StreamOK
    <3>3. Fits(c)'
      <4>1. Len(queue[c]) = 0 /\ Longest \in Nat
        BY <2>1, <2>3, SenderAssumption DEF Life, Longest
      <4> QED BY <1>1, <2>1, <3>1, <4>1 DEF Fits
    <3> QED BY <2>1, <3>1, <3>2, <3>3 DEF ConnectionOK
  <2>4. CASE thread[c] # "none"
    <3> DEFINE q == queue[c]  r == Append(q, wire)
    <3>1. /\ queue'[c] = r /\ item'[c] = item[c] /\ got'[c] = got[c]
          /\ thread'[c] = thread[c] /\ victim' = victim /\ listener' = listener
      BY <1>1, <2>4 DEF Open
    <3>2. /\ r \in Queued /\ Len(q) \in Nat /\ Len(r) = Len(q) + 1
          /\ \A i \in 1..Len(q) : r[i] = q[i]
          /\ r[Len(q) + 1] = wire
      BY <1>2, <2>1, AppendProperties DEF Queued
    <3>3. NoMarker(r)
      BY <1>2, <2>2, <3>2 DEF NoMarker
    <3>4. Packets(r) = Append(Packets(q), wire)
      BY <2>1, <2>2, <3>2, <3>3, PacketsWithoutMarker
    <3>5. Stream(c)' = Append(Stream(c), wire)
      <4> DEFINE o == Optional(got[c]) \o Optional(item[c])
      <4>1. o \in Seq(Int) /\ Packets(q) \in Seq(Int)
        <5>1. MarkerLast(q)
          BY <2>2 DEF NoMarker, MarkerLast
        <5> QED BY <2>1, <5>1, OptionalIsASeq, PacketsAreNumbers, ConcatProperties
      <4>2. o \o Append(Packets(q), wire) = Append(o \o Packets(q), wire)
        <5>1. /\ Append(Packets(q), wire) = Packets(q) \o <<wire>>
              /\ Append(o \o Packets(q), wire) = (o \o Packets(q)) \o <<wire>>
          BY <1>2, <4>1, AppendIsConcat, ConcatProperties
        <5>2. <<wire>> \in Seq(Int)
          BY <1>2
        <5> DEFINE p == Packets(q)  w == <<wire>>
        <5>3. o \in Seq(Int) /\ p \in Seq(Int) /\ w \in Seq(Int)
          BY <4>1, <5>2
        <5> HIDE DEF o, p, w
        <5>4. o \o (p \o w) = (o \o p) \o w
          BY <5>3, Regrouped
        <5> QED BY <5>1, <5>4 DEF p, w
      <4>3. Stream(c)' = o \o Packets(r)
        BY <3>1 DEF Stream
      <4> QED BY <3>4, <4>2, <4>3 DEF Stream
    <3> HIDE DEF q, r
    <3>6. Stream(c) \in Seq(Int)
      BY <1>2, <2>1, StreamIsASeq
    <3>7. Chained(Stream(c)') /\ EndsWith(Stream(c)', wire)
      BY <1>1, <1>2, <2>1, <2>4, <3>5, <3>6, ChainAppend DEF StreamOK
    <3>8. StreamOK(c)'
      BY <1>1, <3>7 DEF StreamOK
    <3>9. Life(c)'
      BY <1>3, <2>1, <2>4, <3>1, <3>3 DEF Life, NoMarker
    <3>10. Fits(c)'
      <4>1. Longest \in Nat
        BY SenderAssumption DEF Longest
      <4> QED BY <1>1, <2>1, <3>1, <3>2, <4>1 DEF Fits, q
    <3> QED BY <3>1, <3>2, <3>8, <3>9, <3>10 DEF ConnectionOK
  <2> QED BY <2>3, <2>4
<1>5. TypeOK'
    BY <1>1, <1>2, <1>4 DEF TypeOK, Queued
<1>6. PrerollOK'
    BY <1>1, <1>2 DEF PrerollOK, Chained, EndsWith
<1> QED BY <1>4, <1>5, <1>6 DEF Rest

\* The marker goes behind the packets, which all wait still.
LEMMA CloseKept ==
    ASSUME IInv, NEW c \in Clients, thread[c] # "none", Close(c), victim = "nobody",
           listener \notin Clients, sender # "push",
           UNCHANGED <<sender, listener, wire, preroll>>
    PROVE  Rest'
<1> DEFINE q == queue[c]
<1>1. /\ TypeOK /\ PrerollOK /\ Life(c) /\ StreamOK(c) /\ Fits(c) /\ q \in Queued
      /\ victim # c /\ victim' = c
      /\ UNCHANGED <<thread, item, got>>
      /\ connRunning' = [connRunning EXCEPT ![c] = FALSE]
      /\ queue' = [queue EXCEPT ![c] = Append(q, Marker)]
    BY NamesAssumption DEF IInv, ConnectionOK, TypeOK, Close, Queued
<1>2. queue'[c] = Append(q, Marker)
    BY <1>1 DEF TypeOK
<1>3. NoMarker(q)
    BY <1>1 DEF Life, NoMarker
<1>4. /\ Packets(q) = q /\ queue'[c] \in Queued /\ Packets(queue'[c]) = q
      /\ MarkerLast(queue'[c]) /\ Len(queue'[c]) = Len(q) + 1
    BY <1>1, <1>2, <1>3, PacketsWithoutMarker
<1>5. TypeOK'
    BY <1>1, <1>4 DEF TypeOK, Queued
<1>6. PrerollOK'
    BY <1>1 DEF PrerollOK, Chained, EndsWith
<1>7. ConnectionOK(c)'
  <2>1. Stream(c)' = Stream(c)
    BY <1>1, <1>4 DEF Stream
  <2>2. Life(c)'
    BY <1>1, <1>4 DEF Life, MarkerLast
  <2>3. StreamOK(c)'
    BY <1>1, <2>1 DEF StreamOK
  <2>4. Fits(c)'
    <3>1. Longest \in Nat /\ Len(q) \in Nat
      BY <1>1, SenderAssumption DEF Longest, Queued
    <3> QED BY <1>1, <1>4, <3>1 DEF Fits
  <2> QED BY <2>2, <2>3, <2>4 DEF ConnectionOK
<1>8. ASSUME NEW d \in Clients, d # c PROVE ConnectionOK(d)'
  <2>1. queue'[d] = queue[d] /\ ConnectionOK(d) /\ victim' # d /\ victim # d
    BY <1>1, <1>8, NamesAssumption DEF IInv, TypeOK
  <2> QED BY <1>1, <2>1, AloneKept
<1> QED BY <1>5, <1>6, <1>7, <1>8 DEF Rest

\* The connection is gone, with everything that it had.
LEMMA JoinedKept ==
    ASSUME IInv, Joined, victim # "nobody", listener \notin Clients,
           UNCHANGED <<sender, listener, wire, preroll>>
    PROVE  Rest'
<1>1. /\ TypeOK /\ PrerollOK /\ victim \in Clients /\ victim' = "nobody" /\ victim' \notin Clients
      /\ thread' = [thread EXCEPT ![victim] = "none"]
      /\ queue' = [queue EXCEPT ![victim] = <<>>]
      /\ item' = [item EXCEPT ![victim] = Nothing] /\ got' = [got EXCEPT ![victim] = Nothing]
      /\ connRunning' = connRunning
    BY NamesAssumption DEF IInv, TypeOK, Joined
<1>2. TypeOK'
    BY <1>1 DEF TypeOK
<1>3. PrerollOK'
    BY <1>1 DEF PrerollOK, Chained, EndsWith
<1>4. /\ thread'[victim] = "none" /\ queue'[victim] = <<>>
      /\ item'[victim] = Nothing /\ got'[victim] = Nothing
    BY <1>1 DEF TypeOK
<1>5. ASSUME NEW d \in Clients, d = victim PROVE ConnectionOK(d)'
  <2>1. Life(d)' /\ StreamOK(d)'
    BY <1>1, <1>4, <1>5 DEF Life, StreamOK
  <2>2. Fits(d)'
    BY <1>1, <1>4, <1>5, SenderAssumption DEF Fits, Longest
  <2> QED BY <2>1, <2>2 DEF ConnectionOK
<1>6. ASSUME NEW d \in Clients, d # victim PROVE ConnectionOK(d)'
  <2>1. /\ thread'[d] = thread[d] /\ queue'[d] = queue[d] /\ item'[d] = item[d]
        /\ got'[d] = got[d] /\ victim' # d /\ ConnectionOK(d)
    BY <1>1, <1>6 DEF IInv, TypeOK
  <2> QED BY <1>6, <2>1, AloneKept
<1> QED BY <1>2, <1>3, <1>5, <1>6 DEF Rest

\* A new connection has nothing, and the preroll is not copied yet.
LEMMA AcceptKept == ASSUME IInv, NEW c \in Clients, Accept(c) PROVE Rest'
<1>1. /\ TypeOK /\ PrerollOK /\ Life(c) /\ thread[c] = "none" /\ listener = "accept"
      /\ listener' = c /\ thread' = [thread EXCEPT ![c] = "wait"]
      /\ connRunning' = [connRunning EXCEPT ![c] = TRUE]
      /\ UNCHANGED <<sender, wire, preroll, queue, item, got, victim>>
    BY DEF IInv, ConnectionOK, Accept
<1>2. TypeOK'
    BY <1>1 DEF TypeOK
<1>3. PrerollOK'
    BY <1>1 DEF PrerollOK, Chained, EndsWith
<1>4. ConnectionOK(c)'
  <2>1. /\ thread'[c] = "wait" /\ queue'[c] = <<>> /\ item'[c] = Nothing /\ got'[c] = Nothing
        /\ victim' # c
    BY <1>1 DEF TypeOK, Life
  <2>2. Stream(c)' = <<>>
    BY <2>1 DEF Stream, Optional, Packets
  <2>3. StreamOK(c)'
    BY <2>2 DEF StreamOK, Chained, EndsWith, EndsBefore
  <2>4. Life(c)'
    BY <2>1 DEF Life
  <2>5. Fits(c)'
    BY <2>1, SenderAssumption DEF Fits, Longest
  <2> QED BY <2>3, <2>4, <2>5 DEF ConnectionOK
<1>5. ASSUME NEW d \in Clients, d # c PROVE ConnectionOK(d)'
  <2>1. thread'[d] = thread[d] /\ listener' # d /\ ConnectionOK(d)
    BY <1>1, <1>5 DEF IInv, TypeOK
  <2> QED BY <1>1, <2>1, AloneKept
<1> QED BY <1>2, <1>3, <1>4, <1>5 DEF Rest

\* The connection has been empty all the time that the mutex was held: it gets the preroll.
LEMMA PushPrerollKept == ASSUME IInv, PushPreroll PROVE Rest'
<1> DEFINE c == listener
<1>1. /\ TypeOK /\ Mutex /\ PrerollOK /\ listener \in Clients
      /\ queue' = [queue EXCEPT ![listener] = queue[listener] \o preroll]
      /\ listener' = "accept" /\ listener' \notin Clients
      /\ UNCHANGED <<sender, wire, preroll, thread, connRunning, item, got, victim>>
    BY NamesAssumption DEF IInv, PushPreroll
<1>2. sender # "push"
    BY <1>1 DEF Mutex
<1>3. /\ thread[listener] = "wait" /\ queue[listener] = <<>> /\ got[listener] = Nothing
      /\ item[listener] = Nothing /\ preroll \in Seq(PacketNo) /\ preroll \in Seq(Int)
      /\ preroll \in Queued /\ queue'[listener] = preroll
  <2>1. /\ thread[listener] = "wait" /\ queue[listener] = <<>> /\ got[listener] = Nothing
        /\ item[listener] = Nothing /\ preroll \in Seq(PacketNo)
    BY <1>1 DEF IInv, ConnectionOK, Life, TypeOK
  <2>2. preroll \in Seq(Int) /\ preroll \in Queued
    BY <2>1, NumbersDiffer, SeqMonotonic DEF Queued
  <2>3. queue'[listener] = <<>> \o preroll
    BY <1>1, <2>1 DEF TypeOK
  <2>4. <<>> \o preroll = preroll
    BY <2>1
  <2> QED BY <2>1, <2>2, <2>3, <2>4
<1>4. TypeOK'
    BY <1>1, <1>3 DEF TypeOK, Queued
<1>5. PrerollOK'
    BY <1>1 DEF PrerollOK, Chained, EndsWith
<1>6. NoMarker(preroll)
    BY <1>3, NumbersDiffer DEF NoMarker
<1>7. ASSUME NEW d \in Clients, d = listener PROVE ConnectionOK(d)'
  <2>1. Packets(preroll) = preroll
    BY <1>3, <1>6, PacketsWithoutMarker
  <2>2. Stream(d)' = <<>> \o <<>> \o preroll
    BY <1>1, <1>3, <1>7, <2>1 DEF Stream, Optional
  <2>3. Stream(d)' = preroll
    BY <1>3, <2>2
  <2>4. StreamOK(d)'
    BY <1>1, <1>2, <2>3 DEF PrerollOK, StreamOK
  <2>5. Life(d)'
    BY <1>1, <1>3, <1>6, <1>7 DEF Life, NoMarker
  <2>6. Fits(d)'
    <3>1. Len(preroll) \in Nat /\ Len(preroll) <= Preroll /\ Preroll \in Nat /\ MaxQueue \in Nat
      BY <1>1, <1>3, SenderAssumption DEF PrerollOK
    <3> QED BY <1>3, <1>7, <3>1 DEF Fits, Longest
  <2> QED BY <2>4, <2>5, <2>6 DEF ConnectionOK
<1>8. ASSUME NEW d \in Clients, d # listener PROVE ConnectionOK(d)'
  <2>1. queue'[d] = queue[d] /\ listener' # d /\ ConnectionOK(d)
    BY <1>1, <1>8 DEF IInv, TypeOK
  <2> QED BY <1>1, <2>1, AloneKept
<1> QED BY <1>4, <1>5, <1>7, <1>8 DEF Rest

\* What the thread takes from its queue it is about to send; the marker ends it.
LEMMA WaitAndPopKept == ASSUME IInv, NEW c \in Clients, WaitAndPop(c) PROVE Rest'
<1> DEFINE q == queue[c]
<1>1. /\ TypeOK /\ PrerollOK /\ Life(c) /\ StreamOK(c) /\ Fits(c) /\ q \in Queued
      /\ thread[c] = "wait" /\ q # <<>>
      /\ queue' = [queue EXCEPT ![c] = Tail(q)]
      /\ UNCHANGED <<sender, listener, wire, preroll, victim, got>>
    BY DEF IInv, ConnectionOK, TypeOK, Queued, WaitAndPop, NotOthers, dispatcher
<1>2. listener # c /\ item[c] = Nothing /\ got[c] \in PacketNo \union {Nothing}
    BY <1>1 DEF Life, TypeOK
<1>3. MarkerLast(q)
    BY <1>1 DEF Life, MarkerLast
<1>4. /\ Tail(q) \in Queued /\ Len(Tail(q)) = Len(q) - 1 /\ Len(q) \in Nat /\ queue'[c] = Tail(q)
      /\ \A i \in 1..Len(Tail(q)) : Tail(q)[i] = q[i + 1]
    BY <1>1, HeadTailProperties DEF Queued, TypeOK
<1>5. \/ /\ Head(q) = Marker /\ item' = item
         /\ thread' = [thread EXCEPT ![c] = "ended"]
         /\ connRunning' = [connRunning EXCEPT ![c] = FALSE]
      \/ /\ Head(q) # Marker /\ Head(q) \in PacketNo /\ item' = [item EXCEPT ![c] = Head(q)]
         /\ thread' = [thread EXCEPT ![c] = IF connRunning[c] THEN "poll" ELSE "ended"]
         /\ connRunning' = connRunning
  <2>1. Head(q) # Marker => Head(q) \in PacketNo
    BY <1>1, <1>3, PacketInFront
  <2> QED BY <2>1 DEF WaitAndPop
<1>6. TypeOK'
    BY <1>1, <1>4, <1>5 DEF TypeOK, Queued
<1>7. PrerollOK'
    BY <1>1 DEF PrerollOK, Chained, EndsWith
<1>8. Stream(c)' = Stream(c)
  <2>1. CASE Head(q) = Marker
    <3>1. Tail(q) = <<>> /\ Packets(q) = <<>>
      BY <1>1, <1>3, <2>1, MarkerInFront
    <3>2. Packets(queue'[c]) = Packets(q) /\ item' = item /\ got' = got
      BY <1>1, <1>4, <1>5, <2>1, <3>1 DEF Packets
    <3> QED BY <3>2 DEF Stream
  <2>2. CASE Head(q) # Marker
    <3> DEFINE h == <<Head(q)>>  t == Packets(Tail(q))  g == Optional(got[c])
    <3>1. /\ Head(q) \in PacketNo /\ Packets(q) = h \o t
          /\ \A i \in 1..Len(Tail(q)) : Tail(q)[i] = Marker => i = Len(Tail(q))
      <4>1. Head(q) \in PacketNo /\ Packets(q) = h \o t
        BY <1>1, <1>3, <2>2, PacketInFront
      <4>2. ASSUME NEW i \in 1..Len(Tail(q)), Tail(q)[i] = Marker PROVE i = Len(Tail(q))
        <5>1. i + 1 \in 1..Len(q) /\ q[i + 1] = Marker
          BY <1>4, <4>2
        <5>2. i + 1 = Len(q)
          BY <1>3, <5>1, Zenon DEF MarkerLast
        <5> QED BY <1>4, <5>2
      <4> QED BY <4>1, <4>2
    <3>2. item'[c] = Head(q) /\ got'[c] = got[c]
      BY <1>1, <1>5, <2>2 DEF TypeOK
    <3>3. g \in Seq(Int) /\ h \in Seq(Int) /\ t \in Seq(Int)
      <4>1. MarkerLast(Tail(q))
        BY <3>1 DEF MarkerLast
      <4>2. t \in Seq(Int)
        BY <1>4, <4>1, PacketsAreNumbers
      <4>3. Head(q) \in Int
        BY <3>1, NumbersDiffer
      <4>4. h \in Seq(Int)
        BY <4>3
      <4>5. g \in Seq(Int)
        BY <1>2, OptionalIsASeq
      <4> QED BY <4>2, <4>4, <4>5
    <3>4. Stream(c) = (g \o <<>>) \o (h \o t)
      BY <1>2, <3>1 DEF Stream, Optional
    <3>5. Head(q) # Nothing
      BY <3>1, NumbersDiffer
    <3>6. Stream(c)' = (g \o h) \o t
      BY <1>4, <3>2, <3>5 DEF Stream, Optional
    <3> HIDE DEF g, h, t
    <3>7. g \o <<>> = g
      BY <3>3, ConcatEmptySeq
    <3>8. g \o (h \o t) = (g \o h) \o t
      BY <3>3, Regrouped
    <3> QED BY <3>4, <3>6, <3>7, <3>8
  <2> QED BY <2>1, <2>2
<1>9. ConnectionOK(c)'
  <2>1. thread'[c] \in {"poll", "ended"}
    BY <1>1, <1>5 DEF TypeOK
  <2>2. thread'[c] = "poll" => item'[c] # Nothing
    BY <1>1, <1>5, NumbersDiffer DEF TypeOK
  <2>3. Life(c)'
    BY <1>1, <1>2, <1>4, <2>1, <2>2 DEF Life
  <2>4. StreamOK(c)'
    BY <1>1, <1>8, <2>1 DEF StreamOK
  <2>5. Fits(c)'
    <3>1. Longest \in Nat
      BY SenderAssumption DEF Longest
    <3> QED BY <1>1, <1>4, <3>1 DEF Fits
  <2> QED BY <2>3, <2>4, <2>5 DEF ConnectionOK
<1>10. ASSUME NEW d \in Clients, d # c PROVE ConnectionOK(d)'
  <2>1. /\ queue'[d] = queue[d] /\ thread'[d] = thread[d] /\ item'[d] = item[d]
        /\ ConnectionOK(d)
    BY <1>1, <1>5, <1>10 DEF IInv, TypeOK
  <2> QED BY <1>1, <2>1, AloneKept
<1> QED BY <1>6, <1>7, <1>9, <1>10 DEF Rest

\* The client has the packet that was being sent, and the one before leaves the stream.
LEMMA SentKept == ASSUME IInv, NEW c \in Clients, Sent(c) PROVE Rest'
<1>1. /\ TypeOK /\ PrerollOK /\ Life(c) /\ StreamOK(c) /\ Fits(c)
      /\ thread[c] = "send" /\ connRunning[c] \in BOOLEAN
      /\ thread' = [thread EXCEPT ![c] = IF connRunning[c] THEN "wait" ELSE "ended"]
      /\ got' = [got EXCEPT ![c] = item[c]] /\ item' = [item EXCEPT ![c] = Nothing]
      /\ UNCHANGED <<sender, listener, wire, preroll, victim, connRunning, queue>>
    BY DEF IInv, ConnectionOK, TypeOK, Sent, NotOthers, dispatcher
<1>2. /\ item[c] \in PacketNo /\ got[c] \in PacketNo \union {Nothing} /\ queue[c] \in Queued
      /\ got'[c] = item[c] /\ item'[c] = Nothing /\ listener # c
    BY <1>1 DEF TypeOK, Life, Queued
<1>3. /\ thread'[c] \in {"wait", "ended"} /\ thread' \in [Clients -> {"none", "wait", "poll", "send", "ended"}]
    BY <1>1 DEF TypeOK
<1>4. TypeOK'
    BY <1>1, <1>2, <1>3 DEF TypeOK
<1>5. PrerollOK'
    BY <1>1 DEF PrerollOK, Chained, EndsWith
<1>6. Stream(c) \in Seq(Int)
    BY <1>1, StreamIsASeq
<1>7. \/ Stream(c)' = Stream(c)
      \/ Stream(c) # <<>> /\ Stream(c)' = Tail(Stream(c))
  <2> DEFINE i == Optional(item[c])  p == Packets(queue[c])
  <2>1. i \in Seq(Int) /\ i = <<item[c]>> /\ p \in Seq(Int)
    <3>1. MarkerLast(queue[c])
      BY <1>1 DEF Life, MarkerLast
    <3> QED BY <1>2, <3>1, OptionalIsASeq, PacketsAreNumbers, NumbersDiffer DEF Optional
  <2>2. Stream(c)' = (i \o <<>>) \o p
    BY <1>1, <1>2 DEF Stream, Optional
  <2>3. i \o <<>> = i /\ <<>> \o i = i
    BY <2>1, ConcatEmptySeq
  <2>4. CASE got[c] = Nothing
    <3>1. Stream(c) = (<<>> \o i) \o p
      BY <2>4 DEF Stream, Optional
    <3>2. Stream(c) = i \o p /\ Stream(c)' = i \o p
      BY <2>2, <2>3, <3>1
    <3>3. Stream(c)' = Stream(c)
      BY <3>2
    <3> HIDE DEF i, p
    <3> QED BY <3>3
  <2>5. CASE got[c] # Nothing
    <3> DEFINE g == <<got[c]>>
    <3>1. got[c] \in Int
      BY <1>2, <2>5, NumbersDiffer
    <3>6. g \in Seq(Int)
      BY <3>1
    <3>2. Stream(c) = (g \o i) \o p
      BY <2>5 DEF Stream, Optional
    <3>3. (g \o i) \o p = g \o (i \o p)
      <4> HIDE DEF g, i, p
      <4> QED BY <2>1, <3>6, Regrouped
    <3>4. i \o p \in Seq(Int)
      BY <2>1, ConcatProperties
    <3>5. \A s \in Seq(Int) : g \o s # <<>> /\ Tail(g \o s) = s
      BY <3>1, OneInFront
    <3>7. Stream(c)' = i \o p
      BY <2>2, <2>3
    <3>8. g \o (i \o p) # <<>> /\ Tail(g \o (i \o p)) = i \o p
      BY <3>4, <3>5
    <3> QED BY <3>2, <3>3, <3>7, <3>8
  <2> QED BY <2>4, <2>5
<1>8. ConnectionOK(c)'
  <2>1. Life(c)'
    BY <1>1, <1>2, <1>3 DEF Life
  <2>2. StreamOK(c)'
    <3>1. /\ Chained(Stream(c))
          /\ IF sender = "push" THEN EndsBefore(Stream(c), wire) ELSE EndsWith(Stream(c), wire)
      BY <1>1 DEF StreamOK
    <3>2. /\ Chained(Stream(c)')
          /\ IF sender = "push" THEN EndsBefore(Stream(c)', wire) ELSE EndsWith(Stream(c)', wire)
      BY <1>6, <1>7, <3>1, ChainTail
    <3> QED BY <1>1, <3>2 DEF StreamOK
  <2>3. Fits(c)'
    BY <1>1 DEF Fits
  <2> QED BY <2>1, <2>2, <2>3 DEF ConnectionOK
<1>9. ASSUME NEW d \in Clients, d # c PROVE ConnectionOK(d)'
  <2>1. /\ thread'[d] = thread[d] /\ item'[d] = item[d] /\ got'[d] = got[d]
        /\ ConnectionOK(d)
    BY <1>1, <1>9 DEF IInv, TypeOK
  <2> QED BY <1>1, <2>1, AloneKept
<1> QED BY <1>4, <1>5, <1>8, <1>9 DEF Rest

\* A thread that begins to send leaves everything as it is, and one that gives up until it is
\* joined.
LEMMA GiveUpKept ==
    ASSUME IInv, NEW c \in Clients, PollReady(c) \/ GiveUp(c) \/ SendFails(c) PROVE Rest'
<1>1. /\ TypeOK /\ PrerollOK /\ Life(c) /\ StreamOK(c) /\ Fits(c)
      /\ thread[c] \in {"poll", "send"}
      /\ \E place \in {"send", "ended"} : thread' = [thread EXCEPT ![c] = place]
      /\ connRunning' \in [Clients -> BOOLEAN]
      /\ UNCHANGED <<sender, listener, wire, preroll, victim, queue, item, got>>
  <2>1. CASE GiveUp(c)
    BY <2>1 DEF IInv, ConnectionOK, TypeOK, GiveUp, NotOthers, dispatcher
  <2>2. CASE SendFails(c)
    BY <2>2 DEF IInv, ConnectionOK, TypeOK, SendFails, NotOthers, dispatcher
  <2>3. CASE PollReady(c)
    BY <2>3 DEF IInv, ConnectionOK, TypeOK, PollReady, NotOthers, dispatcher
  <2> QED BY <2>1, <2>2, <2>3
<1>2. TypeOK'
    BY <1>1 DEF TypeOK
<1>3. PrerollOK'
    BY <1>1 DEF PrerollOK, Chained, EndsWith
<1>4. ConnectionOK(c)'
  <2>1. Stream(c)' = Stream(c)
    BY <1>1 DEF Stream
  <2>2. thread'[c] \in {"send", "ended"}
    BY <1>1 DEF TypeOK
  <2>3. Life(c)'
    BY <1>1, <2>2 DEF Life
  <2>4. StreamOK(c)'
    BY <1>1, <2>1 DEF StreamOK
  <2>5. Fits(c)'
    BY <1>1 DEF Fits
  <2> QED BY <2>3, <2>4, <2>5 DEF ConnectionOK
<1>5. ASSUME NEW d \in Clients, d # c PROVE ConnectionOK(d)'
  <2>1. thread'[d] = thread[d] /\ ConnectionOK(d)
    BY <1>1, <1>5 DEF IInv, TypeOK
  <2> QED BY <1>1, <2>1, AloneKept
<1> QED BY <1>2, <1>3, <1>4, <1>5 DEF Rest

-----------------------------------------------------------------------------
(* The TCP server.                                                         *)

LEMMA IInvHolds == Init => IInv
<1> SUFFICES ASSUME Init PROVE IInv
    OBVIOUS
<1>1. TypeOK
    BY SenderAssumption DEF Init, TypeOK, PacketNo
<1>2. Mutex
    BY NamesAssumption DEF Init, Mutex
<1>3. PrerollOK
    BY SenderAssumption DEF Init, PrerollOK, Chained, EndsWith
<1>4. ASSUME NEW c \in Clients PROVE ConnectionOK(c)
    BY <1>4, NamesAssumption, SenderAssumption
    DEF Init, ConnectionOK, Life, StreamOK, Fits, Longest
<1> QED BY <1>1, <1>2, <1>3, <1>4 DEF IInv

LEMMA IInvKept == IInv /\ [Next]_vars => IInv'
<1> SUFFICES ASSUME IInv, [Next]_vars PROVE IInv'
    OBVIOUS
<1>1. Mutex'
    BY MutexKept DEF IInv, ConnectionOK
<1>2. CASE RemoveOverfull \/ CloseNext
  <2>1. PICK c \in Clients : thread[c] # "none" /\ Close(c)
    BY <1>2 DEF RemoveOverfull, CloseNext, Overfull, Open
  <2>2. /\ victim = "nobody" /\ listener \notin Clients /\ sender # "push"
        /\ UNCHANGED <<sender, listener, wire, preroll>>
    BY <1>2, NamesAssumption DEF RemoveOverfull, CloseNext, IInv, Mutex, dispatcher
  <2> QED BY <1>1, <2>1, <2>2, CloseKept DEF Rest, IInv
<1>3. CASE JoinOverfull \/ JoinNext
  <2>1. /\ Joined /\ victim # "nobody" /\ listener \notin Clients
        /\ UNCHANGED <<sender, listener, wire, preroll>>
    BY <1>3, NamesAssumption DEF JoinOverfull, JoinNext, IInv, Mutex, dispatcher
  <2> QED BY <1>1, <2>1, JoinedKept DEF Rest, IInv
<1>4. CASE \E c \in Clients : Accept(c) \/ WaitAndPop(c) \/ PollReady(c) \/ Sent(c) \/ GiveUp(c) \/ SendFails(c)
    BY <1>1, <1>4, AcceptKept, WaitAndPopKept, SentKept, GiveUpKept DEF Rest, IInv
<1>5. CASE BeginWrite \/ PushToAll \/ EndWrite \/ PushPreroll
    BY <1>1, <1>5, BeginWriteKept, PushToAllKept, EndWriteKept, PushPrerollKept DEF Rest, IInv
<1>6. CASE \/ SendAfPacket \/ GetStats \/ StopSender \/ StopDispatcher \/ JoinListener \/ Destroyed
           \/ TimePasses \/ ReadTime \/ BeginTick \/ EndTick \/ EndSender \/ WriteThrows
           \/ AcceptFails \/ EndListener \/ UNCHANGED vars
    BY <1>1, <1>6, QuietSteps DEF Rest, IInv
<1> QED BY <1>2, <1>3, <1>4, <1>5, <1>6 DEF Next, Main, Stopping, Sender

LEMMA IInvSuffices == IInv => QueuesBounded /\ StreamContiguous
<1> SUFFICES ASSUME IInv PROVE QueuesBounded /\ StreamContiguous
    OBVIOUS
<1>1. ASSUME NEW c \in Clients PROVE Len(queue[c]) <= Longest + 2
  <2>1. Fits(c) /\ Len(queue[c]) \in Nat /\ Longest \in Nat
    BY SenderAssumption DEF IInv, ConnectionOK, TypeOK, Longest
  <2> QED BY <2>1 DEF Fits
<1>2. StreamContiguous
    BY DEF IInv, ConnectionOK, StreamOK, StreamContiguous, Open, Chained, EndsWith
<1> QED BY <1>1, <1>2 DEF QueuesBounded, Longest

-----------------------------------------------------------------------------
(* The TCP client.                                                         *)

\* The types.
ClientTypeOK ==
    /\ writer \in {"write", "discard", "wake", "join", "ended"}
    /\ written \in Nat /\ m_queue \in Seq(Nat) /\ clientItem \in Nat /\ clientGot \in Nat

(***************************************************************************)
(* The inductive invariant.  Everything is older than the oldest packet    *)
(* that waits, also when none does; and the packet in excess is there only *)
(* between a push and the discard that follows it.                         *)
(***************************************************************************)
Older == written - Len(m_queue)

Numbered == \A i \in 1..Len(m_queue) : m_queue[i] = Older + i
TakenIsOlder == clientItem <= Older /\ clientGot <= Older /\ (clientItem # 0 => clientGot < clientItem)
ExcessIsBrief == Len(m_queue) <= (IF writer = "discard" THEN MaxClientQueue + 1 ELSE MaxClientQueue)

ClientIInv == ClientTypeOK /\ Numbered /\ TakenIsOlder /\ ExcessIsBrief

-----------------------------------------------------------------------------
LEMMA ClientIInvInit == ASSUME MaxClientQueue \in Nat, Client!Init PROVE ClientIInv
BY DEF Client!Init, ClientIInv, ClientTypeOK, Numbered, TakenIsOlder, ExcessIsBrief, Older

\* A new packet is the newest.
LEMMA ClientPushPreserves == ASSUME MaxClientQueue \in Nat, ClientIInv, Client!Push PROVE ClientIInv'
<1> USE DEF ClientIInv
<1>1. /\ writer = "write" /\ writer' = "discard"
      /\ written' = written + 1 /\ m_queue' = Append(m_queue, written + 1)
      /\ clientItem' = clientItem /\ clientGot' = clientGot
    BY DEF Client!Push, Client!connection
<1>2. /\ Len(m_queue) \in Nat /\ Len(m_queue') = Len(m_queue) + 1
      /\ \A i \in 1..Len(m_queue) : m_queue'[i] = m_queue[i]
      /\ m_queue'[Len(m_queue) + 1] = written + 1
    BY <1>1 DEF ClientTypeOK
<1>3. ClientTypeOK'
    BY <1>1 DEF ClientTypeOK
<1>4. Older' = Older /\ Older \in Int
    BY <1>1, <1>2 DEF Older, ClientTypeOK
<1>5. Numbered'
  <2>1. SUFFICES ASSUME NEW i \in 1..Len(m_queue') PROVE m_queue'[i] = Older' + i
    BY DEF Numbered
  <2>2. CASE i \in 1..Len(m_queue)
    BY <1>2, <1>4, <2>2 DEF Numbered
  <2>3. CASE i = Len(m_queue) + 1
    BY <1>2, <1>4, <2>3 DEF Older, ClientTypeOK
  <2> QED BY <1>2, <2>2, <2>3
<1>6. TakenIsOlder'
    BY <1>1, <1>4 DEF TakenIsOlder
<1>7. ExcessIsBrief'
  <2>1. Len(m_queue) <= MaxClientQueue
    BY <1>1 DEF ExcessIsBrief
  <2> QED BY <1>1, <1>2, <2>1 DEF ExcessIsBrief
<1> QED BY <1>3, <1>5, <1>6, <1>7

\* The oldest packet leaves the queue.
LEMMA TailIsNumbered ==
    ASSUME ClientTypeOK, Numbered, m_queue # <<>>, written' = written, m_queue' = Tail(m_queue)
    PROVE  /\ m_queue' \in Seq(Nat) /\ Len(m_queue') = Len(m_queue) - 1
           /\ Head(m_queue) = Older + 1 /\ Head(m_queue) \in Nat
           /\ Older' = Older + 1 /\ Older \in Int
           /\ Numbered'
<1>1. /\ m_queue' \in Seq(Nat) /\ Len(m_queue) \in Nat \ {0}
      /\ Len(m_queue') = Len(m_queue) - 1
      /\ \A i \in 1..(Len(m_queue) - 1) : m_queue'[i] = m_queue[i + 1]
      /\ Head(m_queue) = m_queue[1] /\ Head(m_queue) \in Nat
    BY DEF ClientTypeOK
<1>2. Older' = Older + 1 /\ Older \in Int
    BY <1>1 DEF Older, ClientTypeOK
<1>3. Head(m_queue) = Older + 1
    BY <1>1 DEF Numbered
<1>4. Numbered'
  <2>1. SUFFICES ASSUME NEW i \in 1..Len(m_queue') PROVE m_queue'[i] = Older' + i
    BY DEF Numbered
  <2>2. m_queue[i + 1] = Older + (i + 1)
    BY <1>1 DEF Numbered
  <2> QED BY <1>1, <1>2, <2>2
<1> QED BY <1>1, <1>2, <1>3, <1>4

LEMMA ClientDiscardPreserves == ASSUME MaxClientQueue \in Nat, ClientIInv, Client!Discard PROVE ClientIInv'
<1> USE DEF ClientIInv
<1>1. /\ writer = "discard" /\ writer' = "write" /\ written' = written
      /\ m_queue' = (IF Len(m_queue) > MaxClientQueue THEN Tail(m_queue) ELSE m_queue)
      /\ clientItem' = clientItem /\ clientGot' = clientGot
    BY DEF Client!Discard, Client!connection
<1>2. CASE Len(m_queue) > MaxClientQueue
  <2>1. m_queue # <<>> /\ m_queue' = Tail(m_queue)
    BY <1>1, <1>2
  <2>2. /\ m_queue' \in Seq(Nat) /\ Len(m_queue') = Len(m_queue) - 1
        /\ Older' = Older + 1 /\ Older \in Int /\ Numbered'
    BY <1>1, <2>1, TailIsNumbered
  <2>3. ClientTypeOK'
    BY <1>1, <2>2 DEF ClientTypeOK
  <2>4. TakenIsOlder'
    BY <1>1, <2>2 DEF TakenIsOlder, ClientTypeOK
  <2>5. ExcessIsBrief'
    BY <1>1, <2>2 DEF ExcessIsBrief, ClientTypeOK
  <2> QED BY <2>2, <2>3, <2>4, <2>5
<1>3. CASE ~(Len(m_queue) > MaxClientQueue)
    BY <1>1, <1>3 DEF ClientTypeOK, Numbered, TakenIsOlder, ExcessIsBrief, Older
<1> QED BY <1>2, <1>3

\* The thread takes the oldest packet, which is newer than all it has sent.
LEMMA ClientWaitAndPopPreserves == ASSUME MaxClientQueue \in Nat, ClientIInv, Client!WaitAndPop PROVE ClientIInv'
<1> USE DEF ClientIInv
<1>1. writer' = writer /\ written' = written /\ clientGot' = clientGot
    BY DEF Client!WaitAndPop, Client!connection
<1>2. CASE wakeup_requested
  <2>1. m_queue' = m_queue /\ clientItem' = clientItem
    BY <1>2 DEF Client!WaitAndPop
  <2> QED BY <1>1, <2>1 DEF ClientTypeOK, Numbered, TakenIsOlder, ExcessIsBrief, Older
<1>3. CASE ~wakeup_requested
  <2>1. m_queue # <<>> /\ m_queue' = Tail(m_queue) /\ clientItem' = Head(m_queue)
    BY <1>3 DEF Client!WaitAndPop
  <2>2. /\ m_queue' \in Seq(Nat) /\ Len(m_queue') = Len(m_queue) - 1
        /\ Head(m_queue) = Older + 1 /\ Head(m_queue) \in Nat
        /\ Older' = Older + 1 /\ Older \in Int /\ Numbered'
    BY <1>1, <2>1, TailIsNumbered
  <2>3. ClientTypeOK'
    BY <1>1, <2>1, <2>2 DEF ClientTypeOK
  <2>4. TakenIsOlder'
    BY <1>1, <2>1, <2>2 DEF TakenIsOlder, ClientTypeOK
  <2>5. ExcessIsBrief'
    BY <1>1, <2>2 DEF ExcessIsBrief, ClientTypeOK
  <2> QED BY <2>2, <2>3, <2>4, <2>5
<1> QED BY <1>2, <1>3

\* A packet that was sent is the last one the remote has, or it is lost.
LEMMA ClientSendPreserves == ASSUME ClientIInv, Client!Sent \/ Client!SendFails PROVE ClientIInv'
<1>1. /\ writer' = writer /\ written' = written /\ m_queue' = m_queue
      /\ clientItem' = 0 /\ clientGot' \in {clientItem, clientGot}
    BY DEF Client!Sent, Client!SendFails, Client!queue
<1> QED BY <1>1 DEF ClientIInv, ClientTypeOK, Numbered, TakenIsOlder, ExcessIsBrief, Older

\* The other steps leave packets alone, and the writer does not come to a discard.
LEMMA ClientOthersPreserve ==
    ASSUME MaxClientQueue \in Nat, ClientIInv,
           \/ Client!Destroy \/ Client!Stopping \/ Client!Loop \/ Client!ConnectSucceeds \/ Client!ConnectFails \/ Client!EndSleep \/ Client!Break
           \/ UNCHANGED Client!vars
    PROVE  ClientIInv'
<1>1. UNCHANGED <<written, m_queue, clientItem, clientGot>>
    BY DEF Client!Destroy, Client!Stopping, Client!TriggerWakeup, Client!Join, Client!Loop, Client!ConnectSucceeds, Client!ConnectFails, Client!EndSleep,
           Client!Break, Client!vars, Client!queue, Client!connection
<1>2. \/ writer' = writer
      \/ writer # "discard" /\ writer' \in {"wake", "join", "ended"}
    BY DEF Client!Destroy, Client!Stopping, Client!TriggerWakeup, Client!Join, Client!Loop, Client!ConnectSucceeds, Client!ConnectFails, Client!EndSleep,
           Client!Break, Client!vars, Client!queue, Client!connection
<1> QED BY <1>1, <1>2 DEF ClientIInv, ClientTypeOK, Numbered, TakenIsOlder, ExcessIsBrief, Older

LEMMA ClientIInvKept ==
    ASSUME MaxClientQueue \in Nat, ClientIInv, [Client!Next]_clientVars PROVE ClientIInv'
<1>1. CASE UNCHANGED clientVars
  <2>1. UNCHANGED Client!vars
    BY <1>1 DEF clientVars, Client!vars, Client!queue, Client!connection
  <2> QED BY <2>1, ClientOthersPreserve
<1>2. CASE Client!Next
    BY <1>2, ClientPushPreserves, ClientDiscardPreserves, ClientWaitAndPopPreserves,
       ClientSendPreserves, ClientOthersPreserve
       DEF Client!Next, Client!Thread
<1> QED BY <1>1, <1>2

LEMMA ClientIInvSuffices ==
    ASSUME MaxClientQueue \in Nat, ClientIInv PROVE Client!QueueBounded /\ Client!NewestWait
<1>1. Client!QueueBounded
    BY DEF ClientIInv, ClientTypeOK, ExcessIsBrief, Client!QueueBounded
<1>2. Len(m_queue) \in Nat /\ Older \in Int /\ Older + Len(m_queue) = written
    BY DEF ClientIInv, ClientTypeOK, Older
<1>3. \A i \in 1..(Len(m_queue) - 1) : m_queue[i + 1] = m_queue[i] + 1
    BY <1>2 DEF ClientIInv, Numbered
<1>4. ASSUME m_queue # <<>>
      PROVE  m_queue[Len(m_queue)] = written /\ m_queue[1] = Older + 1
  <2>1. Len(m_queue) # 0
    BY <1>4 DEF ClientIInv, ClientTypeOK
  <2> QED BY <1>2, <2>1 DEF ClientIInv, Numbered
<1>5. Client!NewestWait
    BY <1>2, <1>3, <1>4 DEF ClientIInv, ClientTypeOK, TakenIsOlder, Client!NewestWait
<1> QED BY <1>1, <1>5

-----------------------------------------------------------------------------
(* Both kinds of output.                                                   *)

(***************************************************************************)
(* Both invariants hold wherever the threads, the clients and the          *)
(* destructors are (TCPDataDispatcher, TCPConnection, TCPSendClient).      *)
(***************************************************************************)
THEOREM OutputInvariant == ASSUME MaxClientQueue \in Nat PROVE OutputSpec => [](IInv /\ ClientIInv)
<1>1. OutputInit => IInv /\ ClientIInv
    BY IInvHolds, ClientIInvInit DEF OutputInit
<1>2. IInv /\ ClientIInv /\ [OutputNext]_allVars => IInv' /\ ClientIInv'
  <2> SUFFICES ASSUME IInv, ClientIInv, [OutputNext]_allVars PROVE IInv' /\ ClientIInv'
    OBVIOUS
  <2>1. [Next]_vars /\ [Client!Next]_clientVars
    BY DEF OutputNext, NotServer, NotClient, allVars
  <2> QED BY <2>1, IInvKept, ClientIInvKept
<1> QED BY <1>1, <1>2, PTL DEF OutputSpec

(***************************************************************************)
(* TCPDataDispatcher::write removes the connections that do not keep up,   *)
(* and TCPSendClient::sendall discards the oldest packet: no queue of      *)
(* either output grows beyond its limit, whatever the remotes do.          *)
(***************************************************************************)
THEOREM AllQueuesBoundedCorrect ==
    ASSUME MaxClientQueue \in Nat PROVE OutputSpec => []AllQueuesBounded
<1>1. IInv /\ ClientIInv => AllQueuesBounded
    BY IInvSuffices, ClientIInvSuffices DEF AllQueuesBounded
<1> QED BY <1>1, OutputInvariant, PTL

(***************************************************************************)
(* The preroll that TCPDataDispatcher::process gives a new connection and  *)
(* the packets of write() fit together, and a connection skips no packet;  *)
(* a remote of TCPSendClient gets the newest packets without a gap, and    *)
(* over any number of connections none twice and none out of order.        *)
(***************************************************************************)
THEOREM AllContiguousCorrect ==
    ASSUME MaxClientQueue \in Nat PROVE OutputSpec => []AllContiguous
<1>1. IInv /\ ClientIInv => AllContiguous
    BY IInvSuffices, ClientIInvSuffices DEF AllContiguous
<1> QED BY <1>1, OutputInvariant, PTL
=============================================================================
