---------------------------- MODULE InputsProofs ----------------------------
(***************************************************************************)
(* The inputs of MCInputs for any number of messages, datagrams and frames *)
(* of the source, any levels of the buffers and any times of the           *)
(* statistics: what the network inputs give is in the order of the source, *)
(* their buffers stay in their ranges, a locked input leaves out nothing,  *)
(* what a file input gives is the file, of any length and read in any of   *)
(* the modes, and the answers of the statistics are true.                  *)
(***************************************************************************)
EXTENDS MCInputs, TLAPS

(***************************************************************************)
(* Facts about sequences, and about sequences of things that have an id.   *)
(***************************************************************************)
LEMMA TailFacts ==
    ASSUME NEW S, NEW s \in Seq(S), s # <<>>
    PROVE  /\ Head(s) = s[1] /\ Head(s) \in S /\ Len(s) \in Nat \ {0}
           /\ Tail(s) \in Seq(S) /\ Len(Tail(s)) = Len(s) - 1
           /\ \A i \in 1..(Len(s) - 1) : Tail(s)[i] = s[i + 1]
OBVIOUS

LEMMA AppendFacts ==
    ASSUME NEW S, NEW s \in Seq(S), NEW d \in S
    PROVE  /\ Len(s) \in Nat
           /\ Append(s, d) \in Seq(S) /\ Len(Append(s, d)) = Len(s) + 1
           /\ \A i \in 1..Len(s) : Append(s, d)[i] = s[i]
           /\ Append(s, d)[Len(s) + 1] = d
OBVIOUS

LEMMA SuffixFacts ==
    ASSUME NEW S, NEW s \in Seq(S), NEW k \in Nat, k <= Len(s)
    PROVE  /\ SubSeq(s, k + 1, Len(s)) \in Seq(S) /\ Len(SubSeq(s, k + 1, Len(s))) = Len(s) - k
           /\ \A i \in 1..Len(SubSeq(s, k + 1, Len(s))) :
                 SubSeq(s, k + 1, Len(s))[i] = s[k + 1 + i - 1]
OBVIOUS

\* Each id is above low and below high; ids grow within a sequence, and to the next.
Between(s, low, high) == \A i \in 1..Len(s) : low < s[i].id /\ s[i].id < high
Ascending(s) == \A i, j \in 1..Len(s) : i < j => s[i].id < s[j].id
Precedes(s, t) == \A i \in 1..Len(s), j \in 1..Len(t) : s[i].id < t[j].id

Ids(s) == {s[i].id : i \in 1..Len(s)}

\* What is left is between the same bounds, in order, and after the first.
LEMMA TailKeepsOrder ==
    ASSUME NEW S, NEW s \in Seq(S), s # <<>>, NEW low \in Int, NEW high \in Int,
           Between(s, low, high), Ascending(s)
    PROVE  /\ Between(Tail(s), low, high) /\ Ascending(Tail(s))
           /\ \A j \in 1..Len(Tail(s)) : Head(s).id < Tail(s)[j].id
           /\ Ids(s) = Ids(Tail(s)) \union {Head(s).id}
<1> DEFINE n == Len(s)  t == Tail(s)
<1>1. /\ Head(s) = s[1] /\ n \in Nat \ {0} /\ Len(t) = n - 1
      /\ \A i \in 1..(n - 1) : i + 1 \in 1..n /\ t[i] = s[i + 1]
    BY TailFacts
<1> HIDE DEF n, t
<1>2. Between(t, low, high)
  <2>1. SUFFICES ASSUME NEW i \in 1..Len(t) PROVE low < t[i].id /\ t[i].id < high
    BY DEF Between
  <2>2. i + 1 \in 1..n /\ t[i] = s[i + 1]
    BY <1>1, <2>1
  <2> QED BY <2>2 DEF Between, n
<1>3. Ascending(t)
  <2>1. SUFFICES ASSUME NEW i \in 1..Len(t), NEW j \in 1..Len(t), i < j
                 PROVE  t[i].id < t[j].id
    BY DEF Ascending
  <2>2. i + 1 \in 1..n /\ j + 1 \in 1..n /\ t[i] = s[i + 1] /\ t[j] = s[j + 1]
    BY <1>1, <2>1
  <2>3. i + 1 < j + 1
    BY <1>1, <2>1
  <2> QED BY <2>2, <2>3 DEF Ascending, n
<1>4. \A j \in 1..Len(t) : Head(s).id < t[j].id
  <2>1. TAKE j \in 1..Len(t)
  <2>2. 1 \in 1..n /\ j + 1 \in 1..n /\ t[j] = s[j + 1] /\ 1 < j + 1 /\ Head(s) = s[1]
    BY <1>1, <2>1
  <2> QED BY <2>2 DEF Ascending, n
<1>5. Ids(s) = Ids(t) \union {Head(s).id}
  <2>1. \A i \in 1..n : i = 1 \/ (i - 1 \in 1..Len(t) /\ s[i] = t[i - 1])
    BY <1>1
  <2>2. 1 \in 1..n
    BY <1>1
  <2>3. Ids(s) \subseteq Ids(t) \union {Head(s).id}
    <3>1. SUFFICES ASSUME NEW i \in 1..n PROVE s[i].id \in Ids(t) \union {Head(s).id}
      BY DEF Ids, n
    <3> QED BY <1>1, <2>1 DEF Ids
  <2>4. Ids(t) \subseteq Ids(s)
    <3>1. SUFFICES ASSUME NEW i \in 1..Len(t) PROVE t[i].id \in Ids(s)
      BY DEF Ids
    <3> QED BY <1>1 DEF Ids, n
  <2>5. Head(s).id \in Ids(s)
    BY <1>1, <2>2 DEF Ids, n
  <2> QED BY <2>3, <2>4, <2>5
<1> QED BY <1>2, <1>3, <1>4, <1>5 DEF t

\* One that is newer than all others enters behind them.
LEMMA AppendKeepsOrder ==
    ASSUME NEW S, NEW s \in Seq(S), NEW d \in S, NEW low \in Int, NEW high \in Int,
           \A x \in S : x.id \in Int,
           Between(s, low, d.id), Ascending(s), low < d.id, d.id < high
    PROVE  /\ Between(Append(s, d), low, high) /\ Ascending(Append(s, d))
           /\ Ids(Append(s, d)) = Ids(s) \union {d.id}
<1> DEFINE t == Append(s, d)
<1>1. /\ Len(s) \in Nat /\ t \in Seq(S) /\ Len(t) = Len(s) + 1
      /\ \A i \in 1..Len(s) : t[i] = s[i]
      /\ t[Len(s) + 1] = d
    BY AppendFacts
<1> HIDE DEF t
<1>2. \A i \in 1..Len(t) :
         \/ i \in 1..Len(s) /\ t[i] = s[i] /\ s[i] \in S
         \/ i = Len(s) + 1 /\ t[i] = d
    BY <1>1
<1>3. \A i \in 1..Len(s) : low < s[i].id /\ s[i].id < d.id /\ s[i].id \in Int
    BY DEF Between
<1>4. Between(t, low, high)
    BY <1>2, <1>3 DEF Between
<1>5. Ascending(t)
  <2>1. SUFFICES ASSUME NEW i \in 1..Len(t), NEW j \in 1..Len(t), i < j
                 PROVE  t[i].id < t[j].id
    BY DEF Ascending
  <2>2. i \in 1..Len(s) /\ t[i] = s[i]
    BY <1>1, <2>1
  <2> QED BY <1>2, <1>3, <2>1, <2>2 DEF Ascending
<1>6. Ids(t) \subseteq Ids(s) \union {d.id}
    BY <1>2 DEF Ids
<1>7. Ids(s) \subseteq Ids(t)
    BY <1>1 DEF Ids
<1>8. d.id \in Ids(t)
  <2>1. Len(s) + 1 \in 1..Len(t)
    BY <1>1
  <2> QED BY <1>1, <2>1 DEF Ids
<1> QED BY <1>4, <1>5, <1>6, <1>7, <1>8 DEF t

\* The bounds may be widened.
LEMMA BetweenWidens ==
    ASSUME NEW S, NEW s \in Seq(S), NEW low \in Int, NEW high \in Int,
           NEW lower \in Int, NEW higher \in Int, lower <= low, high <= higher,
           \A x \in S : x.id \in Int, Between(s, low, high)
    PROVE  Between(s, lower, higher)
<1>1. SUFFICES ASSUME NEW i \in 1..Len(s) PROVE lower < s[i].id /\ s[i].id < higher
    BY DEF Between
<1>2. s[i] \in S
    OBVIOUS
<1>3. s[i].id \in Int
    BY <1>2
<1>4. low < s[i].id /\ s[i].id < high
    BY <1>1 DEF Between
<1> QED BY <1>3, <1>4

-----------------------------------------------------------------------------
(***************************************************************************)
(* What a step of an input has to be for FrameSource: what is held moves   *)
(* on in the source, and what is given was held.                           *)
(***************************************************************************)
LastOfSource == Messages * Zmq!SuperFrame + MaxArrivals + SourceFrames

Moves ==
    /\ Arrived \in Int /\ Arrived' \in Arrived..LastOfSource
    /\ Given' \in {Given} \union Held
    /\ \A f \in Held' : f > Given' /\ f \in Held \union (Arrived + 1)..Arrived'

LEMMA MovesImplements == Moves => Source!Next
<1>1. SUFFICES ASSUME Moves PROVE Source!Hold(Arrived')
    BY DEF Moves, Source!Next, LastOfSource
<1>2. Held' \in SUBSET {f \in Held \union (Arrived + 1)..Arrived' : f > Given'}
    BY <1>1 DEF Moves
<1> QED BY <1>1, <1>2 DEF Moves, Source!Hold

\* The bounds of the exploration are numbers, and a size_t has values.
Bounds ==
    /\ Messages \in Nat /\ MaxArrivals \in Nat /\ SourceFrames \in Nat
    /\ SizeModulus \in Nat \ {0}

-----------------------------------------------------------------------------
(***************************************************************************)
(* Sti_d_Rtp: the queue and the socket after it hold frames that have      *)
(* arrived, in the order of arrival and after the frame given last.        *)
(***************************************************************************)
RtpPacket == [id : Int, source : Int, what : Datagram!Contents]

RtpOrdered(queue, socketQueue, low, high) ==
    /\ queue \in Seq(RtpPacket) /\ socketQueue \in Seq(RtpPacket)
    /\ Between(queue, low, high) /\ Between(socketQueue, low, high)
    /\ Ascending(queue) /\ Ascending(socketQueue) /\ Precedes(queue, socketQueue)

RtpInv ==
    /\ launched \in Seq(Datagram!Contents)
    /\ deliveries \in 0..MaxArrivals /\ given \in Int /\ given < deliveries
    /\ RtpOrdered(m_queue, socketIn, given, deliveries)

LEMMA RtpIds == \A x \in RtpPacket : x.id \in Int
BY DEF RtpPacket

\* One call of receive_packet keeps the order, and invents nothing.
LEMMA ReceiveKeepsOrder ==
    ASSUME NEW queue, NEW queued, NEW low \in Int, NEW high \in Int,
           RtpOrdered(queue, queued, low, high)
    PROVE  /\ RtpOrdered(Datagram!Queued(queue, queued), Datagram!Left(queued), low, high)
           /\ Ids(Datagram!Queued(queue, queued)) \union Ids(Datagram!Left(queued))
                \subseteq Ids(queue) \union Ids(queued)
<1>1. CASE queued = <<>>
    BY <1>1 DEF Datagram!Queued, Datagram!Left
<1>2. CASE queued # <<>>
  <2> DEFINE d == Head(queued)  rest == Tail(queued)  more == Append(queue, d)
  <2>1. /\ d = queued[1] /\ d \in RtpPacket /\ 1 \in 1..Len(queued)
        /\ rest \in Seq(RtpPacket) /\ Len(rest) = Len(queued) - 1
        /\ \A j \in 1..Len(rest) : j + 1 \in 1..Len(queued) /\ rest[j] = queued[j + 1]
    BY <1>2, TailFacts DEF RtpOrdered
  <2>2. /\ Between(rest, low, high) /\ Ascending(rest)
        /\ \A j \in 1..Len(rest) : d.id < rest[j].id
        /\ Ids(queued) = Ids(rest) \union {d.id}
    BY <1>2, TailKeepsOrder DEF RtpOrdered
  <2>3. Precedes(queue, rest)
    <3>1. SUFFICES ASSUME NEW i \in 1..Len(queue), NEW j \in 1..Len(rest)
                   PROVE  queue[i].id < rest[j].id
      BY DEF Precedes
    <3>2. j + 1 \in 1..Len(queued) /\ rest[j] = queued[j + 1]
      BY <2>1, <3>1
    <3> QED BY <3>2 DEF RtpOrdered, Precedes
  <2>4. CASE ~Datagram!Valid(d)
    <3>1. Datagram!Queued(queue, queued) = queue /\ Datagram!Left(queued) = rest
      BY <1>2, <2>4 DEF Datagram!Queued, Datagram!Left
    <3>2. RtpOrdered(queue, rest, low, high)
      BY <2>1, <2>2, <2>3 DEF RtpOrdered
    <3> QED BY <2>2, <3>1, <3>2
  <2>5. CASE Datagram!Valid(d)
    <3>1. Datagram!Queued(queue, queued) = more /\ Datagram!Left(queued) = rest
      BY <1>2, <2>5 DEF Datagram!Queued, Datagram!Left
    <3>2. /\ Len(queue) \in Nat /\ more \in Seq(RtpPacket) /\ Len(more) = Len(queue) + 1
          /\ \A i \in 1..Len(queue) : more[i] = queue[i]
          /\ more[Len(queue) + 1] = d
      BY <2>1, AppendFacts DEF RtpOrdered
    <3>3. low < d.id /\ d.id < high /\ \A i \in 1..Len(queue) : queue[i].id < d.id
      BY <2>1 DEF RtpOrdered, Between, Precedes
    <3>4. Between(queue, low, d.id)
      BY <3>3 DEF RtpOrdered, Between
    <3>5. Between(more, low, high) /\ Ascending(more) /\ Ids(more) = Ids(queue) \union {d.id}
      <4>1. queue \in Seq(RtpPacket) /\ Ascending(queue) /\ d \in RtpPacket
        BY <2>1 DEF RtpOrdered
      <4> HIDE DEF d
      <4> QED BY <3>3, <3>4, <4>1, AppendKeepsOrder, RtpIds
    <3>6. \A i \in 1..Len(more) :
             \/ i \in 1..Len(queue) /\ more[i] = queue[i]
             \/ i = Len(queue) + 1 /\ more[i] = d
      BY <3>2
    <3> HIDE DEF more, rest, d
    <3>7. Precedes(more, rest)
      BY <2>2, <2>3, <3>6 DEF Precedes
    <3>8. RtpOrdered(more, rest, low, high)
      BY <2>1, <2>2, <3>2, <3>5, <3>7 DEF RtpOrdered
    <3> QED BY <2>2, <3>1, <3>5, <3>8
  <2> QED BY <2>4, <2>5
<1> QED BY <1>1, <1>2

\* Two calls of receive_packet, of which nothing is lost that was there before.
Received == Datagram!Queued(Datagram!Queued(m_queue, socketIn), Datagram!Left(socketIn))
LeftInSocket == Datagram!Left(Datagram!Left(socketIn))

LEMMA TwoAreReceived ==
    ASSUME RtpInv
    PROVE  /\ RtpOrdered(Received, LeftInSocket, given, deliveries)
           /\ Ids(Received) \union Ids(LeftInSocket) \subseteq Ids(m_queue) \union Ids(socketIn)
           /\ Received = <<>> => Ids(m_queue) = {}
<1> DEFINE once == Datagram!Queued(m_queue, socketIn)
<1>1. given \in Int /\ deliveries \in Int /\ RtpOrdered(m_queue, socketIn, given, deliveries)
    BY DEF RtpInv
<1>2. /\ RtpOrdered(once, Datagram!Left(socketIn), given, deliveries)
      /\ Ids(once) \union Ids(Datagram!Left(socketIn)) \subseteq Ids(m_queue) \union Ids(socketIn)
    BY <1>1, ReceiveKeepsOrder
<1>3. /\ RtpOrdered(Received, LeftInSocket, given, deliveries)
      /\ Ids(Received) \union Ids(LeftInSocket)
           \subseteq Ids(once) \union Ids(Datagram!Left(socketIn))
    BY <1>1, <1>2, ReceiveKeepsOrder DEF Received, LeftInSocket
<1>4. ASSUME NEW queue \in Seq(RtpPacket), NEW queued \in Seq(RtpPacket),
             Datagram!Queued(queue, queued) = <<>>
      PROVE  queue = <<>>
  <2>1. CASE queued # <<>> /\ Datagram!Valid(Head(queued))
    <3>1. Head(queued) \in RtpPacket /\ Datagram!Queued(queue, queued) = Append(queue, Head(queued))
      BY <2>1, TailFacts DEF Datagram!Queued
    <3>2. Len(Append(queue, Head(queued))) = Len(queue) + 1 /\ Len(queue) \in Nat
      BY <3>1, AppendFacts
    <3> QED BY <1>4, <3>1, <3>2
  <2> QED BY <1>4, <2>1 DEF Datagram!Queued
<1>5. Received = <<>> => once = <<>>
    BY <1>2, <1>4 DEF Received, RtpOrdered
<1>6. once = <<>> => m_queue = <<>>
    BY <1>1, <1>4 DEF RtpOrdered
<1>7. m_queue = <<>> => Ids(m_queue) = {}
    BY DEF Ids
<1> QED BY <1>2, <1>3, <1>5, <1>6, <1>7

\* The ids in two sequences, one behind the other.
LEMMA ConcatIds ==
    ASSUME NEW S, NEW s \in Seq(S), NEW t \in Seq(S)
    PROVE  {d.id : d \in Range(s \o t)} = Ids(s) \union Ids(t)
<1> DEFINE both == s \o t
<1>1. /\ Len(s) \in Nat /\ Len(t) \in Nat /\ DOMAIN both = 1..(Len(s) + Len(t))
      /\ \A i \in 1..Len(s) : both[i] = s[i]
      /\ \A i \in 1..Len(t) : both[Len(s) + i] = t[i]
    OBVIOUS
<1> HIDE DEF both
<1>2. \A i \in DOMAIN both : both[i].id \in Ids(s) \union Ids(t)
  <2>1. TAKE i \in DOMAIN both
  <2>2. CASE i <= Len(s)
    <3>1. i \in 1..Len(s)
      BY <1>1, <2>2
    <3> QED BY <1>1, <3>1 DEF Ids
  <2>3. CASE i > Len(s)
    <3>1. i - Len(s) \in 1..Len(t) /\ Len(s) + (i - Len(s)) = i
      BY <1>1, <2>3
    <3>2. both[i] = t[i - Len(s)]
      BY <1>1, <3>1
    <3> QED BY <3>1, <3>2 DEF Ids
  <2> QED BY <1>1, <2>2, <2>3
<1>3. \A i \in 1..Len(s) : s[i].id \in {d.id : d \in Range(both)}
  <2>1. TAKE i \in 1..Len(s)
  <2>2. i \in DOMAIN both /\ both[i] = s[i]
    BY <1>1
  <2> QED BY <2>2 DEF Range
<1>4. \A i \in 1..Len(t) : t[i].id \in {d.id : d \in Range(both)}
  <2>1. TAKE i \in 1..Len(t)
  <2>2. Len(s) + i \in DOMAIN both /\ both[Len(s) + i] = t[i]
    BY <1>1
  <2> QED BY <2>2 DEF Range
<1>5. {d.id : d \in Range(both)} \subseteq Ids(s) \union Ids(t)
    BY <1>2 DEF Range
<1>6. Ids(s) \union Ids(t) \subseteq {d.id : d \in Range(both)}
    BY <1>3, <1>4 DEF Ids
<1> QED BY <1>5, <1>6 DEF both

Rtp == kind = "datagram" /\ protocol = "rtp"
RtpHeld == Ids(m_queue) \union Ids(socketIn)

LEMMA RtpSeen ==
    ASSUME Rtp, m_queue \in Seq(RtpPacket), socketIn \in Seq(RtpPacket)
    PROVE  Arrived = deliveries - 1 /\ Held = RtpHeld /\ Given = given
<1>1. ~RawUdp /\ kind = "datagram"
    BY DEF Rtp, RawUdp
<1>2. Held = {d.id : d \in Range(m_queue \o socketIn)}
    BY <1>1 DEF Held
<1>3. Held = RtpHeld
    BY <1>2, ConcatIds DEF RtpHeld
<1> QED BY <1>1, <1>3 DEF Arrived, Given

LEMMA RtpSeenNext ==
    ASSUME Rtp', m_queue' \in Seq(RtpPacket), socketIn' \in Seq(RtpPacket)
    PROVE  Arrived' = deliveries' - 1 /\ Held' = RtpHeld' /\ Given' = given'
<1>1. ~RawUdp' /\ kind' = "datagram"
    BY DEF Rtp, RawUdp
<1>2. Held' = {d.id : d \in Range(m_queue' \o socketIn')}
    BY <1>1 DEF Held, Range
<1>3. Held' = RtpHeld'
    BY <1>2, ConcatIds DEF RtpHeld, Ids
<1> QED BY <1>1, <1>3 DEF Arrived, Given

\* Nothing that is held changes when the source sends.
LEMMA RtpLaunch ==
    ASSUME Bounds, Rtp, kind' = kind, RtpInv, NEW what \in Datagram!Contents, Datagram!Launch(what)
    PROVE  RtpInv' /\ Moves
<1>1. /\ protocol' = protocol /\ m_queue' = m_queue /\ given' = given /\ socketIn' = socketIn
      /\ deliveries' = deliveries /\ launched' = Append(launched, what)
    BY DEF Datagram!Launch
<1>2. launched' \in Seq(Datagram!Contents)
    BY <1>1, AppendFacts DEF RtpInv
<1>3. RtpInv'
    BY <1>1, <1>2 DEF RtpInv
<1>4. /\ Arrived = deliveries - 1 /\ Held = RtpHeld /\ Given = given
      /\ Arrived' = deliveries - 1 /\ Held' = RtpHeld /\ Given' = given
  <2>1. Rtp' /\ RtpHeld' = RtpHeld
    BY <1>1 DEF Rtp, RtpHeld, Ids
  <2> QED BY <1>1, <1>3, <2>1, RtpSeen, RtpSeenNext DEF RtpInv, RtpOrdered
<1>5. \A f \in RtpHeld : f > given
  <2>1. \A f \in RtpHeld : given < f
    BY DEF RtpInv, RtpOrdered, Between, Ids, RtpHeld
  <2>2. \A x \in Int : \A y : x < y <=> y > x
    OBVIOUS
  <2> QED BY <2>1, <2>2 DEF RtpInv
<1>6. deliveries - 1 \in Int /\ deliveries - 1 \in (deliveries - 1)..LastOfSource
    BY DEF Bounds, RtpInv, LastOfSource, Zmq!SuperFrame
<1> QED BY <1>3, <1>4, <1>5, <1>6 DEF Moves

LEMMA RtpArrive ==
    ASSUME Bounds, Rtp, kind' = kind, RtpInv, NEW n \in DOMAIN launched, Datagram!Arrive(n)
    PROVE  RtpInv' /\ Moves
<1> DEFINE d == [id |-> deliveries, source |-> n, what |-> launched[n]]
<1>1. /\ protocol' = protocol /\ m_queue' = m_queue /\ given' = given /\ launched' = launched
      /\ deliveries' = deliveries + 1 /\ deliveries < MaxArrivals
      /\ socketIn' = socketIn \/ socketIn' = Append(socketIn, d)
    BY DEF Datagram!Arrive
<1>2. /\ deliveries \in Int /\ given \in Int /\ given < deliveries /\ deliveries \in Nat
      /\ MaxArrivals \in Nat /\ n \in Int /\ launched[n] \in Datagram!Contents
      /\ launched \in Seq(Datagram!Contents)
      /\ m_queue \in Seq(RtpPacket) /\ socketIn \in Seq(RtpPacket)
      /\ Between(m_queue, given, deliveries) /\ Between(socketIn, given, deliveries)
      /\ Ascending(m_queue) /\ Ascending(socketIn) /\ Precedes(m_queue, socketIn)
    BY DEF RtpInv, RtpOrdered, Bounds
<1>3. d \in RtpPacket /\ d.id = deliveries
    BY <1>2 DEF RtpPacket
<1> HIDE DEF d
<1>4. Between(m_queue, given, deliveries + 1) /\ Between(socketIn, given, deliveries + 1)
  <2>1. given <= given /\ deliveries <= deliveries + 1 /\ deliveries + 1 \in Int
    BY <1>2
  <2> QED BY <1>2, <2>1, BetweenWidens, RtpIds
<1>5. /\ socketIn' \in Seq(RtpPacket)
      /\ Between(socketIn', given, deliveries + 1) /\ Ascending(socketIn')
      /\ Precedes(m_queue, socketIn')
      /\ Ids(socketIn') \subseteq Ids(socketIn) \union {deliveries}
  <2>1. CASE socketIn' = socketIn
    BY <1>2, <1>4, <2>1
  <2>2. CASE socketIn' = Append(socketIn, d)
    <3>1. deliveries < deliveries + 1 /\ deliveries + 1 \in Int
      BY <1>2
    <3>2. /\ Between(socketIn', given, deliveries + 1) /\ Ascending(socketIn')
          /\ Ids(socketIn') = Ids(socketIn) \union {deliveries}
      BY <1>2, <1>3, <2>2, <3>1, AppendKeepsOrder, RtpIds
    <3>3. /\ Len(socketIn) \in Nat /\ socketIn' \in Seq(RtpPacket)
          /\ Len(socketIn') = Len(socketIn) + 1
          /\ \A i \in 1..Len(socketIn) : socketIn'[i] = socketIn[i]
          /\ socketIn'[Len(socketIn) + 1] = d
      BY <1>2, <1>3, <2>2, AppendFacts
    <3>4. \A i \in 1..Len(m_queue) : m_queue[i].id < deliveries
      BY <1>2 DEF Between
    <3>5. \A j \in 1..Len(socketIn') :
             \/ j \in 1..Len(socketIn) /\ socketIn'[j] = socketIn[j]
             \/ j = Len(socketIn) + 1 /\ socketIn'[j] = d
      BY <3>3
    <3>6. Precedes(m_queue, socketIn')
      BY <1>2, <1>3, <3>4, <3>5 DEF Precedes
    <3> QED BY <3>2, <3>3, <3>6
  <2> QED BY <1>1, <2>1, <2>2
<1>6. RtpInv'
  <2>1. launched' \in Seq(Datagram!Contents) /\ deliveries' \in 0..MaxArrivals /\ given' \in Int /\ given' < deliveries'
    BY <1>1, <1>2
  <2>2. RtpOrdered(m_queue', socketIn', given', deliveries')
    BY <1>1, <1>2, <1>4, <1>5 DEF RtpOrdered
  <2> QED BY <2>1, <2>2 DEF RtpInv
<1>7. /\ Arrived = deliveries - 1 /\ Held = RtpHeld /\ Given = given
      /\ Arrived' = deliveries /\ Held' = RtpHeld' /\ Given' = given
  <2>1. Rtp'
    BY <1>1 DEF Rtp
  <2>2. deliveries' - 1 = deliveries
    BY <1>1, <1>2
  <2> QED BY <1>1, <1>2, <1>5, <2>1, <2>2, RtpSeen, RtpSeenNext
<1>8. \A f \in RtpHeld' : f > given /\ f \in RtpHeld \union {deliveries}
  <2>1. RtpHeld' = Ids(m_queue) \union Ids(socketIn')
    BY <1>1 DEF RtpHeld, Ids
  <2>2. \A f \in Ids(m_queue) \union Ids(socketIn') : given < f
    BY <1>2, <1>5 DEF Between, Ids
  <2>3. \A x \in Int : \A y : x < y <=> y > x
    OBVIOUS
  <2> QED BY <1>2, <1>5, <2>1, <2>2, <2>3 DEF RtpHeld
<1>9. /\ deliveries - 1 \in Int /\ deliveries \in (deliveries - 1)..LastOfSource
      /\ (deliveries - 1 + 1)..deliveries = {deliveries}
    BY <1>1, <1>2 DEF Bounds, LastOfSource, Zmq!SuperFrame
<1>10. Moves
    BY <1>7, <1>8, <1>9 DEF Moves
<1> QED BY <1>6, <1>10

\* The frame in front leaves the queue, and what remains is after it.
LEMMA FrontLeaves ==
    ASSUME NEW queue, NEW queued, NEW low \in Int, NEW high \in Int,
           RtpOrdered(queue, queued, low, high), queue # <<>>
    PROVE  /\ Head(queue) \in RtpPacket /\ low < Head(queue).id /\ Head(queue).id < high
           /\ Head(queue).id \in Ids(queue) /\ Ids(Tail(queue)) \subseteq Ids(queue)
           /\ RtpOrdered(Tail(queue), queued, low, high)
           /\ RtpOrdered(Tail(queue), queued, Head(queue).id, high)
<1> DEFINE d == Head(queue)  rest == Tail(queue)
<1>1. /\ d = queue[1] /\ d \in RtpPacket /\ 1 \in 1..Len(queue)
      /\ rest \in Seq(RtpPacket) /\ Len(rest) = Len(queue) - 1
      /\ \A i \in 1..Len(rest) : i + 1 \in 1..Len(queue) /\ rest[i] = queue[i + 1]
    BY TailFacts DEF RtpOrdered
<1>2. /\ Between(rest, low, high) /\ Ascending(rest)
      /\ \A j \in 1..Len(rest) : d.id < rest[j].id
      /\ Ids(queue) = Ids(rest) \union {d.id}
    BY TailKeepsOrder DEF RtpOrdered
<1> HIDE DEF d, rest
<1>3. low < d.id /\ d.id < high
    BY <1>1 DEF RtpOrdered, Between
<1>4. Precedes(rest, queued) /\ \A j \in 1..Len(queued) : d.id < queued[j].id
    BY <1>1 DEF RtpOrdered, Precedes
<1>5. RtpOrdered(rest, queued, low, high)
    BY <1>1, <1>2, <1>4 DEF RtpOrdered
<1>6. Between(rest, d.id, high) /\ Between(queued, d.id, high)
    BY <1>2, <1>4 DEF RtpOrdered, Between
<1>7. RtpOrdered(rest, queued, d.id, high)
    BY <1>5, <1>6 DEF RtpOrdered
<1> QED BY <1>1, <1>2, <1>3, <1>5, <1>7 DEF d, rest

LEMMA RtpRead ==
    ASSUME Bounds, Rtp, kind' = kind, RtpInv, Datagram!ReadStiRtp
    PROVE  RtpInv' /\ Moves
<1>1. /\ protocol' = protocol /\ deliveries' = deliveries /\ socketIn' = LeftInSocket
      /\ launched' = launched
      /\ IF Received = <<>> THEN m_queue' = m_queue /\ given' = given
         ELSE /\ m_queue' = Tail(Received)
              /\ given' = IF Head(Received).what = "data" THEN Head(Received).id ELSE given
    BY DEF Datagram!ReadStiRtp, Received, LeftInSocket, Datagram!Rest
<1>2. /\ RtpOrdered(Received, LeftInSocket, given, deliveries)
      /\ Ids(Received) \union Ids(LeftInSocket) \subseteq RtpHeld
      /\ Received = <<>> => Ids(m_queue) = {}
    BY TwoAreReceived DEF RtpHeld
<1>3. /\ given \in Int /\ deliveries \in Int /\ given < deliveries /\ deliveries \in 0..MaxArrivals
      /\ m_queue \in Seq(RtpPacket) /\ socketIn \in Seq(RtpPacket)
      /\ launched \in Seq(Datagram!Contents)
    BY DEF RtpInv, RtpOrdered
<1>4. /\ given' \in Int /\ given' < deliveries /\ given' \in {given} \union RtpHeld
      /\ RtpOrdered(m_queue', LeftInSocket, given', deliveries)
      /\ Ids(m_queue') \union Ids(LeftInSocket) \subseteq RtpHeld
  <2>1. CASE Received = <<>>
    <3>1. m_queue' = m_queue /\ given' = given /\ Ids(m_queue) = {}
      BY <1>1, <1>2, <2>1
    <3>2. \A i \in 1..Len(m_queue) : FALSE
      BY <3>1 DEF Ids
    <3>3. RtpOrdered(m_queue, LeftInSocket, given, deliveries)
      BY <1>2, <1>3, <3>2 DEF RtpOrdered, Between, Ascending, Precedes
    <3> QED BY <1>2, <1>3, <3>1, <3>3
  <2>2. CASE Received # <<>>
    <3> DEFINE d == Head(Received)  rest == Tail(Received)
    <3>1. /\ d \in RtpPacket /\ given < d.id /\ d.id < deliveries
          /\ d.id \in Ids(Received) /\ Ids(rest) \subseteq Ids(Received)
          /\ RtpOrdered(rest, LeftInSocket, given, deliveries)
          /\ RtpOrdered(rest, LeftInSocket, d.id, deliveries)
      BY <1>2, <1>3, <2>2, FrontLeaves
    <3>2. m_queue' = rest /\ given' \in {given, d.id}
      BY <1>1, <2>2
    <3>3. d.id \in Int
      BY <3>1, RtpIds
    <3> HIDE DEF d, rest
    <3> QED BY <1>2, <1>3, <3>1, <3>2, <3>3
  <2> QED BY <2>1, <2>2
<1>5. RtpInv'
    BY <1>1, <1>3, <1>4 DEF RtpInv
<1>6. m_queue' \in Seq(RtpPacket) /\ socketIn' \in Seq(RtpPacket)
    BY <1>1, <1>4 DEF RtpOrdered
<1>7. /\ Arrived = deliveries - 1 /\ Held = RtpHeld /\ Given = given
      /\ Arrived' = deliveries - 1 /\ Held' = RtpHeld' /\ Given' = given'
  <2>1. Rtp'
    BY <1>1 DEF Rtp
  <2> QED BY <1>1, <1>3, <1>6, <2>1, RtpSeen, RtpSeenNext
<1>8. \A f \in RtpHeld' : f > given' /\ f \in RtpHeld
  <2>1. RtpHeld' = Ids(m_queue') \union Ids(LeftInSocket)
    BY <1>1 DEF RtpHeld, Ids
  <2>2. \A f \in Ids(m_queue') \union Ids(LeftInSocket) : given' < f
    BY <1>4 DEF RtpOrdered, Between, Ids
  <2>3. \A x \in Int : \A y : x < y <=> y > x
    OBVIOUS
  <2> QED BY <1>4, <2>1, <2>2, <2>3
<1>9. deliveries - 1 \in Int /\ deliveries - 1 \in (deliveries - 1)..LastOfSource
    BY <1>3 DEF Bounds, LastOfSource, Zmq!SuperFrame
<1>10. Moves
    BY <1>4, <1>7, <1>8, <1>9 DEF Moves
<1> QED BY <1>5, <1>10

LEMMA RtpInit == ASSUME Bounds, Datagram!Init PROVE RtpInv
<1>1. launched = <<>> /\ deliveries = 0 /\ socketIn = <<>> /\ m_queue = <<>> /\ given = -1
    BY DEF Datagram!Init
<1>2. <<>> \in Seq(RtpPacket) /\ <<>> \in Seq(Datagram!Contents) /\ Len(<<>>) = 0 /\ 1..0 = {}
    OBVIOUS
<1>3. RtpOrdered(m_queue, socketIn, given, deliveries)
    BY <1>1, <1>2 DEF RtpOrdered, Between, Ascending, Precedes
<1> QED BY <1>1, <1>2, <1>3 DEF RtpInv, Bounds

-----------------------------------------------------------------------------
(***************************************************************************)
(* ZmqBase: the buffer and the messages in the socket after it hold frames *)
(* that have been sent, in the order of the source and after the frame     *)
(* given last.                                                             *)
(***************************************************************************)
P == Zmq!PerMessage
FirstFrame(n) == n * P

LEMMA FirstFrameFacts ==
    /\ P \in 1..5
    /\ \A n \in Int : /\ FirstFrame(n) \in Int /\ FirstFrame(n + 1) = FirstFrame(n) + P
                      /\ n >= 0 => FirstFrame(n) >= 0
    /\ \A n, m \in Int : n < m => FirstFrame(n) + P <= FirstFrame(m)
    /\ \A n, m \in Nat : n <= m => FirstFrame(n) <= m * Zmq!SuperFrame
<1>1. CASE P = 1
    BY <1>1 DEF FirstFrame, Zmq!SuperFrame
<1>2. CASE P = 5
    BY <1>2 DEF FirstFrame, Zmq!SuperFrame
<1> QED BY <1>1, <1>2 DEF P, Zmq!PerMessage, Zmq!SuperFrame

Message == [id : Int, right : BOOLEAN]

\* The frames of the buffer between two frames, in their order.
Rising(buffer, low, high) ==
    /\ buffer \in Seq(Int)
    /\ \A i \in 1..Len(buffer) : low < buffer[i] /\ buffer[i] < high
    /\ \A i, j \in 1..Len(buffer) : i < j => buffer[i] < buffer[j]

\* The messages of the socket in their order, behind the buffer.
Waiting(messages, low, sentSoFar) ==
    /\ messages \in Seq(Message)
    /\ Between(messages, -1, sentSoFar) /\ Ascending(messages)
    /\ \A j \in 1..Len(messages) : low < FirstFrame(messages[j].id)

Before(buffer, messages) ==
    \A i \in 1..Len(buffer), j \in 1..Len(messages) : buffer[i] < FirstFrame(messages[j].id)

InOrder(buffer, messages, low, n) ==
    /\ n \in 0..Messages /\ low \in Int /\ low < FirstFrame(n)
    /\ Rising(buffer, low, FirstFrame(n))
    /\ Waiting(messages, low, n)
    /\ Before(buffer, messages)

ZmqOrdered == InOrder(m_frame_buffer, socket, given, encoded)

(***************************************************************************)
(* Its levels: an overrun has found the buffer at the limit it has read    *)
(* first, and, before it returns to the other level, at one and a half     *)
(* times the limit it has read then.                                       *)
(***************************************************************************)
ZmqOverrun ==
    /\ levels \in [limit : Int, again : Int, low : Int]
    /\ Zmq!RemovesWhatIsThere
    /\ reader # "undefined" => levels.low = Zmq!NotRead
    /\ reader \in {"overrun", "tooFull", "farTooFull"} => levels.limit <= Len(m_frame_buffer)
    /\ reader = "farTooFull" => 2 * Len(m_frame_buffer) >= 3 * levels.again

ZmqLevels ==
    /\ buffer_size \in Buffers /\ prebuffering \in Prebufferings
    /\ \E b \in Buffers : Len(m_frame_buffer) <= b + P
    /\ ZmqOverrun

ZmqInv == ZmqOrdered /\ ZmqLevels

InBuffer(f, buffer) == \E i \in 1..Len(buffer) : f = buffer[i]
InMessages(f, messages) ==
    \E j \in 1..Len(messages), i \in 1..P : f = FirstFrame(messages[j].id) + i - 1

LEMMA MessageIds == \A x \in Message : x.id \in Int
BY DEF Message

\* What is held, as the source sees it.
LEMMA FramesInMessages ==
    ASSUME NEW buffer \in Seq(Int), NEW messages \in Seq(Message), NEW f
    PROVE  f \in Range(buffer) \union UNION {Range(Zmq!FramesOf(m)) : m \in Range(messages)}
              <=> InBuffer(f, buffer) \/ InMessages(f, messages)
<1>1. f \in Range(buffer) <=> InBuffer(f, buffer)
    BY DEF Range, InBuffer
<1>2. f \in UNION {Range(Zmq!FramesOf(m)) : m \in Range(messages)}
         <=> \E m \in Range(messages) : f \in Range(Zmq!FramesOf(m))
    OBVIOUS
<1>3. \A m : f \in Range(Zmq!FramesOf(m)) <=> \E i \in 1..P : f = FirstFrame(m.id) + i - 1
    BY DEF Range, Zmq!FramesOf, FirstFrame, P
<1>4. \A m : m \in Range(messages) <=> \E j \in 1..Len(messages) : m = messages[j]
    BY DEF Range
<1>5. (\E m \in Range(messages) : f \in Range(Zmq!FramesOf(m))) <=> InMessages(f, messages)
    BY <1>3, <1>4 DEF InMessages
<1> QED BY <1>1, <1>2, <1>5

LEMMA ZmqSeen ==
    ASSUME kind = "zmq", m_frame_buffer \in Seq(Int), socket \in Seq(Message)
    PROVE  /\ Arrived = FirstFrame(encoded) - 1 /\ Given = given
           /\ \A f : f \in Held <=> InBuffer(f, m_frame_buffer) \/ InMessages(f, socket)
<1>1. ~RawUdp
    BY DEF RawUdp
<1>2. Held = Range(m_frame_buffer) \union UNION {Range(Zmq!FramesOf(m)) : m \in Range(socket)}
    BY DEF Held
<1>3. \A f : f \in Held <=> InBuffer(f, m_frame_buffer) \/ InMessages(f, socket)
    BY <1>2, FramesInMessages
<1> QED BY <1>1, <1>3 DEF Arrived, Given, FirstFrame, P

LEMMA ZmqSeenNext ==
    ASSUME kind' = "zmq", format' = format, m_frame_buffer' \in Seq(Int), socket' \in Seq(Message)
    PROVE  /\ Arrived' = FirstFrame(encoded') - 1 /\ Given' = given'
           /\ \A f : f \in Held' <=> InBuffer(f, m_frame_buffer') \/ InMessages(f, socket')
<1>1. ~RawUdp' /\ Zmq!PerMessage' = Zmq!PerMessage
    BY DEF RawUdp, Zmq!PerMessage
<1>2. Held' = Range(m_frame_buffer') \union UNION {Range(Zmq!FramesOf(m)) : m \in Range(socket')}
    BY <1>1 DEF Held, Range, Zmq!FramesOf
<1>3. \A f : f \in Held' <=> InBuffer(f, m_frame_buffer') \/ InMessages(f, socket')
    BY <1>2, FramesInMessages
<1> QED BY <1>1, <1>3 DEF Arrived, Given, FirstFrame, P

\* One more message is sent, and reaches the socket or not.
LEMMA EncodeKeepsOrder ==
    ASSUME NEW buffer, NEW messages, NEW low, NEW n, InOrder(buffer, messages, low, n),
           Messages \in Nat, n < Messages, NEW right \in BOOLEAN
    PROVE  /\ InOrder(buffer, messages, low, n + 1)
           /\ InOrder(buffer, Append(messages, [id |-> n, right |-> right]), low, n + 1)
           /\ \A f : InMessages(f, Append(messages, [id |-> n, right |-> right]))
                       => InMessages(f, messages)
                            \/ f \in FirstFrame(n)..(FirstFrame(n + 1) - 1)
<1> DEFINE m == [id |-> n, right |-> right]  more == Append(messages, m)
<1>1. /\ n \in Nat /\ n \in Int /\ n + 1 \in 0..Messages /\ low \in Int /\ low < FirstFrame(n)
      /\ buffer \in Seq(Int) /\ messages \in Seq(Message)
      /\ Between(messages, -1, n) /\ Ascending(messages)
    BY DEF InOrder, Waiting, Rising
<1>2. /\ FirstFrame(n) \in Int /\ FirstFrame(n + 1) = FirstFrame(n) + P /\ P \in 1..5
      /\ FirstFrame(n) < FirstFrame(n + 1)
  <2>1. FirstFrame(n) \in Int /\ FirstFrame(n + 1) = FirstFrame(n) + P /\ P \in 1..5
    BY <1>1, FirstFrameFacts
  <2> QED BY <2>1
<1>3. m \in Message /\ m.id = n
    BY <1>1 DEF Message
<1> HIDE DEF m
<1>4. /\ Len(messages) \in Nat /\ more \in Seq(Message) /\ Len(more) = Len(messages) + 1
      /\ \A j \in 1..Len(messages) : more[j] = messages[j]
      /\ more[Len(messages) + 1] = m
    BY <1>1, <1>3, AppendFacts
<1>5. Between(messages, -1, n + 1)
  <2>1. -1 \in Int /\ -1 <= -1 /\ n <= n + 1 /\ n + 1 \in Int
    BY <1>1
  <2> QED BY <1>1, <2>1, BetweenWidens, MessageIds
<1>6. Between(more, -1, n + 1) /\ Ascending(more)
  <2>1. -1 \in Int /\ -1 < m.id /\ m.id < n + 1 /\ n + 1 \in Int
    BY <1>1, <1>3
  <2> QED BY <1>1, <1>3, <2>1, AppendKeepsOrder, MessageIds
<1> HIDE DEF more
<1>7. Rising(buffer, low, FirstFrame(n + 1))
  <2>1. \A i \in 1..Len(buffer) : buffer[i] \in Int
    BY <1>1
  <2> QED BY <1>1, <1>2, <2>1 DEF InOrder, Rising
<1>8. InOrder(buffer, messages, low, n + 1)
    BY <1>1, <1>2, <1>5, <1>7 DEF InOrder, Waiting
<1>9. \A j \in 1..Len(more) :
         \/ j \in 1..Len(messages) /\ more[j] = messages[j]
         \/ more[j] = m
    BY <1>4
<1>10. Waiting(more, low, n + 1)
    BY <1>1, <1>3, <1>4, <1>6, <1>9 DEF InOrder, Waiting
<1>11. Before(buffer, more)
    BY <1>3, <1>9 DEF InOrder, Before, Rising
<1>12. InOrder(buffer, more, low, n + 1)
    BY <1>1, <1>2, <1>7, <1>10, <1>11 DEF InOrder
<1>13. \A f : InMessages(f, more)
                => InMessages(f, messages) \/ f \in FirstFrame(n)..(FirstFrame(n + 1) - 1)
  <2>1. SUFFICES ASSUME NEW j \in 1..Len(more), NEW i \in 1..P
                 PROVE  \/ InMessages(FirstFrame(more[j].id) + i - 1, messages)
                        \/ FirstFrame(more[j].id) + i - 1 \in FirstFrame(n)..(FirstFrame(n + 1) - 1)
    BY DEF InMessages
  <2>2. CASE j \in 1..Len(messages) /\ more[j] = messages[j]
    BY <2>2 DEF InMessages
  <2>3. CASE more[j] = m
    BY <1>2, <1>3, <2>3
  <2> QED BY <1>9, <2>2, <2>3
<1> QED BY <1>8, <1>12, <1>13 DEF more, m

\* A message leaves the socket.
LEMMA TakenMessage ==
    ASSUME NEW buffer, NEW messages, NEW low, NEW n, InOrder(buffer, messages, low, n),
           messages # <<>>
    PROVE  /\ Head(messages) \in Message /\ Tail(messages) \in Seq(Message)
           /\ low < FirstFrame(Head(messages).id)
           /\ FirstFrame(Head(messages).id) + P <= FirstFrame(n)
           /\ \A i \in 1..Len(buffer) : buffer[i] < FirstFrame(Head(messages).id)
           /\ \A j \in 1..Len(Tail(messages)) :
                 FirstFrame(Head(messages).id) + P <= FirstFrame(Tail(messages)[j].id)
           /\ InOrder(buffer, Tail(messages), low, n)
           /\ \A f : InMessages(f, Tail(messages)) => InMessages(f, messages)
           /\ \A i \in 1..P : InMessages(FirstFrame(Head(messages).id) + i - 1, messages)
<1> DEFINE m == Head(messages)  rest == Tail(messages)
<1>1. /\ m = messages[1] /\ m \in Message /\ 1 \in 1..Len(messages)
      /\ rest \in Seq(Message) /\ Len(rest) = Len(messages) - 1
      /\ \A j \in 1..Len(rest) : j + 1 \in 1..Len(messages) /\ rest[j] = messages[j + 1]
    BY TailFacts DEF InOrder, Waiting
<1>2. /\ n \in Int /\ messages \in Seq(Message) /\ Between(messages, -1, n) /\ Ascending(messages)
    BY DEF InOrder, Waiting
<1>3. /\ Between(rest, -1, n) /\ Ascending(rest)
      /\ \A j \in 1..Len(rest) : m.id < rest[j].id
  <2>1. -1 \in Int
    OBVIOUS
  <2> QED BY <1>2, <2>1, TailKeepsOrder
<1> HIDE DEF m, rest
<1>4. m.id \in Int /\ m.id < n /\ \A j \in 1..Len(rest) : rest[j].id \in Int
  <2>1. \A j \in 1..Len(rest) : rest[j] \in Message
    BY <1>1
  <2> QED BY <1>1, <1>2, <2>1, MessageIds DEF Between
<1>5. /\ FirstFrame(m.id) + P <= FirstFrame(n)
      /\ \A j \in 1..Len(rest) : FirstFrame(m.id) + P <= FirstFrame(rest[j].id)
    BY <1>2, <1>3, <1>4, FirstFrameFacts
<1>6. InOrder(buffer, rest, low, n)
    BY <1>1, <1>3 DEF InOrder, Waiting, Before
<1>7. /\ low < FirstFrame(m.id)
      /\ \A i \in 1..Len(buffer) : buffer[i] < FirstFrame(m.id)
    BY <1>1 DEF InOrder, Waiting, Before
<1>8. \A f : InMessages(f, rest) => InMessages(f, messages)
    BY <1>1 DEF InMessages
<1>9. \A i \in 1..P : InMessages(FirstFrame(m.id) + i - 1, messages)
    BY <1>1 DEF InMessages
<1> QED BY <1>1, <1>5, <1>6, <1>7, <1>8, <1>9 DEF m, rest

\* Its frames enter the buffer.
LEMMA StoreKeepsOrder ==
    ASSUME NEW buffer, NEW messages, NEW low, NEW n, InOrder(buffer, messages, low, n),
           messages # <<>>
    PROVE  /\ InOrder(buffer \o Zmq!FramesOf(Head(messages)), Tail(messages), low, n)
           /\ Len(buffer \o Zmq!FramesOf(Head(messages))) = Len(buffer) + P
           /\ \A f : InBuffer(f, buffer \o Zmq!FramesOf(Head(messages)))
                       => InBuffer(f, buffer) \/ InMessages(f, messages)
<1> DEFINE m == Head(messages)  rest == Tail(messages)
           new == Zmq!FramesOf(m)  more == buffer \o new
<1>1. /\ m \in Message /\ rest \in Seq(Message) /\ low < FirstFrame(m.id)
      /\ FirstFrame(m.id) + P <= FirstFrame(n)
      /\ \A i \in 1..Len(buffer) : buffer[i] < FirstFrame(m.id)
      /\ \A j \in 1..Len(rest) : FirstFrame(m.id) + P <= FirstFrame(rest[j].id)
      /\ InOrder(buffer, rest, low, n)
      /\ \A i \in 1..P : InMessages(FirstFrame(m.id) + i - 1, messages)
    BY TakenMessage
<1> HIDE DEF m, rest
<1>2. /\ P \in 1..5 /\ FirstFrame(m.id) \in Int /\ FirstFrame(n) \in Int /\ low \in Int
      /\ buffer \in Seq(Int) /\ \A j \in 1..Len(rest) : FirstFrame(rest[j].id) \in Int
  <2>1. m.id \in Int /\ n \in Int /\ \A j \in 1..Len(rest) : rest[j] \in Message
    BY <1>1, MessageIds DEF InOrder
  <2> QED BY <1>1, <2>1, FirstFrameFacts, MessageIds DEF InOrder, Rising
<1>3. new = [i \in 1..P |-> FirstFrame(m.id) + i - 1]
    BY DEF Zmq!FramesOf, FirstFrame, P
<1>4. /\ new \in Seq(Int) /\ Len(new) = P
      /\ \A i \in 1..P : new[i] = FirstFrame(m.id) + i - 1
  <2>1. P \in Nat /\ \A i \in 1..P : FirstFrame(m.id) + i - 1 \in Int
    BY <1>2
  <2>2. \A k \in Nat : \A f : (f = [i \in 1..k |-> f[i]] /\ \A i \in 1..k : f[i] \in Int)
            => f \in Seq(Int) /\ Len(f) = k
    OBVIOUS
  <2>3. \A i \in 1..P : new[i] = FirstFrame(m.id) + i - 1
    BY <1>3
  <2>4. new = [i \in 1..P |-> new[i]]
    BY <1>3
  <2> HIDE DEF new
  <2>5. \A i \in 1..P : new[i] \in Int
    BY <2>1, <2>3, Zenon
  <2> QED BY <2>1, <2>2, <2>3, <2>4, <2>5, Zenon
<1> HIDE DEF new
<1>5. /\ more \in Seq(Int) /\ Len(buffer) \in Nat /\ Len(more) = Len(buffer) + P
      /\ \A i \in 1..Len(buffer) : more[i] = buffer[i]
      /\ \A i \in 1..P : more[Len(buffer) + i] = new[i]
  <2> HIDE DEF new, m
  <2>1. buffer \in Seq(Int) /\ new \in Seq(Int)
    BY <1>2, <1>4
  <2>2. Len(more) = Len(buffer) + Len(new) /\ Len(buffer) \in Nat
    BY <2>1
  <2>3. \A i \in 1..Len(new) : more[Len(buffer) + i] = new[i]
    BY <2>1
  <2>4. more \in Seq(Int) /\ \A i \in 1..Len(buffer) : more[i] = buffer[i]
    BY <2>1
  <2> HIDE DEF more
  <2> QED BY <1>4, <2>2, <2>3, <2>4, Zenon
<1> HIDE DEF more
<1>6. \A i \in 1..Len(more) :
         \/ i \in 1..Len(buffer) /\ more[i] = buffer[i]
         \/ /\ i - Len(buffer) \in 1..P
            /\ more[i] = FirstFrame(m.id) + (i - Len(buffer)) - 1
  <2>1. TAKE i \in 1..Len(more)
  <2>2. i \in 1..Len(buffer) \/ i - Len(buffer) \in 1..P
    <3>1. P \in 1..5 /\ Len(buffer) \in Nat /\ Len(more) = Len(buffer) + P
      BY <1>2, <1>5, Zenon
    <3> QED BY <3>1
  <2>3. CASE i - Len(buffer) \in 1..P
    <3>1. more[Len(buffer) + (i - Len(buffer))] = FirstFrame(m.id) + (i - Len(buffer)) - 1
      BY <1>4, <1>5, <2>3
    <3>2. Len(buffer) + (i - Len(buffer)) = i
      BY <1>5
    <3> QED BY <2>3, <3>1, <3>2
  <2> QED BY <1>5, <2>2, <2>3
<1>7. /\ \A i \in 1..Len(buffer) : /\ buffer[i] \in Int /\ low < buffer[i]
                                   /\ buffer[i] < FirstFrame(n)
      /\ \A i, j \in 1..Len(buffer) : i < j => buffer[i] < buffer[j]
    BY <1>1, <1>2 DEF InOrder, Rising
<1>8. \A i \in 1..Len(more) : low < more[i] /\ more[i] < FirstFrame(n)
  <2>1. TAKE i \in 1..Len(more)
  <2>2. CASE i \in 1..Len(buffer) /\ more[i] = buffer[i]
    BY <1>7, <2>2
  <2>3. CASE /\ i - Len(buffer) \in 1..P
             /\ more[i] = FirstFrame(m.id) + (i - Len(buffer)) - 1
    <3>1. /\ FirstFrame(m.id) \in Int /\ FirstFrame(n) \in Int /\ low \in Int /\ P \in 1..5
          /\ low < FirstFrame(m.id) /\ FirstFrame(m.id) + P <= FirstFrame(n)
      BY <1>1, <1>2, Zenon
    <3> QED BY <2>3, <3>1
  <2> QED BY <1>6, <2>2, <2>3
<1>9. \A i, j \in 1..Len(more) : i < j => more[i] < more[j]
  <2>1. SUFFICES ASSUME NEW i \in 1..Len(more), NEW j \in 1..Len(more), i < j
                 PROVE  more[i] < more[j]
    OBVIOUS
  <2>2. CASE j \in 1..Len(buffer) /\ more[j] = buffer[j]
    <3>1. i \in 1..Len(buffer) /\ more[i] = buffer[i]
      BY <1>5, <2>1, <2>2
    <3> QED BY <1>7, <2>1, <2>2, <3>1
  <2>3. CASE /\ j - Len(buffer) \in 1..P
             /\ more[j] = FirstFrame(m.id) + (j - Len(buffer)) - 1
    <3>1. CASE i \in 1..Len(buffer) /\ more[i] = buffer[i]
      <4>1. buffer[i] < FirstFrame(m.id) /\ buffer[i] \in Int
        BY <1>1, <1>7, <3>1
      <4>2. FirstFrame(m.id) \in Int /\ P \in 1..5
        BY <1>2, Zenon
      <4>3. j - Len(buffer) \in Int /\ 1 <= j - Len(buffer)
        BY <2>3, <4>2
      <4> QED BY <2>3, <3>1, <4>1, <4>2, <4>3
    <3>2. CASE /\ i - Len(buffer) \in 1..P
               /\ more[i] = FirstFrame(m.id) + (i - Len(buffer)) - 1
      BY <1>2, <1>5, <2>1, <2>3, <3>2
    <3> QED BY <1>6, <3>1, <3>2
  <2> QED BY <1>6, <2>2, <2>3
<1>10. Rising(more, low, FirstFrame(n))
    BY <1>5, <1>8, <1>9 DEF Rising
<1>11. Before(more, rest)
  <2>1. SUFFICES ASSUME NEW i \in 1..Len(more), NEW j \in 1..Len(rest)
                 PROVE  more[i] < FirstFrame(rest[j].id)
    BY DEF Before
  <2>2. FirstFrame(m.id) + P <= FirstFrame(rest[j].id) /\ FirstFrame(rest[j].id) \in Int
    BY <1>1, <1>2
  <2>3. CASE i \in 1..Len(buffer) /\ more[i] = buffer[i]
    BY <1>1, <2>3 DEF InOrder, Before
  <2>4. CASE /\ i - Len(buffer) \in 1..P
             /\ more[i] = FirstFrame(m.id) + (i - Len(buffer)) - 1
    BY <1>2, <2>2, <2>4
  <2> QED BY <1>6, <2>3, <2>4
<1>12. InOrder(more, rest, low, n)
    BY <1>1, <1>10, <1>11 DEF InOrder
<1>13. \A f : InBuffer(f, more) => InBuffer(f, buffer) \/ InMessages(f, messages)
    BY <1>1, <1>6 DEF InBuffer
<1> QED BY <1>5, <1>12, <1>13 DEF more, new, m, rest

\* Frames leave the buffer at the front.
LEMMA SuffixKeepsOrder ==
    ASSUME NEW buffer, NEW messages, NEW low, NEW n, InOrder(buffer, messages, low, n),
           NEW rest \in Seq(Int), NEW gone \in Nat, Len(rest) + gone = Len(buffer),
           \A i \in 1..Len(rest) : rest[i] = buffer[i + gone]
    PROVE  /\ InOrder(rest, messages, low, n)
           /\ \A f : InBuffer(f, rest) => InBuffer(f, buffer)
<1>1. /\ buffer \in Seq(Int) /\ Len(buffer) \in Nat /\ Len(rest) \in Nat
      /\ \A i \in 1..Len(rest) : i + gone \in 1..Len(buffer)
    BY DEF InOrder, Rising
<1>2. Rising(rest, low, FirstFrame(n))
  <2>1. \A i \in 1..Len(rest) : low < rest[i] /\ rest[i] < FirstFrame(n)
    BY <1>1 DEF InOrder, Rising
  <2>2. \A i, j \in 1..Len(rest) : i < j => rest[i] < rest[j]
    <3>1. \A i, j \in 1..Len(rest) : i < j => i + gone < j + gone
      OBVIOUS
    <3> QED BY <1>1, <3>1 DEF InOrder, Rising
  <2> QED BY <2>1, <2>2 DEF Rising
<1>3. Before(rest, messages)
    BY <1>1 DEF InOrder, Before
<1>4. \A f : InBuffer(f, rest) => InBuffer(f, buffer)
    BY <1>1 DEF InBuffer
<1> QED BY <1>2, <1>3, <1>4 DEF InOrder

\* The frame in front is given.
LEMMA GiveKeepsOrder ==
    ASSUME NEW buffer, NEW messages, NEW low, NEW n, InOrder(buffer, messages, low, n),
           buffer # <<>>
    PROVE  /\ InOrder(Tail(buffer), messages, Head(buffer), n)
           /\ InBuffer(Head(buffer), buffer) /\ \A f : InBuffer(f, Tail(buffer)) => InBuffer(f, buffer)
           /\ Len(Tail(buffer)) < Len(buffer)
<1> DEFINE frame == Head(buffer)  rest == Tail(buffer)
<1>1. /\ frame = buffer[1] /\ frame \in Int /\ 1 \in 1..Len(buffer) /\ Len(buffer) \in Nat
      /\ rest \in Seq(Int) /\ Len(rest) + 1 = Len(buffer)
      /\ \A i \in 1..Len(rest) : rest[i] = buffer[i + 1] /\ i + 1 \in 1..Len(buffer) /\ 1 < i + 1
    BY TailFacts DEF InOrder, Rising
<1> HIDE DEF frame, rest
<1>2. InOrder(rest, messages, low, n) /\ \A f : InBuffer(f, rest) => InBuffer(f, buffer)
  <2>1. 1 \in Nat
    OBVIOUS
  <2> QED BY <1>1, <2>1, SuffixKeepsOrder
<1>3. frame < FirstFrame(n) /\ \A i \in 1..Len(rest) : frame < rest[i]
    BY <1>1 DEF InOrder, Rising
<1>4. \A j \in 1..Len(messages) : frame < FirstFrame(messages[j].id)
    BY <1>1 DEF InOrder, Before
<1>5. InOrder(rest, messages, frame, n)
    BY <1>1, <1>2, <1>3, <1>4 DEF InOrder, Rising, Waiting
<1>6. InBuffer(frame, buffer) /\ Len(rest) < Len(buffer)
    BY <1>1 DEF InBuffer
<1> QED BY <1>2, <1>5, <1>6 DEF frame, rest

\* What has to be shown of a step for FrameSource.
LEMMA ZmqMoves ==
    ASSUME Bounds, kind = "zmq", kind' = kind, format' = format,
           ZmqOrdered, InOrder(m_frame_buffer', socket', given', encoded'),
           encoded' \in {encoded, encoded + 1},
           given' = given \/ InBuffer(given', m_frame_buffer),
           \A f : InBuffer(f, m_frame_buffer') => InBuffer(f, m_frame_buffer) \/ InMessages(f, socket),
           \A f : InMessages(f, socket')
                    => InMessages(f, socket) \/ f \in FirstFrame(encoded)..(FirstFrame(encoded') - 1)
    PROVE  Moves
<1>1. /\ m_frame_buffer \in Seq(Int) /\ socket \in Seq(Message)
      /\ m_frame_buffer' \in Seq(Int) /\ socket' \in Seq(Message)
      /\ encoded \in Nat /\ encoded' \in Nat /\ encoded' <= Messages /\ given' \in Int
    BY DEF ZmqOrdered, InOrder, Rising, Waiting, Bounds
<1>2. /\ Arrived = FirstFrame(encoded) - 1 /\ Given = given
      /\ \A f : f \in Held <=> InBuffer(f, m_frame_buffer) \/ InMessages(f, socket)
      /\ Arrived' = FirstFrame(encoded') - 1 /\ Given' = given'
      /\ \A f : f \in Held' <=> InBuffer(f, m_frame_buffer') \/ InMessages(f, socket')
    BY <1>1, ZmqSeen, ZmqSeenNext
<1>3. /\ FirstFrame(encoded) \in Int /\ FirstFrame(encoded') \in Int /\ P \in 1..5
      /\ FirstFrame(encoded) <= FirstFrame(encoded')
      /\ FirstFrame(encoded') <= Messages * Zmq!SuperFrame
  <2>1. P \in 1..5 /\ FirstFrame(encoded) \in Int /\ FirstFrame(encoded') \in Int
    BY <1>1, FirstFrameFacts
  <2>2. FirstFrame(encoded + 1) = FirstFrame(encoded) + P
    BY <1>1, FirstFrameFacts
  <2>3. FirstFrame(encoded) <= FirstFrame(encoded')
    BY <2>1, <2>2
  <2>4. FirstFrame(encoded') <= Messages * Zmq!SuperFrame
    BY <1>1, FirstFrameFacts DEF Bounds
  <2> QED BY <2>1, <2>3, <2>4
<1>4. Arrived' \in Arrived..LastOfSource /\ Arrived \in Int
  <2>1. Messages * Zmq!SuperFrame <= LastOfSource /\ LastOfSource \in Int
    BY DEF Bounds, LastOfSource, Zmq!SuperFrame
  <2>2. Messages * Zmq!SuperFrame \in Int
    BY DEF Bounds, Zmq!SuperFrame
  <2> QED BY <1>2, <1>3, <2>1, <2>2
<1>5. Given' \in {Given} \union Held
    BY <1>2
<1>6. \A f : InBuffer(f, m_frame_buffer') => f > given'
  <2>1. \A i \in 1..Len(m_frame_buffer') : given' < m_frame_buffer'[i] /\ m_frame_buffer'[i] \in Int
    BY <1>1 DEF InOrder, Rising
  <2> QED BY <1>1, <2>1 DEF InBuffer
<1>7. \A f : InMessages(f, socket') => f > given'
  <2>1. SUFFICES ASSUME NEW j \in 1..Len(socket'), NEW i \in 1..P
                 PROVE  FirstFrame(socket'[j].id) + i - 1 > given'
    BY DEF InMessages
  <2>2. given' < FirstFrame(socket'[j].id)
    BY DEF InOrder, Waiting
  <2>3. FirstFrame(socket'[j].id) \in Int
    <3>1. socket'[j] \in Message
      BY <1>1
    <3> QED BY <3>1, MessageIds, FirstFrameFacts
  <2> QED BY <1>1, <1>3, <2>2, <2>3
<1>8. \A f \in Held' : f > Given' /\ f \in Held \union (Arrived + 1)..Arrived'
  <2>1. Arrived + 1 = FirstFrame(encoded)
    BY <1>2, <1>3
  <2> QED BY <1>2, <1>6, <1>7, <2>1
<1> QED BY <1>4, <1>5, <1>8 DEF Moves

LEMMA ZmqOrderedNext ==
    ASSUME format' = format, InOrder(m_frame_buffer', socket', given', encoded')
    PROVE  ZmqOrdered'
<1>1. P' = P
    BY DEF P, Zmq!PerMessage
<1> QED BY <1>1 DEF ZmqOrdered, InOrder, Rising, Waiting, Before, FirstFrame, Between, Ascending

\* A step that touches neither the frames nor what is on its way.
LEMMA ZmqStill ==
    ASSUME Bounds, kind = "zmq", kind' = kind, ZmqOrdered,
           UNCHANGED <<format, encoded, socket, m_frame_buffer, given>>
    PROVE  ZmqOrdered' /\ Moves
<1>1. /\ InOrder(m_frame_buffer', socket', given', encoded') /\ encoded' = encoded
      /\ format' = format /\ given' = given /\ m_frame_buffer' = m_frame_buffer /\ socket' = socket
    BY DEF ZmqOrdered
<1>2. ZmqOrdered'
    BY <1>1, ZmqOrderedNext
<1>3. Moves
    BY <1>1, ZmqMoves
<1> QED BY <1>2, <1>3

\* The levels go on when the buffer becomes no longer.
LEMMA ZmqLevelsKept ==
    ASSUME ZmqInv, format' = format, Len(m_frame_buffer') <= Len(m_frame_buffer),
           Len(m_frame_buffer') \in Nat, ZmqOverrun',
           buffer_size' \in Buffers, prebuffering' \in Prebufferings
    PROVE  ZmqLevels'
<1>1. P' = P /\ P \in 1..5
    BY FirstFrameFacts DEF P, Zmq!PerMessage
<1>2. PICK b \in Buffers : Len(m_frame_buffer) <= b + P
    BY DEF ZmqInv, ZmqLevels
<1>3. b \in Nat /\ Len(m_frame_buffer) \in Nat
    BY LevelsAssumption DEF Zmq!LevelsOK, ZmqInv, ZmqOrdered, InOrder, Rising
<1>4. Len(m_frame_buffer') <= b + P
    BY <1>1, <1>2, <1>3
<1> QED BY <1>1, <1>4 DEF ZmqInv, ZmqLevels

\* So does what an overrun has found, of which a step that is no part of one says nothing.
LEMMA ZmqOverrunKept ==
    ASSUME ZmqInv,
           \/ UNCHANGED <<reader, levels, m_frame_buffer>>
           \/ /\ reader # "undefined" /\ reader' \in {"idle", "received", "roomy"}
              /\ levels' \in {levels, Zmq!NoLevels}
    PROVE  ZmqOverrun'
<1>1. CASE UNCHANGED <<reader, levels, m_frame_buffer>>
    BY <1>1 DEF ZmqInv, ZmqLevels, ZmqOverrun, Zmq!RemovesWhatIsThere
<1>2. CASE /\ reader # "undefined" /\ reader' \in {"idle", "received", "roomy"}
           /\ levels' \in {levels, Zmq!NoLevels}
  <2>1. levels \in [limit : Int, again : Int, low : Int] /\ levels.low = Zmq!NotRead
    BY <1>2 DEF ZmqInv, ZmqLevels, ZmqOverrun
  <2>2. /\ Zmq!NoLevels \in [limit : Int, again : Int, low : Int]
        /\ Zmq!NoLevels.low = Zmq!NotRead
    BY DEF Zmq!NoLevels, Zmq!NotRead
  <2>3. /\ levels' \in [limit : Int, again : Int, low : Int] /\ levels'.low = Zmq!NotRead
    BY <1>2, <2>1, <2>2
  <2> QED BY <1>2, <2>3 DEF ZmqOverrun, Zmq!RemovesWhatIsThere
<1> QED BY <1>1, <1>2

ZmqCorrect == ZmqInv' /\ Moves

LEMMA ZmqEncodes ==
    ASSUME Bounds, kind = "zmq", kind' = kind, ZmqInv, NEW right \in BOOLEAN, Zmq!Encode(right)
    PROVE  ZmqCorrect
<1> DEFINE m == [id |-> encoded, right |-> right]
<1>1. /\ encoded < Messages /\ encoded' = encoded + 1 /\ format' = format
      /\ m_frame_buffer' = m_frame_buffer /\ given' = given
      /\ socket' = socket \/ socket' = Append(socket, m)
      /\ levels' = levels /\ reader' = reader
      /\ buffer_size' = buffer_size /\ prebuffering' = prebuffering
    BY DEF Zmq!Encode, Zmq!settings
<1>2. ZmqOrdered /\ InOrder(m_frame_buffer, socket, given, encoded) /\ Messages \in Nat
    BY DEF ZmqInv, ZmqOrdered, Bounds
<1>3. /\ InOrder(m_frame_buffer, socket, given, encoded + 1)
      /\ InOrder(m_frame_buffer, Append(socket, m), given, encoded + 1)
      /\ \A f : InMessages(f, Append(socket, m))
                  => InMessages(f, socket)
                       \/ f \in FirstFrame(encoded)..(FirstFrame(encoded + 1) - 1)
    BY <1>1, <1>2, EncodeKeepsOrder
<1> HIDE DEF m
<1>4. InOrder(m_frame_buffer', socket', given', encoded')
    BY <1>1, <1>3
<1>5. \A f : InMessages(f, socket')
               => InMessages(f, socket) \/ f \in FirstFrame(encoded)..(FirstFrame(encoded') - 1)
    BY <1>1, <1>3
<1>6. Moves
    BY <1>1, <1>2, <1>4, <1>5, ZmqMoves
<1>7. ZmqOrdered'
    BY <1>1, <1>4, ZmqOrderedNext
<1>8. ZmqLevels'
  <2>1. Len(m_frame_buffer) \in Nat
    BY <1>2 DEF InOrder, Rising
  <2>2. ZmqOverrun'
    BY <1>1, ZmqOverrunKept
  <2> QED BY <1>1, <2>1, <2>2, ZmqLevelsKept DEF ZmqInv, ZmqLevels
<1> QED BY <1>6, <1>7, <1>8 DEF ZmqCorrect, ZmqInv

LEMMA ZmqReadsMessage ==
    ASSUME Bounds, kind = "zmq", kind' = kind, ZmqInv, Zmq!ReadMessage
    PROVE  ZmqCorrect
<1> DEFINE new == Zmq!FramesOf(Head(socket))
<1>1. /\ socket # <<>> /\ socket' = Tail(socket) /\ encoded' = encoded /\ format' = format
      /\ given' = given /\ reader = "idle" /\ reader' = "received" /\ levels' = levels
      /\ buffer_size' = buffer_size /\ prebuffering' = prebuffering
      /\ \/ m_frame_buffer' = m_frame_buffer
         \/ m_frame_buffer' = m_frame_buffer \o new /\ Len(m_frame_buffer) <= buffer_size
    BY DEF Zmq!ReadMessage, Zmq!settings, Zmq!Stored, Zmq!Accepts
<1>2. ZmqOrdered /\ InOrder(m_frame_buffer, socket, given, encoded) /\ Len(m_frame_buffer) \in Nat
    BY DEF ZmqInv, ZmqOrdered, InOrder, Rising
<1>3. /\ InOrder(m_frame_buffer, Tail(socket), given, encoded)
      /\ \A f : InMessages(f, Tail(socket)) => InMessages(f, socket)
    BY <1>1, <1>2, TakenMessage
<1>4. /\ InOrder(m_frame_buffer \o new, Tail(socket), given, encoded)
      /\ Len(m_frame_buffer \o new) = Len(m_frame_buffer) + P
      /\ \A f : InBuffer(f, m_frame_buffer \o new)
                   => InBuffer(f, m_frame_buffer) \/ InMessages(f, socket)
    BY <1>1, <1>2, StoreKeepsOrder
<1> HIDE DEF new
<1>5. /\ InOrder(m_frame_buffer', socket', given', encoded')
      /\ \A f : InBuffer(f, m_frame_buffer') => InBuffer(f, m_frame_buffer) \/ InMessages(f, socket)
    BY <1>1, <1>3, <1>4
<1>6. Moves
    BY <1>1, <1>2, <1>3, <1>5, ZmqMoves
<1>7. ZmqOrdered'
    BY <1>1, <1>5, ZmqOrderedNext
<1>8. ZmqLevels'
  <2>0. ZmqOverrun'
    BY <1>1, ZmqOverrunKept
  <2>1. CASE m_frame_buffer' = m_frame_buffer
    BY <1>1, <1>2, <2>0, <2>1, ZmqLevelsKept DEF ZmqInv, ZmqLevels
  <2>2. CASE m_frame_buffer' = m_frame_buffer \o new /\ Len(m_frame_buffer) <= buffer_size
    <3>1. buffer_size \in Buffers /\ buffer_size \in Nat
      BY LevelsAssumption DEF ZmqInv, ZmqLevels, Zmq!LevelsOK
    <3>2. P' = P /\ P \in 1..5
      BY <1>1, FirstFrameFacts DEF P, Zmq!PerMessage
    <3>3. Len(m_frame_buffer') <= buffer_size + P'
      BY <1>2, <1>4, <2>2, <3>1, <3>2
    <3> QED BY <1>1, <2>0, <3>1, <3>3 DEF ZmqInv, ZmqLevels
  <2> QED BY <1>1, <2>1, <2>2
<1> QED BY <1>6, <1>7, <1>8 DEF ZmqCorrect, ZmqInv

\* Frames are removed, no more than there are.
LEMMA ZmqDrops ==
    ASSUME Bounds, kind = "zmq", kind' = kind, ZmqInv, NEW gone \in Nat, NEW read,
           gone <= Len(m_frame_buffer), reader # "undefined", Zmq!Drop(gone, read)
    PROVE  ZmqCorrect
<1> DEFINE rest == SubSeq(m_frame_buffer, gone + 1, Len(m_frame_buffer))
<1>1. gone \in Nat /\ gone <= Len(m_frame_buffer)
    OBVIOUS
<1>2. ZmqOrdered /\ InOrder(m_frame_buffer, socket, given, encoded)
      /\ m_frame_buffer \in Seq(Int) /\ Len(m_frame_buffer) \in Nat
    BY DEF ZmqInv, ZmqOrdered, InOrder, Rising
<1>3. ~(gone > Len(m_frame_buffer))
    BY <1>1, <1>2
<1>4. /\ encoded' = encoded /\ format' = format /\ socket' = socket
      /\ given' = given /\ reader' = "roomy" /\ levels' = Zmq!NoLevels
      /\ buffer_size' = buffer_size /\ prebuffering' = prebuffering
      /\ m_frame_buffer' = rest
    BY <1>3 DEF Zmq!Drop, Zmq!settings, Zmq!network, ZmqInv, ZmqLevels
<1>5. /\ rest \in Seq(Int) /\ Len(rest) + gone = Len(m_frame_buffer)
      /\ \A i \in 1..Len(rest) : rest[i] = m_frame_buffer[i + gone]
  <2>1. /\ rest \in Seq(Int) /\ Len(rest) = Len(m_frame_buffer) - gone
        /\ \A i \in 1..Len(rest) : rest[i] = m_frame_buffer[gone + 1 + i - 1]
    BY <1>1, <1>2, SuffixFacts
  <2>2. gone \in Int /\ Len(m_frame_buffer) \in Int
    BY <1>1, <1>2
  <2> HIDE DEF rest
  <2>3. Len(rest) + gone = Len(m_frame_buffer)
    BY <2>1, <2>2
  <2>4. ASSUME NEW i \in 1..Len(rest) PROVE rest[i] = m_frame_buffer[i + gone]
    <3>1. i \in Int /\ gone + 1 + i - 1 = i + gone
      BY <2>2, <2>4
    <3>2. rest[i] = m_frame_buffer[gone + 1 + i - 1]
      BY <2>1, Zenon
    <3> QED BY <3>1, <3>2
  <2> QED BY <2>1, <2>3, <2>4, Zenon
<1> HIDE DEF rest
<1>6. /\ InOrder(m_frame_buffer', socket', given', encoded')
      /\ \A f : InBuffer(f, m_frame_buffer') => InBuffer(f, m_frame_buffer)
    BY <1>1, <1>2, <1>4, <1>5, SuffixKeepsOrder
<1>7. Moves
    BY <1>2, <1>4, <1>6, ZmqMoves
<1>8. ZmqOrdered'
    BY <1>4, <1>6, ZmqOrderedNext
<1>9. ZmqLevels'
  <2>1. Len(m_frame_buffer') \in Nat /\ Len(m_frame_buffer') <= Len(m_frame_buffer)
    BY <1>1, <1>2, <1>4, <1>5
  <2>2. ZmqOverrun'
    BY <1>4, ZmqOverrunKept
  <2> QED BY <1>4, <2>1, <2>2, ZmqLevelsKept DEF ZmqInv, ZmqLevels
<1> QED BY <1>7, <1>8, <1>9 DEF ZmqCorrect, ZmqInv

\* More is removed than there is: the frames are left as they are.
LEMMA ZmqUndefined ==
    ASSUME Bounds, kind = "zmq", kind' = kind, ZmqInv, NEW gone \in Nat, NEW read,
           gone > Len(m_frame_buffer), Zmq!Drop(gone, read),
           read \in [limit : Int, again : Int, low : Int],
           IF read.low = Zmq!NotRead THEN read.limit < Zmq!SuperFrame
           ELSE 2 * read.low > 3 * read.again
    PROVE  ZmqCorrect
<1>1. /\ UNCHANGED <<format, encoded, socket, m_frame_buffer, given>>
      /\ reader' = "undefined" /\ levels' = read
      /\ buffer_size' = buffer_size /\ prebuffering' = prebuffering
    BY DEF Zmq!Drop, Zmq!network, Zmq!settings
<1>2. ZmqOrdered' /\ Moves
    BY <1>1, ZmqStill DEF ZmqInv
<1>3. ZmqOverrun'
    BY <1>1 DEF ZmqOverrun, Zmq!RemovesWhatIsThere
<1>4. ZmqLevels'
  <2>1. Len(m_frame_buffer) \in Nat
    BY DEF ZmqInv, ZmqOrdered, InOrder, Rising
  <2> QED BY <1>1, <1>3, <2>1, ZmqLevelsKept DEF ZmqInv, ZmqLevels
<1> QED BY <1>2, <1>4 DEF ZmqCorrect, ZmqInv

LEMMA ZmqDropsSuperFrame ==
    ASSUME Bounds, kind = "zmq", kind' = kind, ZmqInv, Zmq!DropSuperFrame
    PROVE  ZmqCorrect
<1>1. /\ reader = "tooFull" /\ Zmq!Drop(5, levels) /\ 5 \in Nat
      /\ levels \in [limit : Int, again : Int, low : Int]
      /\ levels.low = Zmq!NotRead /\ levels.limit <= Len(m_frame_buffer)
    BY DEF Zmq!DropSuperFrame, Zmq!SuperFrame, ZmqInv, ZmqLevels, ZmqOverrun
<1>2. Len(m_frame_buffer) \in Nat
    BY DEF ZmqInv, ZmqOrdered, InOrder, Rising
<1>3. CASE 5 <= Len(m_frame_buffer)
    BY <1>1, <1>3, ZmqDrops
<1>4. CASE 5 > Len(m_frame_buffer)
  <2>1. levels.limit \in Int /\ levels.limit < Zmq!SuperFrame
    BY <1>1, <1>2, <1>4 DEF Zmq!SuperFrame
  <2> QED BY <1>1, <1>4, <2>1, ZmqUndefined
<1> QED BY <1>2, <1>3, <1>4

\* The unsigned difference exceeds what there is only when the level is above it.
LEMMA ZmqDropsToPrebuffering ==
    ASSUME Bounds, kind = "zmq", kind' = kind, ZmqInv, Zmq!DropToPrebuffering
    PROVE  ZmqCorrect
<1> DEFINE over == Len(m_frame_buffer) - prebuffering
           gone == over % SizeModulus
           read == [levels EXCEPT !.low = prebuffering]
<1>1. /\ reader = "farTooFull" /\ Zmq!Drop(gone, read)
      /\ levels \in [limit : Int, again : Int, low : Int]
      /\ 2 * Len(m_frame_buffer) >= 3 * levels.again
    BY DEF Zmq!DropToPrebuffering, ZmqInv, ZmqLevels, ZmqOverrun
<1>2. Len(m_frame_buffer) \in Nat /\ prebuffering \in Nat
    BY LevelsAssumption DEF ZmqInv, ZmqOrdered, InOrder, Rising, ZmqLevels, Zmq!LevelsOK
<1>3. gone \in Nat /\ (over >= 0 => gone <= over) /\ over \in Int
  <2>1. over \in Int
    BY <1>2
  <2>2. \A x \in Int : x % SizeModulus \in Nat /\ (x >= 0 => x % SizeModulus <= x)
    BY DEF Bounds
  <2> HIDE DEF over
  <2> QED BY <2>1, <2>2
<1>4. /\ read \in [limit : Int, again : Int, low : Int]
      /\ read.low = prebuffering /\ read.again = levels.again
    BY <1>1, <1>2
<1> HIDE DEF gone, read
<1>5. CASE gone <= Len(m_frame_buffer)
    BY <1>1, <1>3, <1>5, ZmqDrops
<1>6. CASE gone > Len(m_frame_buffer)
  <2>1. ~(over >= 0)
    BY <1>2, <1>3, <1>6
  <2>2. prebuffering > Len(m_frame_buffer)
    BY <1>2, <2>1
  <2>3. read.low # Zmq!NotRead
    BY <1>2, <1>4 DEF Zmq!NotRead
  <2>4. levels.again \in Int
    BY <1>1
  <2>5. 2 * read.low > 3 * read.again
    BY <1>1, <1>2, <1>4, <2>2, <2>4
  <2> QED BY <1>1, <1>3, <1>4, <1>6, <2>3, <2>5, ZmqUndefined
<1>7. gone <= Len(m_frame_buffer) \/ gone > Len(m_frame_buffer)
    BY <1>2, <1>3
<1> QED BY <1>5, <1>6, <1>7

LEMMA ZmqGives ==
    ASSUME Bounds, kind = "zmq", kind' = kind, ZmqInv, Zmq!Give
    PROVE  ZmqCorrect
<1>1. /\ m_frame_buffer # <<>> /\ given' = Head(m_frame_buffer)
      /\ m_frame_buffer' = Tail(m_frame_buffer)
      /\ encoded' = encoded /\ format' = format /\ socket' = socket
      /\ reader = "roomy" /\ reader' = "idle" /\ levels' = levels
      /\ buffer_size' = buffer_size /\ prebuffering' = prebuffering
    BY DEF Zmq!Give, Zmq!settings, Zmq!network
<1>2. ZmqOrdered /\ InOrder(m_frame_buffer, socket, given, encoded)
      /\ m_frame_buffer \in Seq(Int) /\ Len(m_frame_buffer) \in Nat
    BY DEF ZmqInv, ZmqOrdered, InOrder, Rising
<1>3. /\ InOrder(m_frame_buffer', socket', given', encoded')
      /\ InBuffer(given', m_frame_buffer)
      /\ \A f : InBuffer(f, m_frame_buffer') => InBuffer(f, m_frame_buffer)
      /\ Len(m_frame_buffer') < Len(m_frame_buffer)
    BY <1>1, <1>2, GiveKeepsOrder
<1>4. Moves
    BY <1>1, <1>2, <1>3, ZmqMoves
<1>5. ZmqOrdered'
    BY <1>1, <1>3, ZmqOrderedNext
<1>6. ZmqLevels'
  <2>1. Len(m_frame_buffer') \in Nat /\ Len(m_frame_buffer') <= Len(m_frame_buffer)
    BY <1>2, <1>3 DEF InOrder, Rising
  <2>2. ZmqOverrun'
    BY <1>1, ZmqOverrunKept
  <2> QED BY <1>1, <2>1, <2>2, ZmqLevelsKept DEF ZmqInv, ZmqLevels
<1> QED BY <1>4, <1>5, <1>6 DEF ZmqCorrect, ZmqInv

LEMMA ZmqStep ==
    ASSUME Bounds, kind = "zmq", kind' = kind, ZmqInv, Zmq!Next
    PROVE  ZmqCorrect
<1> DEFINE Still == UNCHANGED <<format, encoded, socket, m_frame_buffer, given>>
           Set == buffer_size' \in Buffers /\ prebuffering' \in Prebufferings
<1>1. Len(m_frame_buffer) \in Nat
    BY DEF ZmqInv, ZmqOrdered, InOrder, Rising
<1>2. ASSUME Still, Set, ZmqOverrun' PROVE ZmqCorrect
  <2>1. ZmqOrdered' /\ Moves
    BY <1>2, ZmqStill DEF ZmqInv
  <2>2. ZmqLevels'
    BY <1>1, <1>2, ZmqLevelsKept
  <2> QED BY <2>1, <2>2 DEF ZmqCorrect, ZmqInv
<1>3. ASSUME NEW right \in BOOLEAN, Zmq!Encode(right) PROVE ZmqCorrect
    BY <1>3, ZmqEncodes
<1>4. CASE Zmq!ReadNothing
  <2>1. Still /\ Set /\ reader = "idle" /\ reader' = "received" /\ levels' = levels
    BY <1>4 DEF Zmq!ReadNothing, Zmq!network, Zmq!settings, ZmqInv, ZmqLevels
  <2>2. ZmqOverrun'
    BY <2>1, ZmqOverrunKept
  <2> QED BY <1>2, <2>1, <2>2
<1>5. CASE Zmq!ReadMessage
    BY <1>5, ZmqReadsMessage
<1>6. CASE Zmq!LookAtLevel
  <2>1. Still /\ Set /\ reader = "received"
    BY <1>6 DEF Zmq!LookAtLevel, Zmq!network, Zmq!settings, ZmqInv, ZmqLevels
  <2>2. CASE Len(m_frame_buffer) >= buffer_size
    <3>1. /\ reader' = "overrun" /\ levels' = [levels EXCEPT !.limit = buffer_size]
          /\ levels \in [limit : Int, again : Int, low : Int] /\ levels.low = Zmq!NotRead
          /\ buffer_size \in Nat
      BY <1>6, <2>1, <2>2, LevelsAssumption
         DEF Zmq!LookAtLevel, ZmqInv, ZmqLevels, ZmqOverrun, Zmq!LevelsOK
    <3>2. /\ levels' \in [limit : Int, again : Int, low : Int]
          /\ levels'.low = Zmq!NotRead /\ levels'.limit = buffer_size
      BY <3>1
    <3>3. levels'.limit <= Len(m_frame_buffer')
      BY <1>1, <2>1, <2>2, <3>1, <3>2
    <3>4. ZmqOverrun'
      BY <3>1, <3>2, <3>3 DEF ZmqOverrun, Zmq!RemovesWhatIsThere
    <3> QED BY <1>2, <2>1, <3>4
  <2>3. CASE ~(Len(m_frame_buffer) >= buffer_size)
    <3>1. reader' = "roomy" /\ levels' = levels
      BY <1>6, <2>3 DEF Zmq!LookAtLevel
    <3>2. ZmqOverrun'
      BY <2>1, <3>1, ZmqOverrunKept
    <3> QED BY <1>2, <2>1, <3>2
  <2> QED BY <2>2, <2>3
<1>7. CASE Zmq!LookAgain
  <2>1. /\ Still /\ Set /\ reader = "overrun"
        /\ levels' = [levels EXCEPT !.again = buffer_size]
        /\ reader' \in {"farTooFull", "tooFull"}
        /\ reader' = "farTooFull" => 2 * Len(m_frame_buffer) >= 3 * buffer_size
    BY <1>7 DEF Zmq!LookAgain, Zmq!FarTooFull, Zmq!network, Zmq!settings, ZmqInv, ZmqLevels
  <2>2. /\ levels \in [limit : Int, again : Int, low : Int] /\ levels.low = Zmq!NotRead
        /\ levels.limit <= Len(m_frame_buffer) /\ buffer_size \in Nat
    BY <2>1, LevelsAssumption DEF ZmqInv, ZmqLevels, ZmqOverrun, Zmq!LevelsOK
  <2>3. /\ levels' \in [limit : Int, again : Int, low : Int]
        /\ levels'.low = Zmq!NotRead /\ levels'.limit = levels.limit
        /\ levels'.again = buffer_size
    BY <2>1, <2>2
  <2>4. ZmqOverrun'
    BY <2>1, <2>2, <2>3 DEF ZmqOverrun, Zmq!RemovesWhatIsThere
  <2> QED BY <1>2, <2>1, <2>4
<1>8. CASE Zmq!DropSuperFrame
    BY <1>8, ZmqDropsSuperFrame
<1>9. CASE Zmq!DropToPrebuffering
    BY <1>9, ZmqDropsToPrebuffering
<1>10. CASE Zmq!Prebuffer \/ Zmq!Underrun
  <2>1. Still /\ Set /\ reader = "roomy" /\ reader' = "idle" /\ levels' = levels
    BY <1>10 DEF Zmq!Prebuffer, Zmq!Underrun, Zmq!network, Zmq!settings, ZmqInv, ZmqLevels
  <2>2. ZmqOverrun'
    BY <2>1, ZmqOverrunKept
  <2> QED BY <1>2, <2>1, <2>2
<1>11. CASE Zmq!Give
    BY <1>11, ZmqGives
<1>12. CASE Zmq!SetParameter
  <2>1. Still /\ Set /\ UNCHANGED <<reader, levels>>
    BY <1>12 DEF Zmq!SetParameter, Zmq!SetBuffer, Zmq!SetPrebuffering, Zmq!SetEnable,
                 Zmq!SetKeyFile, Zmq!SetEncryption, Zmq!Command, Zmq!network, ZmqInv, ZmqLevels
  <2>2. ZmqOverrun'
    BY <2>1, ZmqOverrunKept
  <2> QED BY <1>2, <2>1, <2>2
<1> QED BY <1>3, <1>4, <1>5, <1>6, <1>7, <1>8, <1>9, <1>10, <1>11, <1>12
        DEF Zmq!Next, Zmq!ReadFrame

LEMMA ZmqInit == ASSUME Bounds, Zmq!Init PROVE ZmqInv
<1>1. /\ encoded = 0 /\ socket = <<>> /\ m_frame_buffer = <<>> /\ given = -1
      /\ buffer_size \in Buffers /\ prebuffering \in Prebufferings
      /\ reader = "idle" /\ levels = Zmq!NoLevels
    BY DEF Zmq!Init
<1>2. /\ <<>> \in Seq(Int) /\ <<>> \in Seq(Message) /\ Len(<<>>) = 0 /\ 1..0 = {}
      /\ FirstFrame(0) = 0 /\ P \in 1..5
  <2>1. P \in 1..5
    BY FirstFrameFacts
  <2> QED BY <2>1 DEF FirstFrame
<1>3. ZmqOrdered
    BY <1>1, <1>2 DEF ZmqOrdered, InOrder, Rising, Waiting, Before, Between, Ascending, Bounds
<1>4. ZmqLevels
  <2>1. buffer_size \in Nat
    BY <1>1, LevelsAssumption DEF Zmq!LevelsOK
  <2>2. Len(m_frame_buffer) <= buffer_size + P
    BY <1>1, <1>2, <2>1
  <2>3. ZmqOverrun
    BY <1>1 DEF ZmqOverrun, Zmq!RemovesWhatIsThere, Zmq!NoLevels, Zmq!NotRead
  <2> QED BY <1>1, <2>2, <2>3 DEF ZmqLevels
<1> QED BY <1>3, <1>4 DEF ZmqInv

-----------------------------------------------------------------------------
(***************************************************************************)
(* Edi: behind the frame played last come the one in front (pending, or    *)
(* popped by readFrame), the queue and the one being pushed, in the order  *)
(* of the source.                                                          *)
(***************************************************************************)
LinedUp(frames, coming, front, low, n) ==
    /\ n \in 0..SourceFrames /\ low \in Int /\ low < n
    /\ frames \in Seq(Edi!Frame) /\ Between(frames, low, n) /\ Ascending(frames)
    /\ coming \in Edi!Frame \union {Edi!NoFrame} /\ front \in Edi!Frame \union {Edi!NoFrame}
    /\ coming # Edi!NoFrame =>
          low < coming.id /\ coming.id < n /\ \A i \in 1..Len(frames) : frames[i].id < coming.id
    /\ front # Edi!NoFrame =>
          /\ low < front.id /\ front.id < n /\ \A i \in 1..Len(frames) : front.id < frames[i].id
          /\ coming # Edi!NoFrame => front.id < coming.id

\* The frames in a line, as the source numbers them.
InLine(f, frames, coming, front) ==
    \/ f \in Ids(frames)
    \/ coming # Edi!NoFrame /\ f = coming.id
    \/ front # Edi!NoFrame /\ f = front.id

LEMMA EdiFrames ==
    /\ \A x \in Edi!Frame : x.id \in Int /\ x.id >= 0 /\ x # Edi!NoFrame
    /\ Edi!NoFrame.id = -1
<1>1. SourceFrames \in Nat
    BY EdiAssumption DEF Edi!ConstantsOK
<1> QED BY <1>1 DEF Edi!Frame, Edi!NoFrame

LEMMA LineLoses ==
    ASSUME NEW frames, NEW coming, NEW front, NEW low, NEW n,
           LinedUp(frames, coming, front, low, n), n < SourceFrames
    PROVE  LinedUp(frames, coming, front, low, n + 1)
<1>1. SourceFrames \in Nat /\ n \in Int /\ n + 1 \in 0..SourceFrames /\ low \in Int /\ low < n
    BY EdiAssumption DEF Edi!ConstantsOK, LinedUp
<1>2. Between(frames, low, n + 1)
  <2>1. low <= low /\ n <= n + 1 /\ n + 1 \in Int /\ \A x \in Edi!Frame : x.id \in Int
    BY <1>1, EdiFrames
  <2> QED BY <1>1, <2>1, BetweenWidens DEF LinedUp
<1>3. /\ coming # Edi!NoFrame => coming.id \in Int /\ coming.id < n + 1
      /\ front # Edi!NoFrame => front.id \in Int /\ front.id < n + 1
    BY <1>1, EdiFrames DEF LinedUp
<1>4. low < n + 1
    BY <1>1
<1> QED BY <1>1, <1>2, <1>3, <1>4 DEF LinedUp

\* A frame of the source is taken in.
LEMMA LineReceives ==
    ASSUME NEW frames, NEW coming, NEW front, NEW low, NEW n, NEW new \in Edi!Frame, new.id = n,
           LinedUp(frames, coming, front, low, n), n < SourceFrames
    PROVE  LinedUp(frames, new, front, low, n + 1)
<1>1. LinedUp(frames, coming, front, low, n + 1) /\ n \in Int /\ low \in Int /\ low < n
  <2>1. LinedUp(frames, coming, front, low, n + 1)
    BY LineLoses
  <2>2. n \in Int /\ low \in Int /\ low < n
    BY EdiAssumption DEF LinedUp, Edi!ConstantsOK
  <2> QED BY <2>1, <2>2
<1>2. \A i \in 1..Len(frames) : frames[i].id < n
    BY DEF LinedUp, Between
<1>3. front # Edi!NoFrame => front.id < n
    BY DEF LinedUp
<1>4. n < n + 1
    BY <1>1
<1> QED BY <1>1, <1>2, <1>3, <1>4 DEF LinedUp

\* It enters the queue.
LEMMA LinePushes ==
    ASSUME NEW frames, NEW coming, NEW front, NEW low, NEW n,
           LinedUp(frames, coming, front, low, n), coming # Edi!NoFrame
    PROVE  /\ LinedUp(Append(frames, coming), Edi!NoFrame, front, low, n)
           /\ Ids(Append(frames, coming)) = Ids(frames) \union {coming.id}
<1> DEFINE more == Append(frames, coming)
<1>1. /\ frames \in Seq(Edi!Frame) /\ coming \in Edi!Frame /\ low \in Int /\ n \in Int
      /\ coming.id \in Int /\ low < coming.id /\ coming.id < n
      /\ \A i \in 1..Len(frames) : frames[i].id < coming.id
    BY EdiFrames DEF LinedUp
<1>2. Between(frames, low, coming.id) /\ Ascending(frames)
    BY <1>1 DEF LinedUp, Between
<1>3. /\ Between(more, low, n) /\ Ascending(more)
      /\ Ids(more) = Ids(frames) \union {coming.id}
  <2>1. \A x \in Edi!Frame : x.id \in Int
    BY EdiFrames
  <2> QED BY <1>1, <1>2, <2>1, AppendKeepsOrder
<1>4. /\ more \in Seq(Edi!Frame) /\ Len(frames) \in Nat /\ Len(more) = Len(frames) + 1
      /\ \A i \in 1..Len(frames) : more[i] = frames[i]
      /\ more[Len(frames) + 1] = coming
    BY <1>1, AppendFacts
<1> HIDE DEF more
<1>5. \A i \in 1..Len(more) : (i \in 1..Len(frames) /\ more[i] = frames[i]) \/ more[i] = coming
    BY <1>4
<1>6. front # Edi!NoFrame => \A i \in 1..Len(more) : front.id < more[i].id
    BY <1>5 DEF LinedUp
<1> QED BY <1>3, <1>4, <1>6 DEF LinedUp, more

\* The first of the queue leaves it.
LEMMA LinePops ==
    ASSUME NEW frames, NEW coming, NEW front, NEW low, NEW n,
           LinedUp(frames, coming, front, low, n), frames # <<>>
    PROVE  /\ Head(frames) \in Edi!Frame
           /\ LinedUp(Tail(frames), coming, Head(frames), low, n)
           /\ LinedUp(Tail(frames), coming, front, low, n)
           /\ Ids(frames) = Ids(Tail(frames)) \union {Head(frames).id}
           /\ Len(Tail(frames)) = Len(frames) - 1
<1> DEFINE first == Head(frames)  rest == Tail(frames)
<1>1. /\ first = frames[1] /\ first \in Edi!Frame /\ 1 \in 1..Len(frames)
      /\ rest \in Seq(Edi!Frame) /\ Len(rest) = Len(frames) - 1
      /\ \A i \in 1..Len(rest) : i + 1 \in 1..Len(frames) /\ rest[i] = frames[i + 1]
    BY TailFacts DEF LinedUp
<1>2. /\ Between(rest, low, n) /\ Ascending(rest)
      /\ \A j \in 1..Len(rest) : first.id < rest[j].id
      /\ Ids(frames) = Ids(rest) \union {first.id}
  <2>1. n \in Int
    BY DEF LinedUp
  <2> QED BY <2>1, TailKeepsOrder DEF LinedUp
<1> HIDE DEF first, rest
<1>3. low < first.id /\ first.id < n
    BY <1>1 DEF LinedUp, Between
<1>4. coming # Edi!NoFrame =>
        first.id < coming.id /\ \A i \in 1..Len(rest) : rest[i].id < coming.id
    BY <1>1 DEF LinedUp
<1>5. front # Edi!NoFrame => \A i \in 1..Len(rest) : front.id < rest[i].id
    BY <1>1 DEF LinedUp
<1>6. LinedUp(rest, coming, first, low, n)
    BY <1>1, <1>2, <1>3, <1>4 DEF LinedUp
<1>7. LinedUp(rest, coming, front, low, n)
    BY <1>1, <1>2, <1>4, <1>5 DEF LinedUp
<1> QED BY <1>1, <1>2, <1>6, <1>7 DEF first, rest

\* The frame in front is thrown away, or played.
LEMMA LineDiscards ==
    ASSUME NEW frames, NEW coming, NEW front, NEW low, NEW n,
           LinedUp(frames, coming, front, low, n)
    PROVE  LinedUp(frames, coming, Edi!NoFrame, low, n)
BY DEF LinedUp

LEMMA LinePlays ==
    ASSUME NEW frames, NEW coming, NEW front, NEW low, NEW n,
           LinedUp(frames, coming, front, low, n), front # Edi!NoFrame
    PROVE  LinedUp(frames, coming, Edi!NoFrame, front.id, n)
<1>1. front.id \in Int
    BY EdiFrames DEF LinedUp
<1>2. Between(frames, front.id, n)
    BY DEF LinedUp, Between
<1> QED BY <1>1, <1>2 DEF LinedUp

Front == IF Edi!InHand THEN sti ELSE m_pending_sti_frame

\* A frame in hand was popped by the buffer management that keeps none pending.
HandOK ==
    Edi!InHand =>
        /\ m_pending_sti_frame = Edi!NoFrame /\ sti # Edi!NoFrame
        /\ management = "prebuffering"

EdiOrdered ==
    /\ LinedUp(m_frames, incoming, Front, played.frame.id, sent)
    /\ HandOK
    /\ receiver \in {"pushing", "waiting"} => incoming # Edi!NoFrame

(***************************************************************************)
(* Its levels: the threshold of the receiver is twice a level that was     *)
(* set, an overrun has found the queue above the limit it has read, and    *)
(* its loop counts down to the other level it has read, or without end.    *)
(***************************************************************************)
EdiLevels ==
    /\ m_max_frames_overrun \in EdiBuffers /\ m_num_frames_prebuffering \in EdiPrebufferings
    /\ receiver \in {"pushing", "waiting"} => \E b \in EdiBuffers : threshold = 2 * b
    /\ \E b \in EdiBuffers : Len(m_frames) <= 2 * b
    /\ ediLevels \in [limit : Nat, low : Nat]
    /\ ediReader = "overrun" => Len(m_frames) > ediLevels.limit
    /\ ediReader = "dropping" => over_max \in Nat
    /\ Edi!OverrunKeepsPrebuffering

\* A frame that the timestamped buffer management played was on time.
EdiTimes ==
    /\ clock \in Nat /\ m_tist_delay \in TistDelays
    /\ played.by = "timestamped" =>
          LET late == 2 * played.at + played.delay - (2 * played.frame.id + Phase)
          IN  /\ played.at \in Nat /\ played.frame.id \in Int
              /\ 0 <= late /\ late < 2

EdiInv == EdiOrdered /\ EdiLevels /\ EdiTimes

LEMMA EdiSeen ==
    ASSUME kind = "edi", LinedUp(m_frames, incoming, Front, played.frame.id, sent), HandOK
    PROVE  /\ Arrived = sent - 1 /\ Given = played.frame.id
           /\ \A f : f \in Held <=> InLine(f, m_frames, incoming, Front)
<1>1. Arrived = sent - 1 /\ Given = played.frame.id /\ Held = Edi!Held
    BY DEF Arrived, Given, Held, RawUdp
<1>2. /\ DOMAIN m_frames = 1..Len(m_frames)
      /\ \A i \in 1..Len(m_frames) : m_frames[i] # Edi!NoFrame
    BY EdiFrames DEF LinedUp
<1>3. \A x : x \in Edi!HeldFrames \ {Edi!NoFrame} <=>
          \/ \E i \in 1..Len(m_frames) : x = m_frames[i]
          \/ x # Edi!NoFrame /\ (x = incoming \/ x = Front)
    BY <1>2 DEF Edi!HeldFrames, Front, HandOK
<1>4. \A f : f \in Edi!Held <=> \E x \in Edi!HeldFrames \ {Edi!NoFrame} : f = x.id
    BY DEF Edi!Held
<1>5. \A f : f \in Edi!Held <=> InLine(f, m_frames, incoming, Front)
    BY <1>2, <1>3, <1>4 DEF InLine, Ids
<1> QED BY <1>1, <1>5

LEMMA EdiSeenNext ==
    ASSUME kind' = "edi", LinedUp(m_frames', incoming', Front', played'.frame.id, sent'), HandOK'
    PROVE  /\ Arrived' = sent' - 1 /\ Given' = played'.frame.id
           /\ \A f : f \in Held' <=> InLine(f, m_frames', incoming', Front')
<1>1. Arrived' = sent' - 1 /\ Given' = played'.frame.id /\ Held' = Edi!Held'
    BY DEF Arrived, Given, Held, RawUdp
<1>2. /\ DOMAIN m_frames' = 1..Len(m_frames')
      /\ \A i \in 1..Len(m_frames') : m_frames'[i] # Edi!NoFrame
    BY EdiFrames DEF LinedUp
<1>3. \A x : x \in Edi!HeldFrames' \ {Edi!NoFrame} <=>
          \/ \E i \in 1..Len(m_frames') : x = m_frames'[i]
          \/ x # Edi!NoFrame /\ (x = incoming' \/ x = Front')
    BY <1>2 DEF Edi!HeldFrames, Front, HandOK, Edi!NoFrame
<1>4. \A f : f \in Edi!Held' <=> \E x \in Edi!HeldFrames' \ {Edi!NoFrame} : f = x.id
    BY DEF Edi!Held, Edi!NoFrame
<1>5. \A f : f \in Edi!Held' <=> InLine(f, m_frames', incoming', Front')
    BY <1>2, <1>3, <1>4 DEF InLine, Ids
<1> QED BY <1>1, <1>5

LEMMA LastInRange ==
    \A a, b, c \in Int : a <= b /\ b <= c => a - 1 \in Int /\ b - 1 \in (a - 1)..c
OBVIOUS

\* What has to be shown of a step for FrameSource.
LEMMA EdiMoves ==
    ASSUME Bounds, kind = "edi", kind' = kind, EdiOrdered, HandOK',
           LinedUp(m_frames', incoming', Front', played'.frame.id, sent'),
           sent' \in {sent, sent + 1},
           played'.frame.id = played.frame.id \/ InLine(played'.frame.id, m_frames, incoming, Front),
           \A f : InLine(f, m_frames', incoming', Front')
                    => InLine(f, m_frames, incoming, Front) \/ f \in sent..(sent' - 1)
    PROVE  Moves
<1>1. /\ Arrived = sent - 1 /\ Given = played.frame.id
      /\ \A f : f \in Held <=> InLine(f, m_frames, incoming, Front)
      /\ Arrived' = sent' - 1 /\ Given' = played'.frame.id
      /\ \A f : f \in Held' <=> InLine(f, m_frames', incoming', Front')
  <2>1. LinedUp(m_frames, incoming, Front, played.frame.id, sent) /\ HandOK /\ kind' = "edi"
    BY DEF EdiOrdered
  <2> QED BY <2>1, EdiSeen, EdiSeenNext
<1>2. sent \in Nat /\ sent' \in Nat /\ sent' <= SourceFrames /\ played'.frame.id \in Int
    BY DEF EdiOrdered, LinedUp, Bounds
<1>3. Arrived \in Int /\ Arrived' \in Arrived..LastOfSource
  <2>1. Messages * Zmq!SuperFrame \in Nat
    BY DEF Bounds, Zmq!SuperFrame
  <2>2. SourceFrames <= LastOfSource /\ LastOfSource \in Int /\ SourceFrames \in Int
    BY <2>1 DEF Bounds, LastOfSource
  <2>3. sent' = sent \/ sent' = sent + 1
    OBVIOUS
  <2>4. sent <= sent'
    BY <1>2, <2>3
  <2>5. sent - 1 \in Int /\ sent' - 1 \in (sent - 1)..LastOfSource
    <3>1. sent \in Int /\ sent' \in Int
      BY <1>2
    <3>2. sent' <= LastOfSource
      BY <1>2, <2>2, <3>1
    <3> QED BY <2>2, <2>4, <3>1, <3>2, LastInRange
  <2> QED BY <1>1, <2>5
<1>4. \A f : InLine(f, m_frames', incoming', Front') => f > played'.frame.id
  <2>1. /\ \A i \in 1..Len(m_frames') : played'.frame.id < m_frames'[i].id /\ m_frames'[i].id \in Int
        /\ incoming' # Edi!NoFrame => played'.frame.id < incoming'.id /\ incoming'.id \in Int
        /\ Front' # Edi!NoFrame => played'.frame.id < Front'.id /\ Front'.id \in Int
    BY EdiFrames DEF LinedUp, Between
  <2>2. \A x, y \in Int : x < y => y > x
    OBVIOUS
  <2> QED BY <1>2, <2>1, <2>2 DEF InLine, Ids
<1>5. Arrived + 1 = sent
    BY <1>1, <1>2
<1>6. \A f \in Held' : f > Given' /\ f \in Held \union (Arrived + 1)..Arrived'
    BY <1>1, <1>4, <1>5
<1>7. Given' \in {Given} \union Held
    BY <1>1
<1> QED BY <1>3, <1>6, <1>7 DEF Moves

\* What readFrame does to the line: nothing, it throws away or plays the frame in front, or
\* it pops one.
Effect ==
    /\ sent' = sent /\ incoming' = incoming
    /\ \/ /\ m_frames' = m_frames /\ Front' \in {Front, Edi!NoFrame}
          /\ played'.frame = played.frame
       \/ /\ m_frames' = m_frames /\ Front # Edi!NoFrame /\ Front' = Edi!NoFrame
          /\ played'.frame = Front
       \/ /\ m_frames # <<>> /\ m_frames' = Tail(m_frames) /\ Front' \in {Front, Head(m_frames)}
          /\ played'.frame = played.frame

LEMMA EffectKeepsOrder ==
    ASSUME Bounds, kind = "edi", kind' = kind, EdiOrdered, HandOK', Effect,
           receiver' \in {"pushing", "waiting"} => receiver \in {"pushing", "waiting"}
    PROVE  EdiOrdered' /\ Moves
<1>1. LinedUp(m_frames, incoming, Front, played.frame.id, sent)
    BY DEF EdiOrdered
<1>2. /\ LinedUp(m_frames', incoming', Front', played'.frame.id, sent')
      /\ played'.frame.id = played.frame.id \/ InLine(played'.frame.id, m_frames, incoming, Front)
      /\ \A f : InLine(f, m_frames', incoming', Front') => InLine(f, m_frames, incoming, Front)
  <2>1. CASE /\ m_frames' = m_frames /\ Front' \in {Front, Edi!NoFrame}
             /\ played'.frame = played.frame
    BY <1>1, <2>1, LineDiscards DEF Effect, InLine
  <2>2. CASE /\ m_frames' = m_frames /\ Front # Edi!NoFrame /\ Front' = Edi!NoFrame
             /\ played'.frame = Front
    BY <1>1, <2>2, LinePlays DEF Effect, InLine
  <2>3. CASE /\ m_frames # <<>> /\ m_frames' = Tail(m_frames) /\ Front' \in {Front, Head(m_frames)}
             /\ played'.frame = played.frame
    <3>1. /\ LinedUp(m_frames', incoming, Front', played.frame.id, sent)
          /\ Ids(m_frames) = Ids(m_frames') \union {Head(m_frames).id}
      BY <1>1, <2>3, LinePops
    <3>2. LinedUp(m_frames', incoming', Front', played'.frame.id, sent')
      BY <2>3, <3>1 DEF Effect
    <3> QED BY <2>3, <3>1, <3>2 DEF Effect, InLine
  <2> QED BY <2>1, <2>2, <2>3 DEF Effect
<1>3. Moves
    BY <1>2, EdiMoves DEF Effect
<1>4. EdiOrdered'
  <2>1. receiver' \in {"pushing", "waiting"} => incoming' # Edi!NoFrame
    BY DEF Effect, EdiOrdered
  <2> QED BY <1>2, <2>1 DEF EdiOrdered, LinedUp, Between, Ascending, Edi!NoFrame, Edi!Frame
<1> QED BY <1>3, <1>4

EdiKeepsOrder == EdiOrdered' /\ Moves

LEMMA ReadKeepsOrder ==
    ASSUME Bounds, kind = "edi", kind' = kind, EdiOrdered, Edi!Read
    PROVE  EdiKeepsOrder
<1>1. ediReader = "idle" /\ Front = m_pending_sti_frame
      /\ UNCHANGED <<sent, incoming>>
    BY DEF Edi!Read, Edi!ReadPrebuffering, Edi!ReadPending, Edi!ReadQueue, Edi!ReadEmpty,
           Edi!ReadTimestamped, Edi!NextCall, Front, Edi!InHand, Edi!unread
<1>2. CASE Edi!ReadPrebuffering \/ Edi!ReadEmpty
  <2>1. /\ ediReader' = "idle" /\ m_frames' = m_frames /\ receiver' = receiver
        /\ m_pending_sti_frame' = m_pending_sti_frame /\ played' = played
    BY <1>2 DEF Edi!ReadPrebuffering, Edi!ReadEmpty, Edi!Silence
  <2>2. HandOK' /\ Front' = Front
    BY <1>1, <2>1 DEF HandOK, Front, Edi!InHand
  <2>3. Effect
    BY <1>1, <2>1, <2>2 DEF Effect
  <2> QED BY <2>1, <2>2, <2>3, EffectKeepsOrder DEF EdiKeepsOrder
<1>3. CASE Edi!ReadPending
  <2>1. /\ ediReader' = "idle" /\ m_frames' = m_frames /\ receiver' = receiver
        /\ m_pending_sti_frame # Edi!NoFrame
        /\ \/ m_pending_sti_frame' = m_pending_sti_frame /\ played' = played
           \/ m_pending_sti_frame' = Edi!NoFrame /\ played'.frame = m_pending_sti_frame
    BY <1>3 DEF Edi!ReadPending, Edi!Silence, Edi!Play
  <2>2. HandOK' /\ Front' = m_pending_sti_frame'
    BY <2>1 DEF HandOK, Front, Edi!InHand
  <2>3. Effect
    BY <1>1, <2>1, <2>2 DEF Effect
  <2> QED BY <2>1, <2>2, <2>3, EffectKeepsOrder DEF EdiKeepsOrder
<1>4. CASE Edi!ReadQueue
  <2>1. /\ m_frames # <<>> /\ m_frames' = Tail(m_frames) /\ sti' = Head(m_frames)
        /\ m_pending_sti_frame = Edi!NoFrame /\ m_pending_sti_frame' = Edi!NoFrame
        /\ played' = played /\ ediReader' \in {"idle", "popped"}
        /\ management' = "prebuffering"
        /\ receiver' \in {"pushing", "waiting"} => receiver \in {"pushing", "waiting"}
    BY <1>4 DEF Edi!ReadQueue, Edi!TryPop, Edi!Silence, Edi!NextCall
  <2>2. Head(m_frames) # Edi!NoFrame
    <3>1. LinedUp(m_frames, incoming, Front, played.frame.id, sent)
      BY DEF EdiOrdered
    <3>2. Head(m_frames) \in Edi!Frame
      BY <2>1, <3>1, LinePops
    <3> QED BY <3>2, EdiFrames
  <2>3. HandOK'
    BY <2>1, <2>2 DEF HandOK, Edi!InHand, Edi!NoFrame
  <2>4. Front' \in {Front, Head(m_frames)}
    BY <1>1, <2>1 DEF Front, Edi!InHand
  <2>5. Effect
    BY <1>1, <2>1, <2>4 DEF Effect
  <2> QED BY <2>1, <2>3, <2>5, EffectKeepsOrder DEF EdiKeepsOrder
<1>5. CASE Edi!ReadTimestamped
  <2>1. /\ ediReader' = "judging" /\ played' = played
        /\ \/ /\ m_frames' = m_frames /\ m_pending_sti_frame' = m_pending_sti_frame
              /\ receiver' = receiver
           \/ /\ m_frames # <<>> /\ m_frames' = Tail(m_frames)
              /\ m_pending_sti_frame' = Head(m_frames)
              /\ receiver' \in {"pushing", "waiting"} => receiver \in {"pushing", "waiting"}
    BY <1>5 DEF Edi!ReadTimestamped, Edi!TryPop
  <2>2. HandOK' /\ Front' = m_pending_sti_frame'
    BY <2>1 DEF HandOK, Front, Edi!InHand
  <2>3. Effect
    BY <1>1, <2>1, <2>2 DEF Effect
  <2> QED BY <2>1, <2>2, <2>3, EffectKeepsOrder DEF EdiKeepsOrder
<1> QED BY <1>2, <1>3, <1>4, <1>5 DEF Edi!Read

LEMMA ContinueKeepsOrder ==
    ASSUME Bounds, kind = "edi", kind' = kind, EdiOrdered, Edi!Continue
    PROVE  EdiKeepsOrder
<1>1. UNCHANGED <<sent, incoming, management>>
    BY DEF Edi!Continue, Edi!CheckOverrun, Edi!MeasureOverrun, Edi!DropOne, Edi!DropDone,
           Edi!LockWaits, Edi!LockDiscards, Edi!Lock, Edi!Stream, Edi!readVars, Edi!judgeVars,
           Edi!unread
<1>2. HandOK /\ LinedUp(m_frames, incoming, Front, played.frame.id, sent)
    BY DEF EdiOrdered
<1>3. CASE Edi!CheckOverrun \/ Edi!MeasureOverrun \/ Edi!DropOne \/ Edi!DropDone
  <2>1. /\ Edi!InHand /\ Front = sti /\ m_pending_sti_frame = Edi!NoFrame /\ sti # Edi!NoFrame
        /\ management = "prebuffering" /\ m_pending_sti_frame' = m_pending_sti_frame
    BY <1>2, <1>3 DEF Edi!CheckOverrun, Edi!MeasureOverrun, Edi!DropOne, Edi!DropDone,
                      Edi!readVars, Edi!InHand, Front, HandOK
  <2>2. CASE Edi!CheckOverrun \/ Edi!DropDone
    <3>1. /\ m_frames' = m_frames /\ receiver' = receiver
          /\ \/ ediReader' = "overrun" /\ sti' = sti /\ played' = played
             \/ ediReader' = "idle" /\ played'.frame = sti
      BY <2>2 DEF Edi!CheckOverrun, Edi!DropDone, Edi!Play
    <3>2. HandOK' /\ Front' = IF ediReader' = "overrun" THEN sti' ELSE m_pending_sti_frame'
      BY <1>1, <2>1, <3>1 DEF HandOK, Edi!InHand, Front, Edi!NoFrame
    <3>3. Effect
      BY <1>1, <2>1, <3>1, <3>2 DEF Effect
    <3> QED BY <3>1, <3>2, <3>3, EffectKeepsOrder DEF EdiKeepsOrder
  <2>3. CASE Edi!MeasureOverrun \/ Edi!DropOne
    <3>1. /\ ediReader' = "dropping" /\ sti' = sti /\ played' = played
          /\ receiver' \in {"pushing", "waiting"} => receiver \in {"pushing", "waiting"}
          /\ m_frames' = m_frames \/ (m_frames # <<>> /\ m_frames' = Tail(m_frames))
      BY <2>3 DEF Edi!MeasureOverrun, Edi!DropOne
    <3>2. HandOK' /\ Front' = sti
      BY <1>1, <2>1, <3>1 DEF HandOK, Edi!InHand, Front, Edi!NoFrame
    <3>3. Effect
      BY <1>1, <2>1, <3>1, <3>2 DEF Effect
    <3> QED BY <3>1, <3>2, <3>3, EffectKeepsOrder DEF EdiKeepsOrder
  <2> QED BY <1>3, <2>2, <2>3
<1>4. CASE Edi!LockWaits \/ Edi!LockDiscards \/ Edi!Lock \/ Edi!Stream
  <2>1. /\ ediReader = "judging" /\ Front = m_pending_sti_frame
        /\ ediReader' \in {"idle", "judging"}
    BY <1>4 DEF Edi!LockWaits, Edi!LockDiscards, Edi!Lock, Edi!Stream, Edi!Silence, Edi!Play,
                Edi!InHand, Front
  <2>2. HandOK' /\ Front' = m_pending_sti_frame'
    BY <2>1 DEF HandOK, Edi!InHand, Front
  <2>3. \/ /\ m_frames' = m_frames /\ receiver' = receiver
           /\ m_pending_sti_frame' \in {m_pending_sti_frame, Edi!NoFrame}
           /\ played' = played
        \/ /\ m_frames' = m_frames /\ receiver' = receiver
           /\ m_pending_sti_frame # Edi!NoFrame /\ m_pending_sti_frame' = Edi!NoFrame
           /\ played'.frame = m_pending_sti_frame
        \/ /\ m_frames # <<>> /\ m_frames' = Tail(m_frames)
           /\ m_pending_sti_frame' = Head(m_frames) /\ played' = played
           /\ receiver' \in {"pushing", "waiting"} => receiver \in {"pushing", "waiting"}
    <3>1. CASE Edi!LockWaits
      BY <3>1 DEF Edi!LockWaits, Edi!Silence
    <3>2. CASE Edi!LockDiscards
      BY <3>2 DEF Edi!LockDiscards, Edi!TryPop
    <3>3. CASE Edi!Lock
      BY <3>3 DEF Edi!Lock, Edi!Play, Edi!Playable, Edi!NoFrame
    <3>4. CASE Edi!Stream
      BY <3>4 DEF Edi!Stream, Edi!Play, Edi!Silence
    <3> QED BY <1>4, <3>1, <3>2, <3>3, <3>4
  <2>4. Effect /\ (receiver' \in {"pushing", "waiting"} => receiver \in {"pushing", "waiting"})
    BY <1>1, <2>1, <2>2, <2>3 DEF Effect
  <2> QED BY <2>2, <2>4, EffectKeepsOrder DEF EdiKeepsOrder
<1> QED BY <1>3, <1>4 DEF Edi!Continue

LEMMA ReceiverKeepsOrder ==
    ASSUME Bounds, kind = "edi", kind' = kind, EdiOrdered, Edi!Receiver
    PROVE  EdiKeepsOrder
<1>1. /\ HandOK /\ LinedUp(m_frames, incoming, Front, played.frame.id, sent)
      /\ sent \in Nat /\ SourceFrames \in Nat
    BY DEF EdiOrdered, LinedUp, Bounds
<1>2. UNCHANGED <<m_pending_sti_frame, sti, ediReader, management, played>>
    BY DEF Edi!Receiver, Edi!Receive, Edi!Lose, Edi!Push, Edi!ReceiverExits
<1>3. HandOK' /\ Front' = Front
    BY <1>1, <1>2 DEF HandOK, Front, Edi!InHand, Edi!NoFrame
<1>4. CASE Edi!Receive
  <2>1. /\ sent < SourceFrames /\ sent' = sent + 1 /\ m_frames' = m_frames
        /\ incoming' \in Edi!Frame /\ incoming'.id = sent
    <3>1. PICK k \in FrameKinds[sent] :
             incoming' = [id |-> sent, right |-> k.right, valid |-> k.valid]
      BY <1>4 DEF Edi!Receive
    <3>3. sent < SourceFrames /\ sent' = sent + 1 /\ m_frames' = m_frames
      BY <1>4 DEF Edi!Receive
    <3>4. sent \in 0..(SourceFrames - 1)
      BY <1>1, <3>3
    <3>2. k \in [right : BOOLEAN, valid : BOOLEAN]
      BY <3>4, EdiAssumption DEF Edi!ConstantsOK
    <3> QED BY <3>1, <3>2, <3>3, <3>4 DEF Edi!Frame
  <2>2. LinedUp(m_frames', incoming', Front', played'.frame.id, sent')
    BY <1>1, <1>2, <1>3, <2>1, LineReceives
  <2>3. incoming' # Edi!NoFrame
    BY <2>1, EdiFrames
  <2>4. \A f : InLine(f, m_frames', incoming', Front')
                 => InLine(f, m_frames, incoming, Front) \/ f \in sent..(sent' - 1)
    <3>1. sent \in sent..(sent' - 1)
      BY <1>1, <2>1
    <3> QED BY <1>3, <2>1, <3>1 DEF InLine
  <2>5. Moves
    BY <1>2, <1>3, <2>1, <2>2, <2>4, EdiMoves
  <2>6. EdiOrdered'
    BY <1>3, <2>2, <2>3 DEF EdiOrdered, LinedUp, Between, Ascending, Edi!NoFrame, Edi!Frame
  <2> QED BY <2>5, <2>6 DEF EdiKeepsOrder
<1>5. CASE Edi!Lose
  <2>1. /\ sent < SourceFrames /\ sent' = sent + 1 /\ m_frames' = m_frames
        /\ incoming' = incoming /\ receiver' = receiver
    BY <1>5 DEF Edi!Lose
  <2>2. LinedUp(m_frames', incoming', Front', played'.frame.id, sent')
    BY <1>1, <1>2, <1>3, <2>1, LineLoses
  <2>3. Moves
    BY <1>2, <1>3, <2>1, <2>2, EdiMoves
  <2>4. EdiOrdered'
    BY <1>3, <2>1, <2>2 DEF EdiOrdered, LinedUp, Between, Ascending, Edi!NoFrame, Edi!Frame
  <2> QED BY <2>3, <2>4 DEF EdiKeepsOrder
<1>6. CASE Edi!Push
  <2>1. /\ sent' = sent /\ incoming # Edi!NoFrame
        /\ \/ m_frames' = m_frames /\ incoming' = incoming
           \/ /\ m_frames' = Append(m_frames, incoming) /\ incoming' = Edi!NoFrame
              /\ receiver' = "receiving"
    BY <1>6 DEF Edi!Push, EdiOrdered
  <2>2. LinedUp(m_frames', incoming', Front', played'.frame.id, sent')
    BY <1>1, <1>2, <1>3, <2>1, LinePushes
  <2>3. \A f : InLine(f, m_frames', incoming', Front') => InLine(f, m_frames, incoming, Front)
    <3>1. \/ m_frames' = m_frames /\ incoming' = incoming
          \/ Ids(m_frames') = Ids(m_frames) \union {incoming.id} /\ incoming' = Edi!NoFrame
      BY <1>1, <2>1, LinePushes
    <3> QED BY <1>3, <2>1, <3>1 DEF InLine
  <2>4. Moves
    BY <1>2, <1>3, <2>1, <2>2, <2>3, EdiMoves
  <2>5. receiver' \in {"pushing", "waiting"} => incoming' # Edi!NoFrame
    BY <2>1
  <2>6. EdiOrdered'
    BY <1>3, <2>2, <2>5 DEF EdiOrdered, LinedUp, Between, Ascending, Edi!NoFrame, Edi!Frame
  <2> QED BY <2>4, <2>6 DEF EdiKeepsOrder
<1>7. CASE Edi!ReceiverExits
  <2>1. sent' = sent /\ m_frames' = m_frames /\ incoming' = incoming /\ receiver' = "exited"
    BY <1>7 DEF Edi!ReceiverExits
  <2>2. Effect
    BY <1>2, <1>3, <2>1 DEF Effect
  <2> QED BY <1>3, <2>1, <2>2, EffectKeepsOrder DEF EdiKeepsOrder
<1> QED BY <1>4, <1>5, <1>6, <1>7 DEF Edi!Receiver

LEMMA EdiOrderStep ==
    ASSUME Bounds, kind = "edi", kind' = kind, EdiOrdered, Edi!Next
    PROVE  EdiKeepsOrder
<1>1. CASE Edi!SetParameter \/ Edi!Stop \/ Edi!Join
  <2>1. /\ UNCHANGED <<m_frames, m_pending_sti_frame, sti, management, played, sent, incoming,
                       receiver>>
        /\ ediReader' = ediReader \/ (ediReader = "idle" /\ ediReader' = "joined")
    BY <1>1 DEF Edi!SetParameter, Edi!Stop, Edi!Join, Edi!receiverVars
  <2>2. HandOK' /\ Front' = Front
    BY <2>1 DEF HandOK, Front, Edi!InHand, EdiOrdered, Edi!NoFrame
  <2>3. Effect
    BY <2>1, <2>2 DEF Effect
  <2> QED BY <2>1, <2>2, <2>3, EffectKeepsOrder DEF EdiKeepsOrder
<1> QED BY <1>1, ReadKeepsOrder, ContinueKeepsOrder, ReceiverKeepsOrder DEF Edi!Next

LEMMA EdiNumbers ==
    ASSUME EdiInv
    PROVE  /\ m_frames \in Seq(Edi!Frame) /\ Len(m_frames) \in Nat
           /\ EdiBuffers \subseteq Nat /\ EdiPrebufferings \subseteq Nat
           /\ m_tist_delay \in Int /\ Phase \in Nat /\ clock \in Nat
BY EdiAssumption DEF EdiInv, EdiOrdered, LinedUp, EdiTimes, Edi!ConstantsOK

\* The levels go on when the queue becomes no longer and no overrun begins.
LEMMA EdiLevelsKept ==
    ASSUME EdiInv, Len(m_frames') \in Nat, Len(m_frames') <= Len(m_frames),
           m_max_frames_overrun' \in EdiBuffers, m_num_frames_prebuffering' \in EdiPrebufferings,
           threshold' = threshold, ediLevels' \in {ediLevels, Edi!NoLevels},
           receiver' \in {"pushing", "waiting"} => receiver \in {"pushing", "waiting"},
           ediReader' \notin {"overrun", "dropping"}
    PROVE  EdiLevels'
<1>1. \E b \in EdiBuffers : Len(m_frames') <= 2 * b
  <2>1. PICK b \in EdiBuffers : Len(m_frames) <= 2 * b
    BY DEF EdiInv, EdiLevels
  <2>2. b \in Nat /\ Len(m_frames) \in Nat
    BY EdiNumbers
  <2>3. Len(m_frames') <= 2 * b
    BY <2>1, <2>2
  <2> QED BY <2>3
<1>2. ediLevels' \in [limit : Nat, low : Nat]
    BY DEF EdiInv, EdiLevels, Edi!NoLevels
<1> QED BY <1>1, <1>2 DEF EdiInv, EdiLevels, Edi!OverrunKeepsPrebuffering

\* A remainder is no more than what is not negative, and no less than one turn above what is.
LEMMA Unsigned ==
    ASSUME NEW n \in Nat \ {0}, NEW x \in Int
    PROVE  /\ x % n \in Nat
           /\ x >= 0 => x % n <= x
           /\ x < 0 => x % n >= x + n
<1>1. x % n \in 0..(n - 1) /\ x \div n \in Int /\ x = n * (x \div n) + (x % n)
    OBVIOUS
<1>2. \A y, z \in Nat : y * z \in Nat
    OBVIOUS
<1>3. x >= 0 => x % n <= x
    OBVIOUS
<1>4. x < 0 => x % n >= x + n
  <2>1. SUFFICES ASSUME x < 0 PROVE x % n >= x + n
    OBVIOUS
  <2> DEFINE q == x \div n  r == x % n
  <2>2. q \in Int /\ r \in Nat /\ x = n * q + r
    BY <1>1
  <2> HIDE DEF q, r
  <2>3. ~(q >= 0)
    <3>1. ASSUME q >= 0 PROVE FALSE
      <4>1. n * q \in Nat
        BY <1>2, <2>2, <3>1
      <4> QED BY <2>1, <2>2, <4>1
    <3> QED BY <3>1
  <2>4. -q - 1 \in Nat /\ n * (-q - 1) = -(n * q) - n
    BY <2>2, <2>3
  <2>5. n * (-q - 1) \in Nat
    BY <1>2, <2>4
  <2>6. r >= x + n
    BY <2>2, <2>4, <2>5
  <2> QED BY <2>6 DEF r
<1> QED BY <1>1, <1>3, <1>4

LEMMA EdiLevelsStep ==
    ASSUME Bounds, EdiInv, Edi!Next PROVE EdiLevels'
<1>1. /\ m_frames \in Seq(Edi!Frame) /\ Len(m_frames) \in Nat
      /\ EdiBuffers \subseteq Nat /\ EdiPrebufferings \subseteq Nat
      /\ m_max_frames_overrun \in EdiBuffers /\ m_num_frames_prebuffering \in EdiPrebufferings
      /\ ediLevels \in [limit : Nat, low : Nat]
    BY EdiNumbers DEF EdiInv, EdiLevels
<1>2. m_frames # <<>> => /\ Len(Tail(m_frames)) \in Nat /\ Len(Tail(m_frames)) = Len(m_frames) - 1
    BY <1>1, TailFacts
<1>3. CASE Edi!Read
  <2>1. /\ m_frames' = m_frames \/ (m_frames # <<>> /\ m_frames' = Tail(m_frames))
        /\ UNCHANGED <<m_max_frames_overrun, m_num_frames_prebuffering, threshold>>
        /\ receiver' \in {"pushing", "waiting"} => receiver \in {"pushing", "waiting"}
        /\ ediReader' \in {"idle", "popped", "judging"} /\ ediLevels' = ediLevels
    BY <1>3 DEF Edi!Read, Edi!ReadPrebuffering, Edi!ReadPending, Edi!ReadQueue, Edi!ReadEmpty,
           Edi!ReadTimestamped, Edi!TryPop, Edi!Silence, Edi!Play, Edi!unread, Edi!parameters
  <2>2. Len(m_frames') \in Nat /\ Len(m_frames') <= Len(m_frames)
    BY <1>1, <1>2, <2>1
  <2> QED BY <1>1, <2>1, <2>2, EdiLevelsKept
<1>4. CASE Edi!LockWaits \/ Edi!LockDiscards \/ Edi!Lock \/ Edi!Stream
  <2>1. /\ m_frames' = m_frames \/ (m_frames # <<>> /\ m_frames' = Tail(m_frames))
        /\ UNCHANGED <<m_max_frames_overrun, m_num_frames_prebuffering, threshold>>
        /\ receiver' \in {"pushing", "waiting"} => receiver \in {"pushing", "waiting"}
        /\ ediReader' \in {"idle", "judging"} /\ ediLevels' = ediLevels
    BY <1>4 DEF Edi!LockWaits, Edi!LockDiscards, Edi!Lock, Edi!Stream, Edi!TryPop, Edi!Silence,
                Edi!Play, Edi!judgeVars, Edi!unread, Edi!parameters
  <2>2. Len(m_frames') \in Nat /\ Len(m_frames') <= Len(m_frames)
    BY <1>1, <1>2, <2>1
  <2> QED BY <1>1, <2>1, <2>2, EdiLevelsKept
<1>5. CASE Edi!CheckOverrun
  <2>1. /\ m_frames' = m_frames
        /\ UNCHANGED <<m_max_frames_overrun, m_num_frames_prebuffering, threshold, receiver>>
        /\ \/ /\ ediReader' = "overrun" /\ Len(m_frames) > m_max_frames_overrun
              /\ ediLevels' = [ediLevels EXCEPT !.limit = m_max_frames_overrun]
           \/ ediReader' = "idle" /\ ediLevels' = ediLevels
    BY <1>5 DEF Edi!CheckOverrun, Edi!Play, Edi!readVars, Edi!unread, Edi!parameters
  <2>2. CASE ediReader' = "idle" /\ ediLevels' = ediLevels
    BY <1>1, <2>1, <2>2, EdiLevelsKept
  <2>3. CASE /\ ediReader' = "overrun" /\ Len(m_frames) > m_max_frames_overrun
             /\ ediLevels' = [ediLevels EXCEPT !.limit = m_max_frames_overrun]
    <3>1. /\ ediLevels' \in [limit : Nat, low : Nat]
          /\ ediLevels'.limit = m_max_frames_overrun
      BY <1>1, <2>3
    <3>2. Len(m_frames') > ediLevels'.limit
      BY <2>1, <2>3, <3>1
    <3> QED BY <1>1, <2>1, <2>3, <3>1, <3>2
            DEF EdiInv, EdiLevels, Edi!OverrunKeepsPrebuffering
  <2> QED BY <2>1, <2>2, <2>3
<1>6. CASE Edi!MeasureOverrun
  <2>1. /\ ediReader = "overrun" /\ ediReader' = "dropping" /\ m_frames' = m_frames
        /\ UNCHANGED <<m_max_frames_overrun, m_num_frames_prebuffering, threshold, receiver>>
        /\ over_max' = (Len(m_frames) - m_num_frames_prebuffering) % SizeModulus
        /\ ediLevels' = [ediLevels EXCEPT !.low = m_num_frames_prebuffering]
    BY <1>6 DEF Edi!MeasureOverrun, Edi!readVars, Edi!unread, Edi!parameters
  <2>2. /\ ediLevels' \in [limit : Nat, low : Nat] /\ ediLevels'.limit = ediLevels.limit
        /\ ediLevels'.low = m_num_frames_prebuffering /\ m_num_frames_prebuffering \in Nat
        /\ ediLevels.limit \in Nat /\ Len(m_frames) > ediLevels.limit
    BY <1>1, <2>1 DEF EdiInv, EdiLevels
  <2> DEFINE over == Len(m_frames) - m_num_frames_prebuffering
             half == SizeModulus \div 2
  <2>3. /\ over \in Int /\ half \in Nat /\ 2 * half <= SizeModulus
        /\ SizeModulus \in Nat \ {0}
    BY <1>1, <2>2 DEF Bounds
  <2>4. Len(m_frames) < half /\ m_num_frames_prebuffering <= half
    <3>1. PICK b \in EdiBuffers : Len(m_frames) <= 2 * b
      BY DEF EdiInv, EdiLevels
    <3>2. 2 * b < half /\ b \in Nat /\ m_num_frames_prebuffering <= half
      BY <1>1, EdiAssumption DEF Edi!ConstantsOK
    <3> HIDE DEF half
    <3> QED BY <1>1, <2>3, <3>1, <3>2
  <2> HIDE DEF over
  <2>5. /\ over_max' \in Nat
        /\ over >= 0 => over_max' <= over
        /\ over < 0 => over_max' >= over + SizeModulus
    BY <2>1, <2>3, Unsigned DEF over
  <2> HIDE DEF half
  <2>6. Edi!Wrapped' <=> over_max' >= half
    BY DEF Edi!Wrapped, half
  <2>7. CASE over >= 0
    <3>1. ~Edi!Wrapped' /\ Len(m_frames) - over_max' >= m_num_frames_prebuffering
      BY <1>1, <2>2, <2>3, <2>4, <2>5, <2>6, <2>7 DEF over
    <3> QED BY <2>1, <2>2, <2>5, <3>1 DEF Edi!OverrunKeepsPrebuffering, EdiInv, EdiLevels
  <2>8. CASE over < 0
    <3>1. over_max' >= half
      BY <1>1, <2>2, <2>3, <2>4, <2>5, <2>8 DEF over
    <3>2. m_num_frames_prebuffering > ediLevels.limit + 1
      BY <1>1, <2>2, <2>8 DEF over
    <3> QED BY <2>1, <2>2, <2>5, <2>6, <3>1, <3>2
            DEF Edi!OverrunKeepsPrebuffering, EdiInv, EdiLevels
  <2> QED BY <2>3, <2>7, <2>8
<1>7. CASE Edi!DropOne
  <2>1. /\ ediReader = "dropping" /\ ediReader' = "dropping"
        /\ over_max > 0 /\ over_max' = IF Edi!Wrapped THEN over_max ELSE over_max - 1
        /\ m_frames' = IF m_frames = <<>> THEN <<>> ELSE Tail(m_frames)
        /\ UNCHANGED <<m_max_frames_overrun, m_num_frames_prebuffering, threshold, ediLevels>>
        /\ receiver' \in {"pushing", "waiting"} => receiver \in {"pushing", "waiting"}
    BY <1>7 DEF Edi!DropOne, Edi!readVars, Edi!unread, Edi!parameters
  <2>2. /\ over_max \in Nat /\ SizeModulus \div 2 \in Nat
        /\ IF Edi!Wrapped THEN ediLevels.low > ediLevels.limit + 1
           ELSE Len(m_frames) - over_max >= ediLevels.low
    BY <2>1 DEF EdiInv, EdiLevels, Edi!OverrunKeepsPrebuffering, Bounds
  <2>3. Len(m_frames') \in Nat /\ Len(m_frames') <= Len(m_frames)
    BY <1>1, <1>2, <2>1
  <2>4. \E b \in EdiBuffers : Len(m_frames') <= 2 * b
    <3>1. PICK b \in EdiBuffers : Len(m_frames) <= 2 * b
      BY DEF EdiInv, EdiLevels
    <3>2. Len(m_frames') <= 2 * b
      BY <1>1, <2>3, <3>1
    <3> QED BY <3>2
  <2>5. over_max' \in Nat /\ (Edi!Wrapped' <=> Edi!Wrapped \/ over_max' >= SizeModulus \div 2)
    BY <2>1, <2>2 DEF Edi!Wrapped
  <2>6. Edi!OverrunKeepsPrebuffering'
    <3>1. CASE Edi!Wrapped
      BY <2>1, <2>2, <2>5, <3>1 DEF Edi!OverrunKeepsPrebuffering
    <3>2. CASE ~Edi!Wrapped
      <4>1. over_max' = over_max - 1 /\ Len(m_frames) - over_max >= ediLevels.low
            /\ ~(over_max >= SizeModulus \div 2) /\ ediLevels.low \in Nat
        BY <1>1, <2>1, <2>2, <3>2 DEF Edi!Wrapped
      <4>2. m_frames # <<>>
        BY <2>1, <2>2, <4>1
      <4>3. Len(m_frames') - over_max' >= ediLevels.low
        BY <1>1, <1>2, <2>1, <2>2, <4>1, <4>2
      <4>4. ~Edi!Wrapped'
        BY <2>2, <2>5, <3>2, <4>1
      <4> QED BY <2>1, <4>3, <4>4 DEF Edi!OverrunKeepsPrebuffering
    <3> QED BY <3>1, <3>2
  <2> QED BY <1>1, <2>1, <2>4, <2>5, <2>6 DEF EdiInv, EdiLevels
<1>8. CASE Edi!DropDone
  <2>1. /\ m_frames' = m_frames /\ ediReader' = "idle" /\ ediLevels' = Edi!NoLevels
        /\ UNCHANGED <<m_max_frames_overrun, m_num_frames_prebuffering, threshold, receiver>>
    BY <1>8 DEF Edi!DropDone, Edi!Play, Edi!readVars, Edi!unread, Edi!parameters
  <2> QED BY <1>1, <2>1, EdiLevelsKept
<1>9. CASE Edi!Receive
  <2>1. /\ threshold' = 2 * m_max_frames_overrun /\ m_frames' = m_frames
        /\ UNCHANGED <<m_max_frames_overrun, m_num_frames_prebuffering, ediReader, over_max, ediLevels>>
    BY <1>9 DEF Edi!Receive, Edi!parameters
  <2> QED BY <1>1, <2>1 DEF EdiInv, EdiLevels, Edi!OverrunKeepsPrebuffering, Edi!Wrapped
<1>10. CASE Edi!Lose \/ Edi!ReceiverExits
  <2>1. /\ m_frames' = m_frames /\ threshold' = threshold
        /\ receiver' \in {"pushing", "waiting"} => receiver \in {"pushing", "waiting"}
        /\ UNCHANGED <<m_max_frames_overrun, m_num_frames_prebuffering, ediReader, over_max, ediLevels>>
    BY <1>10 DEF Edi!Lose, Edi!ReceiverExits, Edi!parameters
  <2> QED BY <1>1, <2>1 DEF EdiInv, EdiLevels, Edi!OverrunKeepsPrebuffering, Edi!Wrapped
<1>11. CASE Edi!Push
  <2>1. /\ receiver = "pushing" /\ threshold' = threshold
        /\ UNCHANGED <<m_max_frames_overrun, m_num_frames_prebuffering, ediReader, over_max, ediLevels>>
        /\ \/ m_frames' = m_frames
           \/ Len(m_frames) < threshold /\ m_frames' = Append(m_frames, incoming)
    BY <1>11 DEF Edi!Push, Edi!parameters
  <2>2. CASE m_frames' = m_frames
    BY <1>1, <2>1, <2>2 DEF EdiInv, EdiLevels, Edi!OverrunKeepsPrebuffering, Edi!Wrapped
  <2>3. CASE Len(m_frames) < threshold /\ m_frames' = Append(m_frames, incoming)
    <3>1. PICK b \in EdiBuffers : threshold = 2 * b
      BY <2>1 DEF EdiInv, EdiLevels, Edi!OverrunKeepsPrebuffering, Edi!Wrapped
    <3>2. Len(m_frames') = Len(m_frames) + 1
      BY <1>1, <2>3
    <3>3. Len(m_frames') <= 2 * b
      BY <1>1, <2>3, <3>1, <3>2
    <3>4. ediReader = "overrun" => Len(m_frames') > ediLevels.limit
      BY <1>1, <3>2 DEF EdiInv, EdiLevels
    <3>5. Edi!Wrapped' <=> Edi!Wrapped
      BY <2>1 DEF Edi!Wrapped
    <3>6. ediReader = "dropping" =>
            IF Edi!Wrapped THEN ediLevels.low > ediLevels.limit + 1
            ELSE Len(m_frames') - over_max >= ediLevels.low
      BY <1>1, <3>2 DEF EdiInv, EdiLevels, Edi!OverrunKeepsPrebuffering
    <3>7. Edi!OverrunKeepsPrebuffering'
      BY <2>1, <3>5, <3>6 DEF Edi!OverrunKeepsPrebuffering
    <3>8. ediReader = "dropping" => over_max \in Nat
      BY DEF EdiInv, EdiLevels
    <3> QED BY <1>1, <2>1, <3>1, <3>3, <3>4, <3>7, <3>8 DEF EdiLevels
  <2> QED BY <2>1, <2>2, <2>3
<1>12. CASE Edi!SetParameter
  <2>1. /\ m_frames' = m_frames /\ threshold' = threshold /\ receiver' = receiver
        /\ m_max_frames_overrun' \in EdiBuffers /\ m_num_frames_prebuffering' \in EdiPrebufferings
        /\ UNCHANGED <<ediReader, over_max, ediLevels>>
    BY <1>1, <1>12 DEF Edi!SetParameter, Edi!receiverVars
  <2> QED BY <1>1, <2>1 DEF EdiInv, EdiLevels, Edi!OverrunKeepsPrebuffering, Edi!Wrapped
<1>13. CASE Edi!Stop \/ Edi!Join
  <2>1. /\ m_frames' = m_frames /\ threshold' = threshold /\ receiver' = receiver
        /\ UNCHANGED <<m_max_frames_overrun, m_num_frames_prebuffering, over_max, ediLevels>>
        /\ ediReader' \in {ediReader, "joined"}
    BY <1>1, <1>13 DEF Edi!Stop, Edi!Join, Edi!receiverVars, Edi!parameters
  <2> QED BY <1>1, <2>1 DEF EdiInv, EdiLevels, Edi!OverrunKeepsPrebuffering, Edi!Wrapped
<1> QED BY <1>3, <1>4, <1>5, <1>6, <1>7, <1>8, <1>9, <1>10, <1>11, <1>12, <1>13
        DEF Edi!Next, Edi!Continue, Edi!Receiver

\* What is played is on time if the timestamped buffer management plays it.
LEMMA EdiTimesStep ==
    ASSUME EdiInv, Edi!Next PROVE EdiTimes'
<1>1. m_tist_delay \in Int /\ Phase \in Nat /\ clock \in Nat
    BY EdiNumbers
<1>0. m_tist_delay' \in TistDelays
  <2>1. m_tist_delay \in TistDelays
    BY DEF EdiInv, EdiTimes
  <2>2. CASE Edi!SetParameter
    BY <2>1, <2>2 DEF Edi!SetParameter
  <2>3. CASE ~Edi!SetParameter
    <3>1. m_tist_delay' = m_tist_delay
      BY <2>3 DEF Edi!Next, Edi!Read, Edi!ReadPrebuffering, Edi!ReadPending, Edi!ReadQueue,
                  Edi!ReadEmpty, Edi!ReadTimestamped, Edi!Continue, Edi!CheckOverrun,
                  Edi!MeasureOverrun, Edi!DropOne, Edi!DropDone, Edi!LockWaits,
                  Edi!LockDiscards, Edi!Lock, Edi!Stream, Edi!Receiver, Edi!Receive, Edi!Lose,
                  Edi!Push, Edi!ReceiverExits, Edi!Stop, Edi!Join, Edi!readVars,
                  Edi!judgeVars, Edi!unread, Edi!parameters
    <3> QED BY <2>1, <3>1
  <2> QED BY <2>2, <2>3
<1>2. ASSUME clock' \in Nat, played' = played PROVE EdiTimes'
    BY <1>0, <1>2 DEF EdiInv, EdiTimes
<1>3. ASSUME clock' \in Nat, played'.by # "timestamped" PROVE EdiTimes'
    BY <1>0, <1>3 DEF EdiTimes
<1>4. ASSUME clock' = clock, NEW f \in Edi!Frame, Edi!OnTime(f),
             played' = [frame |-> f, at |-> clock', by |-> management',
                        delay |-> m_tist_delay]
      PROVE  EdiTimes'
  <2>1. f.id \in Int
    BY EdiFrames
  <2>2. /\ 0 <= 2 * clock + m_tist_delay - (2 * f.id + Phase)
        /\ 2 * clock + m_tist_delay - (2 * f.id + Phase) < 2
    BY <1>4 DEF Edi!OnTime, Edi!Offset, Edi!Requested, Edi!Timestamp, Edi!FrameTicks
  <2>3. played'.frame = f /\ played'.at = clock /\ played'.delay = m_tist_delay
    BY <1>4
  <2> QED BY <1>0, <1>1, <1>4, <2>1, <2>2, <2>3 DEF EdiTimes
<1>5. CASE Edi!Read
  <2>1. clock' \in Nat
    BY <1>1, <1>5 DEF Edi!Read, Edi!ReadPrebuffering, Edi!ReadPending, Edi!ReadQueue,
                      Edi!ReadEmpty, Edi!ReadTimestamped, Edi!NextCall
  <2>2. played' = played \/ played'.by # "timestamped"
    BY <1>5 DEF Edi!Read, Edi!ReadPrebuffering, Edi!ReadPending, Edi!ReadQueue,
                Edi!ReadEmpty, Edi!ReadTimestamped, Edi!NextCall, Edi!Silence, Edi!Play
  <2> QED BY <1>2, <1>3, <2>1, <2>2
<1>6. CASE Edi!CheckOverrun \/ Edi!DropDone
  <2>1. management = "prebuffering" /\ management' = management /\ clock' = clock
    BY <1>6 DEF Edi!CheckOverrun, Edi!DropDone, Edi!readVars, EdiInv, EdiOrdered, HandOK, Edi!InHand
  <2>2. played' = played \/ played'.by # "timestamped"
    BY <1>6, <2>1 DEF Edi!CheckOverrun, Edi!DropDone, Edi!Play
  <2> QED BY <1>1, <1>2, <1>3, <2>1, <2>2
<1>7. CASE Edi!Lock \/ Edi!Stream
  <2>1. clock' = clock
    BY <1>7 DEF Edi!Lock, Edi!Stream, Edi!judgeVars
  <2>2. \/ played' = played
        \/ /\ m_pending_sti_frame # Edi!NoFrame /\ Edi!OnTime(m_pending_sti_frame)
           /\ played' = [frame |-> m_pending_sti_frame, at |-> clock', by |-> management',
                          delay |-> m_tist_delay]
    BY <1>7 DEF Edi!Lock, Edi!Stream, Edi!Silence, Edi!Play, Edi!Playable, Edi!NoFrame
  <2>3. Front = m_pending_sti_frame
    BY <1>7 DEF Edi!Lock, Edi!Stream, Front, Edi!InHand
  <2>4. m_pending_sti_frame # Edi!NoFrame => m_pending_sti_frame \in Edi!Frame
    BY <2>3 DEF EdiInv, EdiOrdered, LinedUp
  <2> QED BY <1>1, <1>2, <1>4, <2>1, <2>2, <2>4
<1>8. CASE \/ Edi!MeasureOverrun \/ Edi!DropOne \/ Edi!LockWaits \/ Edi!LockDiscards
           \/ Edi!Receiver \/ Edi!SetParameter \/ Edi!Stop \/ Edi!Join
  <2>1. clock' = clock /\ played' = played
    BY <1>8 DEF Edi!MeasureOverrun, Edi!DropOne, Edi!LockWaits, Edi!LockDiscards, Edi!Receiver,
                Edi!Receive, Edi!Lose, Edi!Push, Edi!ReceiverExits, Edi!SetParameter, Edi!Stop,
                Edi!Join, Edi!Silence, Edi!readVars, Edi!judgeVars
  <2> QED BY <1>1, <1>2, <2>1
<1> QED BY <1>5, <1>6, <1>7, <1>8 DEF Edi!Next, Edi!Continue

\* A locked input plays what is pending next: the window that locks is the one that keeps
\* the lock, one frame later.
LEMMA LockedPlaysNext ==
    ASSUME EdiInv, Edi!Next, Edi!Locked, Edi!NextIsPending, ediReader' = "idle"
    PROVE  played'.frame = m_pending_sti_frame
<1> DEFINE f == m_pending_sti_frame
<1>1. m_tist_delay \in Int /\ Phase \in Nat /\ clock \in Nat
    BY EdiNumbers
<1>2. /\ ediReader = "judging" /\ f.valid /\ f.id = played.frame.id + 1
      /\ played.by = "timestamped" /\ ~m_is_prebuffering /\ clock = played.at + 1
      /\ m_tist_delay = played.delay
    BY DEF Edi!Locked, Edi!NextIsPending
<1>3. f # Edi!NoFrame
    BY <1>2 DEF Edi!NoFrame
<1>4. /\ played.at \in Nat /\ played.frame.id \in Int
      /\ 0 <= 2 * played.at + played.delay - (2 * played.frame.id + Phase)
      /\ 2 * played.at + played.delay - (2 * played.frame.id + Phase) < 2
    BY <1>2 DEF EdiInv, EdiTimes
<1>5. Edi!OnTime(f)
  <2>1. /\ 0 <= 2 * clock + m_tist_delay - (2 * f.id + Phase)
        /\ 2 * clock + m_tist_delay - (2 * f.id + Phase) < 2
    BY <1>1, <1>2, <1>4
  <2> HIDE DEF f
  <2> QED BY <2>1 DEF Edi!OnTime, Edi!Offset, Edi!Requested, Edi!Timestamp, Edi!FrameTicks
<1>6. Edi!Stream
  <2>1. ~Edi!Read /\ ~Edi!Stop /\ ~Edi!Join
    BY <1>2 DEF Edi!Read, Edi!ReadPrebuffering, Edi!ReadPending, Edi!ReadQueue, Edi!ReadEmpty,
                Edi!ReadTimestamped, Edi!NextCall, Edi!Stop, Edi!Join
  <2>2. ~Edi!Receiver /\ ~Edi!SetParameter
    BY <1>2 DEF Edi!Receiver, Edi!Receive, Edi!Lose, Edi!Push, Edi!ReceiverExits, Edi!SetParameter
  <2>3. /\ ~Edi!CheckOverrun /\ ~Edi!MeasureOverrun /\ ~Edi!DropOne /\ ~Edi!DropDone
        /\ ~Edi!LockWaits /\ ~Edi!LockDiscards /\ ~Edi!Lock
    BY <1>2 DEF Edi!CheckOverrun, Edi!MeasureOverrun, Edi!DropOne, Edi!DropDone, Edi!LockWaits,
                Edi!LockDiscards, Edi!Lock
  <2> QED BY <2>1, <2>2, <2>3 DEF Edi!Next, Edi!Continue
<1> QED BY <1>2, <1>3, <1>5, <1>6 DEF Edi!Stream, Edi!Play

LEMMA EdiInit == ASSUME Bounds, Edi!Init PROVE EdiInv
<1>1. /\ m_frames = <<>> /\ m_pending_sti_frame = Edi!NoFrame /\ sent = 0
      /\ receiver = "receiving" /\ incoming = Edi!NoFrame /\ ediReader = "idle" /\ clock = 0
      /\ played = [frame |-> Edi!NoFrame, at |-> 0, by |-> "nobody", delay |-> 0]
      /\ ediLevels = Edi!NoLevels
    BY DEF Edi!Init
<1>0. /\ m_max_frames_overrun \in EdiBuffers /\ m_num_frames_prebuffering \in EdiPrebufferings
      /\ m_tist_delay \in TistDelays
    BY EdiAssumption DEF Edi!Init, Edi!ConstantsOK
<1>2. <<>> \in Seq(Edi!Frame) /\ Len(<<>>) = 0 /\ 1..0 = {}
    OBVIOUS
<1>3. EdiOrdered
  <2>1. Front = Edi!NoFrame /\ played.frame.id = -1
    BY <1>1, EdiFrames DEF Front, Edi!InHand
  <2> QED BY <1>1, <1>2, <2>1 DEF EdiOrdered, LinedUp, HandOK, Edi!InHand, Between, Ascending, Bounds
<1>4. EdiLevels
  <2>1. EdiBuffers \subseteq Nat
    BY EdiAssumption DEF Edi!ConstantsOK
  <2>2. Len(m_frames) <= 2 * m_max_frames_overrun
    BY <1>0, <1>1, <1>2, <2>1
  <2> QED BY <1>0, <1>1, <2>2 DEF EdiLevels, Edi!OverrunKeepsPrebuffering, Edi!NoLevels
<1>5. EdiTimes
    BY <1>0, <1>1 DEF EdiTimes
<1> QED BY <1>3, <1>4, <1>5 DEF EdiInv

LEMMA EdiStep ==
    ASSUME Bounds, kind = "edi", kind' = kind, EdiInv, Edi!Next
    PROVE  EdiInv' /\ Moves
BY EdiOrderStep, EdiLevelsStep, EdiTimesStep DEF EdiInv, EdiKeepsOrder

-----------------------------------------------------------------------------
(***************************************************************************)
(* InputStat: how what is kept is related to what happened.                *)
(***************************************************************************)
Late == ResetTime + PollPeriod

StatTypes ==
    /\ m_buffer_fill_stats \subseteq [age : Nat, full : BOOLEAN]
    /\ m_peak_stats \subseteq [age : Nat, left : BOOLEAN, right : BOOLEAN]
    /\ m_glitch_counter \in 0..Threshold /\ m_time_last_event \in 0..(ResetTime + 1)
    /\ m_silence_counter \in 0..Saturation
    /\ sincePoll \in 0..PollPeriod
    /\ fed \in 0..(BufferKeep + 1) /\ calm \in 0..(Late + 1)
    /\ chain \in Nat /\ linked \in 0..Threshold /\ loudRun \in Nat /\ quietRun \in Nat

\* The buffers kept are those since the last one that was not empty, and that one.
FedIsKept ==
    /\ \A s \in m_buffer_fill_stats : s.full => s.age >= fed
    /\ fed <= BufferKeep => \E s \in m_buffer_fill_stats : s.full /\ s.age = fed

\* The glitches counted are at least those of the chain, and at most those that a poll
\* could not tell apart from it.
GlitchesAreCounted ==
    /\ calm <= ResetTime => m_time_last_event = calm
    /\ calm <= ResetTime => m_glitch_counter >= chain \/ m_glitch_counter = Threshold
    /\ m_glitch_counter > 0 =>
          /\ calm <= ResetTime + sincePoll
          /\ calm > ResetTime => m_time_last_event > ResetTime
          /\ m_glitch_counter <= linked

\* A level left loud is older than the quiet ones since, of which there is one in a tick.
QuietAges ==
    \A s \in m_peak_stats :
        s.left => /\ s.age >= quietRun
                  /\ (\A t \in m_peak_stats : t.age > 0) => s.age >= quietRun + 1

SilenceIsCounted ==
    /\ m_silence_counter + loudRun <= Saturation \/ m_silence_counter = 0
    /\ m_silence_counter >= quietRun - ShortWindow \/ m_silence_counter = Saturation

StatInv == StatTypes /\ FedIsKept /\ GlitchesAreCounted /\ QuietAges /\ SilenceIsCounted

\* A threshold of zero would report glitches that did not happen.
Thresholds == Threshold >= 1

LEMMA StatNumbers ==
    /\ Threshold \in Nat /\ ResetTime \in Nat /\ BufferKeep \in Nat /\ PeakKeep \in Nat
    /\ ShortWindow \in Nat /\ SilenceCount \in Nat /\ Saturation \in Nat /\ PollPeriod \in Nat
    /\ MaxBad \in Nat
    /\ ShortWindow <= PeakKeep /\ SilenceCount < Saturation
BY StatsAssumption DEF Stats!StatsOK

LEMMA NotifyBufferStep ==
    ASSUME StatInv, NEW full \in BOOLEAN, Stats!NotifyBuffer(full) PROVE StatInv'
<1> DEFINE new == [age |-> 0, full |-> full]
<1>1. /\ UNCHANGED <<m_glitch_counter, m_silence_counter, m_time_last_event, sincePoll, calm, chain,
                     linked, loudRun, quietRun>>
      /\ fed' = IF full THEN 0 ELSE fed
      /\ m_buffer_fill_stats' = {s \in m_buffer_fill_stats \union {new} : s.age <= BufferKeep}
      /\ m_peak_stats' = {s \in m_peak_stats : s.age <= PeakKeep}
    BY DEF Stats!NotifyBuffer, Stats!PrunedBuffers, Stats!Recent
<1>2. new.age = 0 /\ new.full = full /\ BufferKeep \in Nat /\ PeakKeep \in Nat
    BY StatNumbers
<1> HIDE DEF new
<1>3. StatTypes'
  <2>1. new \in [age : Nat, full : BOOLEAN]
    BY DEF new
  <2> QED BY <1>1, <1>2, <2>1 DEF StatInv, StatTypes, Late
<1>4. FedIsKept'
  <2>1. CASE full
    <3>1. fed' = 0 /\ new \in m_buffer_fill_stats'
      BY <1>1, <1>2, <2>1
    <3>2. \A s \in m_buffer_fill_stats' : s.age >= 0
      BY <1>1, <1>2 DEF StatInv, StatTypes
    <3> QED BY <1>2, <2>1, <3>1, <3>2 DEF FedIsKept
  <2>2. CASE ~full
    <3>1. fed' = fed
      BY <1>1, <2>2
    <3>2. \A s \in m_buffer_fill_stats' : s.full => s \in m_buffer_fill_stats
      BY <1>1, <1>2, <2>2
    <3>3. \A s \in m_buffer_fill_stats : s.age <= BufferKeep => s \in m_buffer_fill_stats'
      BY <1>1
    <3> QED BY <3>1, <3>2, <3>3 DEF StatInv, FedIsKept
  <2> QED BY <2>1, <2>2
<1>5. GlitchesAreCounted'
    BY <1>1 DEF StatInv, GlitchesAreCounted
<1>6. QuietAges'
  <2>1. SUFFICES ASSUME NEW s \in m_peak_stats', s.left
                 PROVE  /\ s.age >= quietRun
                        /\ (\A t \in m_peak_stats' : t.age > 0) => s.age >= quietRun + 1
    BY <1>1 DEF QuietAges
  <2>2. s \in m_peak_stats
    BY <1>1
  <2>3. (\A t \in m_peak_stats' : t.age > 0) => \A t \in m_peak_stats : t.age > 0
    BY <1>1, <1>2 DEF StatInv, StatTypes
  <2> QED BY <2>1, <2>2, <2>3 DEF StatInv, QuietAges
<1>7. SilenceIsCounted'
    BY <1>1 DEF StatInv, SilenceIsCounted
<1> QED BY <1>3, <1>4, <1>5, <1>6, <1>7 DEF StatInv

\* A loud level counts one down while its run grows by one.
LEMMA CountsAgainst ==
    ASSUME NEW m \in Nat, NEW r \in Nat, NEW m2 \in Nat, NEW r2 \in Nat, NEW top \in Nat,
           m2 <= top,
           r2 # 0 => /\ m2 = IF m > 0 THEN m - 1 ELSE 0
                     /\ r2 <= r + 1
                     /\ m + r <= top \/ m = 0
    PROVE  m2 + r2 <= top \/ m2 = 0
OBVIOUS

\* A quiet level counts one up while its run grows by one.
OneUp(m, top) == IF m + 1 < top THEN m + 1 ELSE top
Follows(m, q, window, top) == m >= q - window \/ m = top

LEMMA CountsAlong ==
    ASSUME NEW m \in Nat, NEW q \in Nat, NEW q2 \in Nat, NEW top \in Nat, NEW window \in Nat,
           q2 <= q + 1, Follows(m, q, window, top)
    PROVE  Follows(OneUp(m, top), q2, window, top)
BY DEF OneUp, Follows

LEMMA FewQuiet ==
    ASSUME NEW m \in Nat, NEW q \in Nat, NEW window \in Nat, q <= window
    PROVE  m >= q - window
OBVIOUS

LEMMA NotifyPeakLevelsStep ==
    ASSUME StatInv, NEW left \in BOOLEAN, NEW right \in BOOLEAN, Stats!NotifyPeakLevels(left, right)
    PROVE  StatInv'
<1> DEFINE new == [age |-> 0, left |-> left, right |-> right]
           stats == {s \in m_peak_stats \union {new} : s.age <= PeakKeep}
           counted == Stats!Cardinality(stats) >= 2
           loud == Stats!LowerPeakIsLoud(stats)
<1>1. /\ UNCHANGED <<m_glitch_counter, m_time_last_event, sincePoll, fed, calm, chain, linked>>
      /\ m_buffer_fill_stats' = {s \in m_buffer_fill_stats : s.age <= BufferKeep}
      /\ m_peak_stats' = stats
      /\ \A s \in m_peak_stats : s.age > 0
    BY DEF Stats!NotifyPeakLevels, Stats!PrunedBuffers, Stats!Recent
<1>2. /\ m_silence_counter' = IF ~counted THEN m_silence_counter
                              ELSE IF loud THEN Stats!OneStepDown(m_silence_counter)
                              ELSE Stats!OneStepUp(m_silence_counter)
      /\ loudRun' = IF counted /\ left /\ right THEN Stats!UpTo(Saturation, loudRun + 1) ELSE 0
      /\ quietRun' = IF counted /\ ~left THEN Stats!UpTo(MaxBad, quietRun + 1) ELSE 0
    BY DEF Stats!NotifyPeakLevels, Stats!Recent
<1>3. /\ new.age = 0 /\ new.left = left /\ new.right = right
      /\ new \in stats /\ \A s \in stats : s = new \/ s \in m_peak_stats
    BY StatNumbers
<1> HIDE DEF new, stats
<1>4. /\ (left /\ right) => loud
      /\ (\A s \in stats : s.left => s.age > ShortWindow) => ~loud
  <2>1. new \in stats /\ new.age <= ShortWindow /\ ShortWindow \in Nat
    BY <1>3, StatNumbers
  <2>2. \A s \in stats : s.age \in Nat
    BY <1>3 DEF StatInv, StatTypes
  <2>3. loud <=> /\ \E s \in stats : s.age <= ShortWindow /\ s.left
                /\ \E s \in stats : s.age <= ShortWindow /\ s.right
    BY DEF Stats!LowerPeakIsLoud, Stats!Recent
  <2>4. (left /\ right) => loud
    BY <1>3, <2>1, <2>3
  <2>5. (\A s \in stats : s.left => s.age > ShortWindow) => ~loud
    <3>1. \A s \in stats : s.age > ShortWindow => ~(s.age <= ShortWindow)
      BY <2>1, <2>2
    <3> QED BY <2>3, <3>1
  <2> QED BY <2>4, <2>5
<1>5. /\ m_silence_counter \in Nat /\ m_silence_counter <= Saturation /\ loudRun \in Nat
      /\ quietRun \in Nat /\ Saturation \in Nat /\ MaxBad \in Nat /\ ShortWindow \in Nat
    BY StatNumbers DEF StatInv, StatTypes
<1> HIDE DEF counted, loud
<1>6. /\ m_silence_counter' \in Nat /\ m_silence_counter' <= Saturation
      /\ loudRun' \in Nat /\ quietRun' \in Nat
      /\ quietRun' <= quietRun + 1
    BY <1>2, <1>5 DEF Stats!OneStepDown, Stats!OneStepUp, Stats!UpTo
<1>7. StatTypes'
  <2>1. new \in [age : Nat, left : BOOLEAN, right : BOOLEAN]
    BY DEF new
  <2>2. m_silence_counter' \in 0..Saturation
    BY <1>5, <1>6
  <2>3. m_buffer_fill_stats' \subseteq m_buffer_fill_stats
    BY <1>1
  <2> QED BY <1>1, <1>3, <1>6, <2>1, <2>2, <2>3 DEF StatInv, StatTypes, Late
<1>8. FedIsKept' /\ GlitchesAreCounted'
    BY <1>1 DEF StatInv, FedIsKept, GlitchesAreCounted
<1>9. \A s \in stats : s.left /\ ~left => s.age >= quietRun + 1
    BY <1>1, <1>3 DEF StatInv, QuietAges
<1>10. QuietAges'
  <2>1. SUFFICES ASSUME NEW s \in stats, s.left PROVE s.age >= quietRun'
    BY <1>1, <1>3 DEF QuietAges
  <2>2. s.age \in Nat
    BY <1>1, <1>7 DEF StatTypes
  <2> QED BY <1>2, <1>5, <1>6, <1>9, <2>1, <2>2
<1>11. m_silence_counter' + loudRun' <= Saturation \/ m_silence_counter' = 0
  <2>1. SUFFICES loudRun' # 0 => /\ m_silence_counter' = IF m_silence_counter > 0
                                                        THEN m_silence_counter - 1 ELSE 0
                                 /\ loudRun' <= loudRun + 1
                                 /\ m_silence_counter + loudRun <= Saturation \/ m_silence_counter = 0
    BY <1>5, <1>6, CountsAgainst, ZenonT(30)
  <2>2. SUFFICES ASSUME loudRun' # 0
                 PROVE  /\ m_silence_counter' = IF m_silence_counter > 0
                                                THEN m_silence_counter - 1 ELSE 0
                        /\ loudRun' <= loudRun + 1
    BY DEF StatInv, SilenceIsCounted
  <2>3. counted /\ left /\ right
    BY <1>2, <2>2
  <2> QED BY <1>2, <1>4, <1>5, <2>3 DEF Stats!OneStepDown, Stats!UpTo
<1>12. m_silence_counter' >= quietRun' - ShortWindow \/ m_silence_counter' = Saturation
  <2>1. CASE counted /\ ~left /\ quietRun' > ShortWindow
    <3>1. ~loud
      <4>1. \A s \in stats : s.left => s.age \in Nat /\ s.age >= quietRun + 1
        BY <1>1, <1>7, <1>9, <2>1 DEF StatTypes
      <4>2. \A s \in stats : s.left => s.age > ShortWindow
        BY <1>5, <1>6, <2>1, <4>1
      <4> QED BY <1>4, <4>2
    <3>2. m_silence_counter' = OneUp(m_silence_counter, Saturation)
      BY <1>2, <2>1, <3>1 DEF Stats!OneStepUp, Stats!UpTo, OneUp
    <3>3. Follows(m_silence_counter, quietRun, ShortWindow, Saturation)
      BY DEF StatInv, SilenceIsCounted, Follows
    <3>4. Follows(m_silence_counter', quietRun', ShortWindow, Saturation)
      BY <1>5, <1>6, <3>2, <3>3, CountsAlong, Zenon
    <3> QED BY <3>4 DEF Follows
  <2>2. CASE quietRun' <= ShortWindow
    BY <1>5, <1>6, <2>2, FewQuiet, ZenonT(30)
  <2>3. CASE ~(counted /\ ~left)
    <3>1. quietRun' = 0
      BY <1>2, <2>3
    <3>2. quietRun' <= ShortWindow
      BY <1>5, <3>1
    <3> QED BY <2>2, <3>2
  <2>4. quietRun' > ShortWindow \/ quietRun' <= ShortWindow
    BY <1>5, <1>6
  <2> QED BY <2>1, <2>2, <2>3, <2>4
<1>13. SilenceIsCounted'
    BY <1>11, <1>12 DEF SilenceIsCounted
<1> QED BY <1>7, <1>8, <1>10, <1>13 DEF StatInv

LEMMA GlitchStep ==
    ASSUME Thresholds, StatInv, Stats!NotifyUnderrun \/ Stats!NotifyOverrun PROVE StatInv'
<1>1. /\ UNCHANGED <<m_buffer_fill_stats, m_silence_counter, sincePoll, fed>>
      /\ m_time_last_event' = 0 /\ calm' = 0
      /\ m_glitch_counter' = Stats!UpTo(Threshold, m_glitch_counter + 1)
      /\ chain' = IF calm > ResetTime THEN 1 ELSE Stats!UpTo(Threshold, chain + 1)
      /\ linked' = IF calm > Late THEN 1 ELSE Stats!UpTo(Threshold, linked + 1)
    BY DEF Stats!NotifyUnderrun, Stats!NotifyOverrun, Stats!Glitch, Stats!Late, Late
<1>2. \/ UNCHANGED <<m_peak_stats, loudRun, quietRun>>
      \/ m_peak_stats' = {} /\ loudRun' = 0 /\ quietRun' = 0
    BY DEF Stats!NotifyUnderrun, Stats!NotifyOverrun
<1>3. /\ StatTypes /\ GlitchesAreCounted
      /\ Threshold \in Nat /\ Threshold >= 1 /\ ResetTime \in Nat /\ PollPeriod \in Nat
      /\ ShortWindow \in Nat /\ Saturation \in Nat
      /\ m_glitch_counter \in 0..Threshold /\ chain \in Nat /\ linked \in 0..Threshold
      /\ calm \in Nat /\ sincePoll \in 0..PollPeriod
    BY StatNumbers DEF StatInv, StatTypes, Thresholds
<1>4. /\ m_glitch_counter' \in 0..Threshold /\ chain' \in Nat /\ linked' \in 0..Threshold
    BY <1>1, <1>3 DEF Stats!UpTo
<1>5. StatTypes'
  <2>1. 0 \in 0..(ResetTime + 1) /\ 0 \in 0..(Late + 1) /\ 0 \in Nat
    BY <1>3 DEF Late
  <2> QED BY <1>1, <1>2, <1>3, <1>4, <2>1 DEF StatTypes, Late
<1>6. FedIsKept'
    BY <1>1 DEF StatInv, FedIsKept
<1>7. m_glitch_counter' >= chain' \/ m_glitch_counter' = Threshold
  <2>1. CASE calm > ResetTime
    BY <1>1, <1>3, <2>1 DEF Stats!UpTo
  <2>2. CASE calm <= ResetTime
    <3>1. m_glitch_counter >= chain \/ m_glitch_counter = Threshold
      BY <1>3, <2>2 DEF GlitchesAreCounted
    <3>2. chain' = Stats!UpTo(Threshold, chain + 1)
      BY <1>1, <1>3, <2>2
    <3> QED BY <1>1, <1>3, <3>1, <3>2 DEF Stats!UpTo
  <2> QED BY <1>3, <2>1, <2>2
<1>8. m_glitch_counter' <= linked'
  <2>1. CASE calm > Late
    <3>1. m_glitch_counter = 0
      BY <1>3, <2>1 DEF GlitchesAreCounted, Late
    <3> QED BY <1>1, <1>3, <2>1, <3>1 DEF Stats!UpTo
  <2>2. CASE ~(calm > Late)
    <3>1. m_glitch_counter <= linked
      BY <1>3 DEF GlitchesAreCounted
    <3> QED BY <1>1, <1>3, <2>2, <3>1 DEF Stats!UpTo
  <2> QED BY <2>1, <2>2
<1>9. GlitchesAreCounted'
  <2>1. 0 <= ResetTime + sincePoll /\ ~(0 > ResetTime) /\ sincePoll' = sincePoll
    BY <1>1, <1>3
  <2> QED BY <1>1, <1>7, <1>8, <2>1 DEF GlitchesAreCounted
<1>10. QuietAges'
    BY <1>2 DEF StatInv, QuietAges
<1>11. SilenceIsCounted'
  <2>1. m_silence_counter \in 0..Saturation
    BY <1>3 DEF StatTypes
  <2> QED BY <1>1, <1>2, <1>3, <2>1 DEF StatInv, SilenceIsCounted
<1> QED BY <1>5, <1>6, <1>9, <1>10, <1>11 DEF StatInv

LEMMA DetermineStateStep == ASSUME StatInv, Stats!DetermineState PROVE StatInv'
<1>1. /\ UNCHANGED <<m_silence_counter, m_time_last_event, fed, calm, chain, linked, loudRun, quietRun>>
      /\ m_buffer_fill_stats' = {s \in m_buffer_fill_stats : s.age <= BufferKeep}
      /\ m_peak_stats' = {s \in m_peak_stats : s.age <= PeakKeep}
      /\ m_glitch_counter' = IF m_time_last_event > ResetTime THEN 0 ELSE m_glitch_counter
      /\ sincePoll' = 0
    BY DEF Stats!DetermineState, Stats!PrunedBuffers, Stats!Recent, Stats!GlitchesNow
<1>2. /\ Threshold \in Nat /\ ResetTime \in Nat /\ PollPeriod \in Nat /\ PeakKeep \in Nat
      /\ m_glitch_counter \in 0..Threshold /\ calm \in Nat /\ m_time_last_event \in Nat
      /\ chain \in Nat
    BY StatNumbers DEF StatInv, StatTypes
<1>3. StatTypes'
    BY <1>1, <1>2 DEF StatInv, StatTypes, Late
<1>4. FedIsKept'
    BY <1>1 DEF StatInv, FedIsKept
<1>5. GlitchesAreCounted'
  <2>1. calm <= ResetTime => m_glitch_counter' = m_glitch_counter
    BY <1>1, <1>2 DEF StatInv, GlitchesAreCounted
  <2>2. m_glitch_counter' > 0 => m_glitch_counter' = m_glitch_counter /\ calm <= ResetTime
    BY <1>1, <1>2 DEF StatInv, GlitchesAreCounted
  <2> QED BY <1>1, <1>2, <2>1, <2>2 DEF StatInv, GlitchesAreCounted
<1>6. QuietAges'
  <2>1. (\A t \in m_peak_stats' : t.age > 0) => \A t \in m_peak_stats : t.age > 0
    BY <1>1, <1>2 DEF StatInv, StatTypes
  <2> QED BY <1>1, <2>1 DEF StatInv, QuietAges
<1>7. SilenceIsCounted'
    BY <1>1 DEF StatInv, SilenceIsCounted
<1> QED BY <1>3, <1>4, <1>5, <1>6, <1>7 DEF StatInv

LEMMA TimePassesStep == ASSUME StatInv, Stats!TimePasses PROVE StatInv'
<1>1. /\ UNCHANGED <<m_glitch_counter, m_silence_counter, chain, linked, loudRun, quietRun>>
      /\ m_buffer_fill_stats' = {[s EXCEPT !.age = @ + 1] : s \in m_buffer_fill_stats}
      /\ m_peak_stats' = {[s EXCEPT !.age = @ + 1] : s \in m_peak_stats}
      /\ m_time_last_event' = Stats!UpTo(ResetTime + 1, m_time_last_event + 1)
      /\ sincePoll' = sincePoll + 1 /\ sincePoll < PollPeriod
      /\ fed' = Stats!UpTo(BufferKeep + 1, fed + 1)
      /\ calm' = Stats!UpTo(Late + 1, calm + 1)
    BY DEF Stats!TimePasses, Stats!Older, Stats!Late, Late
<1>2. /\ ResetTime \in Nat /\ PollPeriod \in Nat /\ BufferKeep \in Nat /\ Late \in Nat
      /\ Late >= ResetTime
      /\ m_time_last_event \in Nat /\ m_time_last_event <= ResetTime + 1
      /\ sincePoll \in Nat /\ fed \in Nat /\ calm \in Nat
    BY StatNumbers DEF StatInv, StatTypes, Late
<1>3. /\ m_time_last_event' \in 0..(ResetTime + 1) /\ sincePoll' \in 0..PollPeriod
      /\ fed' \in 0..(BufferKeep + 1) /\ calm' \in 0..(Late + 1)
    BY <1>1, <1>2 DEF Stats!UpTo
<1>4. /\ \A s \in m_buffer_fill_stats :
            LET t == [s EXCEPT !.age = @ + 1]
            IN  t \in [age : Nat, full : BOOLEAN] /\ t.age = s.age + 1 /\ t.full = s.full
      /\ \A s \in m_peak_stats :
            LET t == [s EXCEPT !.age = @ + 1]
            IN  /\ t \in [age : Nat, left : BOOLEAN, right : BOOLEAN]
                /\ t.age = s.age + 1 /\ t.left = s.left
    BY DEF StatInv, StatTypes
<1>5. StatTypes'
  <2>1. /\ m_buffer_fill_stats' \subseteq [age : Nat, full : BOOLEAN]
        /\ m_peak_stats' \subseteq [age : Nat, left : BOOLEAN, right : BOOLEAN]
    BY <1>1, <1>4
  <2> QED BY <1>1, <1>3, <2>1 DEF StatInv, StatTypes, Late
<1>6. FedIsKept'
  <2>1. ASSUME NEW t \in m_buffer_fill_stats', t.full PROVE t.age >= fed'
    <3>1. PICK s \in m_buffer_fill_stats : t = [s EXCEPT !.age = @ + 1]
      BY <1>1
    <3>2. s.full /\ t.age = s.age + 1 /\ s.age \in Nat
      BY <1>4, <2>1, <3>1 DEF StatInv, StatTypes
    <3>3. s.age >= fed
      BY <3>2 DEF StatInv, FedIsKept
    <3> QED BY <1>1, <1>2, <3>2, <3>3 DEF Stats!UpTo
  <2>2. ASSUME fed' <= BufferKeep PROVE \E t \in m_buffer_fill_stats' : t.full /\ t.age = fed'
    <3>1. fed' = fed + 1 /\ fed <= BufferKeep
      BY <1>1, <1>2, <2>2 DEF Stats!UpTo
    <3>2. PICK s \in m_buffer_fill_stats : s.full /\ s.age = fed
      BY <3>1 DEF StatInv, FedIsKept
    <3> DEFINE t == [s EXCEPT !.age = @ + 1]
    <3>3. t \in m_buffer_fill_stats'
      BY <1>1
    <3>4. t.full /\ t.age = fed'
      BY <1>4, <3>1, <3>2
    <3> QED BY <3>3, <3>4
  <2> QED BY <2>1, <2>2 DEF FedIsKept
<1>7. GlitchesAreCounted'
  <2>1. ASSUME calm' <= ResetTime PROVE calm <= ResetTime /\ m_time_last_event' = calm'
    <3>1. calm' = calm + 1 /\ calm + 1 <= ResetTime
      BY <1>1, <1>2, <2>1 DEF Stats!UpTo
    <3>2. m_time_last_event = calm
      BY <1>2, <3>1 DEF StatInv, GlitchesAreCounted
    <3> QED BY <1>1, <1>2, <3>1, <3>2 DEF Stats!UpTo
  <2>2. ASSUME m_glitch_counter > 0
        PROVE  /\ calm' <= ResetTime + sincePoll'
               /\ calm' > ResetTime => m_time_last_event' > ResetTime
    <3>1. /\ calm <= ResetTime + sincePoll
          /\ calm > ResetTime => m_time_last_event > ResetTime
          /\ calm <= ResetTime => m_time_last_event = calm
      BY <2>2 DEF StatInv, GlitchesAreCounted
    <3>2. calm' <= ResetTime + sincePoll'
      BY <1>1, <1>2, <3>1 DEF Stats!UpTo
    <3>3. CASE calm > ResetTime
      BY <1>1, <1>2, <3>1, <3>2, <3>3 DEF Stats!UpTo
    <3>4. CASE calm <= ResetTime
      BY <1>1, <1>2, <3>1, <3>2, <3>4 DEF Stats!UpTo
    <3> QED BY <1>2, <3>3, <3>4
  <2> QED BY <1>1, <2>1, <2>2 DEF StatInv, GlitchesAreCounted
<1>8. QuietAges'
  <2>1. SUFFICES ASSUME NEW t \in m_peak_stats', t.left
                 PROVE  t.age >= quietRun /\ t.age >= quietRun + 1
    BY <1>1 DEF QuietAges
  <2>2. PICK s \in m_peak_stats : t = [s EXCEPT !.age = @ + 1]
    BY <1>1
  <2>3. s.left /\ t.age = s.age + 1 /\ s.age \in Nat
    BY <1>4, <2>1, <2>2 DEF StatInv, StatTypes
  <2>4. s.age >= quietRun /\ quietRun \in Nat
    BY <2>3 DEF StatInv, StatTypes, QuietAges
  <2> QED BY <2>3, <2>4
<1>9. SilenceIsCounted'
    BY <1>1 DEF StatInv, SilenceIsCounted
<1> QED BY <1>5, <1>6, <1>7, <1>8, <1>9 DEF StatInv

LEMMA StatInit == ASSUME Stats!Init PROVE StatInv
<1>1. /\ m_buffer_fill_stats = {} /\ m_peak_stats = {} /\ m_glitch_counter = 0
      /\ m_silence_counter = 0 /\ m_time_last_event = 0 /\ sincePoll = 0
      /\ fed = BufferKeep + 1 /\ calm = Late + 1
      /\ chain = 0 /\ linked = 0 /\ loudRun = 0 /\ quietRun = 0
    BY DEF Stats!Init, Stats!Late, Late
<1>2. /\ Threshold \in Nat /\ ResetTime \in Nat /\ BufferKeep \in Nat /\ ShortWindow \in Nat
      /\ Saturation \in Nat /\ PollPeriod \in Nat /\ Late \in Nat /\ Late >= ResetTime
    BY StatNumbers DEF Late
<1>3. StatTypes
    BY <1>1, <1>2 DEF StatTypes, Late
<1>4. FedIsKept /\ QuietAges
    BY <1>1, <1>2 DEF FedIsKept, QuietAges
<1>5. GlitchesAreCounted /\ SilenceIsCounted
    BY <1>1, <1>2 DEF GlitchesAreCounted, SilenceIsCounted
<1> QED BY <1>3, <1>4, <1>5 DEF StatInv

LEMMA StatStep == ASSUME Thresholds, StatInv, Stats!Next PROVE StatInv'
BY NotifyBufferStep, NotifyPeakLevelsStep, GlitchStep, DetermineStateStep, TimePassesStep
   DEF Stats!Next

LEMMA StatStill == ASSUME StatInv, UNCHANGED statVars PROVE StatInv'
BY DEF StatInv, StatTypes, FedIsKept, GlitchesAreCounted, QuietAges, SilenceIsCounted, statVars, Late

\* What determineState answers, from what it has kept.
LEMMA AnswerIsTrue == ASSUME Thresholds, StatInv, Stats!DetermineState PROVE Stats!StateIsTrue
<1> DEFINE now == IF m_time_last_event > ResetTime THEN 0 ELSE m_glitch_counter
           silent == \A s \in m_buffer_fill_stats : s.age <= BufferKeep => ~s.full
<1>1. state' = IF silent THEN "NoData"
               ELSE IF now >= Threshold THEN "Unstable"
               ELSE IF m_silence_counter > SilenceCount THEN "Silence"
               ELSE "Streaming"
    BY DEF Stats!DetermineState, Stats!PrunedBuffers, Stats!Recent, Stats!GlitchesNow
<1>2. /\ Threshold \in Nat /\ Threshold >= 1 /\ ResetTime \in Nat /\ BufferKeep \in Nat
      /\ ShortWindow \in Nat /\ SilenceCount \in Nat /\ Saturation \in Nat
      /\ SilenceCount < Saturation
      /\ m_glitch_counter \in Nat /\ m_glitch_counter <= Threshold
      /\ m_time_last_event \in Nat /\ m_silence_counter \in Nat /\ fed \in Nat /\ calm \in Nat
      /\ linked \in Nat /\ linked <= Threshold /\ loudRun \in Nat /\ quietRun \in Nat
    BY StatNumbers DEF StatInv, StatTypes, Thresholds
<1>3. silent <=> fed > BufferKeep
  <2>1. ASSUME fed > BufferKeep, NEW s \in m_buffer_fill_stats, s.age <= BufferKeep
        PROVE  ~s.full
    <3>1. s.age \in Nat
      BY DEF StatInv, StatTypes
    <3>2. s.full => s.age >= fed
      BY DEF StatInv, FedIsKept
    <3> QED BY <1>2, <2>1, <3>1, <3>2
  <2>2. ASSUME ~(fed > BufferKeep) PROVE ~silent
    BY <1>2, <2>2 DEF StatInv, FedIsKept
  <2> QED BY <2>1, <2>2
<1> HIDE DEF silent
<1>4. Stats!NoDataIsTrue
  <2>1. state' = "NoData" <=> silent
    BY <1>1
  <2> QED BY <1>3, <2>1 DEF Stats!NoDataIsTrue
<1>5. Stats!UnstableIsTrue
  <2>1. ASSUME fed <= BufferKeep, chain = Threshold, calm <= ResetTime PROVE state' = "Unstable"
    <3>1. ~silent
      BY <1>2, <1>3, <2>1
    <3>2. m_time_last_event = calm /\ (m_glitch_counter >= chain \/ m_glitch_counter = Threshold)
      BY <2>1 DEF StatInv, GlitchesAreCounted
    <3>3. now >= Threshold
      BY <1>2, <2>1, <3>2
    <3> QED BY <1>1, <3>1, <3>3
  <2>2. ASSUME state' = "Unstable" PROVE linked = Threshold /\ calm <= ResetTime
    <3>1. now >= Threshold
      BY <1>1, <2>2
    <3>2. ~(m_time_last_event > ResetTime) /\ m_glitch_counter >= Threshold
      BY <1>2, <3>1
    <3>3. m_glitch_counter > 0
      BY <1>2, <3>2
    <3>4. (calm > ResetTime => m_time_last_event > ResetTime) /\ m_glitch_counter <= linked
      BY <3>3 DEF StatInv, GlitchesAreCounted
    <3> QED BY <1>2, <3>2, <3>4
  <2> QED BY <2>1, <2>2 DEF Stats!UnstableIsTrue
<1> HIDE DEF now
<1>6. Stats!SilenceIsTrue
  <2>1. ASSUME loudRun >= Saturation - SilenceCount PROVE state' # "Silence"
    <3>1. m_silence_counter + loudRun <= Saturation \/ m_silence_counter = 0
      BY DEF StatInv, SilenceIsCounted
    <3>2. ~(m_silence_counter > SilenceCount)
      BY <1>2, <2>1, <3>1
    <3> QED BY <1>1, <3>2
  <2>2. ASSUME quietRun > ShortWindow + SilenceCount PROVE state' # "Streaming"
    <3>1. m_silence_counter >= quietRun - ShortWindow \/ m_silence_counter = Saturation
      BY DEF StatInv, SilenceIsCounted
    <3>2. m_silence_counter > SilenceCount
      BY <1>2, <2>2, <3>1
    <3> QED BY <1>1, <3>2
  <2> QED BY <2>1, <2>2 DEF Stats!SilenceIsTrue
<1> QED BY <1>4, <1>5, <1>6 DEF Stats!StateIsTrue

-----------------------------------------------------------------------------
(***************************************************************************)
(* The inputs together.  What is not the input of the run does not change, *)
(* and EdiInv holds of the EDI input that was only constructed.            *)
(***************************************************************************)
KnownProtocols == Protocols \subseteq {"udp", "rtp"}

InputsInv ==
    /\ kind = "zmq" => ZmqInv
    /\ Rtp => RtpInv
    /\ kind = "datagram" => protocol \in {"udp", "rtp"}
    /\ EdiInv /\ StatInv

Implements == [Source!Next]_(Source!vars)

\* What the source and the input of it are made of.
LEMMA SourceStill ==
    ASSUME UNCHANGED <<kind, given, zmqVars, datagramVars, ediVars>> PROVE UNCHANGED Source!vars
<1>1. /\ kind' = kind /\ protocol' = protocol /\ given' = given /\ format' = format
      /\ encoded' = encoded /\ deliveries' = deliveries /\ sent' = sent
      /\ m_frame_buffer' = m_frame_buffer /\ socket' = socket /\ m_queue' = m_queue
      /\ socketIn' = socketIn /\ played' = played
      /\ m_frames' = m_frames /\ incoming' = incoming /\ sti' = sti /\ ediReader' = ediReader
      /\ m_pending_sti_frame' = m_pending_sti_frame
    BY DEF zmqVars, datagramVars, ediVars
<1>2. Arrived' = Arrived
    BY <1>1 DEF Arrived, RawUdp, Zmq!PerMessage, Zmq!SuperFrame
<1>3. Given' = Given
    BY <1>1 DEF Given, RawUdp
<1>4. Edi!Held' = Edi!Held
    BY <1>1 DEF Edi!Held, Edi!HeldFrames, Edi!InHand, Edi!NoFrame
<1>5. Held' = Held
    BY <1>1, <1>4 DEF Held, RawUdp, Range, Zmq!FramesOf, Zmq!PerMessage, Zmq!SuperFrame
<1> QED BY <1>2, <1>3, <1>5 DEF Source!vars

LEMMA ZmqUnchanged == ASSUME ZmqInv, UNCHANGED <<given, zmqVars>> PROVE ZmqInv'
<1>1. /\ given' = given /\ format' = format /\ encoded' = encoded /\ socket' = socket
      /\ m_frame_buffer' = m_frame_buffer /\ buffer_size' = buffer_size
      /\ prebuffering' = prebuffering /\ reader' = reader /\ levels' = levels
    BY DEF zmqVars
<1>2. P' = P
    BY <1>1 DEF P, Zmq!PerMessage
<1>3. ZmqLevels'
    BY <1>1, <1>2 DEF ZmqInv, ZmqLevels, ZmqOverrun, Zmq!RemovesWhatIsThere
<1>4. ZmqOrdered'
    BY <1>1, <1>2, ZmqOrderedNext DEF ZmqInv, ZmqOrdered
<1> QED BY <1>3, <1>4 DEF ZmqInv

LEMMA RtpUnchanged == ASSUME RtpInv, UNCHANGED <<given, datagramVars>> PROVE RtpInv'
BY DEF RtpInv, datagramVars

LEMMA EdiUnchanged == ASSUME EdiInv, UNCHANGED ediVars PROVE EdiInv'
<1>1. /\ m_frames' = m_frames /\ incoming' = incoming /\ sti' = sti /\ ediReader' = ediReader
      /\ m_pending_sti_frame' = m_pending_sti_frame /\ played' = played /\ sent' = sent
      /\ management' = management /\ receiver' = receiver /\ threshold' = threshold
      /\ m_max_frames_overrun' = m_max_frames_overrun
      /\ m_num_frames_prebuffering' = m_num_frames_prebuffering
      /\ over_max' = over_max /\ clock' = clock
      /\ ediLevels' = ediLevels /\ m_tist_delay' = m_tist_delay
    BY DEF ediVars
<1>2. Front' = Front
    BY <1>1 DEF Front, Edi!InHand
<1>3. EdiOrdered'
    BY <1>1, <1>2 DEF EdiInv, EdiOrdered, HandOK, Edi!InHand, Edi!NoFrame
<1>4. EdiLevels'
    BY <1>1 DEF EdiInv, EdiLevels, Edi!OverrunKeepsPrebuffering, Edi!Wrapped
<1>5. EdiTimes'
    BY <1>1 DEF EdiInv, EdiTimes
<1> QED BY <1>3, <1>4, <1>5 DEF EdiInv

LEMMA InputsInit ==
    ASSUME Bounds, KnownProtocols, Init PROVE InputsInv /\ Source!Init
<1>1. Edi!Init
    BY DEF Init, NoEdi
<1>2. StatInv
    BY StatInit DEF Init
<1>3. EdiInv
    BY <1>1, EdiInit
<1>4. kind = "zmq" => Zmq!Init
    BY DEF Init
<1>5. kind = "datagram" => Datagram!Init
    BY DEF Init
<1>6. kind \notin {"zmq", "datagram"} => given = -1
    BY DEF Init
<1>7. InputsInv
  <2>1. kind = "datagram" => protocol \in {"udp", "rtp"}
    BY <1>5 DEF Datagram!Init, KnownProtocols
  <2> QED BY <1>2, <1>3, <1>4, <1>5, <2>1, ZmqInit, RtpInit DEF InputsInv, Rtp
<1>8. sent = 0 /\ Edi!Held = {} /\ played.frame.id = -1
    BY <1>1 DEF Edi!Init, Edi!Held, Edi!HeldFrames, Edi!InHand, Edi!NoFrame
<1>9. Source!Init
  <2>1. CASE kind = "zmq"
    <3>1. encoded = 0 /\ socket = <<>> /\ m_frame_buffer = <<>> /\ given = -1
      BY <1>4, <2>1 DEF Zmq!Init
    <3>2. encoded * Zmq!PerMessage - 1 = -1
      BY <3>1 DEF Zmq!PerMessage, Zmq!SuperFrame
    <3>3. Held = {}
      BY <2>1, <3>1 DEF Held, Range
    <3> QED BY <2>1, <3>1, <3>2, <3>3 DEF Source!Init, Arrived, Given, RawUdp
  <2>2. CASE kind = "datagram"
    <3>1. deliveries = 0 /\ m_queue \o socketIn = <<>> /\ given = -1
      BY <1>5, <2>2 DEF Datagram!Init
    <3>2. RawUdp => Held = {}
      BY <1>8, <2>2 DEF Held, RawUdp
    <3>3. ~RawUdp => Held = {}
      BY <2>2, <3>1 DEF Held, RawUdp, Range
    <3>4. Arrived = -1
      BY <1>8, <2>2, <3>1 DEF Arrived, RawUdp
    <3> QED BY <2>2, <3>1, <3>2, <3>3, <3>4 DEF Source!Init, Given
  <2>3. CASE kind \notin {"zmq", "datagram"}
    BY <1>6, <1>8, <2>3 DEF Source!Init, Arrived, Held, Given, RawUdp
  <2> QED BY <2>1, <2>2, <2>3
<1> QED BY <1>7, <1>9

LEMMA InputsStep ==
    ASSUME Bounds, Thresholds, InputsInv, [Next]_vars
    PROVE  InputsInv' /\ Implements
<1>1. CASE UNCHANGED vars
  <2>1. UNCHANGED <<kind, given, zmqVars, datagramVars, ediVars, statVars>>
    BY <1>1 DEF vars, others
  <2>2. InputsInv'
    <3>1. protocol' = protocol
      BY <2>1 DEF datagramVars
    <3> QED BY <2>1, <3>1, ZmqUnchanged, RtpUnchanged, EdiUnchanged, StatStill DEF InputsInv, Rtp
  <2> QED BY <2>1, <2>2, SourceStill DEF Implements
<1>2. CASE kind = "zmq" /\ Zmq!Next /\ UNCHANGED <<kind, datagramVars, fileVars, ediVars, statVars>>
  <2>1. ZmqInv' /\ Moves
    BY <1>2, ZmqStep DEF InputsInv, ZmqCorrect
  <2> QED BY <1>2, <2>1, EdiUnchanged, StatStill, MovesImplements DEF InputsInv, Rtp, Implements
<1>3. CASE /\ kind = "datagram" /\ Datagram!Next
           /\ UNCHANGED <<kind, zmqVars, fileVars, ediVars, statVars>>
  <2>1. protocol' = protocol
    BY <1>3 DEF Datagram!Next, Datagram!Launch, Datagram!Arrive, Datagram!ReadStiRtp, Datagram!ReadUdp
  <2>2. CASE Rtp
    <3>1. ~Datagram!ReadUdp
      BY <2>2 DEF Rtp, Datagram!ReadUdp
    <3>2. RtpInv' /\ Moves
      BY <1>3, <2>2, <3>1, RtpLaunch, RtpArrive, RtpRead DEF InputsInv, Datagram!Next
    <3> QED BY <1>3, <2>1, <3>2, EdiUnchanged, StatStill, MovesImplements
            DEF InputsInv, Rtp, Implements
  <2>3. CASE ~Rtp
    <3>1. RawUdp /\ RawUdp'
      BY <1>3, <2>1, <2>3 DEF InputsInv, Rtp, RawUdp
    <3>2. /\ sent' = sent /\ Edi!Held' = Edi!Held
      BY <1>3 DEF ediVars, Edi!Held, Edi!HeldFrames, Edi!InHand, Edi!NoFrame
    <3>3. UNCHANGED Source!vars
      BY <1>3, <3>1, <3>2 DEF Source!vars, Arrived, Held, Given, RawUdp
    <3> QED BY <1>3, <2>1, <2>3, <3>3, EdiUnchanged, StatStill DEF InputsInv, Rtp, Implements
  <2> QED BY <2>2, <2>3
<1>4. CASE /\ kind = "file" /\ InFile!Next
           /\ UNCHANGED <<kind, given, zmqVars, datagramVars, ediVars, statVars>>
    BY <1>4, SourceStill, EdiUnchanged, StatStill DEF InputsInv, Rtp, Implements
<1>5. CASE kind = "edi" /\ Edi!Next /\ UNCHANGED others
  <2>1. EdiInv' /\ Moves
    BY <1>5, EdiStep DEF InputsInv, others
  <2>2. kind' = kind /\ UNCHANGED statVars
    BY <1>5 DEF others
  <2> QED BY <1>5, <2>1, <2>2, StatStill, MovesImplements DEF InputsInv, Rtp, Implements
<1>6. CASE /\ kind = "stat" /\ Stats!Next
           /\ UNCHANGED <<kind, given, zmqVars, datagramVars, fileVars, ediVars>>
    BY <1>6, SourceStill, EdiUnchanged, StatStep DEF InputsInv, Rtp, Implements
<1> QED BY <1>1, <1>2, <1>3, <1>4, <1>5, <1>6 DEF Next

(***************************************************************************)
(* What readFrame of the ZeroMQ, the EDI and the RTP input gives moves on  *)
(* in the source, or for RTP, where the network may double and reorder     *)
(* datagrams, in the order of their arrival: ZmqBase::readFrame,           *)
(* Sti_d_Rtp::readFrame and Edi::readFrame lose frames, but give none      *)
(* twice and none out of this order.                                       *)
(***************************************************************************)
THEOREM ImplementsFrameSourceCorrect ==
    ASSUME Bounds, KnownProtocols, Thresholds
    PROVE  Spec => ImplementsFrameSource
<1>1. Init => InputsInv /\ Source!Init
    BY InputsInit
<1>2. InputsInv /\ [Next]_vars => InputsInv' /\ [Source!Next]_(Source!vars)
    BY InputsStep DEF Implements
<1> QED BY <1>1, <1>2, PTL DEF Spec, ImplementsFrameSource, Source!Spec

(***************************************************************************)
(* ZmqBase::readFrame drops no frame that is not there unless the levels   *)
(* it has read are those of RemovesWhatIsThere, and its buffer stays below *)
(* a limit that was set and a message more; the queue of the EDI input     *)
(* stays below twice a limit that was set, and its overrun stops at the    *)
(* prebuffering level it has read unless that is more than one frame above *)
(* the limit it has read.  No order of the levels is assumed.              *)
(***************************************************************************)
THEOREM BuffersInRangeCorrect ==
    ASSUME Bounds, KnownProtocols, Thresholds
    PROVE  Spec => []BuffersInRange
<1>1. Init => InputsInv
    BY InputsInit
<1>2. InputsInv /\ [Next]_vars => InputsInv'
    BY InputsStep
<1>3. InputsInv => BuffersInRange
  <2>1. InputsInv => ZmqBufferInRange
    BY DEF InputsInv, ZmqInv, ZmqLevels, ZmqOverrun, ZmqBufferInRange, P
  <2>2. InputsInv => Edi!QueueLevels
    BY DEF InputsInv, EdiInv, EdiLevels, Edi!QueueLevels, Edi!QueueBounded
  <2> QED BY <2>1, <2>2 DEF BuffersInRange
<1> QED BY <1>1, <1>2, <1>3, PTL DEF Spec

(***************************************************************************)
(* A timestamped EDI input that is locked gives the frame after the last   *)
(* one when it is pending: the window in which the reader of Edi.cpp locks *)
(* is the one in which it keeps the lock.                                  *)
(***************************************************************************)
THEOREM NoGapWhileLockedCorrect ==
    ASSUME Bounds, KnownProtocols, Thresholds
    PROVE  Spec => NoGapWhileLocked
<1> DEFINE NoGap == Edi!Locked /\ Edi!NextIsPending /\ ediReader' = "idle"
                      => played'.frame = m_pending_sti_frame
<1>1. Init => InputsInv
    BY InputsInit
<1>2. InputsInv /\ [Next]_vars => InputsInv'
    BY InputsStep
<1>3. InputsInv /\ [Next]_vars => [NoGap]_(Edi!vars)
  <2>1. SUFFICES ASSUME InputsInv, [Next]_vars PROVE NoGap \/ UNCHANGED Edi!vars
    OBVIOUS
  <2>2. UNCHANGED ediVars => UNCHANGED Edi!vars
    BY DEF ediVars, Edi!vars, Edi!parameters, Edi!receiverVars
  <2>3. Edi!Next \/ UNCHANGED ediVars
    BY <2>1 DEF Next, vars
  <2> QED BY <2>1, <2>2, <2>3, LockedPlaysNext DEF InputsInv
<1> QED BY <1>1, <1>2, <1>3, PTL DEF Spec, NoGapWhileLocked, Edi!NoGapWhileLocked

(***************************************************************************)
(* InputStat::determineState: NoData, Unstable and Silence are answered    *)
(* for inputs of which they are true, and not kept from any.               *)
(***************************************************************************)
THEOREM AnswersAreTrueCorrect ==
    ASSUME Bounds, KnownProtocols, Thresholds
    PROVE  Spec => AnswersAreTrue
<1>1. Init => InputsInv
    BY InputsInit
<1>2. InputsInv /\ [Next]_vars => InputsInv'
    BY InputsStep
<1>3. InputsInv => [Stats!DetermineState => Stats!StateIsTrue]_(Stats!statVars)
    BY AnswerIsTrue DEF InputsInv
<1> QED BY <1>1, <1>2, <1>3, PTL DEF Spec, AnswersAreTrue, Stats!AnswersAreTrue

-----------------------------------------------------------------------------
(***************************************************************************)
(* The file inputs.  Remainders, and sequences written as functions.       *)
(***************************************************************************)
LEMMA RemainderIs ==
    ASSUME NEW n \in Nat \ {0}, NEW x \in Int
    PROVE  \E q \in Int, r \in 0..(n - 1) : x % n = r /\ x = n * q + r
<1>1. x % n \in 0..(n - 1) /\ x \div n \in Int /\ x = n * (x \div n) + (x % n)
    OBVIOUS
<1> QED BY <1>1

LEMMA RemainderUnique ==
    ASSUME NEW n \in Nat \ {0}, NEW q \in Int, NEW p \in Int,
           NEW r \in 0..(n - 1), NEW s \in 0..(n - 1), n * q + r = n * p + s
    PROVE  r = s
<1>1. \A y, z \in Nat : y * z \in Nat
    OBVIOUS
<1>2. ~(q > p)
  <2>1. SUFFICES ASSUME q > p PROVE FALSE
      OBVIOUS
  <2>2. q - p - 1 \in Nat /\ n * (q - p - 1) \in Nat
      BY <1>1, <2>1
  <2>3. n * (q - p - 1) = n * q - n * p - n
      OBVIOUS
  <2> QED BY <2>2, <2>3
<1>3. ~(p > q)
  <2>1. SUFFICES ASSUME p > q PROVE FALSE
      OBVIOUS
  <2>2. p - q - 1 \in Nat /\ n * (p - q - 1) \in Nat
      BY <1>1, <2>1
  <2>3. n * (p - q - 1) = n * p - n * q - n
      OBVIOUS
  <2> QED BY <2>2, <2>3
<1>4. p = q
    BY <1>2, <1>3
<1> QED BY <1>4

\* A remainder may be taken before an addition.
LEMMA RemainderAdd ==
    ASSUME NEW n \in Nat \ {0}, NEW a \in Int, NEW b \in Int
    PROVE  ((a % n) + b) % n = (a + b) % n
<1>1. PICK q \in Int, r \in 0..(n - 1) : a % n = r /\ a = n * q + r
    BY RemainderIs
<1>2. PICK p \in Int, s \in 0..(n - 1) : (r + b) % n = s /\ r + b = n * p + s
  <2>1. r + b \in Int
      OBVIOUS
  <2> QED BY <2>1, RemainderIs
<1>3. PICK o \in Int, t \in 0..(n - 1) : (a + b) % n = t /\ a + b = n * o + t
  <2>1. a + b \in Int
      OBVIOUS
  <2> QED BY <2>1, RemainderIs
<1>4. q + p \in Int /\ n * (q + p) = n * q + n * p
    OBVIOUS
<1>5. n * (q + p) + s = n * o + t
    BY <1>1, <1>2, <1>3, <1>4
<1>6. s = t
    BY <1>4, <1>5, RemainderUnique
<1> QED BY <1>1, <1>2, <1>3, <1>6

LEMMA RemainderSmall ==
    ASSUME NEW n \in Nat \ {0}
    PROVE  n % n = 0 /\ \A x \in 0..(n - 1) : x % n = x
<1>1. n * 1 + 0 = n /\ n * 0 = 0
    OBVIOUS
<1>2. n % n = 0
  <2>1. PICK q \in Int, r \in 0..(n - 1) : n % n = r /\ n = n * q + r
      BY RemainderIs
  <2>2. n * q + r = n * 1 + 0
      BY <1>1, <2>1
  <2> QED BY <2>1, <2>2, RemainderUnique
<1>3. ASSUME NEW x \in 0..(n - 1) PROVE x % n = x
  <2>0. x \in Int
      OBVIOUS
  <2>1. PICK q \in Int, r \in 0..(n - 1) : x % n = r /\ x = n * q + r
      BY <2>0, RemainderIs
  <2>2. n * q + r = n * 0 + x
      BY <1>1, <2>1
  <2> QED BY <2>1, <2>2, RemainderUnique
<1> QED BY <1>2, <1>3

LEMMA RemainderShift ==
    ASSUME NEW n \in Nat \ {0}, NEW x \in Int
    PROVE  (n + x) % n = x % n
<1>1. n \in Int /\ 0 + x = x
    OBVIOUS
<1>2. ((n % n) + x) % n = (n + x) % n
    BY <1>1, RemainderAdd, Zenon
<1> QED BY <1>1, <1>2, RemainderSmall, Zenon

\* Whole frames: there is none between less than a frame and nothing, and one more is whole.
LEMMA WholeFrames ==
    ASSUME NEW n \in Nat \ {0}, NEW a \in Nat, NEW b \in Nat, a % n = 0, b % n = 0, a <= b
    PROVE  /\ b - a < n => a = b
           /\ (a + n) % n = 0
<1>0. a \in Int /\ b \in Int
    OBVIOUS
<1>1. PICK q \in Int, r \in 0..(n - 1) : a % n = r /\ a = n * q + r
    BY <1>0, RemainderIs
<1>2. PICK p \in Int, s \in 0..(n - 1) : b % n = s /\ b = n * p + s
    BY <1>0, RemainderIs
<1>3. a = n * q /\ b = n * p
    BY <1>1, <1>2
<1>4. b - a < n => a = b
  <2>1. SUFFICES ASSUME b - a < n PROVE a = b
      OBVIOUS
  <2>2. b - a \in 0..(n - 1) /\ n * q + (b - a) = n * p + 0
      BY <1>3, <2>1
  <2>3. b - a = 0
      BY <2>2, RemainderUnique
  <2> QED BY <2>3
<1>5. ((a % n) + n) % n = (a + n) % n
  <2>1. n \in Int
      OBVIOUS
  <2> QED BY <1>0, <2>1, RemainderAdd, Zenon
<1>6. (a + n) % n = 0
    BY <1>5, RemainderSmall
<1> QED BY <1>4, <1>6

LEMMA JoinedSequences ==
    ASSUME NEW s \in Seq(Int), NEW t \in Seq(Int)
    PROVE  /\ s \o t \in Seq(Int) /\ Len(s \o t) = Len(s) + Len(t)
           /\ \A i \in 1..Len(s) : (s \o t)[i] = s[i]
           /\ \A i \in 1..Len(t) : (s \o t)[Len(s) + i] = t[i]
OBVIOUS

LEMMA EqualSequences ==
    ASSUME NEW s \in Seq(Int), NEW t \in Seq(Int), Len(s) = Len(t),
           \A i \in 1..Len(s) : s[i] = t[i]
    PROVE  s = t
<1>1. DOMAIN s = 1..Len(s) /\ DOMAIN t = 1..Len(s)
    OBVIOUS
<1>2. s = [i \in DOMAIN s |-> s[i]] /\ t = [i \in DOMAIN t |-> t[i]]
    OBVIOUS
<1>3. [i \in DOMAIN s |-> s[i]] = [i \in DOMAIN t |-> t[i]]
    BY <1>1
<1> QED BY <1>2, <1>3, Zenon

LEMMA FunctionIsSequence ==
    ASSUME NEW S, NEW n \in Nat, NEW f \in [1..n -> S] PROVE f \in Seq(S) /\ Len(f) = n
OBVIOUS

LEMMA JoinIs ==
    ASSUME NEW s \in Seq(Int), NEW t \in Seq(Int), NEW u \in Seq(Int), Len(u) = Len(s) + Len(t),
           \A i \in 1..Len(s) : u[i] = s[i], \A i \in 1..Len(t) : u[Len(s) + i] = t[i]
    PROVE  s \o t = u
<1> DEFINE both == s \o t
<1>1. /\ both \in Seq(Int) /\ Len(both) = Len(s) + Len(t)
      /\ \A i \in 1..Len(s) : both[i] = s[i]
      /\ \A i \in 1..Len(t) : both[Len(s) + i] = t[i]
    BY JoinedSequences, Zenon
<1>2. Len(s) \in Nat /\ Len(t) \in Nat
    OBVIOUS
<1> HIDE DEF both
<1>3. ASSUME NEW i \in 1..(Len(s) + Len(t)) PROVE both[i] = u[i]
  <2>1. CASE i <= Len(s)
      BY <1>1, <1>2, <2>1
  <2>2. CASE ~(i <= Len(s))
    <3>1. i - Len(s) \in 1..Len(t) /\ Len(s) + (i - Len(s)) = i
        BY <1>2, <2>2
    <3>2. both[Len(s) + (i - Len(s))] = u[Len(s) + (i - Len(s))]
        BY <1>1, <3>1
    <3> QED BY <3>1, <3>2
  <2> QED BY <2>1, <2>2
<1>4. \A i \in 1..Len(both) : both[i] = u[i]
    BY <1>1, <1>3
<1>5. both = u
    BY <1>1, <1>4, EqualSequences, Zenon
<1> QED BY <1>5 DEF both

\* The unit that continues what was given up to now.
NextUnit == (InFile!LastGiven + 1) % length

\* The frame given last continues the one before it.
FileFrame ==
    /\ length \in Nat \ {0}
    /\ before \in 0..(length - 1) /\ out \in Seq(0..(length - 1))
    /\ InFile!Continues

LEMMA LastIsUnit ==
    ASSUME FileFrame
    PROVE  /\ InFile!LastGiven = IF out = <<>> THEN before ELSE out[Len(out)]
           /\ InFile!LastGiven \in 0..(length - 1) /\ NextUnit \in 0..(length - 1)
<1>1. out # <<>> => out[Len(out)] \in 0..(length - 1)
    BY DEF FileFrame
<1>2. out # <<>> => out[Len(out)] # -1
    BY <1>1
<1>3. InFile!LastGiven = IF out = <<>> THEN before ELSE out[Len(out)]
    BY <1>2 DEF InFile!LastGiven, InFile!Silence
<1>4. InFile!LastGiven \in 0..(length - 1)
    BY <1>1, <1>3 DEF FileFrame
<1>5. InFile!LastGiven + 1 \in Int
    BY <1>4 DEF FileFrame
<1>6. NextUnit \in 0..(length - 1)
    BY <1>5, RemainderIs DEF NextUnit, FileFrame
<1> QED BY <1>3, <1>4, <1>6

\* The same of the frame given by a step.
LEMMA LastIsUnitNext ==
    ASSUME FileFrame'
    PROVE  /\ InFile!LastGiven' = IF out' = <<>> THEN before' ELSE out'[Len(out')]
           /\ NextUnit' = (InFile!LastGiven' + 1) % length'
<1>1. out' # <<>> => out'[Len(out')] \in 0..(length' - 1)
    BY DEF FileFrame
<1>2. out' # <<>> => out'[Len(out')] # -1
    BY <1>1
<1>3. InFile!LastGiven' = IF out' = <<>> THEN before' ELSE out'[Len(out')]
    BY <1>2 DEF InFile!LastGiven, InFile!Silence
<1> QED BY <1>3 DEF NextUnit

LEMMA FrameStill ==
    ASSUME FileFrame, UNCHANGED <<length, before, out>> PROVE FileFrame' /\ NextUnit' = NextUnit
BY DEF FileFrame, NextUnit, InFile!Continues, InFile!LastGiven, InFile!Silence

LEMMA GiveNothing ==
    ASSUME FileFrame, length' = length, out' = <<>>, before' \in 0..(length - 1)
    PROVE  FileFrame' /\ NextUnit' = (before' + 1) % length
<1>1. FileFrame'
    BY DEF FileFrame, InFile!Continues
<1> QED BY <1>1, LastIsUnitNext

LEMMA GiveUnits ==
    ASSUME FileFrame, NEW from \in Nat, NEW n \in Nat, from % length = NextUnit,
           length' = length, before' = InFile!LastGiven,
           out' = [i \in 1..n |-> (from + i - 1) % length]
    PROVE  FileFrame' /\ NextUnit' = (from + n) % length
<1>1. length \in Nat \ {0} /\ before' \in 0..(length - 1)
    BY LastIsUnit DEF FileFrame
<1>2. \A x \in Int : x % length \in 0..(length - 1)
    BY <1>1, RemainderIs
<1>3. \A x \in Int : ((x % length) + 1) % length = (x + 1) % length
  <2>1. 1 \in Int
      OBVIOUS
  <2> QED BY <1>1, <2>1, RemainderAdd, Zenon
<1>4. out' \in Seq(0..(length - 1)) /\ Len(out') = n
  <2>1. \A i \in 1..n : from + i - 1 \in Int
      OBVIOUS
  <2> DEFINE U == 0..(length - 1)
  <2>2. out' \in [1..n -> U]
      BY <1>2, <2>1
  <2> HIDE DEF U
  <2>3. out' \in Seq(U) /\ Len(out') = n
      BY <2>2, FunctionIsSequence
  <2> QED BY <2>3 DEF U
<1>5. \A i \in 1..n : out'[i] = (from + i - 1) % length
    OBVIOUS
<1>6. ASSUME NEW i \in 1..(n - 1) PROVE out'[i + 1] = (out'[i] + 1) % length
  <2>1. out'[i + 1] = (from + i) % length /\ out'[i] = (from + i - 1) % length
      BY <1>5
  <2>2. from + i - 1 \in Int /\ (from + i - 1) + 1 = from + i
      OBVIOUS
  <2> QED BY <1>3, <2>1, <2>2
<1>7. out' # <<>> => out'[1] = (before' + 1) % length
  <2>1. SUFFICES ASSUME n # 0 PROVE out'[1] = from % length
      BY <1>4 DEF NextUnit
  <2> QED BY <1>5, <2>1
<1>8. FileFrame'
    BY <1>1, <1>4, <1>6, <1>7 DEF FileFrame, InFile!Continues
<1>9. CASE n = 0
    BY <1>4, <1>8, <1>9, LastIsUnitNext DEF NextUnit
<1>10. CASE n # 0
  <2>1. InFile!LastGiven' = (from + n - 1) % length
      BY <1>4, <1>5, <1>8, <1>10, LastIsUnitNext
  <2>2. from + n - 1 \in Int /\ (from + n - 1) + 1 = from + n
      OBVIOUS
  <2>3. NextUnit' = (((from + n - 1) % length) + 1) % length
      BY <1>8, <2>1, LastIsUnitNext
  <2> QED BY <1>3, <1>8, <2>2, <2>3
<1> QED BY <1>9, <1>10

LEMMA GiveOneMore ==
    ASSUME FileFrame, length' = length, before' = before, out' = Append(out, NextUnit)
    PROVE  FileFrame' /\ NextUnit' = (NextUnit + 1) % length
<1>1. NextUnit \in 0..(length - 1)
    BY LastIsUnit
<1>2. /\ out' \in Seq(0..(length - 1)) /\ Len(out) \in Nat /\ Len(out') = Len(out) + 1
      /\ out' # <<>> /\ out'[Len(out')] = NextUnit
      /\ \A i \in 1..Len(out) : out'[i] = out[i]
    BY <1>1 DEF FileFrame
<1>3. ASSUME NEW i \in 1..(Len(out') - 1) PROVE out'[i + 1] = (out'[i] + 1) % length
  <2>1. CASE i < Len(out)
      BY <1>2, <2>1 DEF FileFrame, InFile!Continues
  <2>2. CASE i = Len(out)
    <3>1. out # <<>> /\ out'[i] = InFile!LastGiven
        BY <1>2, <2>2, LastIsUnit DEF FileFrame
    <3> QED BY <1>2, <2>2, <3>1 DEF NextUnit
  <2> QED BY <1>2, <2>1, <2>2
<1>4. out'[1] = (before' + 1) % length
  <2>1. CASE out = <<>>
      BY <1>2, <2>1, LastIsUnit DEF NextUnit
  <2>2. CASE out # <<>>
      BY <1>2, <2>2 DEF FileFrame, InFile!Continues
  <2> QED BY <2>1, <2>2
<1>5. FileFrame'
    BY <1>2, <1>3, <1>4 DEF FileFrame, InFile!Continues
<1> QED BY <1>2, <1>5, LastIsUnitNext

-----------------------------------------------------------------------------
Raw == file.format = "raw"
Packeted == file.format \in {"packet", "enhanced"}

\* What a file has for good.
FileKinds ==
    /\ file \in MCFiles
    /\ Raw => FrameSize <= length /\ (file.mode = "whole" => length % FrameSize = 0)
    /\ Packeted => length = Len(Packets)

\* The next unit read is the one that continues what was given, behind what is kept of
\* a pipe and behind the packet read before.
FilePlace ==
    /\ pos \in 0..length /\ ahead \in Nat
    /\ Raw /\ file.mode = "nonblock" =>
          \E kept \in 0..(FrameSize - 1) :
             /\ m_nonblock_buffer = [i \in 1..kept |-> (NextUnit + i - 1) % length]
             /\ pos = (NextUnit + kept) % length
    /\ Packeted /\ m_packet # InFile!NoPacket =>
          m_packet \in 0..(length - 1) /\ m_packet = NextUnit /\ pos = m_packet + 1
    /\ (Packeted => m_packet = InFile!NoPacket) /\ ~(Raw /\ file.mode = "nonblock") =>
          pos % length = NextUnit
    /\ Raw /\ file.mode = "whole" => pos % FrameSize = 0
    /\ file.mode = "whole" /\ ~loaded => pos = 0

\* The table is not full between two packets, and the parity follows a full one.
FileFec ==
    /\ written \in 0..FrameSize
    /\ m_enhancedPacketWaiting \in 0..192 /\ m_enhancedPacketLength \in 0..94
    /\ m_enhancedPacketWaiting = 0 =>
          sinceFec = m_enhancedPacketLength /\ m_enhancedPacketLength < 94
    /\ m_enhancedPacketWaiting = 192 => sinceFec = 94
    /\ ~InFile!Enhanced => m_enhancedPacketWaiting = 0 /\ m_enhancedPacketLength = 0

FileInv == FileFrame /\ FileKinds /\ FilePlace /\ FileFec

LEMMA FileKindFacts ==
    ASSUME FileKinds
    PROVE  /\ file.format \in {"raw", "packet", "enhanced", "mpeg24", "mpeg48"}
           /\ file.mode \in {"block", "nonblock", "whole"}
           /\ file.format = "enhanced" => file.mode # "nonblock"
           /\ file.format \in {"mpeg24", "mpeg48"} => file.mode = "block"
BY DEF FileKinds, MCFiles

LEMMA FileInit == ASSUME InFile!Init, ~InFile!EndIsTorn PROVE FileInv
<1>1. file \in MCFiles /\ pos = 0 /\ ahead = 0 /\ m_nonblock_buffer = <<>> /\ m_packet = InFile!NoPacket
      /\ before = length - 1 /\ out = <<>> /\ (loaded <=> file.mode = "whole")
      /\ written = 0 /\ m_enhancedPacketLength = 0 /\ m_enhancedPacketWaiting = 0 /\ sinceFec = 0
    BY DEF InFile!Init
<1>2. /\ FrameSize \in Nat \ {0} /\ MpegLength \in Nat \ {0}
      /\ RawLengths \subseteq Nat /\ \A n \in RawLengths : n >= FrameSize
      /\ Packets \in Seq(1..4) /\ Packets # <<>>
    BY FilesAssumption DEF InFile!FilesOK
<1>3. FileKinds /\ length \in Nat \ {0}
  <2>1. CASE Raw
    <3>1. length \in RawLengths /\ (file.mode = "whole" => length % FrameSize = 0)
        BY <2>1 DEF InFile!Init, InFile!EndIsTorn, Raw
    <3> QED BY <1>1, <1>2, <2>1, <3>1 DEF FileKinds, Raw, Packeted
  <2>2. CASE Packeted
    <3>1. length = Len(Packets)
        BY <2>2 DEF InFile!Init, Packeted
    <3>2. Len(Packets) \in Nat \ {0}
        BY <1>2
    <3> QED BY <1>1, <2>2, <3>1, <3>2 DEF FileKinds, Raw, Packeted
  <2>3. CASE ~Raw /\ ~Packeted
    <3>1. length = MpegLength
        BY <2>3 DEF InFile!Init, Raw, Packeted
    <3> QED BY <1>1, <1>2, <2>3, <3>1 DEF FileKinds
  <2> QED BY <2>1, <2>2, <2>3
<1>4. FileFrame
    BY <1>1, <1>3 DEF FileFrame, InFile!Continues
<1>5. length % length = 0 /\ 0 % length = 0 /\ 0 % FrameSize = 0
    BY <1>2, <1>3, RemainderSmall
<1>6. NextUnit = 0
  <2>1. InFile!LastGiven + 1 = length
      BY <1>1, <1>3 DEF InFile!LastGiven
  <2> QED BY <1>5, <2>1 DEF NextUnit
<1>7. FilePlace
  <2>1. m_nonblock_buffer = [i \in 1..0 |-> (NextUnit + i - 1) % length]
      BY <1>1
  <2>2. 0 = (NextUnit + 0) % length
      BY <1>5, <1>6
  <2>3. 0 \in 0..(FrameSize - 1)
      BY <1>2
  <2> QED BY <1>1, <1>3, <1>5, <1>6, <2>1, <2>2, <2>3 DEF FilePlace
<1>8. FileFec
    BY <1>1, <1>2 DEF FileFec
<1> QED BY <1>3, <1>4, <1>7, <1>8 DEF FileInv

LEMMA FileStill == ASSUME FileInv, UNCHANGED fileVars PROVE FileInv'
<1>1. /\ file' = file /\ length' = length /\ pos' = pos /\ ahead' = ahead
      /\ m_nonblock_buffer' = m_nonblock_buffer /\ loaded' = loaded /\ m_packet' = m_packet
      /\ m_enhancedPacketLength' = m_enhancedPacketLength
      /\ m_enhancedPacketWaiting' = m_enhancedPacketWaiting /\ sinceFec' = sinceFec
      /\ written' = written /\ before' = before /\ out' = out
    BY DEF fileVars
<1>2. FileFrame' /\ NextUnit' = NextUnit
    BY <1>1, FrameStill DEF FileInv
<1>3. FileKinds' /\ FilePlace' /\ FileFec'
    BY <1>1, <1>2 DEF FileInv, FileKinds, FilePlace, FileFec, Raw, Packeted, InFile!NoPacket,
       InFile!Enhanced
<1> QED BY <1>2, <1>3 DEF FileInv

-----------------------------------------------------------------------------
LEMMA KindsStill == ASSUME FileKinds, UNCHANGED <<file, length>> PROVE FileKinds'
BY DEF FileKinds, Raw, Packeted

LEMMA FecStill ==
    ASSUME FileFec, UNCHANGED <<file, m_enhancedPacketLength, m_enhancedPacketWaiting, sinceFec, written>>
    PROVE  FileFec'
BY DEF FileFec, InFile!Enhanced

LEMMA FilePipe == ASSUME FileInv, InFile!Write \/ InFile!Replace PROVE FileInv'
<1>1. UNCHANGED <<file, length, pos, m_nonblock_buffer, loaded, m_packet, m_enhancedPacketLength,
                  m_enhancedPacketWaiting, sinceFec, written, before, out>>
    BY DEF InFile!Write, InFile!Replace, InFile!source, InFile!packet, InFile!frame
<1>2. FileFrame' /\ NextUnit' = NextUnit
    BY <1>1, FrameStill DEF FileInv
<1>3. ahead \in Nat => ahead' \in Nat
    BY DEF InFile!Write, InFile!Replace
<1>4. FilePlace'
    BY <1>1, <1>2, <1>3 DEF FileInv, FilePlace, Raw, Packeted, InFile!NoPacket
<1> QED BY <1>1, <1>2, <1>4, KindsStill, FecStill DEF FileInv

LEMMA FileRawBlock == ASSUME FileInv, InFile!ReadRawBlock PROVE FileInv'
<1>1. /\ Raw /\ ~Packeted /\ file.mode = "block" /\ UNCHANGED <<file, length, ahead, written>>
      /\ UNCHANGED <<m_enhancedPacketLength, m_enhancedPacketWaiting, sinceFec>>
    BY DEF InFile!ReadRawBlock, InFile!Give, InFile!source, InFile!packet, Raw, Packeted
<1>2. FrameSize \in Nat \ {0} /\ length \in Nat \ {0} /\ FrameSize <= length
      /\ pos \in 0..length /\ ahead \in Nat /\ pos % length = NextUnit
    BY <1>1, FilesAssumption DEF FileInv, FileKinds, FileFrame, FilePlace, InFile!FilesOK
<1>3. before' = InFile!LastGiven
      /\ out' = [i \in 1..FrameSize |->
                   IF i <= (length - pos) + length THEN (pos + i - 1) % length ELSE InFile!Silence]
      /\ pos' = IF FrameSize <= length - pos THEN pos + FrameSize
                ELSE InFile!Lesser(FrameSize - (length - pos), length)
    BY DEF InFile!ReadRawBlock, InFile!Give
<1>4. out' = [i \in 1..FrameSize |-> (pos + i - 1) % length]
    BY <1>2, <1>3
<1>5. FileFrame' /\ NextUnit' = (pos + FrameSize) % length
  <2>1. FileFrame /\ pos \in Nat /\ FrameSize \in Nat /\ pos % length = NextUnit
        /\ length' = length /\ before' = InFile!LastGiven
      BY <1>1, <1>2, <1>3 DEF FileInv
  <2> QED BY <1>4, <2>1, GiveUnits, Zenon
<1>6. pos' \in 0..length /\ pos' % length' = NextUnit'
  <2>1. CASE FrameSize <= length - pos
      BY <1>1, <1>2, <1>3, <1>5, <2>1
  <2>2. CASE ~(FrameSize <= length - pos)
    <3>1. pos' \in 0..length /\ pos + FrameSize = length + pos'
        BY <1>2, <1>3, <2>2 DEF InFile!Lesser
    <3>2. pos' \in Int /\ (length + pos') % length = pos' % length
        BY <1>2, <3>1, RemainderShift
    <3> QED BY <1>1, <1>5, <3>1, <3>2
  <2> QED BY <2>1, <2>2
<1>7. FilePlace'
    BY <1>1, <1>2, <1>6 DEF FilePlace, Raw, Packeted
<1> QED BY <1>1, <1>5, <1>7, KindsStill, FecStill DEF FileInv

LEMMA FileRawWhole == ASSUME FileInv, InFile!ReadRawWhole PROVE FileInv'
<1>1. /\ Raw /\ ~Packeted /\ file.mode = "whole" /\ UNCHANGED <<file, length, ahead, written>>
      /\ UNCHANGED <<m_enhancedPacketLength, m_enhancedPacketWaiting, sinceFec>>
    BY DEF InFile!ReadRawWhole, InFile!source, InFile!packet, Raw, Packeted
<1>2. FrameSize \in Nat \ {0} /\ length \in Nat \ {0} /\ FrameSize <= length
      /\ pos \in 0..length /\ ahead \in Nat /\ pos % length = NextUnit
      /\ length % FrameSize = 0 /\ pos % FrameSize = 0 /\ (~loaded => pos = 0)
    BY <1>1, FilesAssumption DEF FileInv, FileKinds, FileFrame, FilePlace, InFile!FilesOK
<1> DEFINE room == IF loaded THEN length - pos ELSE 0
           fits == loaded /\ FrameSize <= room
<1>3. /\ loaded' <=> fits \/ present
      /\ pos' = IF fits THEN pos + FrameSize
                ELSE IF present THEN ((FrameSize - room - 1) % length) + 1 ELSE 0
      /\ before' = IF loaded' THEN InFile!LastGiven ELSE length - 1
      /\ out' = IF ~loaded' THEN <<>> ELSE IF fits THEN InFile!Units(pos, FrameSize)
                ELSE InFile!Wrapped(room)
    BY DEF InFile!ReadRawWhole
<1>4. CASE fits
  <2>1. out' = [i \in 1..FrameSize |-> (pos + i - 1) % length] /\ before' = InFile!LastGiven
        /\ loaded' /\ pos' = pos + FrameSize
      BY <1>3, <1>4 DEF InFile!Units
  <2>2. FileFrame' /\ NextUnit' = (pos + FrameSize) % length
    <3>1. FileFrame /\ pos \in Nat /\ FrameSize \in Nat /\ pos % length = NextUnit
          /\ length' = length
        BY <1>1, <1>2 DEF FileInv
    <3> QED BY <2>1, <3>1, GiveUnits, Zenon
  <2>3. (pos + FrameSize) % FrameSize = 0
    <3>1. pos \in Nat /\ pos <= length /\ length \in Nat
        BY <1>2
    <3> QED BY <1>2, <3>1, WholeFrames
  <2>4. pos' \in 0..length
      BY <1>2, <1>4, <2>1
  <2>5. FilePlace'
      BY <1>1, <1>2, <2>1, <2>2, <2>3, <2>4 DEF FilePlace, Raw, Packeted
  <2> QED BY <1>1, <2>2, <2>5, KindsStill, FecStill DEF FileInv
<1>5. CASE ~fits
  <2>1. NextUnit = 0 /\ room = 0
    <3>1. 0 % length = 0 /\ length % length = 0
        BY <1>2, RemainderSmall
    <3>2. loaded => pos = length
      <4>1. pos \in Nat /\ pos <= length /\ length \in Nat
          BY <1>2
      <4>2. loaded => length - pos < FrameSize
          BY <1>2, <1>5
      <4> QED BY <1>2, <4>1, <4>2, WholeFrames
    <3> QED BY <1>2, <3>1, <3>2
  <2>2. CASE present
    <3>1. (FrameSize - room - 1) % length = FrameSize - 1
      <4>1. FrameSize - room - 1 \in 0..(length - 1) /\ FrameSize - room - 1 = FrameSize - 1
          BY <1>2, <2>1
      <4> QED BY <1>2, <4>1, RemainderSmall
    <3>2. loaded' /\ before' = InFile!LastGiven /\ out' = InFile!Wrapped(room)
          /\ pos' = FrameSize
      <4>1. (FrameSize - 1) + 1 = FrameSize
          BY <1>2
      <4> QED BY <1>3, <1>5, <2>2, <3>1, <4>1
    <3>3. \A i \in 1..FrameSize : (0 + i - 1) % length = i - 1
      <4>1. SUFFICES ASSUME NEW i \in 1..FrameSize PROVE (0 + i - 1) % length = i - 1
          OBVIOUS
      <4>2. i - 1 \in 0..(length - 1) /\ 0 + i - 1 = i - 1
          BY <1>2
      <4> QED BY <1>2, <4>2, RemainderSmall
    <3>4. out' = [i \in 1..FrameSize |-> i - 1]
      <4>1. ((FrameSize - room - 1) % length) + 1 = FrameSize
          BY <1>2, <3>1
      <4>2. \A i \in 1..FrameSize : i <= FrameSize
          BY <1>2
      <4> QED BY <3>2, <4>1, <4>2 DEF InFile!Wrapped
    <3>5. out' = [i \in 1..FrameSize |-> (0 + i - 1) % length]
        BY <3>3, <3>4
    <3>6. 0 \in Nat /\ 0 % length = NextUnit
        BY <1>2, <2>1, RemainderSmall
    <3>7. FileFrame' /\ NextUnit' = (0 + FrameSize) % length
      <4>1. FileFrame /\ FrameSize \in Nat /\ length' = length
          BY <1>1, <1>2 DEF FileInv
      <4> QED BY <3>2, <3>5, <3>6, <4>1, GiveUnits, Zenon
    <3>8. FrameSize % FrameSize = 0 /\ 0 + FrameSize = FrameSize
        BY <1>2, RemainderSmall
    <3>9. FilePlace'
        BY <1>1, <1>2, <3>2, <3>7, <3>8 DEF FilePlace, Raw, Packeted
    <3> QED BY <1>1, <3>7, <3>9, KindsStill, FecStill DEF FileInv
  <2>3. CASE ~present
    <3>1. ~loaded' /\ before' = length - 1 /\ out' = <<>> /\ pos' = 0
        BY <1>3, <1>5, <2>3
    <3>2. before' \in 0..(length - 1) /\ before' + 1 = length
        BY <1>2, <3>1
    <3>3. FileFrame' /\ NextUnit' = 0
        BY <1>1, <1>2, <3>1, <3>2, GiveNothing, RemainderSmall DEF FileInv
    <3>4. 0 % length = 0 /\ 0 % FrameSize = 0
        BY <1>2, RemainderSmall
    <3>5. FilePlace'
        BY <1>1, <1>2, <3>1, <3>3, <3>4 DEF FilePlace, Raw, Packeted
    <3> QED BY <1>1, <3>3, <3>5, KindsStill, FecStill DEF FileInv
  <2> QED BY <2>2, <2>3
<1> QED BY <1>4, <1>5

LEMMA FileRawNonblock == ASSUME FileInv, InFile!ReadRawNonblock PROVE FileInv'
<1>1. /\ Raw /\ ~Packeted /\ file.mode = "nonblock"
      /\ UNCHANGED <<m_enhancedPacketLength, m_enhancedPacketWaiting, sinceFec, file, length, written>>
      /\ before' = InFile!LastGiven
    BY DEF InFile!ReadRawNonblock, InFile!Give, InFile!source, InFile!packet, Raw, Packeted
<1>2. FrameSize \in Nat \ {0} /\ length \in Nat \ {0} /\ ahead \in Nat
    BY FilesAssumption DEF FileInv, FileFrame, FilePlace, InFile!FilesOK
<1>3. PICK kept \in 0..(FrameSize - 1) :
        /\ m_nonblock_buffer = [i \in 1..kept |-> (NextUnit + i - 1) % length]
        /\ pos = (NextUnit + kept) % length
    BY <1>1 DEF FileInv, FilePlace
<1>4. kept \in Nat /\ Len(m_nonblock_buffer) = kept
    BY <1>2, <1>3
<1>5. PICK got \in IF ahead = 0 THEN {0} ELSE 1..InFile!Lesser(FrameSize - kept, ahead) :
        /\ ahead' = ahead - got /\ pos' = (pos + got) % length
        /\ out' = IF got = FrameSize - kept THEN m_nonblock_buffer \o InFile!Units(pos, got) ELSE <<>>
        /\ m_nonblock_buffer' = IF got = FrameSize - kept THEN <<>>
                                ELSE m_nonblock_buffer \o InFile!Units(pos, got)
    BY <1>4 DEF InFile!ReadRawNonblock, InFile!Give, InFile!Keep
<1>6. NextUnit \in 0..(length - 1)
    BY LastIsUnit DEF FileInv
<1>7. got \in Nat /\ got <= FrameSize - kept /\ ahead' \in Nat
    BY <1>2, <1>3, <1>5 DEF InFile!Lesser
<1>8. \A i \in Nat : (pos + i) % length = (NextUnit + kept + i) % length
  <2>1. ASSUME NEW i \in Nat PROVE (pos + i) % length = (NextUnit + kept + i) % length
    <3>1. NextUnit + kept \in Int /\ i \in Int
        BY <1>6
    <3>2. (((NextUnit + kept) % length) + i) % length = (NextUnit + kept + i) % length
        BY <1>2, <3>1, RemainderAdd, Zenon
    <3> QED BY <1>3, <3>2, Zenon
  <2> QED BY <2>1
<1>9. m_nonblock_buffer \o InFile!Units(pos, got)
        = [i \in 1..(kept + got) |-> (NextUnit + i - 1) % length]
  <2>1. \A i \in 1..got : (pos + i - 1) % length = (NextUnit + (kept + i) - 1) % length
    <3>1. ASSUME NEW i \in 1..got
          PROVE  (pos + i - 1) % length = (NextUnit + (kept + i) - 1) % length
      <4>1. i - 1 \in Nat /\ pos + (i - 1) = pos + i - 1
            /\ NextUnit + kept + (i - 1) = NextUnit + (kept + i) - 1
        <5>1. pos \in Int
            BY <1>2 DEF FileInv, FilePlace
        <5> QED BY <1>6, <1>4, <5>1
      <4> QED BY <1>8, <4>1
    <3> QED BY <3>1
  <2>2. InFile!Units(pos, got) = [i \in 1..got |-> (NextUnit + (kept + i) - 1) % length]
      BY <2>1 DEF InFile!Units
  <2>3. \A i \in 1..kept : (NextUnit + i - 1) % length \in Int
    <3>1. ASSUME NEW i \in 1..kept PROVE (NextUnit + i - 1) % length \in Int
      <4>1. NextUnit + i - 1 \in Int
          BY <1>6
      <4> QED BY <1>2, <4>1, RemainderIs
    <3> QED BY <3>1
  <2>4. \A i \in 1..got : (NextUnit + (kept + i) - 1) % length \in Int
    <3>1. ASSUME NEW i \in 1..got PROVE (NextUnit + (kept + i) - 1) % length \in Int
      <4>1. NextUnit + (kept + i) - 1 \in Int
          BY <1>6, <1>4
      <4> QED BY <1>2, <4>1, RemainderIs
    <3> QED BY <3>1
  <2>5. m_nonblock_buffer \in [1..kept -> Int] /\ InFile!Units(pos, got) \in [1..got -> Int]
      BY <1>3, <2>2, <2>3, <2>4
  <2>6. [i \in 1..(kept + got) |-> (NextUnit + i - 1) % length] \in [1..(kept + got) -> Int]
    <3>1. ASSUME NEW i \in 1..(kept + got) PROVE (NextUnit + i - 1) % length \in Int
      <4>1. NextUnit + i - 1 \in Int
          BY <1>6, <1>4
      <4> QED BY <1>2, <4>1, RemainderIs
    <3> QED BY <3>1
  <2> DEFINE both == [i \in 1..(kept + got) |-> (NextUnit + i - 1) % length]
  <2>7. \A i \in 1..kept : both[i] = m_nonblock_buffer[i]
      BY <1>3, <1>7, <1>4
  <2>8. \A i \in 1..got : both[kept + i] = InFile!Units(pos, got)[i]
      BY <1>7, <1>4, <2>2
  <2> HIDE DEF both
  <2>9. both \in [1..(kept + got) -> Int]
      BY <2>6 DEF both
  <2>10. m_nonblock_buffer \o InFile!Units(pos, got) = both
    <3>1. got \in Nat /\ kept + got \in Nat
        BY <1>7, <1>4
    <3>2. /\ m_nonblock_buffer \in Seq(Int) /\ Len(m_nonblock_buffer) = kept
          /\ InFile!Units(pos, got) \in Seq(Int) /\ Len(InFile!Units(pos, got)) = got
          /\ both \in Seq(Int) /\ Len(both) = kept + got
        BY <1>4, <2>5, <2>9, <3>1, FunctionIsSequence
    <3>3. /\ \A i \in 1..Len(m_nonblock_buffer) : both[i] = m_nonblock_buffer[i]
          /\ \A i \in 1..Len(InFile!Units(pos, got)) :
                both[Len(m_nonblock_buffer) + i] = InFile!Units(pos, got)[i]
          /\ Len(both) = Len(m_nonblock_buffer) + Len(InFile!Units(pos, got))
        BY <2>7, <2>8, <3>2, Zenon
    <3>4. /\ m_nonblock_buffer \in Seq(Int) /\ InFile!Units(pos, got) \in Seq(Int)
          /\ both \in Seq(Int)
        BY <3>2
    <3> QED BY <3>3, <3>4, JoinIs, Zenon
  <2> QED BY <2>10 DEF both
<1>10. pos' = (NextUnit + (kept + got)) % length
  <2>1. NextUnit + kept + got = NextUnit + (kept + got)
      BY <1>4, <1>6, <1>7
  <2> QED BY <1>5, <1>7, <1>8, <2>1
<1>11. pos' \in 0..(length - 1)
  <2>1. NextUnit + (kept + got) \in Int
      BY <1>4, <1>6, <1>7
  <2> QED BY <1>2, <1>10, <2>1, RemainderIs
<1>12. CASE got = FrameSize - kept
  <2>1. kept + got = FrameSize
      BY <1>2, <1>4, <1>7, <1>12
  <2>2. out' = [i \in 1..FrameSize |-> (NextUnit + i - 1) % length]
      BY <1>5, <1>9, <1>12, <2>1
  <2>3. /\ FileFrame /\ NextUnit \in Nat /\ FrameSize \in Nat /\ NextUnit % length = NextUnit
        /\ length' = length
    <3>1. NextUnit % length = NextUnit
        BY <1>2, <1>6, RemainderSmall
    <3> QED BY <1>1, <1>2, <1>6, <3>1 DEF FileInv
  <2>4. FileFrame' /\ NextUnit' = (NextUnit + FrameSize) % length
      BY <1>1, <2>2, <2>3, GiveUnits, Zenon
  <2>5. NextUnit' = pos' /\ m_nonblock_buffer' = <<>>
      BY <1>5, <1>10, <1>12, <2>1, <2>4
  <2>6. (NextUnit' + 0) % length = pos'
    <3>1. \A x \in 0..(length - 1) : x % length = x /\ x + 0 = x
        BY <1>2, RemainderSmall
    <3> QED BY <1>11, <2>5, <3>1
  <2>7. m_nonblock_buffer' = [i \in 1..0 |-> (NextUnit' + i - 1) % length']
      BY <2>5
  <2>8. FilePlace'
    <3>1. 0 \in 0..(FrameSize - 1) /\ pos' \in 0..length'
        BY <1>1, <1>2, <1>11
    <3> QED BY <1>1, <1>7, <2>6, <2>7, <3>1 DEF FilePlace, Raw, Packeted
  <2> QED BY <1>1, <2>4, <2>8, KindsStill, FecStill DEF FileInv
<1>13. CASE got # FrameSize - kept
  <2>1. kept + got \in 0..(FrameSize - 1)
      BY <1>2, <1>4, <1>7, <1>13
  <2>2. m_nonblock_buffer' = [i \in 1..(kept + got) |-> (NextUnit + i - 1) % length] /\ out' = <<>>
      BY <1>5, <1>9, <1>13
  <2>3. FileFrame' /\ NextUnit' = NextUnit
    <3>1. FileFrame /\ length' = length /\ before' \in 0..(length - 1)
        BY <1>1, LastIsUnit DEF FileInv
    <3> QED BY <1>1, <2>2, <3>1, GiveNothing, Zenon DEF NextUnit
  <2>4. pos' \in 0..length'
      BY <1>1, <1>2, <1>11
  <2>5. FilePlace'
      BY <1>1, <1>7, <1>10, <2>1, <2>2, <2>3, <2>4 DEF FilePlace, Raw, Packeted
  <2> QED BY <1>1, <2>3, <2>5, KindsStill, FecStill DEF FileInv
<1> QED BY <1>12, <1>13

LEMMA FileMpeg == ASSUME FileInv, InFile!ReadMpeg PROVE FileInv'
<1>1. /\ ~Raw /\ ~Packeted /\ file.mode # "whole"
      /\ UNCHANGED <<m_enhancedPacketLength, m_enhancedPacketWaiting, sinceFec, file, length,
                     ahead, written>>
    BY FileKindFacts DEF InFile!ReadMpeg, InFile!source, InFile!packet, Raw, Packeted, FileInv
<1>2. length \in Nat \ {0} /\ pos \in 0..length /\ pos % length = NextUnit /\ ahead \in Nat
    BY <1>1 DEF FileInv, FileFrame, FilePlace
<1>3. PICK at \in {0, pos}, need \in {1, 2} :
        /\ at = 0 => pos \in {0, length}
        /\ before' = IF need <= length - at THEN InFile!LastGiven ELSE length - 1
        /\ out' = IF need <= length - at THEN InFile!Units(at, need) ELSE <<>>
        /\ pos' = at + InFile!Lesser(need, length - at)
    BY <1>2 DEF InFile!ReadMpeg
<1>4. at \in 0..length /\ at % length = NextUnit
    BY <1>2, <1>3, RemainderSmall
<1>5. CASE need <= length - at
  <2>1. before' = InFile!LastGiven /\ out' = [i \in 1..need |-> (at + i - 1) % length]
        /\ pos' = at + need
      BY <1>3, <1>5 DEF InFile!Units, InFile!Lesser
  <2>2. FileFrame' /\ NextUnit' = (at + need) % length
    <3>1. FileFrame /\ at \in Nat /\ need \in Nat /\ at % length = NextUnit /\ length' = length
        BY <1>1, <1>2, <1>4 DEF FileInv
    <3> QED BY <2>1, <3>1, GiveUnits, Zenon
  <2>3. FilePlace'
      BY <1>1, <1>2, <1>4, <1>5, <2>1, <2>2 DEF FilePlace, Raw, Packeted
  <2> QED BY <1>1, <2>2, <2>3, KindsStill, FecStill DEF FileInv
<1>6. CASE ~(need <= length - at)
  <2>1. before' = length - 1 /\ out' = <<>> /\ pos' = length
      BY <1>2, <1>3, <1>4, <1>6 DEF InFile!Lesser
  <2>2. before' \in 0..(length - 1) /\ before' + 1 = length
      BY <1>2, <2>1
  <2>3. FileFrame' /\ NextUnit' = length % length
      BY <1>1, <2>1, <2>2, GiveNothing DEF FileInv
  <2>4. FilePlace'
      BY <1>1, <1>2, <2>1, <2>3 DEF FilePlace, Raw, Packeted
  <2> QED BY <1>1, <2>3, <2>4, KindsStill, FecStill DEF FileInv
<1> QED BY <1>5, <1>6

LEMMA PlaceStill ==
    ASSUME FilePlace, NextUnit' = NextUnit,
           UNCHANGED <<file, length, pos, ahead, m_nonblock_buffer, loaded, m_packet>>
    PROVE  FilePlace'
BY DEF FilePlace, Raw, Packeted, InFile!NoPacket

\* What is put into a frame that has room for it, and into a table that has.
LEMMA PutKeepsFec ==
    ASSUME FileFec, NEW size \in Nat, size > 0, m_enhancedPacketWaiting = 0,
           written + size <= FrameSize,
           InFile!Enhanced => m_enhancedPacketLength + size <= 94, InFile!Put(size)
    PROVE  FileFec' /\ UNCHANGED <<file, length, before>>
<1>1. /\ written' = written + size
      /\ sinceFec' = IF InFile!Enhanced THEN sinceFec + size ELSE 0
      /\ m_enhancedPacketLength' = IF InFile!Enhanced
                                   THEN InFile!Lesser(m_enhancedPacketLength + size, 94) ELSE 0
      /\ m_enhancedPacketWaiting' = IF InFile!Enhanced /\ m_enhancedPacketLength + size >= 94
                                    THEN 192 ELSE 0
      /\ UNCHANGED <<file, length, before>>
    BY DEF InFile!Put, InFile!source, InFile!TableSize, InFile!FecBytes
<1>2. InFile!Enhanced' = InFile!Enhanced
    BY <1>1 DEF InFile!Enhanced
<1>3. FrameSize \in Nat
    BY FilesAssumption DEF InFile!FilesOK
<1>4. CASE InFile!Enhanced
    BY <1>1, <1>2, <1>3, <1>4 DEF FileFec, InFile!Lesser
<1>5. CASE ~InFile!Enhanced
    BY <1>1, <1>2, <1>3, <1>5 DEF FileFec
<1> QED BY <1>1, <1>4, <1>5

\* Only in a packet file is the loop of PacketFile::readFrame under way, so that a step of
\* it finds one.
ReadingPackets == reading => Packeted

LEMMA FileCall == ASSUME FileInv, InFile!Call PROVE FileInv'
<1>1. /\ Packeted /\ UNCHANGED <<file, length, pos, ahead, m_nonblock_buffer, loaded, m_packet>>
      /\ UNCHANGED <<m_enhancedPacketLength, m_enhancedPacketWaiting, sinceFec>>
      /\ written' = 0 /\ before' = InFile!LastGiven /\ out' = <<>>
    BY DEF InFile!Call, InFile!source, InFile!access, InFile!packet, Packeted
<1>2. FileFrame' /\ NextUnit' = NextUnit
  <2>1. FileFrame /\ length' = length /\ before' \in 0..(length - 1)
      BY <1>1, LastIsUnit DEF FileInv
  <2> QED BY <1>1, <2>1, GiveNothing, Zenon DEF NextUnit
<1>3. FileFec'
  <2>1. FrameSize \in Nat
      BY FilesAssumption DEF InFile!FilesOK
  <2> QED BY <1>1, <2>1 DEF FileInv, FileFec, InFile!Enhanced
<1> QED BY <1>1, <1>2, <1>3, KindsStill, PlaceStill DEF FileInv

LEMMA FilePutFec == ASSUME FileInv, InFile!PutFec PROVE FileInv'
<1>1. /\ UNCHANGED <<file, length, pos, ahead, m_nonblock_buffer, loaded, m_packet, before, out>>
      /\ m_enhancedPacketWaiting > 0 /\ written < FrameSize /\ written' = written + 1
      /\ m_enhancedPacketWaiting' = IF m_enhancedPacketWaiting > 22
                                    THEN m_enhancedPacketWaiting - 22 ELSE 0
      /\ m_enhancedPacketLength' = IF m_enhancedPacketWaiting' = 0 THEN 0 ELSE m_enhancedPacketLength
      /\ sinceFec' = 0
    BY DEF InFile!PutFec, InFile!source, InFile!access, InFile!frame, InFile!BytesPerFecPacket
<1>2. FileFrame' /\ NextUnit' = NextUnit
    BY <1>1, FrameStill DEF FileInv
<1>3. FileFec'
  <2>1. FrameSize \in Nat
      BY FilesAssumption DEF InFile!FilesOK
  <2> QED BY <1>1, <2>1 DEF FileInv, FileFec, InFile!Enhanced
<1> QED BY <1>1, <1>2, <1>3, KindsStill, PlaceStill DEF FileInv

LEMMA FileReturn == ASSUME FileInv, InFile!Return PROVE FileInv'
<1>1. UNCHANGED <<file, length, pos, ahead, m_nonblock_buffer, loaded, m_packet,
                  m_enhancedPacketLength, m_enhancedPacketWaiting, sinceFec, written, before, out>>
    BY DEF InFile!Return, InFile!source, InFile!access, InFile!packet, InFile!frame
<1>2. FileFrame' /\ NextUnit' = NextUnit
    BY <1>1, FrameStill DEF FileInv
<1> QED BY <1>1, <1>2, KindsStill, PlaceStill, FecStill DEF FileInv

LEMMA FileEndPacket == ASSUME FileInv, InFile!EndPacket PROVE FileInv'
<1>1. /\ UNCHANGED <<file, length, pos, ahead, m_nonblock_buffer, loaded, m_packet, before, out>>
      /\ UNCHANGED <<m_enhancedPacketLength, m_enhancedPacketWaiting>>
      /\ file.mode = "nonblock" /\ written' = FrameSize /\ m_enhancedPacketWaiting = 0
      /\ sinceFec' = IF InFile!Enhanced THEN sinceFec + FrameSize - written ELSE 0
    BY DEF InFile!EndPacket, InFile!source, InFile!access, InFile!frame, InFile!Readable
<1>2. ~InFile!Enhanced
    BY <1>1, FileKindFacts DEF FileInv, InFile!Enhanced
<1>3. FileFrame' /\ NextUnit' = NextUnit
    BY <1>1, FrameStill DEF FileInv
<1>4. FileFec'
  <2>1. FrameSize \in Nat
      BY FilesAssumption DEF InFile!FilesOK
  <2> QED BY <1>1, <1>2, <2>1 DEF FileInv, FileFec, InFile!Enhanced
<1> QED BY <1>1, <1>3, <1>4, KindsStill, PlaceStill DEF FileInv

LEMMA FilePutPadding == ASSUME FileInv, InFile!PutPadding PROVE FileInv'
<1>1. /\ UNCHANGED <<pos, ahead, m_nonblock_buffer, loaded, m_packet, out>>
      /\ m_enhancedPacketWaiting = 0 /\ written < FrameSize /\ InFile!Put(1)
    BY DEF InFile!PutPadding, InFile!access
<1>2. FileFec' /\ UNCHANGED <<file, length, before>>
  <2>1. FrameSize \in Nat
      BY FilesAssumption DEF InFile!FilesOK
  <2>2. written + 1 <= FrameSize /\ m_enhancedPacketLength + 1 <= 94
      BY <1>1, <2>1 DEF FileInv, FileFec
  <2> QED BY <1>1, <2>2, PutKeepsFec DEF FileInv
<1>3. FileFrame' /\ NextUnit' = NextUnit
    BY <1>1, <1>2, FrameStill DEF FileInv
<1> QED BY <1>1, <1>2, <1>3, KindsStill, PlaceStill DEF FileInv

LEMMA PacketSizes ==
    ASSUME FileInv, Packeted, NEW p \in 0..(length - 1)
    PROVE  InFile!Size(p) \in Nat /\ InFile!Size(p) > 0
<1>1. Packets \in Seq(1..4) /\ length = Len(Packets)
    BY FilesAssumption DEF InFile!FilesOK, FileInv, FileKinds
<1>2. p + 1 \in 1..Len(Packets)
    BY <1>1
<1>3. Packets[p + 1] \in 1..4
    BY <1>1, <1>2
<1> QED BY <1>3 DEF InFile!Size

LEMMA FitsFacts ==
    ASSUME NEW p, InFile!Fits(p)
    PROVE  /\ written + InFile!Size(p) <= FrameSize
           /\ InFile!Enhanced => m_enhancedPacketLength + InFile!Size(p) <= 94
BY DEF InFile!Fits, InFile!TableSize

LEMMA FilePutPending == ASSUME FileInv, Packeted, InFile!PutPending PROVE FileInv'
<1>1. /\ UNCHANGED <<pos, ahead, m_nonblock_buffer, loaded>>
      /\ m_enhancedPacketWaiting = 0 /\ m_packet # InFile!NoPacket /\ InFile!Fits(m_packet)
      /\ InFile!Put(InFile!Size(m_packet)) /\ out' = Append(out, m_packet)
      /\ m_packet' = InFile!NoPacket
    BY DEF InFile!PutPending, InFile!access
<1>2. /\ m_packet \in 0..(length - 1) /\ m_packet = NextUnit /\ pos = m_packet + 1 /\ ahead \in Nat
      /\ pos \in 0..length
    BY <1>1 DEF FileInv, FilePlace
<1>3. FileFec' /\ UNCHANGED <<file, length, before>>
  <2>1. InFile!Size(m_packet) \in Nat /\ InFile!Size(m_packet) > 0
      BY <1>2, PacketSizes
  <2> QED BY <1>1, <2>1, FitsFacts, PutKeepsFec DEF FileInv
<1>4. FileFrame' /\ NextUnit' = pos % length
  <2>1. FileFrame /\ out' = Append(out, NextUnit) /\ NextUnit + 1 = pos
      BY <1>1, <1>2 DEF FileInv
  <2> QED BY <1>3, <2>1, GiveOneMore
<1>5. FilePlace'
  <2>1. ~Raw /\ (file.mode = "whole" /\ ~loaded => pos = 0)
      BY DEF FileInv, FilePlace, Raw, Packeted
  <2> QED BY <1>1, <1>2, <1>3, <1>4, <2>1 DEF FilePlace, Raw, Packeted, InFile!NoPacket
<1> QED BY <1>3, <1>4, <1>5, KindsStill DEF FileInv

LEMMA FileReadPacket == ASSUME FileInv, Packeted, InFile!ReadPacket PROVE FileInv'
<1>1. /\ m_packet = InFile!NoPacket /\ m_enhancedPacketWaiting = 0
      /\ pos' = (pos % length) + 1
      /\ ahead' = IF file.mode = "nonblock" THEN ahead - 1 ELSE ahead
      /\ (file.mode = "nonblock" => ahead > 0) /\ (loaded' <=> file.mode = "whole")
    BY DEF InFile!ReadPacket, InFile!Readable
<1>2. ~Raw /\ length \in Nat \ {0} /\ pos \in 0..length /\ ahead \in Nat /\ NextUnit = pos % length
    BY <1>1 DEF FileInv, FileFrame, FilePlace, Raw, Packeted
<1>3. NextUnit \in 0..(length - 1)
    BY LastIsUnit DEF FileInv
<1>4. ahead' \in Nat /\ pos' \in 1..length
    BY <1>1, <1>2, <1>3
<1>5. CASE InFile!Fits(NextUnit)
  <2>1. /\ InFile!Put(InFile!Size(NextUnit)) /\ out' = Append(out, NextUnit)
        /\ m_packet' = m_packet
      BY <1>2, <1>5 DEF InFile!ReadPacket
  <2>2. FileFec' /\ UNCHANGED <<file, length, before>>
    <3>1. InFile!Size(NextUnit) \in Nat /\ InFile!Size(NextUnit) > 0
        BY <1>3, PacketSizes
    <3> QED BY <1>1, <1>5, <2>1, <3>1, FitsFacts, PutKeepsFec DEF FileInv
  <2>3. FileFrame' /\ NextUnit' = (NextUnit + 1) % length
      BY <2>1, <2>2, GiveOneMore DEF FileInv
  <2>4. FilePlace'
      BY <1>1, <1>2, <1>4, <2>1, <2>2, <2>3 DEF FilePlace, Raw, Packeted
  <2> QED BY <2>2, <2>3, <2>4, KindsStill DEF FileInv
<1>6. CASE ~InFile!Fits(NextUnit)
  <2>1. /\ m_packet' = NextUnit
        /\ UNCHANGED <<file, length, before, out, written>>
        /\ UNCHANGED <<m_enhancedPacketLength, m_enhancedPacketWaiting, sinceFec>>
      BY <1>2, <1>6 DEF InFile!ReadPacket, InFile!source
  <2>2. FileFrame' /\ NextUnit' = NextUnit
      BY <2>1, FrameStill DEF FileInv
  <2>3. m_packet' # InFile!NoPacket
      BY <1>3, <2>1 DEF InFile!NoPacket
  <2>4. FilePlace'
      BY <1>1, <1>2, <1>3, <1>4, <2>1, <2>2, <2>3 DEF FilePlace, Raw, Packeted, InFile!NoPacket
  <2> QED BY <2>1, <2>2, <2>4, KindsStill, FecStill DEF FileInv
<1> QED BY <1>5, <1>6

LEMMA FileReadZeroes == ASSUME FileInv, Packeted, InFile!ReadZeroes PROVE FileInv'
<1>1. /\ m_packet = InFile!NoPacket /\ m_enhancedPacketWaiting = 0 /\ written < FrameSize
      /\ file.mode = "whole" /\ (pos = length \/ ~loaded) /\ InFile!Put(1)
      /\ pos' = 0 /\ UNCHANGED <<ahead, m_packet, out>>
    BY DEF InFile!ReadZeroes, InFile!Gone
<1>2. /\ ~Raw /\ length \in Nat \ {0} /\ ahead \in Nat /\ NextUnit = pos % length
      /\ (~loaded => pos = 0)
    BY <1>1 DEF FileInv, FileFrame, FilePlace, Raw, Packeted
<1>3. 0 % length = 0 /\ length % length = 0
    BY <1>2, RemainderSmall
<1>4. FileFec' /\ UNCHANGED <<file, length, before>>
  <2>1. FrameSize \in Nat
      BY FilesAssumption DEF InFile!FilesOK
  <2>2. written + 1 <= FrameSize /\ m_enhancedPacketLength + 1 <= 94
      BY <1>1, <2>1 DEF FileInv, FileFec
  <2> QED BY <1>1, <2>2, PutKeepsFec DEF FileInv
<1>5. FileFrame' /\ NextUnit' = 0
    BY <1>1, <1>2, <1>3, <1>4, FrameStill DEF FileInv
<1>6. FilePlace'
    BY <1>1, <1>2, <1>3, <1>4, <1>5 DEF FilePlace, Raw, Packeted, InFile!NoPacket
<1> QED BY <1>4, <1>5, <1>6, KindsStill DEF FileInv

LEMMA ReadingStep ==
    ASSUME FileInv, ReadingPackets, InFile!Next PROVE ReadingPackets'
<1>1. file' = file
    BY DEF InFile!Next, InFile!Write, InFile!Replace, InFile!ReadRawBlock, InFile!ReadRawNonblock,
       InFile!ReadRawWhole, InFile!ReadMpeg, InFile!Call, InFile!ReadPackets, InFile!PutFec,
       InFile!PutPadding, InFile!PutPending, InFile!ReadPacket, InFile!ReadZeroes, InFile!EndPacket,
       InFile!Return, InFile!Give, InFile!Put, InFile!source
<1>2. reading' = reading \/ Packeted \/ ~reading'
    BY DEF InFile!Next, InFile!Write, InFile!Replace, InFile!ReadRawBlock, InFile!ReadRawNonblock,
       InFile!ReadRawWhole, InFile!ReadMpeg, InFile!Call, InFile!ReadPackets, InFile!PutFec,
       InFile!PutPadding, InFile!PutPending, InFile!ReadPacket, InFile!ReadZeroes, InFile!EndPacket,
       InFile!Return, InFile!Give, InFile!Put, Packeted
<1> QED BY <1>1, <1>2 DEF ReadingPackets, Packeted

LEMMA FileStep == ASSUME FileInv, ReadingPackets, InFile!Next PROVE FileInv'
<1>1. reading => Packeted
    BY DEF ReadingPackets
<1>2. InFile!ReadPackets => FileInv'
  <2>1. InFile!PutPending \/ InFile!ReadPacket \/ InFile!ReadZeroes => reading
      BY DEF InFile!PutPending, InFile!ReadPacket, InFile!ReadZeroes
  <2> QED BY <1>1, <2>1, FilePutFec, FilePutPadding, FilePutPending, FileReadPacket,
             FileReadZeroes, FileEndPacket, FileReturn DEF InFile!ReadPackets
<1> QED BY <1>2, FilePipe, FileRawBlock, FileRawNonblock, FileRawWhole, FileMpeg, FileCall
        DEF InFile!Next

-----------------------------------------------------------------------------
(***************************************************************************)
(* A raw file loaded whole that ends within a frame.                       *)
(***************************************************************************)
TornInv ==
    /\ InFile!EndIsTorn /\ ~reading
    /\ length \in Nat /\ FrameSize <= length
    /\ pos \in 0..length /\ (~loaded => pos = 0)
    /\ InFile!GoesOnAfterTheEnd /\ FileFec

LEMMA TornInit == ASSUME InFile!Init, InFile!EndIsTorn PROVE TornInv
<1>1. /\ length \in RawLengths /\ pos = 0 /\ out = <<>> /\ ~reading
      /\ written = 0 /\ m_enhancedPacketLength = 0 /\ m_enhancedPacketWaiting = 0 /\ sinceFec = 0
    BY DEF InFile!Init, InFile!EndIsTorn
<1>2. FrameSize \in Nat \ {0} /\ RawLengths \subseteq Nat /\ \A n \in RawLengths : n >= FrameSize
    BY FilesAssumption DEF InFile!FilesOK
<1>3. FileFec
    BY <1>1, <1>2 DEF FileFec
<1> QED BY <1>1, <1>2, <1>3 DEF TornInv, InFile!GoesOnAfterTheEnd

\* The frame that reaches the end begins with the beginning of the file, for as many units
\* as the copy behind the first one has.
LEMMA TornRead == ASSUME TornInv, InFile!ReadRawWhole PROVE TornInv'
<1>1. /\ UNCHANGED <<file, length, written, reading>>
      /\ UNCHANGED <<m_enhancedPacketLength, m_enhancedPacketWaiting, sinceFec>>
    BY DEF InFile!ReadRawWhole, InFile!source, InFile!packet
<1>2. FrameSize \in Nat \ {0} /\ length \in Nat \ {0} /\ FrameSize <= length /\ pos \in 0..length
    BY FilesAssumption DEF TornInv, InFile!FilesOK
<1> DEFINE room == IF loaded THEN length - pos ELSE 0
           fits == loaded /\ FrameSize <= room
           rest == FrameSize - room
<1>3. /\ loaded' <=> fits \/ present
      /\ pos' = IF fits THEN pos + FrameSize
                ELSE IF present THEN ((FrameSize - room - 1) % length) + 1 ELSE 0
      /\ out' = IF ~loaded' THEN <<>> ELSE IF fits THEN InFile!Units(pos, FrameSize)
                ELSE InFile!Wrapped(room)
    BY DEF InFile!ReadRawWhole
<1>4. /\ pos' \in 0..length /\ (~loaded' => pos' = 0)
      /\ out' # <<>> =>
            IF pos' >= FrameSize THEN out' = [i \in 1..FrameSize |-> pos' - FrameSize + i - 1]
            ELSE \A i \in 1..pos' : out'[i] = i - 1
  <2>1. CASE fits
    <3>1. out' = [i \in 1..FrameSize |-> (pos + i - 1) % length] /\ pos' = pos + FrameSize
          /\ loaded' /\ pos' \in 0..length
        BY <1>2, <1>3, <2>1 DEF InFile!Units
    <3>2. \A i \in 1..FrameSize : (pos + i - 1) % length = pos' - FrameSize + i - 1
      <4>1. SUFFICES ASSUME NEW i \in 1..FrameSize
                     PROVE  (pos + i - 1) % length = pos' - FrameSize + i - 1
          OBVIOUS
      <4>2. pos + i - 1 \in 0..(length - 1) /\ pos' - FrameSize + i - 1 = pos + i - 1
          BY <1>2, <2>1, <3>1
      <4> QED BY <1>2, <4>2, RemainderSmall
    <3> QED BY <1>2, <3>1, <3>2
  <2>2. CASE ~fits /\ present
    <3>1. rest \in 1..FrameSize /\ rest - 1 \in 0..(length - 1)
        BY <1>2, <2>2
    <3>2. (FrameSize - room - 1) % length = rest - 1
      <4>1. (rest - 1) % length = rest - 1
          BY <1>2, <3>1, RemainderSmall
      <4>2. FrameSize - room - 1 = rest - 1
          OBVIOUS
      <4> QED BY <4>1, <4>2
    <3>3. pos' = rest /\ loaded' /\ out' = InFile!Wrapped(room)
        BY <1>2, <1>3, <2>2, <3>1, <3>2
    <3>4. /\ out' \in [1..FrameSize -> Int]
          /\ \A i \in 1..rest : out'[i] = i - 1
      <4>1. ((FrameSize - room - 1) % length) + 1 = rest
          BY <1>2, <3>1, <3>2
      <4>2. room \in Int /\ pos \in Int /\ FrameSize \in Nat
          BY <1>2
      <4>3. \A i \in 1..rest : i \in 1..FrameSize
          BY <1>2, <3>1
      <4> HIDE DEF room, rest, fits
      <4>4. out' = [i \in 1..FrameSize |->
                      IF i <= rest THEN i - 1
                      ELSE IF FrameSize - room > length /\ i <= length THEN i - 1
                      ELSE IF i <= room THEN pos + i - 1 ELSE InFile!Silence]
          BY <3>3, <4>1 DEF InFile!Wrapped
      <4>5. \A i \in 1..rest : i <= rest
          BY <3>1
      <4> QED BY <4>2, <4>3, <4>4, <4>5 DEF InFile!Silence
    <3> HIDE DEF room, rest, fits
    <3>5. CASE rest >= FrameSize
      <4>1. rest = FrameSize
          BY <1>2, <3>1, <3>5
      <4>2. out' = [i \in 1..FrameSize |-> out'[i]]
          BY <3>4
      <4>3. \A i \in 1..FrameSize : out'[i] = rest - FrameSize + i - 1
          BY <1>2, <3>4, <4>1
      <4>4. out' = [i \in 1..FrameSize |-> rest - FrameSize + i - 1]
          BY <4>2, <4>3
      <4> QED BY <1>2, <3>1, <3>3, <3>5, <4>4
    <3> QED BY <1>2, <3>1, <3>3, <3>4, <3>5
  <2>3. CASE ~fits /\ ~present
    BY <1>2, <1>3, <2>3
  <2> QED BY <2>1, <2>2, <2>3
<1>5. FileFec'
    BY <1>1, FecStill DEF TornInv
<1> QED BY <1>1, <1>4, <1>5 DEF TornInv, InFile!EndIsTorn, InFile!GoesOnAfterTheEnd

LEMMA TornStill ==
    ASSUME TornInv, UNCHANGED <<file, length, pos, loaded, out, reading, written,
                                m_enhancedPacketLength, m_enhancedPacketWaiting, sinceFec>>
    PROVE  TornInv'
<1>1. FileFec'
    BY FecStill DEF TornInv
<1> QED BY <1>1 DEF TornInv, InFile!EndIsTorn, InFile!GoesOnAfterTheEnd

LEMMA TornStep == ASSUME TornInv, InFile!Next PROVE TornInv'
<1>1. file.format = "raw" /\ file.mode = "whole" /\ ~reading
    BY DEF TornInv, InFile!EndIsTorn
<1>2. /\ ~InFile!Write /\ ~InFile!ReadRawBlock /\ ~InFile!ReadRawNonblock /\ ~InFile!ReadMpeg
      /\ ~InFile!Call /\ ~InFile!ReadPackets
    BY <1>1 DEF InFile!Write, InFile!ReadRawBlock, InFile!ReadRawNonblock, InFile!ReadMpeg,
       InFile!Call, InFile!ReadPackets, InFile!PutFec, InFile!PutPadding, InFile!PutPending,
       InFile!ReadPacket, InFile!ReadZeroes, InFile!EndPacket, InFile!Return
<1>3. CASE InFile!Replace
    BY <1>3, TornStill DEF InFile!Replace, InFile!source, InFile!packet, InFile!frame
<1> QED BY <1>2, <1>3, TornRead DEF InFile!Next

(***************************************************************************)
(* RawFile, PacketFile and MPEGFile::readFrame give the units of a file    *)
(* one after the other and from the beginning after the last one, however  *)
(* long the file and the frame are, whatever a pipe gives at a time and    *)
(* whenever the file goes and comes back; but the frame in which a raw     *)
(* file that is loaded whole ends is a mixture, and begins with the        *)
(* beginning of the file, where the next one goes on.  The FEC packets     *)
(* that PacketFile puts in cover what it has sent since the last ones.     *)
(***************************************************************************)
THEOREM FileContinuesCorrect == Spec => []FileContinues
<1> DEFINE Inv == kind = "file" => (FileInv /\ ReadingPackets) \/ TornInv
<1>1. Init => Inv
  <2>1. ASSUME InFile!Init PROVE ReadingPackets
      BY <2>1 DEF InFile!Init, ReadingPackets
  <2> QED BY <2>1, FileInit, TornInit DEF Init
<1>2. Inv /\ [Next]_vars => Inv'
  <2>1. SUFFICES ASSUME Inv, [Next]_vars, kind' = "file"
                 PROVE  (FileInv /\ ReadingPackets)' \/ TornInv'
      OBVIOUS
  <2>2. CASE kind = "file" /\ InFile!Next /\ UNCHANGED kind
      BY <2>1, <2>2, FileStep, ReadingStep, TornStep
  <2>3. CASE UNCHANGED <<kind, fileVars>>
    <3>1. (FileInv /\ ReadingPackets) \/ TornInv
        BY <2>1, <2>3
    <3>2. UNCHANGED fileVars /\ reading' = reading /\ file' = file
          /\ UNCHANGED <<file, length, pos, loaded, out, reading, written,
                         m_enhancedPacketLength, m_enhancedPacketWaiting, sinceFec>>
        BY <2>3 DEF fileVars
    <3>3. FileInv /\ ReadingPackets => FileInv' /\ ReadingPackets'
        BY <3>2, FileStill DEF ReadingPackets, Packeted
    <3> QED BY <3>1, <3>2, <3>3, TornStill
  <2> QED BY <2>1, <2>2, <2>3 DEF Next, vars, others
<1>3. Inv => FileContinues
  <2>1. SUFFICES ASSUME FileInv \/ TornInv
                 PROVE  InFile!FileContinues /\ InFile!FecCoversWhatWasSent
      BY DEF FileContinues
  <2>2. FrameSize \in Nat
      BY FilesAssumption DEF InFile!FilesOK
  <2>3. FileFec
      BY <2>1 DEF FileInv, TornInv
  <2>4. InFile!FecCoversWhatWasSent
      BY <2>2, <2>3 DEF FileFec, InFile!FecCoversWhatWasSent, InFile!FecBytes, InFile!TableSize
  <2>5. CASE FileInv
    <3>1. ~InFile!EndIsTorn
        BY <2>5 DEF FileInv, FileKinds, InFile!EndIsTorn, Raw
    <3> QED BY <2>4, <2>5, <3>1 DEF FileInv, FileFrame, InFile!FileContinues
  <2>6. CASE TornInv
      BY <2>4, <2>6 DEF TornInv, InFile!FileContinues
  <2> QED BY <2>1, <2>5, <2>6
<1> QED BY <1>1, <1>2, <1>3, PTL DEF Spec
=============================================================================
