------------------------- MODULE EdiReceptionProofs -------------------------
(***************************************************************************)
(* Theorems about an EDI input over TCP, for packets of any number of      *)
(* pieces, any number of packets and connections, blocks cut anywhere and  *)
(* connections that end anywhere: unless recv was interrupted, what is cut *)
(* out of the stream is a packet of one connection; and, whatever else is  *)
(* received, no frame is made of two packets.                              *)
(***************************************************************************)
EXTENDS MCEdiReception, SequenceTheorems, WellFoundedInduction, TLAPS

(***************************************************************************)
(* Runs of pieces, as one connection sends them.                           *)
(***************************************************************************)
Pieces == [id : Nat \ {0}, piece : 0..(PacketPieces - 1), tags : Contents]

\* Piece q may come after piece p.
Follows(q, p) ==
    IF p.piece = PacketPieces - 1 THEN q.piece = 0
    ELSE q.piece = p.piece + 1 /\ q.id = p.id /\ q.tags = p.tags

Run(s) == \A i \in 1..(Len(s) - 1) : Follows(s[i + 1], s[i])
Joined(s, t) == s # <<>> /\ t # <<>> => Follows(t[1], s[Len(s)])

LEMMA LengthOf == ASSUME NEW S, NEW s \in Seq(S)
                  PROVE  Len(s) \in Nat /\ (s # <<>> <=> Len(s) > 0)
    OBVIOUS

LEMMA TailOf ==
    ASSUME NEW S, NEW s \in Seq(S), s # <<>>
    PROVE  /\ Tail(s) \in Seq(S) /\ Len(Tail(s)) = Len(s) - 1 /\ Head(s) \in S /\ Head(s) = s[1]
           /\ \A i \in 1..Len(Tail(s)) : Tail(s)[i] = s[i + 1]
           /\ Tail(s) = <<>> <=> Len(s) = 1
<1> DEFINE t == Tail(s)
<1>1. /\ t \in Seq(S) /\ Len(t) = Len(s) - 1 /\ Head(s) \in S
      /\ \A i \in 1..Len(t) : t[i] = s[i + 1]
    BY HeadTailProperties
<1>2. Head(s) = s[1]
    OBVIOUS
<1> HIDE DEF t
<1>3. t # <<>> <=> Len(t) > 0
    BY <1>1, LengthOf
<1>4. t = <<>> <=> Len(s) = 1
  <2>1. Len(s) \in Nat /\ Len(s) > 0
    BY LengthOf
  <2> QED BY <1>1, <1>3, <2>1
<1> QED BY <1>1, <1>2, <1>4 DEF t

\* The beginning of a run, and what is left of it.
LEMMA Taken ==
    ASSUME NEW s \in Seq(Pieces), NEW n \in 1..Len(s), Run(s)
    PROVE  LET t == SubSeq(s, 1, n)
           IN  /\ t \in Seq(Pieces) /\ Len(t) = n /\ t # <<>> /\ Run(t)
               /\ \A i \in 1..n : t[i] = s[i]
<1> DEFINE t == SubSeq(s, 1, n)
<1>1. t \in Seq(Pieces) /\ Len(t) = n /\ \A i \in 1..n : t[i] = s[i]
    OBVIOUS
<1> HIDE DEF t
<1>2. t # <<>>
    BY <1>1
<1>3. Run(t)
    BY <1>1 DEF Run
<1> QED BY <1>1, <1>2, <1>3 DEF t

LEMMA Left ==
    ASSUME NEW s \in Seq(Pieces), NEW n \in 0..Len(s), Run(s)
    PROVE  LET t == SubSeq(s, n + 1, Len(s))
           IN  /\ t \in Seq(Pieces) /\ Len(t) = Len(s) - n /\ Run(t)
               /\ \A i \in 1..(Len(s) - n) : t[i] = s[n + i]
               /\ t # <<>> => t[Len(t)] = s[Len(s)]
<1> DEFINE t == SubSeq(s, n + 1, Len(s))
<1>1. t \in Seq(Pieces) /\ Len(t) = Len(s) - n /\ \A i \in 1..(Len(s) - n) : t[i] = s[n + i]
    OBVIOUS
<1> HIDE DEF t
<1>2. t # <<>> => t[Len(t)] = s[Len(s)]
    BY <1>1
<1>3. Run(t)
  <2>1. ASSUME NEW i \in 1..(Len(t) - 1) PROVE Follows(t[i + 1], t[i])
    <3>1. PICK m \in Nat : m = Len(s) /\ Len(t) = m - n
      BY <1>1, LengthOf
    <3>2. /\ i \in 1..(m - n) /\ i + 1 \in 1..(m - n) /\ n + i \in 1..(m - 1)
          /\ n + (i + 1) = (n + i) + 1
      BY <3>1
    <3>3. t[i] = s[n + i] /\ t[i + 1] = s[(n + i) + 1]
      BY <1>1, <3>1, <3>2
    <3> QED BY <3>1, <3>2, <3>3 DEF Run
  <2> QED BY <2>1 DEF Run
<1> QED BY <1>1, <1>2, <1>3 DEF t

LEMMA Together ==
    ASSUME NEW s \in Seq(Pieces), NEW t \in Seq(Pieces), Run(s), Run(t), Joined(s, t)
    PROVE  /\ s \o t \in Seq(Pieces) /\ Run(s \o t)
           /\ t # <<>> => s \o t # <<>> /\ (s \o t)[Len(s \o t)] = t[Len(t)]
<1> DEFINE u == s \o t
<1>1. /\ u \in Seq(Pieces) /\ Len(u) = Len(s) + Len(t)
      /\ \A i \in 1..Len(s) : u[i] = s[i]
      /\ \A i \in 1..Len(t) : u[Len(s) + i] = t[i]
    OBVIOUS
<1> HIDE DEF u
<1>2. t # <<>> => u # <<>> /\ u[Len(u)] = t[Len(t)]
    BY <1>1
<1>3. ASSUME NEW i \in 1..(Len(u) - 1) PROVE Follows(u[i + 1], u[i])
  <2>1. CASE i < Len(s)
    <3>1. u[i] = s[i] /\ u[i + 1] = s[i + 1] /\ i \in 1..(Len(s) - 1)
      BY <1>1, <2>1
    <3> QED BY <3>1 DEF Run
  <2>2. CASE i = Len(s)
    <3>1. u[i] = s[Len(s)] /\ u[i + 1] = t[1] /\ s # <<>> /\ t # <<>>
      BY <1>1, <2>2
    <3> QED BY <3>1 DEF Joined
  <2>3. CASE i > Len(s)
    <3> DEFINE j == i - Len(s)
    <3>1. j \in 1..(Len(t) - 1) /\ i = Len(s) + j /\ i + 1 = Len(s) + (j + 1)
      BY <1>1, <2>3
    <3> HIDE DEF j
    <3>2. u[i] = t[j] /\ u[i + 1] = t[j + 1]
      BY <1>1, <3>1
    <3> QED BY <3>1, <3>2 DEF Run
  <2> QED BY <1>1, <2>1, <2>2, <2>3
<1> QED BY <1>1, <1>2, <1>3 DEF u, Run

LEMMA OneMore ==
    ASSUME NEW s \in Seq(Pieces), NEW p \in Pieces, Run(s), s # <<>> => Follows(p, s[Len(s)])
    PROVE  LET t == Append(s, p)
           IN  /\ t \in Seq(Pieces) /\ Run(t) /\ t # <<>> /\ t[Len(t)] = p
               /\ t[1] = IF s = <<>> THEN p ELSE s[1]
<1> DEFINE t == Append(s, p)
<1>1. /\ t \in Seq(Pieces) /\ Len(t) = Len(s) + 1 /\ t[Len(s) + 1] = p
      /\ \A i \in 1..Len(s) : t[i] = s[i]
    OBVIOUS
<1>2. s = <<>> \/ Len(s) > 0
    BY LengthOf
<1>3. Len(s) \in Nat /\ (s = <<>> <=> Len(s) = 0)
    BY LengthOf
<1> HIDE DEF t
<1>4. t # <<>> /\ t[Len(t)] = p
    BY <1>1
<1>5. t[1] = IF s = <<>> THEN p ELSE s[1]
    BY <1>1, <1>2, <1>3
<1>6. ASSUME NEW i \in 1..(Len(t) - 1) PROVE Follows(t[i + 1], t[i])
  <2>1. CASE i < Len(s)
    <3>1. t[i] = s[i] /\ t[i + 1] = s[i + 1] /\ i \in 1..(Len(s) - 1)
      BY <1>1, <2>1
    <3> QED BY <3>1 DEF Run
  <2>2. CASE i = Len(s)
    <3>1. t[i] = s[Len(s)] /\ t[i + 1] = p /\ s # <<>>
      BY <1>1, <2>2
    <3> QED BY <3>1
  <2> QED BY <1>1, <1>3, <2>1, <2>2
<1> QED BY <1>1, <1>4, <1>5, <1>6 DEF t, Run

LEMMA NothingRuns == <<>> \in Seq(Pieces) /\ Run(<<>>)
    BY DEF Run

-----------------------------------------------------------------------------
(***************************************************************************)
(* What is received and in flight is in the order of the source: each      *)
(* piece comes after the one before it, over the borders of the blocks,    *)
(* unless a connection ends between them; what was sent last is what the   *)
(* source goes on from; and when there is no connection, the last thing to *)
(* be read is that it has ended.                                           *)
(***************************************************************************)
Types ==
    /\ stream \in Seq(Pieces) /\ messages \in Seq(Seq(Pieces)) /\ m_input_data \in Seq(Pieces)
    /\ packets \in Nat /\ piece \in 0..(PacketPieces - 1)
    /\ piece # 0 => packets # 0 /\ contents \in Contents

\* The block that was received last, or what is left of it.
Newest == IF messages = <<>> THEN m_input_data ELSE messages[Len(messages)]

\* The source goes on after piece p.
GoesOn(p) ==
    IF p.piece = PacketPieces - 1 THEN piece = 0
    ELSE piece = p.piece + 1 /\ packets = p.id /\ contents = p.tags

Blocks ==
    /\ Run(m_input_data) /\ \A k \in DOMAIN messages : Run(messages[k])
    /\ messages # <<>> => Joined(m_input_data, messages[1])
    /\ \A k \in 1..(Len(messages) - 1) : Joined(messages[k], messages[k + 1])

InFlight ==
    /\ Run(stream) /\ Joined(Newest, stream)
    /\ peer = "open" /\ stream # <<>> => GoesOn(stream[Len(stream)])
    /\ peer = "open" /\ stream = <<>> /\ Newest # <<>> => GoesOn(Newest[Len(Newest)])
    /\ peer = "none" => stream = <<>> /\ Newest = <<>>

StreamInv == Types /\ (fresh => Blocks /\ InFlight)

LEMMA Starts == Stream!Init => StreamInv
<1>1. <<>> \in Seq(Seq(Pieces)) /\ PacketPieces - 1 \in Nat /\ Len(<<>>) = 0
    BY PiecesAssumption
<1> QED BY <1>1, NothingRuns DEF Stream!Init, StreamInv, Types, Blocks, InFlight, Newest, Joined

\* A step of the network or of the source that the receiver does not see.
LEMMA MessagesOf ==
    ASSUME Types
    PROVE  /\ Len(messages) \in Nat /\ (messages = <<>> <=> Len(messages) = 0)
           /\ \A k \in 1..Len(messages) : messages[k] \in Seq(Pieces)
           /\ Newest \in Seq(Pieces) /\ DOMAIN messages = 1..Len(messages)
    BY DEF Types, Newest
-----------------------------------------------------------------------------
(* The source *)

LEMMA BlocksKept == ASSUME Blocks, UNCHANGED <<messages, m_input_data>> PROVE Blocks' /\ Newest' = Newest
    BY DEF Blocks, Newest

LEMMA AfterConnect == ASSUME StreamInv, Stream!Connect PROVE StreamInv'
<1>1. /\ peer = "none" /\ peer' = "open" /\ piece' = 0
      /\ UNCHANGED <<stream, packets, messages, m_input_data, fresh>>
    BY DEF Stream!Connect, Stream!notSource
<1>2. Types'
    BY <1>1, PiecesAssumption DEF StreamInv, Types
<1>3. ASSUME fresh PROVE Blocks' /\ InFlight'
  <2>1. Blocks' /\ Newest' = Newest /\ stream = <<>> /\ Newest = <<>>
    BY <1>1, <1>3, BlocksKept DEF StreamInv, InFlight
  <2> QED BY <1>1, <2>1, NothingRuns DEF InFlight, Joined
<1> QED BY <1>1, <1>2, <1>3 DEF StreamInv

LEMMA NextPiece ==
    ASSUME NEW n \in Nat \ {0}, NEW x \in 0..(n - 1)
    PROVE  (x + 1) % n = IF x = n - 1 THEN 0 ELSE x + 1
<1>1. /\ (x + 1) % n \in 0..(n - 1) /\ (x + 1) \div n \in Int
      /\ x + 1 = n * ((x + 1) \div n) + ((x + 1) % n)
    OBVIOUS
<1>2. PICK q \in Int, r \in 0..(n - 1) : (x + 1) % n = r /\ x + 1 = n * q + r
    BY <1>1
<1>3. \A y, z \in Nat : y * z \in Nat
    OBVIOUS
<1>4. q <= 1
  <2>1. SUFFICES ASSUME q > 1 PROVE FALSE
    OBVIOUS
  <2>2. q - 2 \in Nat /\ n * (q - 2) \in Nat /\ n * (q - 2) = n * q - 2 * n
    BY <1>3, <2>1
  <2> QED BY <1>2, <2>2
<1>5. q >= 0
  <2>1. SUFFICES ASSUME q < 0 PROVE FALSE
    OBVIOUS
  <2>2. -q - 1 \in Nat /\ n * (-q - 1) \in Nat /\ n * (-q - 1) = -(n * q) - n
    BY <1>3, <2>1
  <2> QED BY <1>2, <2>2
<1>6. n * 0 = 0 /\ n * 1 = n
    OBVIOUS
<1>7. CASE q = 0
    BY <1>2, <1>6, <1>7
<1>8. CASE q = 1
    BY <1>2, <1>6, <1>8
<1> QED BY <1>4, <1>5, <1>7, <1>8

LEMMA AfterSend == ASSUME StreamInv, Stream!Send PROVE StreamInv'
<1>1. PICK tags \in (IF piece = 0 THEN Contents ELSE {contents}) :
          /\ stream' = Append(stream, [id |-> packets', piece |-> piece, tags |-> tags])
          /\ contents' = IF piece' = 0 THEN <<>> ELSE tags
    BY DEF Stream!Send
<1>2. /\ peer = "open" /\ packets' = IF piece = 0 THEN packets + 1 ELSE packets
      /\ piece' = (piece + 1) % PacketPieces
      /\ UNCHANGED <<peer, messages, m_input_data, fresh>>
    BY DEF Stream!Send, Stream!notSource
<1>0. PICK p : p = [id |-> packets', piece |-> piece, tags |-> tags]
    OBVIOUS
<1>3. piece' = IF piece = PacketPieces - 1 THEN 0 ELSE piece + 1
    BY <1>2, NextPiece, PiecesAssumption DEF StreamInv, Types
<1>4. p \in Pieces /\ tags \in Contents /\ packets' \in Nat \ {0}
    BY <1>0, <1>1, <1>2 DEF StreamInv, Types, Pieces
<1>5. p.id = packets' /\ p.piece = piece /\ p.tags = tags
    BY <1>0
<1>6. Types'
  <2>1. stream' \in Seq(Pieces)
    BY <1>0, <1>1, <1>4 DEF StreamInv, Types
  <2>2. piece' \in 0..(PacketPieces - 1) /\ (piece' # 0 => contents' \in Contents)
    BY <1>1, <1>3, <1>4, PiecesAssumption DEF StreamInv, Types
  <2> QED BY <1>2, <1>4, <2>1, <2>2 DEF StreamInv, Types
<1>7. GoesOn(p)'
    BY <1>1, <1>3, <1>5 DEF GoesOn, StreamInv, Types
<1>8. ASSUME NEW q \in Pieces, GoesOn(q) PROVE Follows(p, q)
  <2>1. CASE q.piece = PacketPieces - 1
    BY <1>5, <1>8, <2>1 DEF GoesOn, Follows
  <2>2. CASE q.piece # PacketPieces - 1
    <3>1. piece = q.piece + 1 /\ packets = q.id /\ contents = q.tags
      BY <1>8, <2>2 DEF GoesOn
    <3>2. q.piece \in 0..(PacketPieces - 1)
      BY DEF Pieces
    <3>3. piece # 0
      BY <3>1, <3>2
    <3>4. packets' = packets /\ tags = contents
      BY <1>1, <1>2, <3>3
    <3> QED BY <1>5, <2>2, <3>1, <3>4 DEF Follows
  <2> QED BY <2>1, <2>2
<1>9. ASSUME fresh PROVE Blocks' /\ InFlight'
  <2>1. Blocks' /\ Newest' = Newest
    BY <1>2, <1>9, BlocksKept DEF StreamInv
  <2>2. stream \in Seq(Pieces) /\ Newest \in Seq(Pieces)
    BY MessagesOf DEF StreamInv, Types
  <2>3. stream # <<>> => stream[Len(stream)] \in Pieces /\ Follows(p, stream[Len(stream)])
    BY <1>2, <1>8, <1>9, <2>2, LengthOf DEF StreamInv, InFlight
  <2>4. /\ Run(stream') /\ stream' # <<>> /\ stream'[Len(stream')] = p
        /\ stream'[1] = IF stream = <<>> THEN p ELSE stream[1]
    BY <1>0, <1>1, <1>4, <1>9, <2>2, <2>3, OneMore DEF StreamInv, InFlight
  <2>5. Joined(Newest, stream')
    <3>1. CASE stream # <<>>
      BY <1>9, <2>4, <3>1 DEF StreamInv, InFlight, Joined
    <3>2. CASE stream = <<>> /\ Newest # <<>>
      <4>1. GoesOn(Newest[Len(Newest)]) /\ Newest[Len(Newest)] \in Pieces
        BY <1>2, <1>9, <2>2, <3>2, LengthOf DEF StreamInv, InFlight
      <4> QED BY <1>8, <2>4, <3>2, <4>1 DEF Joined
    <3>3. CASE Newest = <<>>
      BY <3>3 DEF Joined
    <3> QED BY <3>1, <3>2, <3>3
  <2>6. peer' # "none"
    BY <1>2
  <2>7. GoesOn(stream[Len(stream)])'
    BY <1>7, <2>4 DEF GoesOn
  <2> QED BY <2>1, <2>4, <2>5, <2>6, <2>7 DEF InFlight
<1> QED BY <1>2, <1>6, <1>9 DEF StreamInv

\* The connection ends, in order or not: what the source would send is no longer asked.
LEMMA AfterEnd == ASSUME StreamInv, Stream!Close \/ Stream!Reset PROVE StreamInv'
<1>1. /\ peer' \in {"closed", "reset"} /\ (stream' = stream \/ stream' = <<>>)
      /\ UNCHANGED <<packets, piece, contents, messages, m_input_data, fresh>>
    BY DEF Stream!Close, Stream!Reset, Stream!notSource
<1>2. Types'
    BY <1>1, NothingRuns DEF StreamInv, Types
<1>3. ASSUME fresh PROVE Blocks' /\ InFlight'
  <2>1. Blocks' /\ Newest' = Newest
    BY <1>1, <1>3, BlocksKept DEF StreamInv
  <2> QED BY <1>1, <1>3, <2>1, NothingRuns DEF StreamInv, InFlight, Joined
<1> QED BY <1>1, <1>2, <1>3 DEF StreamInv
-----------------------------------------------------------------------------
(* TCPReceiveServer::process *)

LEMMA BlockAdded ==
    ASSUME Types, NEW b \in Seq(Pieces), messages' = Append(messages, b), UNCHANGED m_input_data
    PROVE  /\ messages' \in Seq(Seq(Pieces)) /\ Newest' = b
           /\ Blocks /\ Run(b) /\ Joined(Newest, b) => Blocks'
<1>1. /\ Len(messages) \in Nat /\ (messages = <<>> <=> Len(messages) = 0)
      /\ DOMAIN messages = 1..Len(messages)
    BY MessagesOf
<1>2. /\ messages' \in Seq(Seq(Pieces)) /\ messages' # <<>> /\ Len(messages') = Len(messages) + 1
      /\ \A i \in 1..Len(messages) : messages'[i] = messages[i]
      /\ messages'[Len(messages) + 1] = b
  <2>1. messages \in Seq(Seq(Pieces))
    BY DEF Types
  <2>2. PICK q : q = Append(messages, b)
    OBVIOUS
  <2>3. /\ q \in Seq(Seq(Pieces)) /\ q # <<>> /\ Len(q) = Len(messages) + 1
        /\ \A i \in 1..Len(messages) : q[i] = messages[i]
        /\ q[Len(messages) + 1] = b
    BY <2>1, <2>2, AppendProperties
  <2> QED BY <2>2, <2>3
<1>3. Newest' = b
    BY <1>2 DEF Newest
<1>4. ASSUME Blocks, Run(b), Joined(Newest, b) PROVE Blocks'
  <2>1. ASSUME NEW k \in DOMAIN messages' PROVE Run(messages'[k])
    <3>1. k \in 1..(Len(messages) + 1)
      BY <1>2
    <3>2. k \in 1..Len(messages) \/ k = Len(messages) + 1
      BY <1>1, <3>1
    <3> QED BY <1>1, <1>2, <1>4, <3>2 DEF Blocks
  <2>2. Joined(m_input_data, messages'[1])
    <3>1. CASE messages = <<>>
      BY <1>1, <1>2, <1>4, <3>1 DEF Newest
    <3>2. CASE messages # <<>>
      <4>1. 1 \in 1..Len(messages)
        BY <1>1, <3>2
      <4> QED BY <1>2, <1>4, <3>2, <4>1 DEF Blocks
    <3> QED BY <3>1, <3>2
  <2>3. ASSUME NEW k \in 1..(Len(messages') - 1) PROVE Joined(messages'[k], messages'[k + 1])
    <3>1. CASE k = Len(messages)
      <4>1. messages # <<>> /\ messages'[k] = messages[k] /\ messages'[k + 1] = b
        BY <1>1, <1>2, <3>1
      <4> QED BY <1>4, <3>1, <4>1 DEF Newest
    <3>2. CASE k # Len(messages)
      <4>1. k \in 1..(Len(messages) - 1) /\ k \in 1..Len(messages) /\ k + 1 \in 1..Len(messages)
        <5>1. Len(messages') = Len(messages) + 1 /\ Len(messages) \in Nat
          BY <1>1, <1>2
        <5>2. PICK n \in Nat : n = Len(messages)
          BY <5>1
        <5>3. k \in 1..((n + 1) - 1) /\ k # n
          BY <3>2, <5>1, <5>2
        <5>4. k \in 1..(n - 1) /\ k \in 1..n /\ k + 1 \in 1..n
          BY <5>3
        <5> QED BY <5>2, <5>4
      <4> QED BY <1>2, <1>4, <4>1 DEF Blocks
    <3> QED BY <3>1, <3>2
  <2>4. \A k \in DOMAIN messages' : Run(messages'[k])
    BY <2>1
  <2>5. \A k \in 1..(Len(messages') - 1) : Joined(messages'[k], messages'[k + 1])
    BY <2>3
  <2>6. Run(m_input_data')
    BY <1>4 DEF Blocks
  <2> QED BY <2>2, <2>4, <2>5, <2>6 DEF Blocks
<1> QED BY <1>2, <1>3, <1>4

LEMMA AfterRecv == ASSUME StreamInv, Stream!Recv PROVE StreamInv'
<1>1. /\ UNCHANGED <<peer, packets, piece, contents, m_input_data, fresh>> /\ stream # <<>>
    BY DEF Stream!Recv, Stream!notServer
<1>2. PICK n \in 1..Len(stream) :
          /\ messages' = Append(messages, SubSeq(stream, 1, n))
          /\ stream' = SubSeq(stream, n + 1, Len(stream))
    BY DEF Stream!Recv
<1>3. PICK b : b = SubSeq(stream, 1, n)
    OBVIOUS
<1>4. stream \in Seq(Pieces) /\ Len(stream) \in Nat /\ Types
    BY LengthOf DEF StreamInv, Types
<1>5. b \in Seq(Pieces) /\ stream' \in Seq(Pieces)
    BY <1>2, <1>3, <1>4
<1>6. /\ messages' \in Seq(Seq(Pieces)) /\ Newest' = b
      /\ Blocks /\ Run(b) /\ Joined(Newest, b) => Blocks'
    BY <1>1, <1>2, <1>3, <1>4, <1>5, BlockAdded
<1>7. Types'
    BY <1>1, <1>5, <1>6 DEF StreamInv, Types
<1>8. ASSUME fresh PROVE Blocks' /\ InFlight'
  <2>1. Run(stream) /\ Joined(Newest, stream) /\ Blocks /\ peer # "none"
    BY <1>1, <1>8 DEF StreamInv, InFlight
  <2>2. Len(b) = n /\ b # <<>> /\ Run(b) /\ \A i \in 1..n : b[i] = stream[i]
    BY <1>2, <1>3, <1>4, <2>1, Taken
  <2>3. n \in 0..Len(stream)
    BY <1>4
  <2>4. /\ Len(stream') = Len(stream) - n /\ Run(stream')
        /\ \A i \in 1..(Len(stream) - n) : stream'[i] = stream[n + i]
        /\ stream' # <<>> => stream'[Len(stream')] = stream[Len(stream)]
    BY <1>2, <1>4, <2>1, <2>3, Left
  <2>5. b[1] = stream[1] /\ b[Len(b)] = stream[n]
    BY <1>4, <2>2
  <2>6. Joined(Newest, b)
    BY <1>1, <2>1, <2>5 DEF Joined
  <2>7. stream' # <<>> => n \in 1..(Len(stream) - 1) /\ stream'[1] = stream[n + 1]
    <3>1. stream' # <<>> => Len(stream') > 0
      BY <1>5, LengthOf
    <3> QED BY <1>4, <2>4, <3>1
  <2>8. Joined(b, stream')
    BY <2>1, <2>5, <2>7 DEF Joined, Run
  <2>9. stream' = <<>> => b[Len(b)] = stream[Len(stream)]
    <3>1. stream' = <<>> => Len(stream') = 0
      OBVIOUS
    <3> QED BY <1>4, <2>4, <2>5, <3>1
  <2>10. peer = "open" => GoesOn(stream[Len(stream)])
    BY <1>1, <1>8 DEF StreamInv, InFlight
  <2>11. peer' = "open" => /\ stream' # <<>> => GoesOn(stream[Len(stream)])'
                           /\ stream' = <<>> => GoesOn(b[Len(b)])'
    BY <1>1, <2>4, <2>9, <2>10 DEF GoesOn
  <2>12. InFlight'
    BY <1>1, <1>6, <2>1, <2>4, <2>8, <2>11 DEF InFlight
  <2> QED BY <1>6, <2>1, <2>2, <2>6, <2>12
<1> QED BY <1>1, <1>7, <1>8 DEF StreamInv

\* The end of a connection is queued behind its blocks.
LEMMA AfterDisconnection ==
    ASSUME StreamInv, Stream!RecvFails \/ Stream!RecvClosed \/ Stream!TimesOutAgain
    PROVE  StreamInv'
<1>1. /\ UNCHANGED <<packets, piece, contents, m_input_data, fresh>>
      /\ peer' = "none" /\ stream' = <<>> /\ messages' = Append(messages, <<>>)
    BY DEF Stream!RecvFails, Stream!RecvClosed, Stream!TimesOutAgain, Stream!EndConnection,
           Stream!notServer, Stream!Disconnected
<1>2. <<>> \in Seq(Pieces) /\ Run(<<>>) /\ Joined(Newest, <<>>) /\ Types
    BY NothingRuns DEF Joined, StreamInv
<1>3. messages' \in Seq(Seq(Pieces)) /\ Newest' = <<>> /\ (Blocks => Blocks')
    BY <1>1, <1>2, BlockAdded
<1>4. Types'
    BY <1>1, <1>2, <1>3 DEF StreamInv, Types
<1>5. fresh => Blocks' /\ InFlight'
    BY <1>1, <1>2, <1>3 DEF StreamInv, InFlight, Joined
<1> QED BY <1>1, <1>4, <1>5 DEF StreamInv

LEMMA AfterInterrupted == ASSUME StreamInv, Stream!Interrupted PROVE StreamInv'
<1>1. /\ UNCHANGED <<packets, piece, contents, messages, m_input_data>>
      /\ stream' = <<>> /\ fresh' = FALSE
    BY DEF Stream!Interrupted, Stream!EndConnection, Stream!notServer
<1> QED BY <1>1, NothingRuns DEF StreamInv, Types
-----------------------------------------------------------------------------
(* Edi::m_run and TagDispatcher::push_bytes *)

\* As long as the newest block ends with the same piece, the rest goes on from it.
LEMMA NewestKept ==
    ASSUME InFlight, UNCHANGED <<stream, peer, packets, piece, contents>>,
           Newest' = <<>> <=> Newest = <<>>,
           Newest # <<>> => Newest'[Len(Newest')] = Newest[Len(Newest)]
    PROVE  InFlight'
<1>1. PICK x, y : x = Newest /\ y = Newest'
    OBVIOUS
<1>2. y = <<>> <=> x = <<>>
    BY <1>1
<1>3. x # <<>> => y[Len(y)] = x[Len(x)]
    BY <1>1
<1>4. \A q : GoesOn(q)' = GoesOn(q)
    BY DEF GoesOn
<1>5. Joined(x, stream) /\ (peer = "open" /\ stream = <<>> /\ x # <<>> => GoesOn(x[Len(x)]))
    BY <1>1 DEF InFlight
<1>6. Joined(y, stream) /\ (peer = "open" /\ stream = <<>> /\ y # <<>> => GoesOn(y[Len(y)]))
    BY <1>2, <1>3, <1>5 DEF Joined
<1>7. peer = "none" => stream = <<>> /\ y = <<>>
    BY <1>1, <1>2 DEF InFlight
<1>8. Run(stream) /\ (peer = "open" /\ stream # <<>> => GoesOn(stream[Len(stream)]))
    BY DEF InFlight
<1> QED BY <1>1, <1>4, <1>6, <1>7, <1>8 DEF InFlight

LEMMA AfterTake == ASSUME StreamInv, Stream!Take PROVE StreamInv'
<1>1. /\ UNCHANGED <<stream, peer, packets, piece, contents, fresh>>
      /\ messages # <<>> /\ messages' = Tail(messages)
      /\ IF Head(messages) = <<>> THEN m_input_data' = <<>>
         ELSE m_input_data' = m_input_data \o Head(messages)
    BY DEF Stream!Take, Stream!notReceiver, Stream!source, Stream!Disconnected
<1>2. PICK h : h = Head(messages)
    OBVIOUS
<1>3. /\ Types /\ Len(messages) \in Nat \ {0} /\ DOMAIN messages = 1..Len(messages)
      /\ messages \in Seq(Seq(Pieces)) /\ m_input_data \in Seq(Pieces)
    BY <1>1, MessagesOf DEF StreamInv, Types
<1>4. /\ messages' \in Seq(Seq(Pieces)) /\ Len(messages') = Len(messages) - 1
      /\ \A i \in 1..Len(messages') : messages'[i] = messages[i + 1]
      /\ h \in Seq(Pieces) /\ h = messages[1]
    BY <1>1, <1>2, <1>3, TailOf
<1>5. messages' = <<>> <=> Len(messages) = 1
    BY <1>1, <1>3, TailOf
<1>6. m_input_data' \in Seq(Pieces)
  <2>1. m_input_data' = <<>> \/ m_input_data' = m_input_data \o h
    BY <1>1, <1>2
  <2>2. m_input_data \o h \in Seq(Pieces)
    BY <1>3, <1>4, ConcatProperties
  <2> QED BY <2>1, <2>2, NothingRuns
<1>7. Types'
    BY <1>1, <1>4, <1>6 DEF StreamInv, Types
<1>8. ASSUME fresh PROVE Blocks' /\ InFlight'
  <2>1. /\ Run(m_input_data) /\ \A k \in 1..Len(messages) : Run(messages[k])
        /\ Joined(m_input_data, h) /\ Run(h)
        /\ \A k \in 1..(Len(messages) - 1) : Joined(messages[k], messages[k + 1])
    <3>1. Blocks
      BY <1>8 DEF StreamInv
    <3>2. 1 \in 1..Len(messages)
      BY <1>3
    <3>3. \A k \in 1..Len(messages) : Run(messages[k])
      BY <1>3, <3>1 DEF Blocks
    <3>4. Run(h)
      BY <1>4, <3>2, <3>3
    <3> QED BY <1>1, <1>4, <3>1, <3>3, <3>4 DEF Blocks
  <2>2. /\ h = <<>> => m_input_data' = <<>>
        /\ h # <<>> => m_input_data' # <<>> /\ m_input_data'[Len(m_input_data')] = h[Len(h)]
        /\ Run(m_input_data')
    <3>1. PICK u : u = m_input_data \o h
      OBVIOUS
    <3>2. Run(u) /\ (h # <<>> => u # <<>> /\ u[Len(u)] = h[Len(h)])
      BY <1>3, <1>4, <2>1, <3>1, Together
    <3>3. IF h = <<>> THEN m_input_data' = <<>> ELSE m_input_data' = u
      BY <1>1, <1>2, <3>1
    <3>4. CASE h = <<>>
      BY <3>3, <3>4, NothingRuns
    <3>5. CASE h # <<>>
      BY <3>2, <3>3, <3>5
    <3> QED BY <3>4, <3>5
  <2>3. ASSUME NEW k \in DOMAIN messages' PROVE Run(messages'[k])
    <3>1. k \in 1..Len(messages')
      BY <1>4
    <3>2. k + 1 \in 1..Len(messages)
      <4>1. PICK n \in Nat : n = Len(messages) /\ Len(messages') = n - 1
        BY <1>3, <1>4
      <4> QED BY <3>1, <4>1
    <3> QED BY <1>4, <2>1, <3>1, <3>2
  <2>4. ASSUME NEW k \in 1..(Len(messages') - 1) PROVE Joined(messages'[k], messages'[k + 1])
    <3>1. /\ k \in 1..Len(messages') /\ k + 1 \in 1..Len(messages')
          /\ k + 1 \in 1..(Len(messages) - 1)
      <4>1. PICK n \in Nat : n = Len(messages) /\ Len(messages') = n - 1
        BY <1>3, <1>4
      <4> QED BY <4>1
    <3> QED BY <1>4, <2>1, <3>1
  <2>5. ASSUME messages' # <<>> PROVE Joined(m_input_data', messages'[1])
    <3>1. 1 \in 1..(Len(messages) - 1) /\ 1 \in 1..Len(messages')
      <4>1. PICK n \in Nat \ {0} : n = Len(messages) /\ Len(messages') = n - 1 /\ n # 1
        BY <1>3, <1>4, <1>5, <2>5
      <4> QED BY <4>1
    <3>2. messages'[1] = messages[1 + 1] /\ Joined(messages[1], messages[1 + 1])
      BY <1>4, <2>1, <3>1
    <3> QED BY <1>4, <2>2, <3>2 DEF Joined
  <2>6. Blocks'
    <3>1. \A k \in DOMAIN messages' : Run(messages'[k])
      BY <2>3
    <3>2. \A k \in 1..(Len(messages') - 1) : Joined(messages'[k], messages'[k + 1])
      BY <2>4
    <3> QED BY <2>2, <2>5, <3>1, <3>2 DEF Blocks
  <2>7. /\ Newest' = <<>> <=> Newest = <<>>
        /\ Newest # <<>> => Newest'[Len(Newest')] = Newest[Len(Newest)]
    <3>1. CASE Len(messages) = 1
      <4>1. Newest = h /\ Newest' = m_input_data'
        BY <1>1, <1>4, <1>5, <3>1 DEF Newest
      <4> QED BY <2>2, <4>1
    <3>2. CASE Len(messages) # 1
      <4>1. messages' # <<>> /\ Newest = messages[Len(messages)] /\ Newest' = messages'[Len(messages')]
        BY <1>1, <1>5, <3>2 DEF Newest
      <4>2. Len(messages') \in 1..Len(messages') /\ Len(messages') + 1 = Len(messages)
        BY <1>3, <1>4, <3>2
      <4> QED BY <1>4, <4>1, <4>2
    <3> QED BY <3>1, <3>2
  <2> QED BY <1>1, <1>8, <2>6, <2>7, NewestKept DEF StreamInv
<1> QED BY <1>1, <1>7, <1>8 DEF StreamInv

\* Bytes are skipped, or read as a packet, from the front.
LEMMA BytesTaken ==
    ASSUME StreamInv, NEW n \in 0..Len(m_input_data),
           m_input_data' = SubSeq(m_input_data, n + 1, Len(m_input_data)),
           UNCHANGED <<stream, peer, packets, piece, contents, messages, fresh>>
    PROVE  StreamInv'
<1>1. m_input_data \in Seq(Pieces)
    BY DEF StreamInv, Types
<1>2. m_input_data' \in Seq(Pieces)
    BY <1>1
<1>3. Types'
    BY <1>2 DEF StreamInv, Types
<1>4. ASSUME fresh PROVE Blocks' /\ InFlight'
  <2>1. Run(m_input_data) /\ Blocks /\ InFlight
    BY <1>4 DEF StreamInv, Blocks
  <2>2. /\ Run(m_input_data')
        /\ m_input_data' # <<>> => /\ m_input_data'[Len(m_input_data')] = m_input_data[Len(m_input_data)]
                                   /\ m_input_data # <<>>
    <3>1. m_input_data' # <<>> => m_input_data # <<>>
      BY <1>1
    <3> QED BY <1>1, <2>1, <3>1, Left
  <2>3. Blocks'
    BY <2>1, <2>2 DEF Blocks, Joined
  <2>4. CASE messages # <<>>
    <3>1. Newest' = Newest
      BY <2>4 DEF Newest
    <3> QED BY <2>1, <2>3, <3>1, NewestKept
  <2>5. CASE messages = <<>> /\ m_input_data' # <<>>
    <3>1. Newest' = m_input_data' /\ Newest = m_input_data
      BY <2>5 DEF Newest
    <3> QED BY <2>1, <2>2, <2>3, <2>5, <3>1, NewestKept
  <2>6. CASE messages = <<>> /\ m_input_data' = <<>>
    <3>1. Newest' = <<>>
      BY <2>6 DEF Newest
    <3> QED BY <2>1, <2>3, <3>1 DEF InFlight, Joined, GoesOn
  <2> QED BY <2>4, <2>5, <2>6
<1> QED BY <1>3, <1>4 DEF StreamInv
LEMMA NothingTaken ==
    ASSUME StreamInv, UNCHANGED <<stream, peer, packets, piece, contents, messages, m_input_data, fresh>>
    PROVE  StreamInv'
    BY DEF StreamInv, Types, Blocks, InFlight, Newest, GoesOn

LEMMA AfterReceiver ==
    ASSUME StreamInv,
           \/ Stream!Unknown \/ Stream!CrcWrong
           \/ Stream!Throws \/ Stream!Fails \/ Stream!Completes
    PROVE  StreamInv'
<1>1. UNCHANGED <<stream, peer, packets, piece, contents, messages, fresh>>
    BY DEF Stream!Unknown, Stream!CrcWrong, Stream!Throws, Stream!Fails, Stream!Completes,
           Stream!notReceiver, Stream!source
<1>2. m_input_data \in Seq(Pieces) /\ Len(m_input_data) \in Nat
    BY LengthOf DEF StreamInv, Types
<1>3. CASE Stream!Unknown
  <2>1. m_input_data' = SubSeq(m_input_data, 1 + 1, Len(m_input_data)) /\ 1 \in 0..Len(m_input_data)
    BY <1>2, <1>3, LengthOf DEF Stream!Unknown, Stream!Rest
  <2> QED BY <1>1, <2>1, BytesTaken
<1>4. CASE Stream!CrcWrong \/ Stream!Fails \/ Stream!Completes
  <2>1. /\ m_input_data' = SubSeq(m_input_data, PacketPieces + 1, Len(m_input_data))
        /\ Len(m_input_data) >= PacketPieces
    BY <1>4 DEF Stream!CrcWrong, Stream!Fails, Stream!Completes, Stream!Rest, Stream!Whole
  <2>2. PacketPieces \in 0..Len(m_input_data)
    BY <1>2, <2>1, PiecesAssumption
  <2> QED BY <1>1, <2>1, <2>2, BytesTaken
<1>5. CASE Stream!Throws
  <2>1. m_input_data' = <<>> /\ Len(m_input_data) \in 0..Len(m_input_data)
    BY <1>2, <1>5 DEF Stream!Throws
  <2>2. SubSeq(m_input_data, Len(m_input_data) + 1, Len(m_input_data)) = <<>>
    BY <1>2, SubSeqEmpty
  <2> QED BY <1>1, <2>1, <2>2, BytesTaken
<1> QED BY <1>3, <1>4, <1>5

LEMMA StreamInvIsKept == ASSUME StreamInv, Stream!Next PROVE StreamInv'
<1>1. CASE Stream!Accept \/ Stream!TimesOut \/ Stream!MissingData
  <2>1. UNCHANGED <<stream, peer, packets, piece, contents, messages, m_input_data, fresh>>
    BY <1>1 DEF Stream!Accept, Stream!TimesOut, Stream!MissingData, Stream!notServer,
                Stream!notReceiver, Stream!source
  <2> QED BY <2>1, NothingTaken
<1>2. CASE ~(Stream!Accept \/ Stream!TimesOut \/ Stream!MissingData)
    BY <1>2, AfterConnect, AfterSend, AfterEnd, AfterRecv, AfterDisconnection, AfterInterrupted,
       AfterTake, AfterReceiver DEF Stream!Next, Stream!Source, Stream!Server, Stream!Receiver
<1> QED BY <1>1, <1>2

-----------------------------------------------------------------------------
(***************************************************************************)
(* Induction over what is counted, as a fact about sets of numbers.        *)
(***************************************************************************)
LEMMA Smallest ==
    ASSUME NEW W, W \subseteq Nat, W # {} PROVE \E x \in W : \A y \in W : x <= y
<1> DEFINE R == {ss \in Nat \X Nat : ss[1] < ss[2]}
<1>1. IsWellFoundedOn(R, Nat)
    BY NatLessThanWellFounded DEF OpToRel
<1> HIDE DEF R
<1>2. PICK x \in W : \A y \in W : ~ (<<y, x>> \in R)
    BY <1>1, WFMin
<1>3. \A y \in W : ~(y < x)
    BY <1>2 DEF R
<1> QED BY <1>3

LEMMA Upto ==
    ASSUME NEW S, NEW n \in Nat, 0 \in S, \A i \in 1..n : i - 1 \in S => i \in S
    PROVE  \A i \in 0..n : i \in S
<1> DEFINE W == {i \in 0..n : i \notin S}
<1>1. SUFFICES ASSUME W # {} PROVE FALSE
    OBVIOUS
<1>2. PICK x \in W : \A y \in W : x <= y
  <2>1. W \subseteq Nat
    OBVIOUS
  <2> QED BY <1>1, <2>1, Smallest
<1>3. x \in 1..n /\ x \notin S
    OBVIOUS
<1>4. x - 1 \in S
    BY <1>2, <1>3
<1> QED BY <1>3, <1>4

\* What a recursive definition over 0..n defines.

\* A run that begins with the first piece of a packet goes on with the others.
LEMMA RunIsPacket ==
    ASSUME NEW s \in Seq(Pieces), Run(s), Len(s) >= PacketPieces, s[1].piece = 0
    PROVE  \A i \in 1..PacketPieces : s[i] = [s[1] EXCEPT !.piece = i - 1]
<1> DEFINE good == {i \in Nat : s[i + 1] = [s[1] EXCEPT !.piece = i]}
<1>1. PICK m \in Nat : m = Len(s)
    BY LengthOf
<1>2. \A i \in 1..m : s[i] \in Pieces
    BY <1>1
<1>3. PICK n \in Nat : n = PacketPieces - 1 /\ 1 \in 1..m /\ \A i \in 1..n : i \in 1..(m - 1)
    BY <1>1, PiecesAssumption
<1>4. 0 \in good
  <2>1. s[1] = [s[1] EXCEPT !.piece = 0]
    BY <1>2, <1>3 DEF Pieces
  <2> QED BY <2>1
<1>5. ASSUME NEW i \in 1..n, i - 1 \in good PROVE i \in good
  <2>1. s[i] = [s[1] EXCEPT !.piece = i - 1] /\ i \in 1..(m - 1) /\ i + 1 \in 1..m /\ i \in 1..m
    <3>1. (i - 1) + 1 = i
      OBVIOUS
    <3>2. i \in 1..(m - 1)
      BY <1>3
    <3> QED BY <1>5, <3>1, <3>2
  <2>2. Follows(s[i + 1], s[i])
    BY <1>1, <2>1 DEF Run
  <2>3. s[i].piece = i - 1 /\ s[i].id = s[1].id /\ s[i].tags = s[1].tags
    BY <1>2, <1>3, <2>1 DEF Pieces
  <2>4. i - 1 # PacketPieces - 1
    BY <1>3, PiecesAssumption
  <2>5. s[i + 1].piece = i /\ s[i + 1].id = s[1].id /\ s[i + 1].tags = s[1].tags
    BY <2>2, <2>3, <2>4 DEF Follows
  <2>6. s[i + 1] \in Pieces /\ s[1] \in Pieces
    BY <1>2, <1>3, <2>1
  <2>7. s[i + 1] = [s[1] EXCEPT !.piece = i]
    BY <2>5, <2>6 DEF Pieces
  <2> QED BY <2>7
<1> HIDE DEF good
<1>6. \A i \in 0..n : i \in good
    BY <1>4, <1>5, Upto
<1>7. ASSUME NEW i \in 1..PacketPieces PROVE s[i] = [s[1] EXCEPT !.piece = i - 1]
  <2>1. i - 1 \in 0..n /\ (i - 1) + 1 = i
    BY <1>3, PiecesAssumption
  <2>2. i - 1 \in good
    BY <1>6, <2>1
  <2> QED BY <2>1, <2>2 DEF good
<1> QED BY <1>7

LEMMA WholeIsRight == ASSUME StreamInv PROVE Stream!Realigned
<1>1. SUFFICES ASSUME fresh, Stream!Whole PROVE Stream!CrcRight
    BY DEF Stream!Realigned
<1>2. m_input_data \in Seq(Pieces) /\ Run(m_input_data) /\ Len(m_input_data) >= PacketPieces
    BY <1>1 DEF StreamInv, Types, Blocks, Stream!Whole
<1>3. m_input_data # <<>> /\ Head(m_input_data) = m_input_data[1]
    BY <1>2, LengthOf, PiecesAssumption
<1>4. Stream!Front = m_input_data[1] /\ m_input_data[1].piece = 0
    BY <1>1, <1>3 DEF Stream!Front, Stream!Whole
<1>5. \A i \in 1..PacketPieces : m_input_data[i] = [m_input_data[1] EXCEPT !.piece = i - 1]
    BY <1>2, <1>4, RunIsPacket
<1>6. PacketPieces \in 1..Len(m_input_data)
    BY <1>2, LengthOf, PiecesAssumption
<1>7. \A i \in 1..PacketPieces : Stream!Cut[i] = m_input_data[i]
    BY <1>2, <1>6, Taken DEF Stream!Cut
<1> QED BY <1>4, <1>5, <1>7 DEF Stream!CrcRight
-----------------------------------------------------------------------------
(***************************************************************************)
(* STIWriter: there is no payload between two packets.  The payload comes  *)
(* after protocol and management data, so a packet of which the payload is *)
(* read has brought them itself, and it is handed on.                      *)
(***************************************************************************)
Whole(w, id) ==
    /\ w.outcome = "ok" /\ w.proto /\ w.payload = id /\ w.management.count = id
    /\ w.management.timed => w.seconds = id

LEMMA PayloadIsComplete ==
    ASSUME NEW id, NEW tags \in Contents, m_payload = 0,
           Stream!Written(id, tags).payload # 0
    PROVE  Whole(Stream!Written(id, tags), id)
<1>1. Stream!InOrderOfEncoders(tags)
    BY ContentsAssumption
<1>2. tags \in Seq(Stream!Tag) /\ DOMAIN tags = 1..Len(tags) /\ Len(tags) \in Nat
    BY <1>1, LengthOf DEF Stream!InOrderOfEncoders
<1>3. Stream!Found(tags, "ss") # {}
    BY DEF Stream!Written
<1>4. PICK i \in Stream!Looked(tags) : tags[i] = "ss"
    BY <1>3 DEF Stream!Found
<1>5. i \in DOMAIN tags /\ i \in 1..Len(tags) /\ \A j \in 1..(i - 1) : ~Stream!Ends(tags, j)
    BY <1>2, <1>4 DEF Stream!Looked
<1>6. ASSUME NEW j \in 1..(i - 1) PROVE j \in Stream!Looked(tags) /\ ~Stream!Ends(tags, j)
  <2>1. j \in DOMAIN tags /\ \A k \in 1..(j - 1) : k \in 1..(i - 1)
    BY <1>2, <1>5
  <2> QED BY <1>5, <2>1 DEF Stream!Looked
<1>7. Stream!Found(tags, "ptr") # {}
  <2>1. PICK j \in 1..(i - 1) : tags[j] \in Stream!Protocol
    BY <1>1, <1>4, <1>5 DEF Stream!InOrderOfEncoders
  <2>2. j \in Stream!Looked(tags) /\ tags[j] = "ptr"
    BY <1>6, <2>1 DEF Stream!Ends, Stream!Protocol
  <2>3. ~Stream!TooEarly(tags, j)
    BY <2>2 DEF Stream!TooEarly
  <2> QED BY <2>2, <2>3 DEF Stream!Found
<1>8. Stream!Found(tags, "dsti") # {} \/ Stream!Found(tags, "dsti_null") # {}
  <2>1. PICK j \in 1..(i - 1) : tags[j] \in Stream!Management
    BY <1>1, <1>4, <1>5 DEF Stream!InOrderOfEncoders
  <2>2. j \in Stream!Looked(tags) /\ tags[j] \in {"dsti", "dsti_null"} /\ ~Stream!TooEarly(tags, j)
    BY <1>6, <2>1 DEF Stream!Ends, Stream!Management
  <2> QED BY <2>2 DEF Stream!Found
<1>9. ASSUME NEW j \in Stream!Looked(tags)
      PROVE  ~Stream!TooEarly(tags, j) /\ tags[j] \notin {"ptr_wrong", "ptr_short", "dsti_short"}
  <2>1. j \in DOMAIN tags /\ j \in Nat /\ i \in Nat
    BY <1>2, <1>5 DEF Stream!Looked
  <2>2. CASE j \in 1..(i - 1)
    BY <1>6, <2>2 DEF Stream!Ends
  <2>3. CASE j = i
    BY <1>4, <2>3 DEF Stream!TooEarly
  <2>4. CASE j > i
    <3>1. tags[j] \notin Stream!Protocol \cup Stream!Management
      BY <1>1, <1>4, <1>5, <2>1, <2>4 DEF Stream!InOrderOfEncoders
    <3> QED BY <3>1 DEF Stream!Protocol, Stream!Management, Stream!TooEarly
  <2>5. j \in 1..(i - 1) \/ j = i \/ j > i
    BY <1>2, <1>5, <2>1
  <2> QED BY <2>2, <2>3, <2>4, <2>5
<1>10. /\ Stream!Found(tags, "ptr_wrong") = {} /\ Stream!Found(tags, "ptr_short") = {}
       /\ Stream!Found(tags, "dsti_short") = {}
       /\ ~\E j \in Stream!Looked(tags) : Stream!TooEarly(tags, j)
    BY <1>9 DEF Stream!Found
<1> DEFINE w == Stream!Written(id, tags)
           timed == \E j \in Stream!Found(tags, "dsti") :
                       \A k \in Stream!Found(tags, "dsti_null") : k < j
<1>11. w.outcome = "ok" /\ w.proto /\ w.payload = id
    BY <1>3, <1>7, <1>10 DEF Stream!Written
<1>12. w.management = [count |-> id, timed |-> timed]
    BY <1>8 DEF Stream!Written
<1>13. timed => Stream!Found(tags, "dsti") # {}
    OBVIOUS
<1>14. timed => w.seconds = id
    BY <1>13 DEF Stream!Written
<1> HIDE DEF w, timed
<1>15. w.management.count = id /\ w.management.timed = timed
    BY <1>12
<1> QED BY <1>11, <1>14, <1>15 DEF Whole, w

WriterInv == m_payload = 0 /\ Stream!FrameOfOnePacket

LEMMA FrontIsPiece ==
    ASSUME StreamInv, Stream!Whole
    PROVE  Stream!Front.id \in Nat \ {0} /\ Stream!Front.tags \in Contents
<1>1. m_input_data \in Seq(Pieces) /\ m_input_data # <<>>
    BY LengthOf, PiecesAssumption DEF StreamInv, Types, Stream!Whole
<1>2. Head(m_input_data) \in Pieces
    BY <1>1, HeadTailProperties
<1> QED BY <1>2 DEF Pieces, Stream!Front

LEMMA WriterInvIsKept == ASSUME StreamInv, WriterInv, Stream!Next PROVE WriterInv'
<1> DEFINE id == Stream!Front.id
           tags == Stream!Front.tags
           w == Stream!Written(id, tags)
<1>1. ASSUME Stream!Whole, w.payload # 0
      PROVE  Whole(w, id) /\ Stream!Complete(w)
  <2>1. id \in Nat \ {0} /\ tags \in Contents
    BY <1>1, FrontIsPiece
  <2> HIDE DEF id, tags
  <2>2. Whole(w, id)
    BY <1>1, <2>1, PayloadIsComplete DEF WriterInv
  <2> HIDE DEF w
  <2>3. w.management # Stream!NoManagement
    BY <2>1, <2>2 DEF Whole, Stream!NoManagement
  <2> QED BY <2>1, <2>2, <2>3 DEF Whole, Stream!Complete
<1>2. CASE Stream!Completes
  <2>1. /\ Stream!Whole /\ w.payload # 0 /\ m_payload' = 0
        /\ frame' = [data |-> w.payload, count |-> w.management.count, seconds |-> w.seconds,
                     timed |-> w.management.timed]
    BY <1>2 DEF Stream!Completes, Stream!Assemble, Stream!HandOn, Stream!Complete
  <2>2. Whole(w, id)
    BY <1>1, <2>1
  <2> HIDE DEF w, id
  <2> QED BY <2>1, <2>2 DEF Whole, WriterInv, Stream!FrameOfOnePacket
<1>3. CASE Stream!Throws
  <2>1. /\ Stream!Whole /\ m_payload' = w.payload /\ UNCHANGED frame
        /\ w.outcome = "thrown" \/ (w.outcome = "ok" /\ ~Stream!Complete(w))
    BY <1>3 DEF Stream!Throws, Stream!Store
  <2>2. w.payload = 0
    <3> HIDE DEF w, id
    <3> QED BY <1>1, <2>1 DEF Whole
  <2> QED BY <2>1, <2>2 DEF WriterInv, Stream!FrameOfOnePacket
<1>4. CASE Stream!Fails
  <2>1. Stream!Whole /\ m_payload' = w.payload /\ UNCHANGED frame /\ w.outcome = "failed"
    BY <1>4 DEF Stream!Fails, Stream!Store
  <2>2. w.payload = 0
    <3> HIDE DEF w, id
    <3> QED BY <1>1, <2>1 DEF Whole
  <2> QED BY <2>1, <2>2 DEF WriterInv, Stream!FrameOfOnePacket
<1>5. CASE ~(Stream!Completes \/ Stream!Throws \/ Stream!Fails)
  <2>1. UNCHANGED <<m_payload, frame>>
    BY <1>5 DEF Stream!Next, Stream!Source, Stream!Server, Stream!Receiver, Stream!Connect,
       Stream!Send, Stream!Close, Stream!Reset, Stream!Accept, Stream!Recv, Stream!RecvFails,
       Stream!RecvClosed, Stream!TimesOut, Stream!TimesOutAgain, Stream!Interrupted, Stream!Take,
       Stream!MissingData, Stream!Unknown, Stream!CrcWrong, Stream!notSource, Stream!notServer,
       Stream!writer
  <2> QED BY <2>1 DEF WriterInv, Stream!FrameOfOnePacket
<1> QED BY <1>2, <1>3, <1>4, <1>5

-----------------------------------------------------------------------------
(***************************************************************************)
(* TagDispatcher::push_bytes and STIWriter::assemble: whatever else is     *)
(* received, wherever blocks and connections end and whatever comes in     *)
(* between, a frame has its data, its count and its time from one packet;  *)
(* and, unless recv was interrupted, what is cut out of the bytes as a     *)
(* packet is one of the source, so that after a disconnection the decoder  *)
(* starts with the first packet of the new connection.                     *)
(***************************************************************************)
THEOREM FrameOfOnePacketCorrect == InputSpec => []FrameOfOnePacket
<1>1. InputInit => StreamInv /\ WriterInv
    BY Starts DEF InputInit, WriterInv, Stream!Init, Stream!FrameOfOnePacket, Stream!NoFrame
<1>2. (StreamInv /\ WriterInv) /\ [InputNext]_allVars => (StreamInv /\ WriterInv)'
  <2>1. SUFFICES ASSUME StreamInv, WriterInv, [InputNext]_allVars PROVE (StreamInv /\ WriterInv)'
    OBVIOUS
  <2>2. Stream!Next \/ UNCHANGED streamVars
    BY <2>1 DEF InputNext, NotPft, allVars
  <2>3. CASE UNCHANGED streamVars
    BY <2>1, <2>3, NothingTaken DEF streamVars, WriterInv, Stream!FrameOfOnePacket
  <2> QED BY <2>1, <2>2, <2>3, StreamInvIsKept, WriterInvIsKept
<1>3. StreamInv /\ WriterInv => FrameOfOnePacket
    BY WholeIsRight DEF WriterInv, FrameOfOnePacket
<1> QED BY <1>1, <1>2, <1>3, PTL DEF InputSpec
-----------------------------------------------------------------------------
(***************************************************************************)
(* frame_timestamp_t::operator+=: whatever the fraction, the delay and the *)
(* number of ticks, the time moves by the delay exactly, and the fraction  *)
(* stays below a second: one carry is enough.                              *)
(***************************************************************************)
THEOREM DelayIsAdded ==
    ASSUME Ticks \in Nat \ {0}, NEW t, t.seconds \in Int, t.tsta \in 0..(Packet!Second - 1), NEW ms \in Nat
    PROVE  Packet!DelayAdds(t, ms)
<1> DEFINE dd == ms \div 1000
           rr == ms % 1000
<1>a. dd \in Nat /\ rr \in 0..999 /\ ms = 1000 * dd + rr
    OBVIOUS
<1>b. PICK d, r : d = dd /\ r = rr
    OBVIOUS
<1>0. /\ d \in Nat /\ r \in 0..999 /\ d = ms \div 1000 /\ r = ms % 1000 /\ ms = 1000 * d + r
  <2> HIDE DEF dd, rr
  <2>1. d \in Nat /\ r \in 0..999 /\ ms = 1000 * d + r
    BY <1>a, <1>b
  <2> QED BY <1>b, <2>1 DEF dd, rr
<1>1. PICK x \in Int, s \in Int, k \in Nat \ {0} : x = t.tsta /\ s = t.seconds /\ k = Ticks
  <2>1. t.tsta \in Int
    BY DEF Packet!Second
  <2> QED BY <2>1
<1>2. PICK y \in Nat : y = r * k
    BY <1>0
<1>3. \A a, b \in Nat : a * b \in Nat
    OBVIOUS
<1>4. y <= 1000 * k - k
  <2>1. 999 - r \in Nat /\ (999 - r) * k \in Nat
    BY <1>0, <1>3
  <2>2. (999 - r) * k = 999 * k - r * k
    BY <1>0
  <2> QED BY <1>2, <2>1, <2>2
<1>5. ms * k = (1000 * k) * d + y
    BY <1>0, <1>2
<1>6. PICK z \in Nat : z = 1000 * k /\ z = Packet!Second /\ x \in 0..(z - 1) /\ y < z
    BY <1>1, <1>4 DEF Packet!Second
<1>7. PICK m : m = Packet!Added(t, ms)
    OBVIOUS
<1>8. /\ m.tsta = IF x + y > z - 1 THEN x + y - z ELSE x + y
      /\ m.seconds = s + (IF x + y > z - 1 THEN 1 ELSE 0) + d
    BY <1>0, <1>1, <1>2, <1>6, <1>7 DEF Packet!Added
<1>9. z * d \in Int /\ z * (d + 1) = z * d + z
    BY <1>0
<1>10. CASE x + y > z - 1
  <2>1. m.tsta = x + y - z /\ m.seconds - s = d + 1
    BY <1>0, <1>8, <1>10
  <2>2. m.tsta \in 0..(z - 1) /\ z * (m.seconds - s) + m.tsta = x + (z * d + y)
    BY <1>0, <1>6, <1>9, <1>10, <2>1
  <2> QED BY <1>1, <1>5, <1>6, <1>7, <2>2 DEF Packet!DelayAdds
<1>11. CASE ~(x + y > z - 1)
  <2>1. m.tsta = x + y /\ m.seconds - s = d
    BY <1>0, <1>8, <1>11
  <2>2. m.tsta \in 0..(z - 1) /\ z * (m.seconds - s) + m.tsta = x + (z * d + y)
    BY <1>0, <1>6, <1>9, <1>11, <2>1
  <2> QED BY <1>1, <1>5, <1>6, <1>7, <2>2 DEF Packet!DelayAdds
<1> QED BY <1>10, <1>11
=============================================================================
