------------------------------- MODULE EdiPft -------------------------------
(***************************************************************************)
(* The PFT layer of EDI: the sender cuts AF packets into numbered          *)
(* fragments, a network loses, delays and duplicates some of them, and the *)
(* decoder of an EDI input collects the fragments in one AFBuilder per     *)
(* packet and hands the packets on in the order of their numbers.          *)
(*                                                                         *)
(* A packet is known by its number Pseq, which wraps, and by the session   *)
(* it was sent in: a sender that restarts numbers from zero again.         *)
(***************************************************************************)
EXTENDS Integers, Sequences, FiniteSets, SequencesExt

CONSTANTS
    PseqMod,      \* size of the type pseq_t, 2^16 in the code
    Fcount,       \* fragments per AF packet
    RxMin,        \* fragments from which Reed-Solomon may decode, Fcount without FEC
    MaxDelay,     \* PFT::m_max_delay
    Keep,         \* PFT::NUM_AFBUILDERS_TO_KEEP
    Window,       \* bound on the fragments in flight
    MaxFaults,    \* bound on the faults of the network
    MaxRestarts   \* bound on the restarts of the sender

ASSUME PftAssumption ==
    /\ PseqMod \in Nat
    /\ Fcount \in Nat \ {0} /\ MaxDelay \in Nat \ {0} /\ Keep \in Nat \ {0}
    /\ RxMin \in 1..Fcount
    /\ Keep < PseqMod
    /\ Window \in Nat /\ MaxFaults \in Nat /\ MaxRestarts \in Nat

Findexes == 0..(Fcount - 1)
Sessions == 0..MaxRestarts
None == [session |-> 0, pseq |-> -1]

\* The longest silence: for each fault or restart the lifetime of a builder and one packet,
\* and the lifetime of a packet that is torn when the builders are cleared.
LongestSilence == (MaxFaults + MaxRestarts) * (Fcount * MaxDelay + Fcount) + Fcount * MaxDelay

VARIABLES
    session, pseq, findex,  \* sender: the fragment it sends next
    net,                    \* fragments in flight, in the order of arrival
    faults,                 \* of the network, so far
    afbuilders,             \* Pseq -> fragments (Findex -> session) and lifeTime
    next_pseq,
    last,                   \* the packet last handed on, or None
    silent,                 \* fragments received since, counted up to LongestSilence + 1
    reinit                  \* no packet handed on since the decoder cleared its builders

sender == <<session, pseq, findex>>
decoder == <<afbuilders, next_pseq, last, silent, reinit>>
vars == <<sender, net, faults, decoder>>

Init ==
    /\ session = 0 /\ pseq = 0 /\ findex = 0
    /\ net = <<>> /\ faults = 0
    /\ afbuilders = <<>> /\ next_pseq = 0
    /\ last = None /\ silent = 0 /\ reinit = TRUE

-----------------------------------------------------------------------------
(* The sender and the network *)

\* One fragment of PFT::Assemble; the number advances after the last of a packet.
SendFragment ==
    /\ Len(net) < Window
    /\ net' = Append(net, [session |-> session, pseq |-> pseq, findex |-> findex])
    /\ findex' = (findex + 1) % Fcount
    /\ pseq' = IF findex' = 0 THEN (pseq + 1) % PseqMod ELSE pseq
    /\ UNCHANGED <<session, faults, decoder>>

Fault ==
    /\ net # <<>> /\ faults < MaxFaults
    /\ faults' = faults + 1
    /\ UNCHANGED <<sender, decoder>>

Lose == Fault /\ net' = Tail(net)

\* The next fragment, or a copy of it, arrives behind the i-th.
Delay(i) == Fault /\ i > 1 /\ net' = InsertAt(Tail(net), i, Head(net))
Duplicate(i) == Fault /\ Len(net) < Window /\ net' = InsertAt(net, i + 1, Head(net))

\* What is in flight is lost with the connection; TagDispatcher::push_bytes({})
\* leaves the builders alone.
RestartSender ==
    /\ session < MaxRestarts
    /\ session' = session + 1 /\ pseq' = 0 /\ findex' = 0
    /\ net' = <<>>
    /\ UNCHANGED <<faults, decoder>>

-----------------------------------------------------------------------------
(* The decoder.  b is the map of builders, n the number awaited. *)

Numbers(b) == DOMAIN b
Received(builder) == DOMAIN builder.fragments
Update(b, k, builder) == [x \in DOMAIN b \union {k} |-> IF x = k THEN builder ELSE b[x]]

\* Mutant: the lifetime is taken in packets.
LifeTimeInPackets == MaxDelay

LifeTime == Fcount * MaxDelay

\* The builder of the fragment, made when it is the first of its packet.
BuilderFor(b, f) ==
    IF f.pseq \in Numbers(b) THEN b[f.pseq] ELSE [fragments |-> <<>>, lifeTime |-> LifeTime]

\* The first fragment received under an index stays.
PushPFTFrag(b, f) ==
    LET builder == BuilderFor(b, f)
    IN  IF f.findex \in Received(builder) THEN Update(b, f.pseq, builder)
        ELSE Update(b, f.pseq,
                 [builder EXCEPT !.fragments = Update(@, f.findex, f.session)])

AwaitedAfter(b, f) == IF Numbers(b) = {} THEN f.pseq ELSE next_pseq

\* canAttemptToDecode().  The last fragment alone does not tell the size of the others.
AllThere(builder) == Received(builder) = Findexes
MaybeEnough(builder) ==
    /\ ~AllThere(builder)
    /\ RxMin < Fcount
    /\ Cardinality(Received(builder)) >= RxMin
    /\ Received(builder) # {Fcount - 1}

\* The CRC of the AF packet rejects fragments of different packets.
HandOn(builder, n) ==
    \/ \E s \in Sessions :
        /\ Range(builder.fragments) = {s}
        /\ last' = [session |-> s, pseq |-> n] /\ reinit' = FALSE
    \/ Cardinality(Range(builder.fragments)) > 1 /\ UNCHANGED <<last, reinit>>

Outlived(b, n) == [b EXCEPT ![n].lifeTime = @ - 1]

\* Mutant: the builder handed on is forgotten at once.
IncrementForgetting(b, n) ==
    /\ afbuilders' = [x \in Numbers(b) \ {n} |-> b[x]]
    /\ next_pseq' = (n + 1) % PseqMod

\* Mutant: one builder more is kept.
IncrementKeepingMore(b, n) ==
    /\ afbuilders' = [x \in Numbers(b) \ {(n - Keep - 1) % PseqMod} |-> b[x]]
    /\ next_pseq' = (n + 1) % PseqMod

\* The builder that leaves the window of Keep is forgotten.
IncrementNextPseq(b, n) ==
    /\ afbuilders' = [x \in Numbers(b) \ {(n - Keep) % PseqMod} |-> b[x]]
    /\ next_pseq' = (n + 1) % PseqMod

WaitForFirst(b, n) ==
    /\ n \notin Numbers(b) /\ Cardinality(Numbers(b)) <= MaxDelay
    /\ afbuilders' = b /\ next_pseq' = n
    /\ UNCHANGED <<last, reinit>>

\* Mutant: without builders for the number awaited, it waits for ever.
ReinitNever(b, n) ==
    /\ n \notin Numbers(b) /\ Cardinality(Numbers(b)) > MaxDelay
    /\ afbuilders' = b /\ next_pseq' = n
    /\ UNCHANGED <<last, reinit>>

Reinit(b, n) ==
    /\ n \notin Numbers(b) /\ Cardinality(Numbers(b)) > MaxDelay
    /\ afbuilders' = <<>> /\ next_pseq' = n
    /\ reinit' = TRUE /\ UNCHANGED last

\* extractAF skips the last fragment, and throws when there is no other: the number
\* stays awaited, and nothing else changes.
Complete(b, n) ==
    /\ n \in Numbers(b) /\ AllThere(b[n])
    /\ IF Fcount > 1 THEN HandOn(b[n], n) /\ IncrementNextPseq(b, n)
       ELSE afbuilders' = b /\ next_pseq' = n /\ UNCHANGED <<last, reinit>>

WaitForMore(b, n) ==
    /\ n \in Numbers(b) /\ ~AllThere(b[n]) /\ b[n].lifeTime > 1
    /\ afbuilders' = Outlived(b, n) /\ next_pseq' = n
    /\ UNCHANGED <<last, reinit>>

\* Receiving RxMin fragments does not guarantee that they suffice.
Repair(b, n) ==
    /\ n \in Numbers(b) /\ MaybeEnough(b[n]) /\ b[n].lifeTime = 1
    /\ HandOn(b[n], n) \/ UNCHANGED <<last, reinit>>
    /\ IncrementNextPseq(Outlived(b, n), n)

TimeOut(b, n) ==
    /\ n \in Numbers(b) /\ ~AllThere(b[n]) /\ ~MaybeEnough(b[n]) /\ b[n].lifeTime = 1
    /\ IncrementNextPseq(Outlived(b, n), n)
    /\ UNCHANGED <<last, reinit>>

GetNextAFPacket(b, n) ==
    \/ WaitForFirst(b, n) \/ Reinit(b, n) \/ Complete(b, n)
    \/ WaitForMore(b, n) \/ Repair(b, n) \/ TimeOut(b, n)

\* TagDispatcher::push_packet for a PF packet.
Receive ==
    /\ net # <<>>
    /\ net' = Tail(net)
    /\ GetNextAFPacket(PushPFTFrag(afbuilders, Head(net)), AwaitedAfter(afbuilders, Head(net)))
    /\ silent' = IF last' # last THEN 0 ELSE Min({silent, LongestSilence}) + 1
    /\ UNCHANGED <<sender, faults>>

-----------------------------------------------------------------------------
Next ==
    \/ SendFragment \/ Receive
    \/ Lose \/ RestartSender
    \/ \E i \in 1..Window : i <= Len(net) /\ (Delay(i) \/ Duplicate(i))

Spec == Init /\ [][Next]_vars

\* The sender goes on sending, and what is not lost arrives.
Fairness == WF_vars(SendFragment) /\ WF_vars(Receive)
FairSpec == Spec /\ Fairness

-----------------------------------------------------------------------------
HandsOnAnother == last' # last /\ last # None

\* The number of the packet handed on comes after that of the last; numbers form a circle.
Onwards == (last'.pseq - last.pseq) % PseqMod \in 1..(PseqMod \div 2)

\* The packet handed on is of an earlier session than the last.
Overtaken == last'.session < last.session

\* Whatever the network does to the fragments, and also when the sender restarts, the numbers
\* of the packets handed on go on: those of a session come in the order they were sent, each
\* at most once.  Only after getNextAFPacket has cleared all builders may a late copy bring
\* back an older packet.  A restart of the sender clears no builder, so that a packet that
\* waits for its turn can be handed on behind one of the new session whose number is lower;
\* once the builders were cleared none can.
InOrder ==
    [][HandsOnAnother =>
         /\ Onwards \/ reinit
         /\ Overtaken => ~reinit]_vars

GivesUp == /\ next_pseq' = (next_pseq + 1) % PseqMod /\ last' = last
           /\ next_pseq \in Numbers(afbuilders)

\* A packet is not given up while a fragment it lacks is still on its way: a
\* delay of the network shorter than m_max_delay packets costs nothing once
\* the packet has begun to arrive.  This is said of the time before the sender restarts: a
\* builder of the old session does not take the fragments of the new one.
LateIsNotLost ==
    [][GivesUp /\ session = 0 =>
        \A i \in 1..Len(net') : net'[i].pseq = next_pseq =>
            net'[i].findex \in Received(afbuilders[next_pseq])]_vars

\* The decoder finds its way back soon, and does not wait for the numbers to
\* come round: each fault or restart delays the next packet by at most the
\* lifetime of a builder and one packet.
ResumesSoon == silent <= LongestSilence

\* The lag caused by packets that were waited for disappears: in the end only
\* the builders kept for late copies and those of the fragments in flight remain.
LagDrains == <>[](Cardinality(Numbers(afbuilders)) <= Keep + 1)
=============================================================================
