------------------------- MODULE FIGPhaseLockProofs -------------------------
(***************************************************************************)
(* What the phase lock guarantees for every ensemble: the counters are     *)
(* enough to know that all services were announced, although they only     *)
(* count.                                                                  *)
(***************************************************************************)
EXTENDS FIGPhaseLock, FiniteSetTheorems, WellFoundedInduction, TLAPS

LEMMA LeastProperty ==
    ASSUME NEW S \in SUBSET (Nat \ {0}), S # {}
    PROVE  Least(S) \in S /\ \A y \in S : Least(S) <= y
<1> DEFINE F == {1..x : x \in S}
<1>1. F # {} /\ F \subseteq FiniteSubsetsOf(Nat)
  <2>1. ASSUME NEW x \in S PROVE 1..x \in SUBSET Nat /\ IsFiniteSet(1..x)
    BY FS_Interval
  <2> QED BY <2>1 DEF FiniteSubsetsOf
<1>2. PICK T \in F : \A U \in F : <<U, T>> \notin StrictSubsetOrdering(Nat)
    BY <1>1, FS_StrictSubsetOrderingWellFounded, WFMin, Zenon
<1>3. PICK x \in S : T = 1..x
    BY <1>2
<1>4. ASSUME NEW y \in S PROVE x <= y
  <2> DEFINE A == 1..y
             B == 1..x
  <2>1. A \in SUBSET Nat /\ B \in SUBSET Nat
    OBVIOUS
  <2>2. <<A, B>> \notin StrictSubsetOrdering(Nat)
    BY <1>2, <1>3
  <2>3. ~(A \subseteq B /\ A # B)
    <3> HIDE DEF A, B
    <3> QED BY <2>1, <2>2, Zenon DEF StrictSubsetOrdering
  <2>4. SUFFICES ASSUME y < x PROVE FALSE
    OBVIOUS
  <2>5. A \subseteq B /\ x \in B /\ x \notin A
    BY <2>4
  <2> QED BY <2>3, <2>5
<1> QED BY <1>4 DEF Least

\* The next element of a set of services, or the end.
LEMMA NextInProperty ==
    ASSUME NEW S \in SUBSET Services, NEW from \in 1..(N + 1)
    PROVE  /\ NextIn(S, from) \in S \union {N + 1}
           /\ NextIn(S, from) \in 1..(N + 1)
           /\ NextIn(S, from) >= from
           /\ \A x \in S : x >= from => x >= NextIn(S, from)
<1> DEFINE R == {x \in S : x >= from} \union {N + 1}
<1>0. N \in Nat /\ \A x \in S : x \in Nat /\ 1 <= x /\ x <= N
    BY NAssumption DEF Services
<1>1. R \in SUBSET (Nat \ {0}) /\ R # {}
  <2>1. N + 1 \in Nat \ {0} /\ N + 1 \in R
    BY <1>0
  <2>2. \A y \in R : y \in Nat \ {0}
    BY <1>0
  <2> QED BY <2>1, <2>2
<1>2. Least(R) \in R /\ \A y \in R : Least(R) <= y
  <2> HIDE DEF R
  <2> QED BY <1>1, LeastProperty
<1>3. NextIn(S, from) = Least(R)
    BY DEF NextIn
<1>4. \A y \in R : y \in 1..(N + 1) /\ y >= from
    BY <1>0
<1> QED BY <1>2, <1>3, <1>4

-----------------------------------------------------------------------------
(***************************************************************************)
(* The inductive invariant.  Seen from the position of FIG 0/2 in the      *)
(* audio services, what was announced since the label cycle began is the   *)
(* stretch of services just behind it, cyclically; it grows by a new       *)
(* service with each announcement until it has covered them all, so until  *)
(* then the counter is its size.                                           *)
(***************************************************************************)
Position == IF initialised02 /\ audio THEN service02 ELSE N + 1

Stretch(P, W, c) ==
    \/ P \subseteq W
    \/ \E a \in 1..(N + 1) :
         \/ a <= c /\ W = {p \in P : a <= p /\ p < c}
         \/ c <= a /\ W = {p \in P : a <= p \/ p < c}

LabelledBefore(s) == {p \in labelled : p < s}

IInv ==
    /\ TypeOK
    /\ Stretch(programmes, window, Position)
    /\ programmes \subseteq window \/ Cardinality(window) = fig0_2_services_announced
    /\ initialised11 => fig1_1_labels_sent = Cardinality(LabelledBefore(service11))
    /\ fig1_1_labels_sent <= fig0_2_services_announced
    /\ AnnouncedBeforeLabelsFinish

\* No service lies between the two positions.
LEMMA StretchSlides ==
    ASSUME NEW P \in SUBSET Services, NEW W \in SUBSET P,
           NEW c \in 1..(N + 1), NEW d \in 1..(N + 1), c <= d,
           \A p \in P : ~(c <= p /\ p < d),
           Stretch(P, W, c)
    PROVE  Stretch(P, W, d)
<1>0. N \in Nat /\ \A p \in P : p \in Int
    BY NAssumption DEF Services
<1>1. CASE P \subseteq W
    BY <1>1 DEF Stretch
<1>2. ASSUME NEW a \in 1..(N + 1), a <= c, W = {p \in P : a <= p /\ p < c}
      PROVE  Stretch(P, W, d)
  <2>1. a <= d /\ \A p \in P : (a <= p /\ p < d) <=> (a <= p /\ p < c)
    BY <1>0, <1>2
  <2>2. W = {p \in P : a <= p /\ p < d}
    BY <1>2, <2>1
  <2> QED BY <2>1, <2>2 DEF Stretch
<1>3. ASSUME NEW a \in 1..(N + 1), c <= a, W = {p \in P : a <= p \/ p < c}
      PROVE  Stretch(P, W, d)
  <2>1. CASE d <= a
    <3>1. \A p \in P : (a <= p \/ p < d) <=> (a <= p \/ p < c)
      BY <1>0, <1>3, <2>1
    <3>2. W = {p \in P : a <= p \/ p < d}
      BY <1>3, <3>1
    <3> QED BY <2>1, <3>2 DEF Stretch
  <2>2. CASE a < d
    <3>1. \A p \in P : a <= p \/ p < c
      BY <1>0, <1>3, <2>2
    <3> QED BY <1>3, <3>1 DEF Stretch
  <2> QED BY <1>0, <2>1, <2>2
<1> QED BY <1>1, <1>2, <1>3 DEF Stretch

\* The end of the audio services is also their beginning.
LEMMA StretchRestarts ==
    ASSUME NEW P \in SUBSET Services, NEW W \in SUBSET P, Stretch(P, W, N + 1)
    PROVE  Stretch(P, W, 1)
<1>0. N \in Nat /\ 1 \in 1..(N + 1) /\ \A p \in P : p \in Int /\ 1 <= p /\ p <= N
    BY NAssumption DEF Services
<1>1. CASE P \subseteq W
    BY <1>1 DEF Stretch
<1>2. ASSUME NEW a \in 1..(N + 1), a <= N + 1, W = {p \in P : a <= p /\ p < N + 1}
      PROVE  Stretch(P, W, 1)
  <2>1. 1 <= a /\ \A p \in P : (a <= p \/ p < 1) <=> (a <= p /\ p < N + 1)
    BY <1>0
  <2>2. W = {p \in P : a <= p \/ p < 1}
    BY <1>2, <2>1
  <2> QED BY <2>1, <2>2 DEF Stretch
<1>3. ASSUME NEW a \in 1..(N + 1), N + 1 <= a, W = {p \in P : a <= p \/ p < N + 1}
      PROVE  Stretch(P, W, 1)
  <2>1. \A p \in P : p < N + 1
    BY <1>0
  <2> QED BY <1>3, <2>1 DEF Stretch
<1> QED BY <1>1, <1>2, <1>3 DEF Stretch

\* Announcing the service at the position makes the stretch longer by it.
LEMMA StretchGrows ==
    ASSUME NEW P \in SUBSET Services, NEW W \in SUBSET P, NEW s \in P,
           Stretch(P, W, s)
    PROVE  /\ Stretch(P, W \union {s}, s + 1)
           /\ P \subseteq W \/ s \notin W
<1>0. N \in Nat /\ s \in 1..N /\ \A p \in P : p \in Int
    BY NAssumption DEF Services
<1>1. CASE P \subseteq W
    BY <1>1 DEF Stretch
<1>2. ASSUME NEW a \in 1..(N + 1), a <= s, W = {p \in P : a <= p /\ p < s}
      PROVE  Stretch(P, W \union {s}, s + 1) /\ s \notin W
  <2>1. a <= s + 1 /\ \A p \in P : (a <= p /\ p < s + 1) <=> ((a <= p /\ p < s) \/ p = s)
    BY <1>0, <1>2
  <2>2. W \union {s} = {p \in P : a <= p /\ p < s + 1}
    BY <1>2, <2>1
  <2>3. s \notin W
    BY <1>0, <1>2
  <2> QED BY <2>1, <2>2, <2>3 DEF Stretch
<1>3. ASSUME NEW a \in 1..(N + 1), s <= a, W = {p \in P : a <= p \/ p < s}
      PROVE  Stretch(P, W \union {s}, s + 1) /\ (P \subseteq W \/ s \notin W)
  <2>1. CASE s = a
    <3>1. \A p \in P : a <= p \/ p < s
      BY <1>0, <2>1
    <3> QED BY <1>3, <3>1 DEF Stretch
  <2>2. CASE s < a
    <3>1. s + 1 <= a /\ \A p \in P : (a <= p \/ p < s + 1) <=> ((a <= p \/ p < s) \/ p = s)
      BY <1>0, <2>2
    <3>2. W \union {s} = {p \in P : a <= p \/ p < s + 1}
      BY <1>3, <3>1
    <3>3. s \notin W
      BY <1>0, <1>3, <2>2
    <3> QED BY <3>1, <3>2, <3>3 DEF Stretch
  <2> QED BY <1>0, <1>3, <2>1, <2>2
<1> QED BY <1>1, <1>2, <1>3 DEF Stretch

-----------------------------------------------------------------------------
LEMMA SubsetsFinite ==
    ASSUME NEW S \in SUBSET Services
    PROVE  IsFiniteSet(S) /\ Cardinality(S) \in Nat
<1>1. IsFiniteSet(Services)
    BY FS_Interval, NAssumption DEF Services
<1> QED BY <1>1, FS_Subset, FS_CardinalityType

LEMMA IInvInit == Init => IInv
<1> SUFFICES ASSUME Init PROVE IInv
    OBVIOUS
<1> USE NAssumption DEF Init
<1>1. TypeOK
  <2>1. 1 \in 1..(N + 1) /\ 0 \in Nat
    OBVIOUS
  <2> QED BY <2>1 DEF TypeOK
<1>2. Position = N + 1 /\ N + 1 \in 1..(N + 1)
    BY DEF Position
<1>3. window = {p \in programmes : N + 1 <= p /\ p < N + 1}
  <2>1. \A p \in programmes : ~(N + 1 <= p)
    BY DEF Services
  <2> QED BY <2>1
<1>4. Stretch(programmes, window, Position)
    BY <1>2, <1>3 DEF Stretch
<1>5. Cardinality(window) = fig0_2_services_announced
    BY FS_EmptySet
<1> QED BY <1>1, <1>4, <1>5 DEF IInv, AnnouncedBeforeLabelsFinish

(***************************************************************************)
(* FIG 0/2 moves to its next service, from the beginning if it starts on   *)
(* the audio services, and announces it.                                   *)
(***************************************************************************)
LEMMA Fill02Preserves ==
    ASSUME IInv, NEW room \in BOOLEAN, Fill02(room)
    PROVE  IInv'
<1> USE NAssumption DEF IInv
<1> DEFINE half == IF initialised02 THEN audio ELSE ~audio
           list == IF half THEN programmes ELSE Services \ programmes
           from == IF initialised02 THEN service02 ELSE 1
           s == NextIn(list, from)
           placed == room /\ s <= N
           next == IF placed THEN NextIn(list, s + 1) ELSE s
<1>0. N \in Nat /\ N + 1 \in 1..(N + 1) /\ \A p \in Services : p \in 1..N
    BY DEF Services
<1>1. /\ half \in BOOLEAN /\ list \in SUBSET Services /\ from \in 1..(N + 1)
      /\ programmes \in SUBSET Services /\ window \in SUBSET programmes
  <2>1. half \in BOOLEAN
    BY DEF TypeOK
  <2>2. programmes \in SUBSET Services /\ window \in SUBSET programmes
    BY DEF TypeOK
  <2>3. list \in SUBSET Services
    BY <2>2
  <2>4. from \in 1..(N + 1)
    BY <1>0 DEF TypeOK
  <2> QED BY <2>1, <2>2, <2>3, <2>4
<1>2. /\ s \in list \union {N + 1} /\ s \in 1..(N + 1) /\ from <= s
      /\ \A p \in list : ~(from <= p /\ p < s)
  <2> HIDE DEF list, from
  <2>1. /\ s \in list \union {N + 1} /\ s \in 1..(N + 1) /\ s >= from
        /\ \A p \in list : p >= from => p >= s
    BY <1>1, NextInProperty
  <2> QED BY <2>1, <1>0, <1>1
<1>3. ASSUME placed
      PROVE  /\ s \in list /\ s + 1 \in 1..(N + 1)
             /\ next \in 1..(N + 1) /\ s + 1 <= next
             /\ \A p \in list : ~(s + 1 <= p /\ p < next)
  <2> HIDE DEF list, s
  <2>1. s \in list /\ s + 1 \in 1..(N + 1)
    BY <1>0, <1>2, <1>3
  <2>2. /\ NextIn(list, s + 1) \in 1..(N + 1) /\ NextIn(list, s + 1) >= s + 1
        /\ \A p \in list : p >= s + 1 => p >= NextIn(list, s + 1)
    BY <1>1, <2>1, NextInProperty
  <2> QED BY <1>0, <1>1, <1>3, <2>1, <2>2
<1>4. next \in 1..(N + 1)
    BY <1>2, <1>3
<1>5. /\ audio' = half /\ service02' = next /\ initialised02' = (next <= N)
      /\ complete' # {"1/1"} /\ label' = {}
      /\ UNCHANGED <<config, fig11, fig1_1_labels_sent>>
      /\ IF placed THEN CountAnnounced(half, s)
         ELSE UNCHANGED <<fig0_2_services_announced, window, ever>>
    BY DEF Fill02
<1>6. complete' \subseteq {"0/2", "1/1"}
    BY DEF Fill02
<1> HIDE DEF list, from, s, next
<1>7. CASE ~half \/ ~placed
  <2>1. UNCHANGED <<fig0_2_services_announced, window, ever>>
    <3>1. CASE ~placed
      BY <1>5, <3>1
    <3>2. CASE placed /\ ~half
      BY <1>5, <3>2 DEF CountAnnounced, TypeOK
    <3> QED BY <1>7, <3>1, <3>2
  <2>2. UNCHANGED <<programmes, labelled, initialised11, service11, fig1_1_labels_sent>>
    BY <1>5 DEF config, fig11
  <2>3. TypeOK'
    BY <1>1, <1>4, <1>5, <1>6, <2>1, <2>2 DEF TypeOK
  <2>4. Stretch(programmes, window, Position')
    <3>1. CASE ~half
      <4>1. Position = N + 1 /\ Position' = N + 1
        BY <1>5, <3>1 DEF Position, TypeOK
      <4> QED BY <4>1
    <3>2. CASE half /\ ~placed
      <4>1. Stretch(programmes, window, from)
        BY <3>2, <1>1, StretchRestarts DEF Position, TypeOK, from
      <4>2. list = programmes /\ next = s
        BY <3>2 DEF list, next
      <4>3. Stretch(programmes, window, s)
        BY <4>1, <4>2, <1>1, <1>2, StretchSlides
      <4>4. Position' = s
        <5>1. Position' = IF s <= N THEN s ELSE N + 1
          BY <1>5, <3>2, <4>2, Zenon DEF Position
        <5> QED BY <1>0, <1>2, <5>1
      <4> QED BY <4>3, <4>4
    <3> QED BY <1>7, <3>1, <3>2
  <2>5. LabelledBefore(service11)' = LabelledBefore(service11)
    BY <2>2 DEF LabelledBefore
  <2>6. AnnouncedBeforeLabelsFinish'
    BY <1>5 DEF AnnouncedBeforeLabelsFinish
  <2> QED BY <2>1, <2>2, <2>3, <2>4, <2>5, <2>6
<1>8. CASE half /\ placed
  <2>1. /\ fig0_2_services_announced' = fig0_2_services_announced + 1
        /\ window' = window \union {s} /\ ever' = ever \union {s}
    BY <1>5, <1>8 DEF CountAnnounced
  <2>2. UNCHANGED <<programmes, labelled, initialised11, service11, fig1_1_labels_sent>>
    BY <1>5 DEF config, fig11
  <2>3. list = programmes /\ s \in programmes
    BY <1>3, <1>8 DEF list
  <2>4. TypeOK'
    BY <1>1, <1>4, <1>5, <1>6, <2>1, <2>2, <2>3 DEF TypeOK
  <2>5. Stretch(programmes, window, s)
    <3>1. Stretch(programmes, window, from)
      BY <1>8, <1>1, StretchRestarts DEF Position, TypeOK, from
    <3> QED BY <3>1, <2>3, <1>1, <1>2, StretchSlides
  <2>6. Stretch(programmes, window', s + 1) /\ (programmes \subseteq window \/ s \notin window)
    BY <1>1, <2>1, <2>3, <2>5, StretchGrows
  <2>7. Stretch(programmes, window', Position')
    <3>1. Position' = next
      <4>1. Position' = IF next <= N THEN next ELSE N + 1
        BY <1>5, <1>8, Zenon DEF Position
      <4> QED BY <1>0, <1>4, <4>1
    <3>2. window' \in SUBSET programmes
      BY <1>1, <2>1, <2>3
    <3> QED BY <1>1, <1>3, <1>4, <1>8, <2>3, <2>6, <3>1, <3>2, StretchSlides
  <2>8. programmes \subseteq window' \/ Cardinality(window') = fig0_2_services_announced'
    <3>1. CASE programmes \subseteq window
      BY <2>1, <3>1
    <3>2. CASE s \notin window /\ Cardinality(window) = fig0_2_services_announced
      <4>1. IsFiniteSet(window)
        BY <1>1, SubsetsFinite
      <4> QED BY <4>1, <3>2, <2>1, FS_AddElement
    <3> QED BY <2>6, <3>1, <3>2
  <2>9. LabelledBefore(service11)' = LabelledBefore(service11)
    BY <2>2 DEF LabelledBefore
  <2>10. AnnouncedBeforeLabelsFinish'
    BY <1>5 DEF AnnouncedBeforeLabelsFinish
  <2>11. fig1_1_labels_sent' <= fig0_2_services_announced'
    BY <2>1, <2>2 DEF TypeOK
  <2> QED BY <2>2, <2>4, <2>7, <2>8, <2>9, <2>10, <2>11
<1> QED BY <1>7, <1>8

(***************************************************************************)
(* FIG 1/1 starts with both counters at zero and counts its own labels, so *)
(* at the end of its cycle it has counted all of them.                     *)
(***************************************************************************)
LEMMA Fill11Preserves ==
    ASSUME IInv, NEW room \in BOOLEAN, Fill11(room)
    PROVE  IInv'
<1> USE NAssumption DEF IInv
<1> DEFINE c == CycleStart
           s == IF room THEN NextIn(labelled, c.service) ELSE c.service
           sends == room /\ s <= N /\ CanSend(c.sent, c.announced)
           next == IF sends THEN s + 1 ELSE s
<1>0. N \in Nat /\ 1 \in 1..(N + 1) /\ N + 1 \in 1..(N + 1)
    OBVIOUS
<1>1. /\ programmes \in SUBSET Services /\ labelled \in SUBSET programmes
      /\ labelled \in SUBSET Services /\ window \in SUBSET programmes
      /\ \A p \in Services : p \in Int /\ 1 <= p /\ p <= N
    BY DEF TypeOK, Services
<1>2. /\ c.service \in 1..(N + 1) /\ c.announced \in Nat /\ c.sent \in Nat
      /\ c.sent <= c.announced
      /\ c.sent = Cardinality(LabelledBefore(c.service))
      /\ c.window \in SUBSET window
      /\ Stretch(programmes, c.window, Position)
      /\ programmes \subseteq c.window \/ Cardinality(c.window) = c.announced
  <2>1. CASE initialised11
    <3>1. /\ c.service = service11 /\ c.announced = fig0_2_services_announced
          /\ c.sent = fig1_1_labels_sent /\ c.window = window
      BY <2>1 DEF CycleStart
    <3> HIDE DEF c
    <3> QED BY <2>1, <3>1 DEF TypeOK
  <2>2. CASE ~initialised11
    <3>1. c.service = 1 /\ c.announced = 0 /\ c.sent = 0 /\ c.window = {}
      BY <2>2 DEF CycleStart
    <3>2. LabelledBefore(1) = {} /\ Cardinality({}) = 0
      BY <1>1, FS_EmptySet DEF LabelledBefore
    <3>3. Position \in 1..(N + 1)
      BY <1>0 DEF Position, TypeOK
    <3>4. {} = {p \in programmes : Position <= p /\ p < Position}
      BY <1>1, <3>3
    <3>5. Stretch(programmes, {}, Position)
      BY <3>3, <3>4 DEF Stretch
    <3> HIDE DEF c
    <3> QED BY <1>0, <3>1, <3>2, <3>5
  <2> QED BY <2>1, <2>2
<1>3. /\ service11' = next /\ initialised11' = (next <= N)
      /\ complete' = (IF next = N + 1 THEN {"1/1"} ELSE {})
      /\ fig0_2_services_announced' = c.announced
      /\ fig1_1_labels_sent' = c.sent + (IF sends THEN 1 ELSE 0)
      /\ window' = c.window
      /\ label' = (IF sends THEN {s} ELSE {})
      /\ UNCHANGED <<programmes, labelled, initialised02, audio, service02, ever>>
    BY DEF Fill11, config, fig02
<1> HIDE DEF c
<1>4. /\ s \in 1..(N + 1) /\ LabelledBefore(s) = LabelledBefore(c.service)
      /\ room => s \in labelled \union {N + 1}
  <2>1. CASE room
    <3>1. /\ s \in labelled \union {N + 1} /\ s \in 1..(N + 1) /\ s >= c.service
          /\ \A p \in labelled : p >= c.service => p >= s
      BY <1>1, <1>2, <2>1, NextInProperty
    <3> HIDE DEF s
    <3>2. \A p \in labelled : p < s <=> p < c.service
      BY <1>0, <1>1, <1>2, <3>1
    <3> QED BY <3>1, <3>2 DEF LabelledBefore
  <2>2. CASE ~room
    BY <1>2, <2>2
  <2> QED BY <2>1, <2>2
<1> HIDE DEF s
<1>5. /\ next \in 1..(N + 1)
      /\ fig1_1_labels_sent' \in Nat
      /\ fig1_1_labels_sent' = Cardinality(LabelledBefore(next))
      /\ fig1_1_labels_sent' <= c.announced
      /\ label' \subseteq labelled
  <2>1. CASE sends
    <3>1. s \in labelled /\ s \in 1..N
      BY <1>0, <1>4, <2>1
    <3>2. LabelledBefore(s + 1) = LabelledBefore(s) \union {s} /\ s \notin LabelledBefore(s)
      <4>1. \A p \in labelled : p < s + 1 <=> (p < s \/ p = s)
        BY <1>1, <3>1
      <4>2. ~(s < s)
        BY <3>1
      <4> QED BY <3>1, <4>1, <4>2 DEF LabelledBefore
    <3>3. LabelledBefore(s) \in SUBSET Services
      BY <1>1 DEF LabelledBefore
    <3>4. Cardinality(LabelledBefore(s + 1)) = Cardinality(LabelledBefore(s)) + 1
      BY <3>2, <3>3, SubsetsFinite, FS_AddElement
    <3>5. c.sent < c.announced
      BY <2>1 DEF CanSend
    <3> QED BY <1>0, <1>2, <1>3, <1>4, <2>1, <3>1, <3>4, <3>5
  <2>2. CASE ~sends
    BY <1>2, <1>3, <1>4, <2>2
  <2> QED BY <2>1, <2>2
<1> HIDE DEF next
<1>6. TypeOK'
  <2>1. initialised11' \in BOOLEAN /\ complete' \subseteq {"0/2", "1/1"}
    BY <1>3
  <2>2. window' \subseteq ever'
    BY <1>2, <1>3 DEF TypeOK
  <2> QED BY <1>2, <1>3, <1>5, <2>1, <2>2 DEF TypeOK
<1>7. Stretch(programmes, window, Position)'
  <2>1. Position' = Position
    BY <1>3 DEF Position
  <2> QED BY <1>2, <1>3, <2>1 DEF Stretch
<1>8. (programmes \subseteq window \/ Cardinality(window) = fig0_2_services_announced)'
    BY <1>2, <1>3
<1>9. (initialised11 => fig1_1_labels_sent = Cardinality(LabelledBefore(service11)))'
    BY <1>3, <1>5 DEF LabelledBefore
<1>10. fig1_1_labels_sent' <= fig0_2_services_announced'
    BY <1>3, <1>5
<1>11. AnnouncedBeforeLabelsFinish'
  <2>1. SUFFICES ASSUME AllLabelled', complete' = {"1/1"}
                 PROVE  programmes \subseteq window'
    BY <1>3 DEF AnnouncedBeforeLabelsFinish
  <2>2. next = N + 1
    BY <1>3, <2>1
  <2>3. LabelledBefore(next) = labelled
    BY <1>0, <1>1, <2>2 DEF LabelledBefore
  <2>4. labelled = programmes
    BY <1>3, <2>1 DEF AllLabelled
  <2>5. CASE programmes \subseteq c.window
    BY <1>3, <2>5
  <2>6. CASE Cardinality(c.window) = c.announced
    <3>1. Cardinality(programmes) <= Cardinality(c.window)
      BY <1>5, <2>3, <2>4, <2>6
    <3>2. c.window \in SUBSET programmes
      BY <1>1, <1>2
    <3>3. /\ IsFiniteSet(programmes)
          /\ Cardinality(programmes) \in Nat /\ Cardinality(c.window) \in Nat
      BY <1>1, <3>2, SubsetsFinite
    <3>4. Cardinality(programmes) = Cardinality(c.window)
      BY <3>1, <3>2, <3>3, FS_Subset
    <3>5. programmes = c.window
      BY <3>2, <3>3, <3>4, FS_Subset
    <3> QED BY <1>3, <3>5
  <2> QED BY <1>2, <2>5, <2>6
<1> QED BY <1>6, <1>7, <1>8, <1>9, <1>10, <1>11

LEMMA StutteringPreserves == ASSUME IInv, UNCHANGED vars PROVE IInv'
<1>1. UNCHANGED <<programmes, labelled, initialised02, audio, service02, initialised11,
                  service11, fig0_2_services_announced, fig1_1_labels_sent, window, ever,
                  label, complete>>
    BY DEF vars, config, fig02, fig11
<1>2. Position' = Position /\ LabelledBefore(service11)' = LabelledBefore(service11)
    BY <1>1 DEF Position, LabelledBefore
<1>3. Stretch(programmes, window, Position)'
    BY <1>1, <1>2 DEF IInv, Stretch
<1>4. TypeOK' /\ AnnouncedBeforeLabelsFinish'
    BY <1>1 DEF IInv, TypeOK, AnnouncedBeforeLabelsFinish, AllLabelled
<1> QED BY <1>1, <1>2, <1>3, <1>4 DEF IInv

\* Every reachable state satisfies the invariant.
THEOREM Invariant == Spec => []IInv
<1>1. IInv /\ [Next]_vars => IInv'
    BY Fill02Preserves, Fill11Preserves, StutteringPreserves DEF Next
<1> QED BY IInvInit, <1>1, PTL DEF Spec

\* The variables keep their types (FIG0_2, FIG1_1 and FIGRuntimeInformation).
THEOREM TypeCorrect == Spec => []TypeOK
<1>1. IInv => TypeOK
    BY DEF IInv
<1> QED BY Invariant, <1>1, PTL

(***************************************************************************)
(* "Receivers see complete service data before labels finish" (FIG.h), for *)
(* any number of services, any mixture of programme and data services and  *)
(* any interleaving of the fills, if every programme service has a label.  *)
(***************************************************************************)
THEOREM AnnouncedBeforeLabelsFinishCorrect == Spec => []AnnouncedBeforeLabelsFinish
<1>1. IInv => AnnouncedBeforeLabelsFinish
    BY DEF IInv
<1> QED BY Invariant, <1>1, PTL

-----------------------------------------------------------------------------
(***************************************************************************)
(* In its first walk over the audio services FIG 0/2 announces them in     *)
(* their order, so what was announced so far is what lies before the       *)
(* place it has come to.                                                   *)
(***************************************************************************)
Ahead == IF initialised02 THEN service02 ELSE 1

InOrderAtFirst ==
    \/ programmes \subseteq ever
    \/ initialised02 = audio /\ ever = {p \in programmes : p < Ahead}

EInv == InOrderAtFirst /\ LabelAfterAnnouncement

LEMMA EInvInit == Init => EInv
<1> SUFFICES ASSUME Init PROVE EInv
    OBVIOUS
<1>1. Ahead = 1 /\ ever = {}
    BY DEF Init, Ahead
<1>2. \A p \in programmes : ~(p < 1)
    BY NAssumption DEF Init, Services
<1>3. ever = {p \in programmes : p < Ahead}
    BY <1>1, <1>2
<1> QED BY <1>3 DEF Init, EInv, InOrderAtFirst, LabelAfterAnnouncement

LEMMA Fill02KeepsOrder ==
    ASSUME IInv, EInv, NEW room \in BOOLEAN, Fill02(room)
    PROVE  EInv'
<1> USE NAssumption DEF IInv, EInv
<1> DEFINE s == NextIn(programmes, Ahead)
           next == IF room /\ s <= N THEN NextIn(programmes, s + 1) ELSE s
<1>1. /\ programmes \in SUBSET Services /\ Ahead \in 1..(N + 1)
      /\ \A p \in programmes : p \in Int /\ 1 <= p /\ p <= N
    BY DEF TypeOK, Services, Ahead
<1>2. UNCHANGED programmes /\ ever \subseteq ever' /\ label' = {}
    BY DEF Fill02, CountAnnounced, config
<1>3. LabelAfterAnnouncement'
    BY <1>2 DEF LabelAfterAnnouncement
<1>4. CASE programmes \subseteq ever
    BY <1>2, <1>3, <1>4 DEF InOrderAtFirst
<1>5. CASE initialised02 = audio /\ ever = {p \in programmes : p < Ahead}
  <2>1. /\ audio' = TRUE /\ service02' = next /\ initialised02' = (next <= N)
        /\ ever' = IF room /\ s <= N THEN ever \union {s} ELSE ever
    BY <1>5 DEF Fill02, CountAnnounced, Ahead, TypeOK
  <2>2. /\ s \in programmes \union {N + 1} /\ s \in 1..(N + 1) /\ Ahead <= s
        /\ \A p \in programmes : p < s <=> p < Ahead
    <3>1. /\ s \in programmes \union {N + 1} /\ s \in 1..(N + 1) /\ s >= Ahead
          /\ \A p \in programmes : p >= Ahead => p >= s
      BY <1>1, NextInProperty
    <3> HIDE DEF s
    <3> QED BY <1>1, <3>1
  <2>3. ever' = {p \in programmes : p < next} /\ next \in 1..(N + 1)
    <3>1. CASE room /\ s <= N
      <4>1. s \in programmes /\ s + 1 \in 1..(N + 1)
        BY <2>2, <3>1
      <4>2. /\ next \in 1..(N + 1) /\ next >= s + 1
            /\ \A p \in programmes : p >= s + 1 => p >= next
        BY <1>1, <3>1, <4>1, NextInProperty
      <4> HIDE DEF s, next
      <4>3. \A p \in programmes : p < next <=> p < Ahead \/ p = s
        BY <1>1, <2>2, <4>1, <4>2
      <4> QED BY <1>5, <2>1, <3>1, <4>1, <4>2, <4>3
    <3>2. CASE ~(room /\ s <= N)
      BY <1>5, <2>1, <2>2, <3>2
    <3> QED BY <3>1, <3>2
  <2> HIDE DEF s, next
  <2>4. CASE next <= N
    <3>1. Ahead' = next
      BY <2>1, <2>4 DEF Ahead
    <3> QED BY <1>2, <1>3, <2>1, <2>3, <2>4, <3>1 DEF InOrderAtFirst
  <2>5. CASE next = N + 1
    <3>1. programmes \subseteq ever'
      BY <1>1, <2>3, <2>5
    <3> QED BY <1>2, <1>3, <3>1 DEF InOrderAtFirst
  <2> QED BY <2>3, <2>4, <2>5
<1> QED BY <1>4, <1>5 DEF InOrderAtFirst

\* The numbers of services before two places are in the order of the places.
LEMMA FewerBefore ==
    ASSUME NEW P \in SUBSET Services, NEW s \in P, NEW c \in 1..(N + 1),
           Cardinality({p \in P : p < s}) < Cardinality({p \in P : p < c})
    PROVE  s < c
<1>0. N \in Nat /\ \A p \in P : p \in Int
    BY NAssumption DEF Services
<1> DEFINE A == {p \in P : p < s}
           C == {p \in P : p < c}
<1>1. A \in SUBSET Services /\ C \in SUBSET Services
    OBVIOUS
<1>2. SUFFICES ASSUME c <= s PROVE FALSE
    BY <1>0
<1>3. C \subseteq A
    BY <1>0, <1>2
<1>4. /\ IsFiniteSet(A) /\ Cardinality(A) \in Nat /\ Cardinality(C) \in Nat
      /\ Cardinality(A) < Cardinality(C)
  <2>1. Cardinality(A) < Cardinality(C)
    OBVIOUS
  <2> HIDE DEF A, C
  <2> QED BY <1>1, <2>1, SubsetsFinite
<1>5. Cardinality(C) <= Cardinality(A)
  <2> HIDE DEF A, C
  <2> QED BY <1>3, <1>4, FS_Subset
<1> QED BY <1>4, <1>5

LEMMA Fill11KeepsOrder ==
    ASSUME IInv, EInv, NEW room \in BOOLEAN, Fill11(room)
    PROVE  EInv'
<1> USE NAssumption DEF IInv, EInv
<1> DEFINE c == CycleStart
           s == NextIn(labelled, c.service)
<1>0. N \in Nat
    OBVIOUS
<1>1. UNCHANGED <<programmes, labelled, initialised02, audio, service02, ever>>
    BY DEF Fill11, config, fig02
<1>2. InOrderAtFirst'
    BY <1>1 DEF InOrderAtFirst, Ahead
<1>3. SUFFICES ASSUME AllLabelled, label' # {}
               PROVE  label' \subseteq ever
    BY <1>1, <1>2 DEF LabelAfterAnnouncement, AllLabelled
<1>4. label' = {s} /\ s <= N /\ c.sent < c.announced
    BY <1>3 DEF Fill11, CanSend
<1>5. initialised11
  <2>1. SUFFICES ASSUME ~initialised11 PROVE FALSE
    OBVIOUS
  <2>2. c.sent = 0 /\ c.announced = 0
    BY <2>1 DEF CycleStart
  <2> QED BY <1>4, <2>2
<1>6. /\ c.service = service11 /\ c.sent = fig1_1_labels_sent
      /\ c.announced = fig0_2_services_announced
    BY <1>5 DEF CycleStart
<1>7. /\ programmes \in SUBSET Services /\ labelled = programmes
      /\ window \in SUBSET ever /\ ever \in SUBSET programmes
      /\ service11 \in 1..(N + 1) /\ Ahead \in 1..(N + 1)
      /\ \A p \in programmes : p \in Int /\ p <= N
    BY <1>3 DEF TypeOK, AllLabelled, Services, Ahead
<1>8. /\ s \in programmes
      /\ \A p \in programmes : p < s <=> p < service11
  <2>1. /\ s \in labelled \union {N + 1} /\ s \in 1..(N + 1) /\ s >= service11
        /\ \A p \in labelled : p >= service11 => p >= s
    BY <1>6, <1>7, NextInProperty
  <2> HIDE DEF s
  <2> QED BY <1>0, <1>4, <1>7, <2>1
<1> HIDE DEF s, c
<1>9. CASE programmes \subseteq ever
    BY <1>4, <1>8, <1>9
<1>10. CASE ~(programmes \subseteq ever)
  <2>1. ever = {p \in programmes : p < Ahead}
    BY <1>10 DEF InOrderAtFirst
  <2>2. fig0_2_services_announced = Cardinality(window)
    BY <1>7, <1>10
  <2>3. /\ Cardinality(window) <= Cardinality(ever)
        /\ Cardinality(window) \in Nat /\ Cardinality(ever) \in Nat
    <3>1. window \in SUBSET Services /\ ever \in SUBSET Services
      BY <1>7
    <3> QED BY <1>7, <3>1, SubsetsFinite, FS_Subset
  <2>4. fig1_1_labels_sent = Cardinality({p \in programmes : p < s})
    <3>1. LabelledBefore(service11) = {p \in programmes : p < s}
      BY <1>7, <1>8 DEF LabelledBefore
    <3> QED BY <1>5, <3>1
  <2>5. fig1_1_labels_sent \in Nat
    BY DEF TypeOK
  <2>6. Cardinality({p \in programmes : p < s}) < Cardinality({p \in programmes : p < Ahead})
    BY <1>4, <1>6, <2>1, <2>2, <2>3, <2>4, <2>5
  <2>7. s < Ahead
    BY <1>7, <1>8, <2>6, FewerBefore
  <2> QED BY <1>4, <1>8, <2>1, <2>7
<1> QED BY <1>9, <1>10

(***************************************************************************)
(* "FIG 1/1 cannot send a label until FIG 0/2 has announced that service"  *)
(* (FIG.h), for any ensemble whose programme services all have labels and  *)
(* any interleaving of the fills, although the lock compares counts of     *)
(* two walks that need not be at the same service.                         *)
(***************************************************************************)
THEOREM LabelAfterAnnouncementCorrect == Spec => []LabelAfterAnnouncement
<1>1. IInv /\ EInv /\ [Next]_vars => EInv'
  <2>1. ASSUME IInv, EInv, UNCHANGED vars PROVE EInv'
    BY <2>1 DEF EInv, InOrderAtFirst, Ahead, LabelAfterAnnouncement, AllLabelled, vars, config,
                fig02
  <2> QED BY <2>1, Fill02KeepsOrder, Fill11KeepsOrder DEF Next
<1>2. EInv => LabelAfterAnnouncement
    BY DEF EInv
<1> QED BY Invariant, EInvInit, <1>1, <1>2, PTL DEF Spec
=============================================================================
