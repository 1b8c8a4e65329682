------------------------------ MODULE FicProofs ------------------------------
(***************************************************************************)
(* The priority scheduler of the fast information channel passes over no   *)
(* FIG, for any FIGs, contents, priorities, rates, sizes of a FIB and      *)
(* values of the counters: neither in the must-send pass, which wraps      *)
(* around the priorities from wherever select_priority starts, nor in the  *)
(* two can-send passes, between which deadlines move.                      *)
(***************************************************************************)
EXTENDS MCFic, SequenceTheorems, FiniteSetTheorems, WellFoundedInduction, TLAPS

(***************************************************************************)
(* The first of some places, and lists of which an element goes to the     *)
(* back.                                                                   *)
(***************************************************************************)
LEMMA FirstIsLeast ==
    ASSUME NEW W, W \subseteq Nat, W # {}
    PROVE  First(W) \in W /\ \A j \in W : First(W) <= j
<1> DEFINE R == {ss \in Nat \X Nat : ss[1] < ss[2]}
<1>1. IsWellFoundedOn(R, Nat)
    BY NatLessThanWellFounded DEF OpToRel
<1> HIDE DEF R
<1>2. PICK x \in W : \A y \in W : ~ (<<y, x>> \in R)
    BY <1>1, WFMin
<1>3. \A y \in W : ~(y < x)
    BY <1>2 DEF R
<1>4. \A y \in W : x <= y
    BY <1>3
<1> QED BY <1>4 DEF First

LEMMA BackIs ==
    ASSUME NEW S, NEW s \in Seq(S), NEW i \in 1..Len(s)
    PROVE  /\ ToBack(s, i) \in Seq(S) /\ Len(ToBack(s, i)) = Len(s)
           /\ \A j \in 1..Len(s) :
                 ToBack(s, i)[j] = IF j < i THEN s[j] ELSE IF j < Len(s) THEN s[j + 1] ELSE s[i]
<1> DEFINE l == SubSeq(s, 1, i - 1)
           r == SubSeq(s, i + 1, Len(s))
<1>1. Len(s) \in Nat /\ s[i] \in S
    BY LenProperties, ElementOfSeq
<1>2. l \in Seq(S) /\ Len(l) = i - 1 /\ \A j \in 1..(i - 1) : l[j] = s[j]
    BY <1>1, SubSeqProperties
<1>3. /\ r \in Seq(S) /\ Len(r) = Len(s) - i
      /\ \A j \in 1..(Len(s) - i) : r[j] = s[i + j]
    BY <1>1, SubSeqProperties
<1>4. ToBack(s, i) = Append(l \o r, s[i])
    BY DEF ToBack, RemoveAt
<1> HIDE DEF l, r
<1> DEFINE t == l \o r
<1>5. /\ t \in Seq(S) /\ Len(t) = Len(s) - 1
      /\ \A j \in 1..(Len(s) - 1) : t[j] = IF j < i THEN s[j] ELSE s[j + 1]
  <2>1. t \in Seq(S) /\ Len(t) = Len(l) + Len(r)
    BY <1>2, <1>3, ConcatProperties
  <2>2. \A j \in 1..(Len(l) + Len(r)) : t[j] = IF j <= Len(l) THEN l[j] ELSE r[j - Len(l)]
    BY <1>2, <1>3, ConcatProperties
  <2>3. ASSUME NEW j \in 1..(Len(s) - 1) PROVE t[j] = IF j < i THEN s[j] ELSE s[j + 1]
    <3>1. CASE j < i
      BY <1>1, <1>2, <1>3, <2>2, <3>1
    <3>2. CASE ~(j < i)
      <4>1. t[j] = r[j - (i - 1)]
        BY <1>1, <1>2, <1>3, <2>2, <3>2
      <4>2. j - (i - 1) \in 1..(Len(s) - i) /\ i + (j - (i - 1)) = j + 1
        BY <1>1, <3>2
      <4> QED BY <1>3, <3>2, <4>1, <4>2
    <3> QED BY <3>1, <3>2
  <2> QED BY <1>1, <1>2, <1>3, <2>1, <2>3
<1> HIDE DEF t
<1>6. /\ Append(t, s[i]) \in Seq(S) /\ Len(Append(t, s[i])) = Len(t) + 1
      /\ \A j \in 1..Len(t) : Append(t, s[i])[j] = t[j]
      /\ Append(t, s[i])[Len(t) + 1] = s[i]
    BY <1>1, <1>5, AppendProperties
<1>7. ToBack(s, i) = Append(t, s[i])
    BY <1>4 DEF t
<1>8. ASSUME NEW j \in 1..Len(s)
      PROVE  ToBack(s, i)[j] = IF j < i THEN s[j] ELSE IF j < Len(s) THEN s[j + 1] ELSE s[i]
  <2>1. CASE j < Len(s)
    BY <1>1, <1>5, <1>6, <1>7, <2>1
  <2>2. CASE j = Len(s)
    BY <1>1, <1>5, <1>6, <1>7, <2>2
  <2> QED BY <1>1, <2>1, <2>2
<1> QED BY <1>1, <1>5, <1>6, <1>7, <1>8

\* What is in a list stays in it.
Elements(s) == {s[j] : j \in DOMAIN s}

LEMMA BackKeepsElements ==
    ASSUME NEW S, NEW s \in Seq(S), NEW i \in 1..Len(s)
    PROVE  Elements(ToBack(s, i)) = Elements(s)
<1> PICK t : t = ToBack(s, i)
    OBVIOUS
<1>1. /\ t \in Seq(S) /\ Len(t) = Len(s) /\ Len(s) \in Nat
      /\ \A j \in 1..Len(s) : t[j] = IF j < i THEN s[j] ELSE IF j < Len(s) THEN s[j + 1] ELSE s[i]
    BY BackIs, LenProperties
<1>2. DOMAIN t = 1..Len(s) /\ DOMAIN s = 1..Len(s)
    BY <1>1, LenProperties
<1>3. ASSUME NEW j \in 1..Len(s) PROVE t[j] \in Elements(s)
  <2>1. \/ t[j] = s[j] \/ t[j] = s[i] \/ (j + 1 \in 1..Len(s) /\ t[j] = s[j + 1])
    BY <1>1
  <2> QED BY <1>2, <2>1 DEF Elements
<1>4. ASSUME NEW j \in 1..Len(s) PROVE s[j] \in Elements(t)
  <2>1. CASE j < i
    BY <1>1, <1>2, <2>1 DEF Elements
  <2>2. CASE j = i
    <3>1. t[Len(s)] = s[i] /\ Len(s) \in 1..Len(s)
      BY <1>1
    <3> QED BY <1>2, <2>2, <3>1 DEF Elements
  <2>3. CASE j > i
    <3>1. t[j - 1] = s[j] /\ j - 1 \in 1..Len(s)
      BY <1>1, <2>3
    <3> QED BY <1>2, <3>1 DEF Elements
  <2> QED BY <1>1, <2>1, <2>2, <2>3
<1>5. Elements(t) \subseteq Elements(s)
    BY <1>2, <1>3 DEF Elements
<1>6. Elements(s) \subseteq Elements(t)
    BY <1>2, <1>4 DEF Elements
<1> QED BY <1>5, <1>6

\* The last k elements of a list are in a set: one more of them, when another one of
\* the set goes to the back.
LastIn(s, k, T) == \A j \in 1..Len(s) : j > Len(s) - k => s[j] \in T

LEMMA LastOfNone ==
    ASSUME NEW S, NEW s \in Seq(S), NEW T PROVE LastIn(s, 0, T)
BY LenProperties DEF LastIn

LEMMA LastGrows ==
    ASSUME NEW S, NEW s \in Seq(S), NEW i \in 1..Len(s), NEW k \in Nat, NEW T,
           LastIn(s, k, T), i <= Len(s) - k, s[i] \in T
    PROVE  LastIn(ToBack(s, i), k + 1, T)
<1>1. /\ Len(ToBack(s, i)) = Len(s) /\ Len(s) \in Nat
      /\ \A j \in 1..Len(s) :
            ToBack(s, i)[j] = IF j < i THEN s[j] ELSE IF j < Len(s) THEN s[j + 1] ELSE s[i]
    BY BackIs, LenProperties
<1>2. ASSUME NEW j \in 1..Len(s), j > Len(s) - (k + 1) PROVE ToBack(s, i)[j] \in T
  <2>1. CASE j < Len(s)
    <3>1. ~(j < i) /\ j + 1 \in 1..Len(s) /\ j + 1 > Len(s) - k
      BY <1>1, <1>2, <2>1
    <3>2. ToBack(s, i)[j] = s[j + 1]
      BY <1>1, <2>1, <3>1
    <3> QED BY <3>1, <3>2 DEF LastIn
  <2>2. CASE j = Len(s)
    BY <1>1, <2>2
  <2> QED BY <1>1, <2>1, <2>2
<1> QED BY <1>1, <1>2 DEF LastIn

-----------------------------------------------------------------------------
(***************************************************************************)
(* The invariant.  The carousels hold the FIGs of their priorities and the *)
(* stack the priorities, whatever is moved to the back.                    *)
(***************************************************************************)
CarouselsOK(lists) ==
    /\ DOMAIN lists = Priorities
    /\ \A p \in Priorities : lists[p] \in Seq(FIGs) /\ Elements(lists[p]) = InPriority(p)

StackOK(s) ==
    /\ s \in Seq(Priorities) /\ Len(s) = NumPriorities - 1
    /\ Elements(s) = Priorities

TypeInv ==
    /\ deadline \in [AllFIGs -> Int] /\ must_send \subseteq AllFIGs
    /\ poll_counter \in [Priorities -> Nat]
    /\ CarouselsOK(carousel) /\ StackOK(m_priority_stack)
    /\ start_prio \in Priorities /\ prio \in Nat /\ attempt \in Nat
    /\ offered \subseteq FIGs
    /\ pc \in {"frame", "fib", "must", "mustPrio", "pass1", "pass2"}
    /\ pc \in {"pass1", "pass2"} => prio >= 1

\* In a round of the must-send pass that has not written anything: the FIGs due in the
\* priorities behind have been tried, and of this one all, or the last attempts of them.
AllTried(p) == InPriority(p) \intersect must_send \subseteq tried
Behind == \A o \in 0..(NumPriorities - 2) : o < prio => AllTried(AtOffset(o))
Here == prio <= NumPriorities - 2 => \/ AllTried(AtOffset(prio))
                                     \/ LastIn(carousel[AtOffset(prio)], attempt, tried)
MustInv ==
    /\ pc = "mustPrio" /\ ~made_progress => Behind /\ Here
    /\ pc = "must" /\ ~made_progress /\ SpaceLeft => \A p \in Priorities : AllTried(p)

\* What pass 1 tried it has offered, or it is not late and pass 2 does not skip it.
Spared(S) == \A f \in S : f \in FIGs /\ (f \in offered \/ ~PastHalf(f))
CanInv ==
    /\ pc = "pass1" => Spared(tried)
    /\ pc = "pass2" => /\ Spared(tried_pass1)
                       /\ \A p \in Priorities : p < prio => InPriority(p) \subseteq offered
                       /\ prio < NumPriorities => LastIn(carousel[prio], attempt, offered)

IInv == TypeInv /\ MustInv /\ CanInv

LEMMA Constants ==
    /\ NumPriorities \in Nat /\ NumPriorities >= 2 /\ Priorities = 1..(NumPriorities - 1)
    /\ \A p \in Priorities : p \in Nat /\ IsFiniteSet(InPriority(p))
    /\ FIGs = UNION {InPriority(p) : p \in Priorities}
    /\ \A p \in Priorities : InPriority(p) \subseteq FIGs
    /\ Rate \in [AllFIGs -> Nat] /\ PollReset \in [Priorities -> Nat]
    /\ FIGs \subseteq AllFIGs /\ FIG0_0 \in AllFIGs /\ FIG0_7 \in AllFIGs
<1>1. /\ NumPriorities \in Nat /\ NumPriorities >= 2 /\ Priorities = 1..(NumPriorities - 1)
      /\ PollReset \in [Priorities -> Nat]
    BY SizesAssumption DEF Priorities
<1>2. /\ IsFiniteSet(FIGs) /\ Prio \in [FIGs -> Priorities] /\ Rate \in [AllFIGs -> Nat]
    BY FIGsAssumption
<1>3. \A p \in Priorities : InPriority(p) \subseteq FIGs
    BY DEF InPriority
<1>4. \A p \in Priorities : p \in Nat /\ IsFiniteSet(InPriority(p))
    BY <1>1, <1>2, <1>3, FS_Subset
<1>5. FIGs = UNION {InPriority(p) : p \in Priorities}
    BY <1>2 DEF InPriority
<1> QED BY <1>1, <1>2, <1>3, <1>4, <1>5 DEF AllFIGs

\* Every priority is at some offset from where the must-send pass starts.
At(from, o) == IF from + o < NumPriorities THEN from + o ELSE 1 + from + o - NumPriorities

LEMMA OffsetsReachAll ==
    ASSUME NEW from \in Priorities
    PROVE  /\ \A o \in 0..(NumPriorities - 2) : At(from, o) \in Priorities
           /\ \A p \in Priorities : \E o \in 0..(NumPriorities - 2) : At(from, o) = p
<1> /\ NumPriorities \in Int /\ NumPriorities >= 2 /\ Priorities = 1..(NumPriorities - 1)
    BY Constants
<1>1. ASSUME NEW o \in 0..(NumPriorities - 2) PROVE At(from, o) \in Priorities
    BY DEF At
<1>2. ASSUME NEW p \in Priorities PROVE \E o \in 0..(NumPriorities - 2) : At(from, o) = p
  <2>1. CASE p >= from
    <3>1. p - from \in 0..(NumPriorities - 2) /\ At(from, p - from) = p
      BY <2>1 DEF At
    <3> QED BY <3>1
  <2>2. CASE p < from
    <3> DEFINE o == p - 1 + NumPriorities - from
    <3>1. p \in Int /\ from \in Int /\ 1 <= p /\ from <= NumPriorities - 1
      OBVIOUS
    <3>2. o \in 0..(NumPriorities - 2)
      BY <2>2, <3>1
    <3>3. from + o = NumPriorities + (p - 1)
      BY <3>1
    <3> HIDE DEF o
    <3>4. o \in Int /\ ~(from + o < NumPriorities)
      BY <3>1, <3>2, <3>3
    <3>5. At(from, o) = 1 + from + o - NumPriorities
      BY <3>4 DEF At
    <3>6. At(from, o) = p
      BY <3>1, <3>3, <3>4, <3>5
    <3> QED BY <3>2, <3>6
  <2> QED BY <2>1, <2>2
<1> QED BY <1>1, <1>2

LEMMA CarouselMoves ==
    ASSUME CarouselsOK(carousel), NEW p \in Priorities, NEW i \in 1..Len(carousel[p]),
           MoveToBack(p, i)
    PROVE  /\ CarouselsOK(carousel')
           /\ carousel'[p] = ToBack(carousel[p], i)
<1>1. carousel[p] \in Seq(FIGs) /\ DOMAIN carousel = Priorities
    BY DEF CarouselsOK
<1>2. /\ DOMAIN carousel' = Priorities /\ carousel'[p] = ToBack(carousel[p], i)
      /\ \A q \in Priorities \ {p} : carousel'[q] = carousel[q]
    BY <1>1 DEF MoveToBack
<1>3. ToBack(carousel[p], i) \in Seq(FIGs)
    BY <1>1, BackIs
<1>4. Elements(ToBack(carousel[p], i)) = Elements(carousel[p])
    BY <1>1, BackKeepsElements
<1>5. ASSUME NEW q \in Priorities
      PROVE  carousel'[q] \in Seq(FIGs) /\ Elements(carousel'[q]) = InPriority(q)
  <2>1. CASE q = p
    BY <1>2, <1>3, <1>4, <2>1 DEF CarouselsOK
  <2>2. CASE q # p
    BY <1>2, <2>2 DEF CarouselsOK
  <2> QED BY <2>1, <2>2
<1> QED BY <1>2, <1>5 DEF CarouselsOK

\* A FIG of a carousel.
LEMMA CarouselHas ==
    ASSUME CarouselsOK(carousel), NEW p \in Priorities
    PROVE  /\ carousel[p] \in Seq(FIGs) /\ Len(carousel[p]) \in Nat
           /\ DOMAIN carousel[p] = 1..Len(carousel[p])
           /\ \A i \in 1..Len(carousel[p]) : carousel[p][i] \in InPriority(p)
           /\ \A f \in InPriority(p) : \E i \in 1..Len(carousel[p]) : carousel[p][i] = f
<1>1. carousel[p] \in Seq(FIGs) /\ Elements(carousel[p]) = InPriority(p)
    BY DEF CarouselsOK
<1>2. Len(carousel[p]) \in Nat /\ DOMAIN carousel[p] = 1..Len(carousel[p])
    BY <1>1, LenProperties
<1> QED BY <1>1, <1>2 DEF Elements

\* The lists that Init makes of the FIGs.
LEMMA SetToSeqIs ==
    ASSUME NEW S, IsFiniteSet(S)
    PROVE  SetToSeq(S) \in Seq(S) /\ Elements(SetToSeq(S)) = S
<1> DEFINE n == Cardinality(S)
<1>1. n \in Nat /\ ExistsBijection(1..n, S)
    BY FS_CardinalityType
<1> HIDE DEF n
<1>2. PICK g \in Bijection(1..n, S) : TRUE
    BY <1>1 DEF ExistsBijection
<1>3. g \in [1..n -> S] /\ IsInjective(g)
    BY <1>2 DEF Bijection, Injection, IsInjective
<1> PICK s : s = SetToSeq(S)
    OBVIOUS
<1>4. s \in [1..n -> S] /\ IsInjective(s)
    BY <1>3 DEF SetToSeq, n
<1>5. s \in Injection(1..n, S)
    BY <1>4 DEF Injection, IsInjective
<1>6. IsFiniteSet(1..n) /\ Cardinality(1..n) = Cardinality(S)
    BY <1>1, FS_Interval DEF n
<1>7. s \in Surjection(1..n, S)
    BY <1>5, <1>6, FS_Injection
<1>8. Elements(s) = S
    BY <1>4, <1>7 DEF Surjection, Elements
<1>9. s \in Seq(S)
    BY <1>1, <1>4, IsASeq
<1> QED BY <1>8, <1>9

LEMMA InitInv == ASSUME Init PROVE IInv
<1>1. deadline \in [AllFIGs -> Int] /\ must_send \subseteq AllFIGs
    BY Constants DEF Init
<1>2. poll_counter \in [Priorities -> Nat]
    BY Constants DEF Init
<1>3. CarouselsOK(carousel)
  <2>1. carousel = [p \in Priorities |-> SetToSeq(InPriority(p))]
    BY DEF Init
  <2>2. ASSUME NEW p \in Priorities
        PROVE  carousel[p] \in Seq(FIGs) /\ Elements(carousel[p]) = InPriority(p)
    <3>1. IsFiniteSet(InPriority(p)) /\ InPriority(p) \subseteq FIGs
      BY Constants
    <3>2. SetToSeq(InPriority(p)) \in Seq(InPriority(p)) /\ Elements(SetToSeq(InPriority(p))) = InPriority(p)
      BY <3>1, SetToSeqIs
    <3>3. SetToSeq(InPriority(p)) \in Seq(FIGs)
      BY <3>1, <3>2, SeqMonotonic
    <3> QED BY <2>1, <3>2, <3>3
  <2> QED BY <2>1, <2>2 DEF CarouselsOK
<1>4. StackOK(m_priority_stack)
  <2> DEFINE s == [i \in Priorities |-> i]
  <2>1. Priorities = 1..(NumPriorities - 1) /\ NumPriorities - 1 \in Nat
    BY Constants
  <2>2. s \in [1..(NumPriorities - 1) -> Priorities]
    BY <2>1
  <2>3. s \in Seq(Priorities)
    BY <2>1, <2>2, IsASeq
  <2>4. DOMAIN s = 1..(NumPriorities - 1)
    BY <2>1
  <2>5. Len(s) = NumPriorities - 1
    BY <2>1, <2>3, <2>4, LenProperties
  <2>6. Elements(s) = Priorities
    BY DEF Elements
  <2> QED BY <2>3, <2>5, <2>6 DEF Init, StackOK
<1>5. /\ pc = "frame" /\ start_prio = 1 /\ prio = 1 /\ attempt = 0 /\ offered = {}
    BY DEF Init
<1>6. 1 \in Priorities
    BY Constants
<1> QED BY <1>1, <1>2, <1>3, <1>4, <1>5, <1>6 DEF IInv, TypeInv, MustInv, CanInv

-----------------------------------------------------------------------------
(* What the parts of the steps do.                                         *)

LEMMA Writes ==
    ASSUME TypeInv, NEW f \in FIGs, NEW n, Write(f, n)
    PROVE  /\ deadline' \in [AllFIGs -> Int] /\ must_send' \subseteq must_send
           /\ \A h \in FIGs \ {f} : PastHalf(h)' <=> PastHalf(h)
<1>1. deadline \in [AllFIGs -> Int] /\ f \in AllFIGs /\ Rate[f] \in Nat
    BY Constants DEF TypeInv
<1>2. /\ \/ deadline' = [deadline EXCEPT ![f] = IF f = FIG0_7 THEN Rate[f] + 1 ELSE Rate[f]]
         \/ deadline' = deadline
      /\ must_send' \subseteq must_send
    BY DEF Write
<1>3. deadline' \in [AllFIGs -> Int]
    BY <1>1, <1>2
<1>4. ASSUME NEW h \in FIGs \ {f} PROVE PastHalf(h)' <=> PastHalf(h)
  <2>1. h \in AllFIGs
    BY Constants
  <2>2. deadline'[h] = deadline[h]
    BY <1>1, <1>2, <2>1
  <2> QED BY <2>2 DEF PastHalf
<1> QED BY <1>2, <1>3, <1>4

LEMMA Sends ==
    ASSUME TypeInv, NEW p \in Priorities, OnFigSent(p)
    PROVE  poll_counter' \in [Priorities -> Nat] /\ StackOK(m_priority_stack')
<1>1. poll_counter' \in [Priorities -> Nat]
  <2>1. poll_counter \in [Priorities -> Nat] /\ PollReset \in [Priorities -> Nat]
    BY Constants DEF TypeInv
  <2>2. poll_counter' = [r \in Priorities |->
            IF r = p THEN PollReset[r]
            ELSE IF poll_counter[r] > 0 THEN poll_counter[r] - 1 ELSE 0]
    BY DEF OnFigSent
  <2> QED BY <2>1, <2>2
<1> DEFINE s == m_priority_stack
           W == {i \in DOMAIN s : s[i] = p}
<1>2. /\ s \in Seq(Priorities) /\ Len(s) = NumPriorities - 1 /\ Elements(s) = Priorities
      /\ DOMAIN s = 1..Len(s) /\ Len(s) \in Nat
    BY LenProperties DEF TypeInv, StackOK
<1>3. W \subseteq Nat /\ W # {}
    BY <1>2 DEF Elements
<1>4. First(W) \in 1..Len(s)
    BY <1>2, <1>3, FirstIsLeast
<1>5. m_priority_stack' = ToBack(s, First(W))
    BY DEF OnFigSent
<1> HIDE DEF s, W
<1>6. ToBack(s, First(W)) \in Seq(Priorities) /\ Len(ToBack(s, First(W))) = Len(s)
    BY <1>2, <1>4, BackIs
<1>7. Elements(ToBack(s, First(W))) = Elements(s)
    BY <1>2, <1>4, BackKeepsElements
<1> QED BY <1>1, <1>2, <1>5, <1>6, <1>7 DEF StackOK

\* select_priority() finds a priority, whatever the counters.
LEMMA Selects ==
    ASSUME TypeInv PROVE SelectPriority \in Priorities
<1> DEFINE due == {i \in Priorities : poll_counter[m_priority_stack[i]] = 0}
           best == {i \in Priorities : \A j \in Priorities : Score(i) <= Score(j)}
           W == IF due # {} THEN due ELSE best
<1>1. /\ m_priority_stack \in Seq(Priorities) /\ Len(m_priority_stack) = NumPriorities - 1
      /\ poll_counter \in [Priorities -> Nat]
    BY DEF TypeInv, StackOK
<1>2. Priorities = 1..(NumPriorities - 1) /\ 1 \in Priorities /\ Priorities \subseteq Nat
    BY Constants
<1>3. \A i \in Priorities : m_priority_stack[i] \in Priorities
    BY <1>1, <1>2, ElementOfSeq
<1>4. \A i \in Priorities : Score(i) \in Nat
  <2>1. \A x, y \in Nat : x * y \in Nat
    OBVIOUS
  <2>2. ASSUME NEW i \in Priorities PROVE Score(i) \in Nat
    <3>1. poll_counter[m_priority_stack[i]] \in Nat /\ i \in Nat
      BY <1>1, <1>2, <1>3
    <3> QED BY <2>1, <3>1 DEF Score
  <2> QED BY <2>2
<1>5. best # {}
  <2> DEFINE V == {Score(i) : i \in Priorities}
  <2>1. V \subseteq Nat /\ V # {}
    BY <1>2, <1>4
  <2>2. First(V) \in V /\ \A j \in V : First(V) <= j
    BY <2>1, FirstIsLeast
  <2>3. PICK i \in Priorities : First(V) = Score(i)
    BY <2>2
  <2>4. \A j \in Priorities : Score(i) <= Score(j)
    BY <2>2, <2>3
  <2> QED BY <2>4
<1>6. W \subseteq Priorities /\ W # {}
    BY <1>5
<1>7. First(W) \in Priorities
    BY <1>2, <1>6, FirstIsLeast
<1>8. SelectPriority = m_priority_stack[First(W)]
    BY DEF SelectPriority
<1> QED BY <1>3, <1>7, <1>8

-----------------------------------------------------------------------------
(* The steps.                                                              *)

LEMMA StartFrameKeeps == ASSUME IInv, StartFrame PROVE IInv'
<1>1. deadline' \in [AllFIGs -> Int] /\ must_send' \subseteq AllFIGs
  <2>1. deadline \in [AllFIGs -> Int] /\ must_send \subseteq AllFIGs
    BY DEF IInv, TypeInv
  <2> QED BY <2>1 DEF StartFrame
<1>2. /\ pc' = "fib"
      /\ UNCHANGED <<poll_counter, carousel, m_priority_stack, start_prio, prio, attempt, offered>>
    BY DEF StartFrame, loopVars
<1>3. TypeInv'
    BY <1>1, <1>2 DEF IInv, TypeInv
<1> QED BY <1>2, <1>3 DEF IInv, MustInv, CanInv

LEMMA StartFibKeeps == ASSUME IInv, StartFib PROVE IInv'
<1>1. deadline' \in [AllFIGs -> Int] /\ must_send' \subseteq AllFIGs
  <2>1. deadline \in [AllFIGs -> Int] /\ must_send \subseteq AllFIGs
    BY DEF IInv, TypeInv
  <2>2. CASE fib = 0 /\ framephase = 0
    <3>1. PICK done : /\ deadline' = [f \in AllFIGs |->
                           IF f \notin done THEN deadline[f]
                           ELSE IF f = FIG0_7 THEN Rate[f] + 1 ELSE Rate[f]]
                      /\ must_send' = must_send \ done
      BY <2>2 DEF StartFib
    <3>2. \A f \in AllFIGs : Rate[f] \in Nat
      BY Constants
    <3> QED BY <2>1, <3>1, <3>2
  <2>3. CASE ~(fib = 0 /\ framephase = 0)
    <3>1. UNCHANGED <<deadline, must_send>>
      BY <2>3 DEF StartFib, figVars
    <3> QED BY <2>1, <3>1
  <2> QED BY <2>2, <2>3
<1>2. /\ pc' = "must" /\ made_progress' = TRUE /\ offered' = {}
      /\ UNCHANGED <<poll_counter, carousel, m_priority_stack, start_prio, prio, attempt>>
    BY DEF StartFib
<1>3. TypeInv'
    BY <1>1, <1>2 DEF IInv, TypeInv
<1> QED BY <1>2, <1>3 DEF IInv, MustInv, CanInv

\* A round starts with nothing behind it, and the last of the rounds has tried all.
LEMMA MustSelectKeeps == ASSUME IInv, MustSelect PROVE IInv'
<1>1. TypeInv' /\ attempt' = 0 /\ UNCHANGED <<deadline, must_send, carousel, offered>>
  <2>1. /\ attempt' = 0 /\ UNCHANGED <<deadline, must_send, poll_counter, carousel,
                                       m_priority_stack, offered>>
        /\ prio' \in {0, 1} /\ start_prio' \in {SelectPriority, start_prio}
        /\ pc' \in {"mustPrio", "pass1"} /\ (pc' = "pass1" => prio' = 1)
    BY DEF MustSelect, figVars
  <2>2. start_prio' \in Priorities
    BY <2>1, Selects DEF IInv, TypeInv
  <2> QED BY <2>1, <2>2 DEF IInv, TypeInv
<1>2. CASE SpaceLeft /\ made_progress
  <2>1. pc' = "mustPrio" /\ prio' = 0
    BY <1>2 DEF MustSelect
  <2>2. AtOffset(prio)' = At(start_prio', 0) /\ At(start_prio', 0) \in Priorities
    <3>1. start_prio' \in Priorities
      BY <1>1 DEF TypeInv
    <3>2. 0 \in 0..(NumPriorities - 2)
      BY Constants
    <3> QED BY <2>1, <3>1, <3>2, OffsetsReachAll DEF AtOffset, At
  <2>3. carousel'[At(start_prio', 0)] \in Seq(FIGs)
    BY <1>1, <2>2 DEF TypeInv, CarouselsOK
  <2>4. Here'
    BY <1>1, <2>2, <2>3, LastOfNone DEF Here
  <2>5. Behind'
    BY <2>1 DEF Behind
  <2> QED BY <1>1, <2>1, <2>4, <2>5 DEF IInv, MustInv, CanInv
<1>3. CASE ~(SpaceLeft /\ made_progress)
  <2>1. pc' = "pass1" /\ tried' = {}
    BY <1>3 DEF MustSelect
  <2> QED BY <1>1, <2>1 DEF IInv, MustInv, CanInv, Spared
<1> QED BY <1>2, <1>3

\* A priority is left when nothing of it is due, or when all its FIGs have had a turn.
LEMMA MustNextPrioKeeps == ASSUME IInv, MustNextPrio PROVE IInv'
<1> DEFINE q == AtOffset(prio)
<1>1. /\ pc = "mustPrio" /\ attempt' = 0
      /\ UNCHANGED <<deadline, must_send, poll_counter, carousel, m_priority_stack, remaining,
                     tried, made_progress, start_prio, offered>>
    BY DEF MustNextPrio, figVars
<1>2. NumPriorities \in Nat /\ NumPriorities >= 2 /\ prio \in Nat /\ attempt \in Nat
    BY Constants DEF IInv, TypeInv
<1>3. CASE prio >= NumPriorities - 1 \/ ~SpaceLeft
  <2>1. pc' = "must" /\ UNCHANGED prio
    BY <1>3 DEF MustNextPrio
  <2>2. TypeInv'
    BY <1>1, <1>2, <2>1 DEF IInv, TypeInv
  <2>3. ASSUME ~made_progress, SpaceLeft, NEW p \in Priorities PROVE AllTried(p)
    <3>1. Behind /\ prio >= NumPriorities - 1
      BY <1>1, <1>3, <2>3 DEF IInv, MustInv
    <3>2. start_prio \in Priorities
      BY DEF IInv, TypeInv
    <3>3. PICK o \in 0..(NumPriorities - 2) : At(start_prio, o) = p
      BY <3>2, OffsetsReachAll
    <3>4. o < prio /\ AtOffset(o) = p
      BY <1>2, <3>1, <3>3 DEF AtOffset, At
    <3> QED BY <3>1, <3>4 DEF Behind
  <2>4. (\A p \in Priorities : AllTried(p)) => \A p \in Priorities : AllTried(p)'
    BY <1>1 DEF AllTried
  <2>5. SpaceLeft' <=> SpaceLeft
    BY <1>1 DEF SpaceLeft
  <2> QED BY <1>1, <2>1, <2>2, <2>3, <2>4, <2>5 DEF IInv, MustInv, CanInv
<1>4. CASE ~(prio >= NumPriorities - 1 \/ ~SpaceLeft)
  <2>1. /\ pc' = pc /\ prio' = prio + 1 /\ prio <= NumPriorities - 2
        /\ DueIn(q) = {} \/ attempt >= Len(carousel[q])
    BY <1>2, <1>4 DEF MustNextPrio
  <2>2. TypeInv'
    BY <1>1, <1>2, <2>1 DEF IInv, TypeInv
  <2>3. q = At(start_prio, prio) /\ q \in Priorities
    <3>1. start_prio \in Priorities /\ prio \in 0..(NumPriorities - 2)
      BY <1>2, <2>1 DEF IInv, TypeInv
    <3> QED BY <3>1, OffsetsReachAll DEF AtOffset, At
  <2> HIDE DEF q
  <2>4. CarouselsOK(carousel)
    BY DEF IInv, TypeInv
  <2>5. ASSUME Here PROVE AllTried(q)
    <3>1. AllTried(q) \/ LastIn(carousel[q], attempt, tried)
      BY <2>1, <2>5 DEF Here, q
    <3>2. CASE DueIn(q) = {}
      BY <2>3, <2>4, <3>2, CarouselHas DEF DueIn, AllTried
    <3>3. CASE LastIn(carousel[q], attempt, tried) /\ attempt >= Len(carousel[q])
      <4>1. \A i \in 1..Len(carousel[q]) : carousel[q][i] \in tried
        BY <1>2, <2>3, <2>4, <3>3, CarouselHas DEF LastIn
      <4> QED BY <2>3, <2>4, <4>1, CarouselHas DEF AllTried
    <3> QED BY <2>1, <3>1, <3>2, <3>3
  <2>6. ASSUME Behind, Here PROVE Behind'
    <3>1. ASSUME NEW o \in 0..(NumPriorities - 2), o < prio + 1 PROVE AllTried(AtOffset(o))
      <4>1. o < prio \/ o = prio
        BY <1>2, <3>1
      <4> QED BY <2>5, <2>6, <4>1 DEF Behind, q
    <3>2. \A o : AllTried(AtOffset(o))' <=> AllTried(AtOffset(o))
      BY <1>1 DEF AllTried, AtOffset
    <3> QED BY <2>1, <3>1, <3>2 DEF Behind
  <2>7. Here'
    <3>1. SUFFICES ASSUME prio' <= NumPriorities - 2
                   PROVE  LastIn(carousel'[AtOffset(prio)'], 0, tried')
      BY <1>1 DEF Here
    <3>2. AtOffset(prio)' = At(start_prio, prio + 1)
      BY <1>1, <2>1 DEF AtOffset, At
    <3>3. prio + 1 \in 0..(NumPriorities - 2) /\ start_prio \in Priorities
      BY <1>2, <2>1, <3>1 DEF IInv, TypeInv
    <3>4. AtOffset(prio)' \in Priorities
      BY <3>2, <3>3, OffsetsReachAll
    <3>5. carousel'[AtOffset(prio)'] \in Seq(FIGs)
      BY <1>1, <2>4, <3>4 DEF CarouselsOK
    <3> QED BY <3>5, LastOfNone
  <2> QED BY <1>1, <2>1, <2>2, <2>6, <2>7 DEF IInv, MustInv, CanInv
<1> QED BY <1>3, <1>4

\* An attempt: the first FIG due goes to the back and has been tried; when it stood among
\* those that went there before, every FIG due had been tried.
LEMMA MustAttemptKeeps == ASSUME IInv, MustAttempt PROVE IInv'
<1> DEFINE q == AtOffset(prio)
           i == First(DueIn(q))
           f == carousel[q][i]
<1>1. /\ pc = "mustPrio" /\ prio < NumPriorities - 1 /\ DueIn(q) # {}
      /\ MoveToBack(q, i) /\ tried' = tried \union {f} /\ attempt' = attempt + 1
      /\ UNCHANGED <<pc, tried_pass1, start_prio, prio, offered>>
      /\ \/ UNCHANGED <<figVars, poll_counter, m_priority_stack, made_progress>>
         \/ /\ Write(f, Greedy(f, remaining))
            /\ \/ OnFigSent(q) /\ made_progress' = TRUE
               \/ UNCHANGED <<poll_counter, m_priority_stack, made_progress>>
    BY DEF MustAttempt
<1>2. NumPriorities \in Nat /\ NumPriorities >= 2 /\ prio \in Nat /\ attempt \in Nat
    BY Constants DEF IInv, TypeInv
<1>3. prio \in 0..(NumPriorities - 2) /\ q \in Priorities
  <2>1. start_prio \in Priorities /\ prio \in 0..(NumPriorities - 2)
    BY <1>1, <1>2 DEF IInv, TypeInv
  <2>2. q = At(start_prio, prio)
    BY DEF AtOffset, At
  <2> HIDE DEF q
  <2> QED BY <2>1, <2>2, OffsetsReachAll
<1>4. CarouselsOK(carousel) /\ TypeInv
    BY DEF IInv, TypeInv
<1>a. q = AtOffset(prio) /\ i = First(DueIn(q)) /\ f = carousel[q][i]
    OBVIOUS
<1> HIDE DEF q, i, f
<1>5. DueIn(q) \subseteq 1..Len(carousel[q]) /\ Len(carousel[q]) \in Nat /\ carousel[q] \in Seq(FIGs)
    BY <1>3, <1>4, CarouselHas DEF DueIn
<1>6. i \in DueIn(q) /\ \A j \in DueIn(q) : i <= j
  <2>1. DueIn(q) \subseteq Nat
    BY <1>5
  <2> QED BY <1>1, <1>a, <2>1, FirstIsLeast
<1>7. i \in 1..Len(carousel[q]) /\ f \in InPriority(q) /\ f \in FIGs
    BY <1>3, <1>4, <1>5, <1>6, <1>a, CarouselHas, Constants
<1>8. CarouselsOK(carousel') /\ carousel'[q] = ToBack(carousel[q], i)
    BY <1>1, <1>3, <1>4, <1>7, CarouselMoves
<1>9. deadline' \in [AllFIGs -> Int] /\ must_send' \subseteq must_send
  <2>1. CASE UNCHANGED figVars
    BY <1>4, <2>1 DEF figVars, TypeInv
  <2>2. CASE Write(f, Greedy(f, remaining))
    BY <1>4, <1>7, <2>2, Writes
  <2> QED BY <1>1, <2>1, <2>2
<1>10. /\ poll_counter' \in [Priorities -> Nat] /\ StackOK(m_priority_stack')
       /\ ~made_progress' => ~made_progress
  <2>1. CASE OnFigSent(q) /\ made_progress' = TRUE
    BY <1>3, <1>4, <2>1, Sends
  <2>2. CASE UNCHANGED <<poll_counter, m_priority_stack, made_progress>>
    BY <1>4, <2>2 DEF TypeInv
  <2> QED BY <1>1, <2>1, <2>2
<1>11. TypeInv'
    BY <1>1, <1>2, <1>4, <1>8, <1>9, <1>10 DEF TypeInv
<1>12. \A p : AllTried(p) => AllTried(p)'
    BY <1>1, <1>9 DEF AllTried, InPriority
<1>13. \A o : AtOffset(o)' = AtOffset(o)
    BY <1>1 DEF AtOffset
<1>14. ASSUME Behind PROVE Behind'
    BY <1>1, <1>12, <1>13, <1>14 DEF Behind
<1>15. ASSUME Here PROVE Here'
  <2>1. AllTried(q) \/ LastIn(carousel[q], attempt, tried)
    BY <1>3, <1>15, <1>a DEF Here
  <2>2. AllTried(q) \/ LastIn(carousel[q], attempt, tried')
    BY <1>1, <2>1 DEF LastIn
  <2>3. CASE AllTried(q)
    BY <1>1, <1>12, <1>13, <1>a, <2>3 DEF Here
  <2>4. CASE LastIn(carousel[q], attempt, tried') /\ i <= Len(carousel[q]) - attempt
    <3>1. carousel[q][i] \in tried'
      BY <1>1, <1>a
    <3>2. LastIn(ToBack(carousel[q], i), attempt + 1, tried')
      BY <1>2, <1>5, <1>7, <2>4, <3>1, LastGrows
    <3> QED BY <1>1, <1>8, <1>13, <1>a, <3>2 DEF Here
  <2>5. CASE LastIn(carousel[q], attempt, tried) /\ ~(i <= Len(carousel[q]) - attempt)
    <3>1. \A j \in DueIn(q) : carousel[q][j] \in tried
      BY <1>2, <1>5, <1>6, <2>5 DEF LastIn
    <3>2. AllTried(q)
      BY <1>3, <1>4, <3>1, CarouselHas DEF AllTried, DueIn
    <3> QED BY <1>1, <1>12, <1>13, <1>a, <3>2 DEF Here
  <2> QED BY <1>1, <2>1, <2>2, <2>3, <2>4, <2>5
<1> QED BY <1>1, <1>10, <1>11, <1>14, <1>15 DEF IInv, MustInv, CanInv

\* A priority is left in pass 2 when all its FIGs have been offered what space there is.
LEMMA CanNextPrioKeeps == ASSUME IInv, CanNextPrio PROVE IInv'
<1>1. /\ pc \in {"pass1", "pass2"} /\ ~AttemptsLeft /\ attempt' = 0
      /\ UNCHANGED <<deadline, must_send, poll_counter, carousel, m_priority_stack, tried,
                     start_prio, offered>>
    BY DEF CanNextPrio, figVars
<1>2. NumPriorities \in Nat /\ NumPriorities >= 2 /\ prio \in Nat /\ prio >= 1 /\ attempt \in Nat
    BY <1>1, Constants DEF IInv, TypeInv
<1>3. \A S : Spared(S) => Spared(S)'
    BY <1>1 DEF Spared, PastHalf
<1>4. CarouselsOK(carousel) /\ TypeInv
    BY DEF IInv, TypeInv
<1>5. CASE ~FibIsFull
  <2>1. prio' = prio + 1 /\ UNCHANGED <<pc, tried_pass1>>
    BY <1>5 DEF CanNextPrio
  <2>2. prio < NumPriorities /\ attempt >= Len(carousel[prio]) /\ prio \in Priorities
    <3>1. prio < NumPriorities
      BY <1>2, <1>5 DEF FibIsFull
    <3>2. prio \in Priorities
      BY <1>2, <3>1, Constants
    <3>3. ~(attempt < Len(carousel[prio])) /\ Len(carousel[prio]) \in Nat
      BY <1>1, <1>4, <1>5, <3>2, CarouselHas DEF AttemptsLeft
    <3> QED BY <1>2, <3>1, <3>2, <3>3
  <2>3. TypeInv'
    BY <1>1, <1>2, <1>4, <2>1 DEF TypeInv
  <2>4. CASE pc = "pass1"
    BY <1>1, <1>3, <2>1, <2>3, <2>4 DEF IInv, MustInv, CanInv, Spared, PastHalf
  <2>5. CASE pc = "pass2"
    <3>1. /\ Spared(tried_pass1) /\ LastIn(carousel[prio], attempt, offered)
          /\ \A p \in Priorities : p < prio => InPriority(p) \subseteq offered
      BY <2>2, <2>5 DEF IInv, CanInv
    <3>2. \A j \in 1..Len(carousel[prio]) : carousel[prio][j] \in offered
      BY <1>2, <1>4, <2>2, <3>1, CarouselHas DEF LastIn
    <3>3. InPriority(prio) \subseteq offered
      BY <1>4, <2>2, <3>2, CarouselHas
    <3>4. ASSUME NEW p \in Priorities, p < prio + 1 PROVE InPriority(p) \subseteq offered
      <4>1. p < prio \/ p = prio
        BY <1>2, <3>4, Constants
      <4> QED BY <3>1, <3>3, <4>1
    <3>5. ASSUME prio + 1 < NumPriorities PROVE LastIn(carousel[prio + 1], 0, offered)
      <4>1. prio + 1 \in Priorities
        BY <1>2, <3>5, Constants
      <4> QED BY <1>4, <4>1, LastOfNone DEF CarouselsOK
    <3>6. Spared(tried_pass1)'
      BY <1>1, <2>1, <3>1 DEF Spared, PastHalf
    <3>7. CanInv'
      BY <1>1, <2>1, <2>5, <3>4, <3>5, <3>6 DEF CanInv, InPriority
    <3> QED BY <2>1, <2>3, <2>5, <3>7 DEF IInv, MustInv
  <2> QED BY <1>1, <2>4, <2>5
<1>6. CASE FibIsFull /\ pc = "pass1"
  <2>1. pc' = "pass2" /\ prio' = 1 /\ tried_pass1' = tried
    BY <1>6 DEF CanNextPrio
  <2>2. TypeInv'
    BY <1>1, <1>4, <2>1 DEF TypeInv
  <2>3. Spared(tried_pass1)'
    BY <1>1, <1>6, <2>1 DEF IInv, CanInv, Spared, PastHalf
  <2>4. 1 \in Priorities /\ \A p \in Priorities : ~(p < 1)
    BY Constants
  <2>5. LastIn(carousel[1], 0, offered)
    BY <1>4, <2>4, LastOfNone DEF CarouselsOK
  <2>6. CanInv'
    BY <1>1, <2>1, <2>3, <2>4, <2>5 DEF CanInv
  <2> QED BY <2>1, <2>2, <2>6 DEF IInv, MustInv
<1>7. CASE FibIsFull /\ pc # "pass1"
  <2>1. pc' \in {"fib", "frame"} /\ UNCHANGED prio
    BY <1>7 DEF CanNextPrio
  <2>2. TypeInv'
    BY <1>1, <1>4, <2>1 DEF TypeInv
  <2> QED BY <2>1, <2>2 DEF IInv, MustInv, CanInv
<1> QED BY <1>5, <1>6, <1>7

\* Whether a FIG is offered the space or skipped, those tried before stay spared.
LEMMA CanAttemptKeeps == ASSUME IInv, CanAttempt PROVE IInv'
<1> PICK f : f = Head(carousel[prio])
    OBVIOUS
<1> DEFINE late == IF pc = "pass1" THEN ~(f \in tried \/ ~PastHalf(f))
                   ELSE ~(f \in tried_pass1 /\ f \in tried /\ PastHalf(f))
<1>1. /\ pc \in {"pass1", "pass2"} /\ AttemptsLeft
      /\ late => Offer(f)
      /\ ~late => Skip
      /\ tried' = tried \union {f} /\ MoveToBack(prio, 1) /\ attempt' = attempt + 1
      /\ UNCHANGED <<poll_counter, m_priority_stack, pc, tried_pass1, start_prio, prio>>
    BY DEF CanAttempt
<1>2. /\ NumPriorities \in Nat /\ NumPriorities >= 2 /\ prio \in Nat /\ prio >= 1 /\ attempt \in Nat
      /\ CarouselsOK(carousel) /\ TypeInv
    BY <1>1, Constants DEF IInv, TypeInv
<1>3. prio < NumPriorities /\ prio \in Priorities
  <2>1. prio < NumPriorities
    BY <1>1, <1>2 DEF AttemptsLeft, FibIsFull
  <2> QED BY <1>2, <2>1, Constants
<1>4. attempt < Len(carousel[prio]) /\ Len(carousel[prio]) \in Nat /\ carousel[prio] \in Seq(FIGs)
    BY <1>1, <1>2, <1>3, CarouselHas DEF AttemptsLeft
<1>5. 1 \in 1..Len(carousel[prio]) /\ f = carousel[prio][1] /\ 1 <= Len(carousel[prio]) - attempt
    BY <1>2, <1>4
<1> HIDE DEF late
<1>6. f \in FIGs
    BY <1>4, <1>5, ElementOfSeq
<1>7. CarouselsOK(carousel') /\ carousel'[prio] = ToBack(carousel[prio], 1)
    BY <1>1, <1>2, <1>3, <1>5, CarouselMoves
<1>8. /\ deadline' \in [AllFIGs -> Int] /\ must_send' \subseteq must_send
      /\ \A h \in FIGs \ {f} : PastHalf(h)' <=> PastHalf(h)
      /\ offered \subseteq offered' /\ offered' \subseteq FIGs
      /\ late => f \in offered'
      /\ ~late => (PastHalf(f)' <=> PastHalf(f))
  <2>1. CASE late
    <3>1. Write(f, FillBlocks(f, remaining)) /\ offered' = offered \union {f}
      BY <1>1, <2>1 DEF Offer
    <3>2. /\ deadline' \in [AllFIGs -> Int] /\ must_send' \subseteq must_send
          /\ \A h \in FIGs \ {f} : PastHalf(h)' <=> PastHalf(h)
      BY <1>2, <1>6, <3>1, Writes
    <3> QED BY <1>2, <1>6, <2>1, <3>1, <3>2 DEF TypeInv
  <2>2. CASE ~late
    <3>1. UNCHANGED <<deadline, must_send, offered>>
      BY <1>1, <2>2 DEF Skip, figVars
    <3> QED BY <1>2, <2>2, <3>1 DEF TypeInv, PastHalf
  <2> QED BY <2>1, <2>2
<1>9. TypeInv'
    BY <1>1, <1>2, <1>7, <1>8 DEF TypeInv
<1>10. ASSUME NEW S, Spared(S) PROVE \A h \in S : h \in FIGs /\ (h \in offered' \/ ~PastHalf(h)')
  <2>1. ASSUME NEW h \in S PROVE h \in FIGs /\ (h \in offered' \/ ~PastHalf(h)')
    <3>1. h \in FIGs /\ (h \in offered \/ ~PastHalf(h))
      BY <1>10, <2>1 DEF Spared
    <3>2. CASE h = f
      BY <1>8, <3>1, <3>2
    <3>3. CASE h # f
      BY <1>8, <3>1, <3>3
    <3> QED BY <3>2, <3>3
  <2> QED BY <2>1
<1>11. CASE pc = "pass1"
  <2>1. Spared(tried)
    BY <1>11 DEF IInv, CanInv
  <2>2. f \in offered' \/ ~PastHalf(f)'
    <3>1. CASE f \in tried
      BY <1>10, <2>1, <3>1
    <3>2. CASE f \notin tried /\ ~PastHalf(f)
      BY <1>8, <1>11, <3>2 DEF late
    <3>3. CASE f \notin tried /\ PastHalf(f)
      BY <1>8, <1>11, <3>3 DEF late
    <3> QED BY <3>1, <3>2, <3>3
  <2>3. Spared(tried)'
    BY <1>1, <1>6, <1>10, <2>1, <2>2 DEF Spared
  <2> QED BY <1>1, <1>9, <1>11, <2>3 DEF IInv, MustInv, CanInv
<1>12. CASE pc = "pass2"
  <2>1. /\ Spared(tried_pass1) /\ LastIn(carousel[prio], attempt, offered)
        /\ \A p \in Priorities : p < prio => InPriority(p) \subseteq offered
    BY <1>3, <1>12 DEF IInv, CanInv
  <2>2. Spared(tried_pass1)'
    BY <1>1, <1>10, <2>1 DEF Spared
  <2>3. f \in offered'
    <3>1. CASE late
      BY <1>8, <3>1
    <3>2. CASE ~late
      <4>1. f \in tried_pass1 /\ PastHalf(f)
        BY <1>12, <3>2 DEF late
      <4>2. f \in offered
        BY <2>1, <4>1 DEF Spared
      <4> QED BY <1>8, <4>2
    <3> QED BY <3>1, <3>2
  <2>4. LastIn(carousel[prio], attempt, offered')
    BY <1>8, <2>1 DEF LastIn
  <2>5. LastIn(ToBack(carousel[prio], 1), attempt + 1, offered')
    BY <1>2, <1>4, <1>5, <2>3, <2>4, LastGrows
  <2>6. \A p \in Priorities : p < prio => InPriority(p) \subseteq offered'
    BY <1>8, <2>1
  <2>7. CanInv'
    BY <1>1, <1>7, <1>12, <2>2, <2>5, <2>6 DEF CanInv, InPriority
  <2> QED BY <1>1, <1>9, <1>12, <2>7 DEF IInv, MustInv
<1> QED BY <1>1, <1>11, <1>12

LEMMA UnchangedKeeps == ASSUME IInv, UNCHANGED vars PROVE IInv'
<1> USE DEF vars, figVars, fibVars, loopVars
<1>1. UNCHANGED <<deadline, must_send, poll_counter, carousel, m_priority_stack, remaining, pc,
                  tried, tried_pass1, made_progress, start_prio, prio, attempt, offered>>
    OBVIOUS
<1>2. TypeInv'
    BY <1>1 DEF IInv, TypeInv
<1>3. MustInv'
    BY <1>1 DEF IInv, MustInv, Behind, Here, AllTried, AtOffset, SpaceLeft, InPriority
<1>4. CanInv'
    BY <1>1 DEF IInv, CanInv, Spared, PastHalf, InPriority
<1> QED BY <1>2, <1>3, <1>4 DEF IInv

LEMMA StepInv == ASSUME IInv, [Next]_vars PROVE IInv'
BY StartFrameKeeps, StartFibKeeps, MustSelectKeeps, MustNextPrioKeeps, MustAttemptKeeps,
   CanNextPrioKeeps, CanAttemptKeeps, UnchangedKeeps DEF Next

\* What the invariant says of the steps that end the passes.
LEMMA MustPassEnds ==
    ASSUME IInv, [Next]_vars, pc = "must", pc' = "pass1", SpaceLeft
    PROVE  must_send \ {FIG0_0, FIG0_7} \subseteq tried
<1>1. MustSelect
    BY DEF Next, StartFrame, StartFib, MustNextPrio, MustAttempt, CanNextPrio, CanAttempt, vars
<1>2. ~made_progress
    BY <1>1 DEF MustSelect
<1>3. \A p \in Priorities : AllTried(p)
    BY <1>2 DEF IInv, MustInv
<1>4. must_send \ {FIG0_0, FIG0_7} \subseteq FIGs
    BY DEF IInv, TypeInv, AllFIGs
<1>5. FIGs = UNION {InPriority(p) : p \in Priorities}
    BY Constants
<1> QED BY <1>3, <1>4, <1>5 DEF AllTried

LEMMA FibCloses ==
    ASSUME IInv, [Next]_vars, pc = "pass2", pc' # "pass2", SpaceLeft
    PROVE  offered = FIGs
<1>1. CanNextPrio
    BY DEF Next, StartFrame, StartFib, MustSelect, MustNextPrio, MustAttempt, CanAttempt, vars
<1>2. prio >= NumPriorities
    BY <1>1 DEF CanNextPrio, FibIsFull
<1>3. \A p \in Priorities : p < prio
  <2>1. prio \in Nat
    BY DEF IInv, TypeInv
  <2>2. NumPriorities \in Nat /\ Priorities = 1..(NumPriorities - 1)
    BY Constants
  <2> QED BY <1>2, <2>1, <2>2
<1>4. \A p \in Priorities : InPriority(p) \subseteq offered
    BY <1>3 DEF IInv, CanInv
<1>5. FIGs = UNION {InPriority(p) : p \in Priorities}
    BY Constants
<1> QED BY <1>4, <1>5 DEF IInv, TypeInv

(***************************************************************************)
(* No FIG is passed over: when the must-send pass ends with space left,    *)
(* every FIG that is due has been tried in this FIB, and no FIB is closed  *)
(* with space left that was not offered to every FIG (fill_fib, steps 2    *)
(* and 3).                                                                 *)
(***************************************************************************)
THEOREM NoFigIsPassedOver == FicSpec => NoFigPassedOver
<1> DEFINE Inv == IF m_scheduler_type = "priority" THEN IInv ELSE pc = none
           Must == (pc = "must" /\ pc' = "pass1" /\ SpaceLeft)
                     => (must_send \ {FIG0_0, FIG0_7}) \subseteq tried
           Can == (pc = "pass2" /\ pc' # "pass2" /\ SpaceLeft) => offered = FIGs
<1>1. FicInit => Inv
  <2>1. CASE m_scheduler_type = "priority" /\ Init
    BY <2>1, InitInv
  <2>2. CASE m_scheduler_type # "priority" /\ pc = none
    BY <2>2
  <2>3. FicInit => \/ m_scheduler_type = "priority" /\ Init
                   \/ m_scheduler_type # "priority" /\ pc = none
    BY DEF FicInit
  <2> QED BY <2>1, <2>2, <2>3
<1>2. Inv /\ [FicNext]_ficVars => Inv'
  <2> SUFFICES ASSUME Inv, [FicNext]_ficVars PROVE Inv'
    OBVIOUS
  <2>1. CASE PriorityNext
    <3>1. m_scheduler_type = "priority" /\ m_scheduler_type' = "priority" /\ Next
      BY <2>1 DEF PriorityNext
    <3> QED BY <3>1, StepInv
  <2>2. CASE ClassicNext
    BY <2>2 DEF ClassicNext, priorityVars
  <2>3. CASE UNCHANGED ficVars
    <3>1. UNCHANGED vars /\ UNCHANGED m_scheduler_type /\ UNCHANGED pc
      BY <2>3 DEF ficVars, vars
    <3> QED BY <3>1, UnchangedKeeps
  <2> QED BY <2>1, <2>2, <2>3 DEF FicNext
<1>3. Inv /\ [FicNext]_ficVars => [Must]_vars /\ [Can]_vars
  <2> SUFFICES ASSUME Inv, [FicNext]_ficVars PROVE Must /\ Can
    OBVIOUS
  <2>1. CASE m_scheduler_type = "priority"
    <3>1. [Next]_vars
      BY <2>1 DEF FicNext, PriorityNext, ClassicNext, ficVars
    <3> QED BY <2>1, <3>1, MustPassEnds, FibCloses
  <2>2. CASE m_scheduler_type # "priority"
    BY <2>2 DEF none
  <2> QED BY <2>1, <2>2
<1> QED BY <1>1, <1>2, <1>3, PTL DEF FicSpec, NoFigPassedOver, MustSendTriesAllDue, EveryFigOffered
=============================================================================
