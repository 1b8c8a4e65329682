--------------------------- MODULE EnsembleProofs ---------------------------
(***************************************************************************)
(* The ensemble for every configuration: any general sections, services,   *)
(* subchannels, components and linking files, and any number of commands   *)
(* of the remote control.  And the FIGs made of its elements: every cycle  *)
(* carries each entry once, for every FIG and every list.                  *)
(***************************************************************************)
EXTENDS MCEnsemble, SequenceTheorems, FiniteSetTheorems, WellFoundedInduction, TLAPS

(***************************************************************************)
(* Induction over what is counted, as a fact about sets of numbers.        *)
(***************************************************************************)
LEMMA Smallest ==
    ASSUME NEW W, W \subseteq Nat, W # {} PROVE \E x \in W : \A y \in W : x <= y
<1> DEFINE R == {ss \in Nat \X Nat : ss[1] < ss[2]}
<1>1. IsWellFoundedOn(R, Nat)
    BY NatLessThanWellFounded DEF OpToRel
<1> HIDE DEF R
<1>2. PICK x \in W : \A y \in W : ~ (<<y, x>> \in R)
    BY <1>1, WFMin
<1>3. \A y \in W : ~(y < x)
    BY <1>2 DEF R
<1> QED BY <1>3

LEMMA Upto ==
    ASSUME NEW S, NEW n \in Nat, 0 \in S, \A i \in 1..n : i - 1 \in S => i \in S
    PROVE  \A i \in 0..n : i \in S
<1> DEFINE W == {i \in 0..n : i \notin S}
<1>1. SUFFICES ASSUME W # {} PROVE FALSE
    OBVIOUS
<1>2. PICK x \in W : \A y \in W : x <= y
  <2>1. W \subseteq Nat
    OBVIOUS
  <2> QED BY <1>1, <2>1, Smallest
<1>3. x \in 1..n /\ x \notin S
    OBVIOUS
<1>4. x - 1 \in S
    BY <1>2, <1>3
<1> QED BY <1>3, <1>4

\* What a recursive definition over 0..n defines.
IsRecursion(f, V, n, base, step) ==
    f \in [0..n -> V] /\ f[0] = base /\ \A i \in 1..n : f[i] = step[i][f[i - 1]]

LEMMA Recursion ==
    ASSUME NEW V, NEW n \in Nat, NEW base \in V, NEW step \in [1..n -> [V -> V]]
    PROVE  \E f : IsRecursion(f, V, n, base, step)
<1> DEFINE Is(f, m) == f[0] = base /\ \A i \in 1..m : f[i] = step[i][f[i - 1]]
           S == {m \in 0..n : \E f \in [0..m -> V] : Is(f, m)}
<1>1. 0 \in S
  <2> DEFINE g == [i \in 0..0 |-> base]
  <2>1. g \in [0..0 -> V] /\ Is(g, 0)
    OBVIOUS
  <2> HIDE DEF g, Is
  <2> QED BY <2>1
<1>2. ASSUME NEW m \in 1..n, m - 1 \in S PROVE m \in S
  <2>1. PICK f \in [0..(m - 1) -> V] : Is(f, m - 1)
    BY <1>2
  <2> DEFINE g == [i \in 0..m |-> IF i = m THEN step[m][f[m - 1]] ELSE f[i]]
  <2>2. /\ g[m] = step[m][f[m - 1]] /\ \A i \in 0..(m - 1) : g[i] = f[i]
        /\ f[m - 1] \in V
    OBVIOUS
  <2>3. g \in [0..m -> V]
    BY <2>2
  <2>4. Is(g, m)
    <3>1. g[0] = base
      BY <2>1, <2>2
    <3>2. ASSUME NEW i \in 1..m PROVE g[i] = step[i][g[i - 1]]
      <4>1. CASE i = m
        BY <2>2, <4>1
      <4>2. CASE i \in 1..(m - 1)
        BY <2>1, <2>2, <4>2
      <4> QED BY <4>1, <4>2
    <3> HIDE DEF g
    <3> QED BY <3>1, <3>2
  <2> HIDE DEF g, Is
  <2> QED BY <2>3, <2>4
<1>3. \A m \in 1..n : m - 1 \in S => m \in S
    BY <1>2
<1>4. n \in S
  <2> HIDE DEF S
  <2>1. \A i \in 0..n : i \in S
    BY <1>1, <1>3, Upto
  <2> QED BY <2>1
<1> QED BY <1>4 DEF IsRecursion

-----------------------------------------------------------------------------
(***************************************************************************)
(* Labels: what Marks has found when it has come to character i.           *)
(***************************************************************************)
Marked(M, text, short, i) == Len(M[i - 1]) < Len(short) /\ short[Len(M[i - 1]) + 1] = text[i]
MarksOf(M, text, short) ==
    /\ M[0] = <<>>
    /\ \A i \in 1..Len(text) :
          M[i] = IF Marked(M, text, short, i) THEN Append(M[i - 1], i) ELSE M[i - 1]

LEMMA MarksAreFound ==
    ASSUME NEW S, NEW text \in Seq(S), NEW short \in Seq(S)
    PROVE  \E M : MarksOf(M, text, short) /\ Ens!Marks(text, short) = M[Len(text)]
<1> DEFINE Rec(M) == M = [i \in 0..Len(text) |->
                             IF i = 0 THEN <<>>
                             ELSE LET before == M[i - 1] IN
                                  IF Len(before) < Len(short) /\ short[Len(before) + 1] = text[i]
                                  THEN Append(before, i) ELSE before]
<1>1. PICK n \in Nat : n = Len(text)
    OBVIOUS
<1>2. PICK V : V = Seq(1..n)
    OBVIOUS
<1> DEFINE at(i) == [v \in V |-> IF Len(v) < Len(short) /\ short[Len(v) + 1] = text[i]
                                  THEN Append(v, i) ELSE v]
<1>3. PICK step : step = [i \in 1..n |-> at(i)]
    OBVIOUS
<1>4. /\ <<>> \in V
      /\ step \in [1..n -> [V -> V]]
  <2>1. <<>> \in V /\ \A i \in 1..n, v \in V : Append(v, i) \in V
    BY <1>2, AppendProperties
  <2>2. \A i \in 1..n : at(i) \in [V -> V]
    BY <2>1
  <2> HIDE DEF at
  <2> QED BY <1>3, <2>1, <2>2
<1> HIDE DEF at, Rec
<1>5. \E f : IsRecursion(f, V, n, <<>>, step)
    BY <1>4, Recursion
<1>6. \E M : Rec(M)
  <2>1. PICK f \in [0..n -> V] : f[0] = <<>> /\ \A i \in 1..n : f[i] = step[i][f[i - 1]]
    BY <1>5 DEF IsRecursion
  <2> DEFINE next(i) == IF Len(f[i - 1]) < Len(short) /\ short[Len(f[i - 1]) + 1] = text[i]
                        THEN Append(f[i - 1], i) ELSE f[i - 1]
  <2>2. \A i \in 1..n : f[i] = next(i)
    <3>1. ASSUME NEW i \in 1..n PROVE f[i] = next(i)
      <4>1. f[i - 1] \in V /\ step[i] = at(i) /\ f[i] = step[i][f[i - 1]]
        BY <1>3, <2>1
      <4> QED BY <4>1 DEF at
    <3> QED BY <3>1
  <2> HIDE DEF next
  <2> DEFINE g == [i \in 0..n |-> IF i = 0 THEN <<>> ELSE next(i)]
  <2>3. \A i \in 0..n : g[i] = f[i]
    BY <2>1, <2>2
  <2>4. f = [i \in 0..n |-> f[i]] /\ g = [i \in 0..n |-> g[i]]
    BY <2>1
  <2>5. f = g
    <3> HIDE DEF g
    <3> QED BY <2>3, <2>4
  <2>6. Rec(f)
    BY <1>1, <2>5 DEF Rec, next
  <2> QED BY <2>6
<1>7. \E M : Rec(M) /\ Ens!Marks(text, short) = M[Len(text)]
  <2> QED BY <1>6 DEF Rec, Ens!Marks
<1>8. ASSUME NEW M, Rec(M) PROVE MarksOf(M, text, short)
  <2>1. M[0] = <<>>
    BY <1>1, <1>8 DEF Rec
  <2>2. ASSUME NEW i \in 1..n
        PROVE  M[i] = IF Marked(M, text, short, i) THEN Append(M[i - 1], i) ELSE M[i - 1]
    <3>1. i \in 0..n /\ i # 0
      OBVIOUS
    <3> QED BY <1>1, <1>8, <3>1 DEF Rec, Marked
  <2> QED BY <1>1, <2>1, <2>2 DEF MarksOf
<1> QED BY <1>7, <1>8

\* The marks among the first i characters.
GoodMarks(M, text, short, i) ==
    /\ M[i] \in Seq(1..i)
    /\ Len(M[i]) <= Len(short)
    /\ \A j \in 1..i : Marked(M, text, short, j) <=> j \in Ens!ToSet(M[i])
    /\ IsFiniteSet(Ens!ToSet(M[i])) /\ Cardinality(Ens!ToSet(M[i])) <= Len(M[i])

\* What appending an element of U to a sequence over D gives.
Appended(s, e, D, U) ==
    /\ Append(s, e) \in Seq(U) /\ s \in Seq(U)
    /\ Len(Append(s, e)) = Len(s) + 1
    /\ \A k \in 1..Len(s) : Append(s, e)[k] = s[k]
    /\ Append(s, e)[Len(s) + 1] = e
    /\ Ens!ToSet(s) \subseteq D
    /\ Ens!ToSet(Append(s, e)) = Ens!ToSet(s) \union {e}

LEMMA SetOfAppended ==
    ASSUME NEW D, NEW s \in Seq(D), NEW e, NEW U, e \in U, D \subseteq U
    PROVE  Appended(s, e, D, U)
<1>1. s \in Seq(U)
    BY SeqMonotonic
<1>2. /\ Append(s, e) \in Seq(U) /\ Len(Append(s, e)) = Len(s) + 1
      /\ \A k \in 1..Len(s) : Append(s, e)[k] = s[k]
      /\ Append(s, e)[Len(s) + 1] = e
    BY <1>1, AppendProperties
<1>3. DOMAIN s = 1..Len(s) /\ DOMAIN Append(s, e) = 1..(Len(s) + 1) /\ Len(s) \in Nat
    BY <1>1, <1>2, LenProperties
<1>4. Ens!ToSet(s) \subseteq D
    BY <1>3, ElementOfSeq DEF Ens!ToSet
<1>5. Ens!ToSet(Append(s, e)) = Ens!ToSet(s) \union {e}
  <2>1. ASSUME NEW k \in 1..(Len(s) + 1) PROVE Append(s, e)[k] \in Ens!ToSet(s) \union {e}
    <3>1. k \in 1..Len(s) \/ k = Len(s) + 1
      BY <1>3
    <3> QED BY <1>2, <1>3, <3>1 DEF Ens!ToSet
  <2>2. ASSUME NEW k \in 1..Len(s) PROVE s[k] \in Ens!ToSet(Append(s, e))
    BY <1>2, <1>3 DEF Ens!ToSet
  <2>3. e \in Ens!ToSet(Append(s, e))
    BY <1>2, <1>3 DEF Ens!ToSet
  <2> QED BY <1>3, <2>1, <2>2, <2>3 DEF Ens!ToSet
<1> QED BY <1>1, <1>2, <1>4, <1>5 DEF Appended

LEMMA MarksAreGood ==
    ASSUME NEW S, NEW text \in Seq(S), NEW short \in Seq(S), NEW M, MarksOf(M, text, short)
    PROVE  \A i \in 0..Len(text) : GoodMarks(M, text, short, i)
<1> DEFINE good == {i \in 0..Len(text) : GoodMarks(M, text, short, i)}
<1>1. Len(text) \in Nat /\ Len(short) \in Nat
    BY LenProperties
<1>2. 0 \in good
  <2>1. M[0] = <<>> /\ <<>> \in Seq(1..0) /\ Len(<<>>) = 0
    BY EmptySeq DEF MarksOf
  <2>2. Ens!ToSet(<<>>) = {}
    BY DEF Ens!ToSet
  <2>3. IsFiniteSet(Ens!ToSet(M[0])) /\ Cardinality(Ens!ToSet(M[0])) = 0
    BY <2>1, <2>2, FS_EmptySet, Zenon
  <2>4. M[0] \in Seq(1..0) /\ Len(M[0]) = 0
    BY <2>1
  <2>5. GoodMarks(M, text, short, 0)
    BY <1>1, <2>3, <2>4 DEF GoodMarks
  <2> QED BY <1>1, <2>5
<1>3. ASSUME NEW i \in 1..Len(text), i - 1 \in good PROVE i \in good
  <2>1. GoodMarks(M, text, short, i - 1)
    BY <1>3
  <2> PICK before : before = M[i - 1]
    OBVIOUS
  <2>2. before \in Seq(1..(i - 1)) /\ Len(before) \in Nat
    BY <2>1, LenProperties DEF GoodMarks
  <2>3. M[i] = IF Marked(M, text, short, i) THEN Append(before, i) ELSE before
    BY DEF MarksOf
  <2>4. /\ Append(before, i) \in Seq(1..i) /\ before \in Seq(1..i)
        /\ Len(Append(before, i)) = Len(before) + 1
        /\ Ens!ToSet(before) \subseteq 1..(i - 1)
        /\ Ens!ToSet(Append(before, i)) = Ens!ToSet(before) \union {i}
    <3>1. i \in 1..i /\ 1..(i - 1) \subseteq 1..i
      BY <1>1
    <3>2. Appended(before, i, 1..(i - 1), 1..i)
      BY <2>2, <3>1, SetOfAppended
    <3> QED BY <3>2 DEF Appended
  <2>5. i \notin Ens!ToSet(before)
    BY <1>1, <2>4
  <2>6. /\ IsFiniteSet(Ens!ToSet(before) \union {i})
        /\ Cardinality(Ens!ToSet(before) \union {i}) = Cardinality(Ens!ToSet(before)) + 1
        /\ Cardinality(Ens!ToSet(before)) \in Nat
    <3>1. IsFiniteSet(Ens!ToSet(before))
      BY <2>1 DEF GoodMarks
    <3> QED BY <2>5, <3>1, FS_AddElement, FS_CardinalityType, Zenon
  <2>7. M[i] \in Seq(1..i) /\ Len(M[i]) <= Len(short)
    <3>1. Len(before) <= Len(short) /\ (Marked(M, text, short, i) => Len(before) < Len(short))
      BY <2>1 DEF GoodMarks, Marked
    <3>2. CASE Marked(M, text, short, i)
      <4>1. M[i] = Append(before, i)
        BY <2>3, <3>2
      <4> QED BY <1>1, <2>2, <2>4, <3>1, <3>2, <4>1
    <3>3. CASE ~Marked(M, text, short, i)
      <4>1. M[i] = before
        BY <2>3, <3>3
      <4> QED BY <1>1, <2>2, <2>4, <3>1, <4>1
    <3> QED BY <3>2, <3>3
  <2>8. IsFiniteSet(Ens!ToSet(M[i])) /\ Cardinality(Ens!ToSet(M[i])) <= Len(M[i])
    <3>1. IsFiniteSet(Ens!ToSet(before)) /\ Cardinality(Ens!ToSet(before)) <= Len(before)
      BY <2>1 DEF GoodMarks
    <3> DEFINE small(s) == IsFiniteSet(Ens!ToSet(s)) /\ Cardinality(Ens!ToSet(s)) <= Len(s)
    <3>2. small(before)
      BY <3>1
    <3>3. small(Append(before, i))
      <4>1. IsFiniteSet(Ens!ToSet(Append(before, i)))
        BY <2>4, <2>6, Zenon
      <4>2. Cardinality(Ens!ToSet(Append(before, i))) = Cardinality(Ens!ToSet(before)) + 1
        BY <2>4, <2>6, Zenon
      <4> QED BY <2>2, <2>4, <2>6, <3>1, <4>1, <4>2
    <3>4. M[i] = before \/ M[i] = Append(before, i)
      BY <2>3
    <3> HIDE DEF small
    <3>5. small(M[i])
      BY <3>2, <3>3, <3>4
    <3> QED BY <3>5 DEF small
  <2>9. ASSUME NEW j \in 1..i PROVE Marked(M, text, short, j) <=> j \in Ens!ToSet(M[i])
    <3>1. CASE j = i
      BY <2>3, <2>4, <2>5, <3>1
    <3>2. CASE j \in 1..(i - 1)
      <4>1. Marked(M, text, short, j) <=> j \in Ens!ToSet(before)
        BY <2>1, <3>2 DEF GoodMarks
      <4>2. j # i
        BY <1>1, <3>2
      <4> QED BY <2>3, <2>4, <4>1, <4>2
    <3> QED BY <1>1, <3>1, <3>2
  <2> QED BY <2>7, <2>8, <2>9 DEF GoodMarks
<1>4. \A i \in 1..Len(text) : i - 1 \in good => i \in good
    BY <1>3
<1> HIDE DEF good
<1>5. \A i \in 0..Len(text) : i \in good
    BY <1>1, <1>2, <1>4, Upto
<1> QED BY <1>5 DEF good

\* The characters at the marks, from the first i characters.
ShortOf(R, text, flag) ==
    /\ R[0] = <<>>
    /\ \A i \in 1..Len(text) : R[i] = IF i \in flag THEN Append(R[i - 1], text[i]) ELSE R[i - 1]

LEMMA ShortIsFound ==
    ASSUME NEW S, NEW l, l.text \in Seq(S)
    PROVE  \E R : ShortOf(R, l.text, l.flag) /\ Ens!ShortLabel(l) = R[Len(l.text)]
<1> DEFINE text == l.text
           flag == l.flag
           Rec(R) == R = [i \in 0..Len(text) |->
                             IF i = 0 THEN <<>>
                             ELSE IF i \in flag THEN Append(R[i - 1], text[i]) ELSE R[i - 1]]
<1>1. PICK n \in Nat : n = Len(text)
    BY LenProperties
<1>2. PICK V : V = Seq(S)
    OBVIOUS
<1> DEFINE at(i) == [v \in V |-> IF i \in flag THEN Append(v, text[i]) ELSE v]
<1>3. PICK step : step = [i \in 1..n |-> at(i)]
    OBVIOUS
<1>4. /\ <<>> \in V
      /\ step \in [1..n -> [V -> V]]
  <2>1. <<>> \in V
    BY <1>2
  <2>2. \A i \in 1..n : text[i] \in S
    BY <1>1, ElementOfSeq
  <2>3. \A i \in 1..n, v \in V : Append(v, text[i]) \in V
    BY <1>2, <2>2, AppendProperties
  <2>4. \A i \in 1..n : at(i) \in [V -> V]
    BY <2>3
  <2> HIDE DEF at
  <2> QED BY <1>3, <2>1, <2>4
<1> HIDE DEF at, Rec
<1>5. \E f : IsRecursion(f, V, n, <<>>, step)
    BY <1>4, Recursion
<1>6. \E R : Rec(R)
  <2>1. PICK f \in [0..n -> V] : f[0] = <<>> /\ \A i \in 1..n : f[i] = step[i][f[i - 1]]
    BY <1>5 DEF IsRecursion
  <2> DEFINE next(i) == IF i \in flag THEN Append(f[i - 1], text[i]) ELSE f[i - 1]
  <2>2. \A i \in 1..n : f[i] = next(i)
    <3>1. ASSUME NEW i \in 1..n PROVE f[i] = next(i)
      <4>1. f[i - 1] \in V /\ step[i] = at(i) /\ f[i] = step[i][f[i - 1]]
        BY <1>3, <2>1
      <4> QED BY <4>1 DEF at
    <3> QED BY <3>1
  <2> HIDE DEF next
  <2> DEFINE g == [i \in 0..n |-> IF i = 0 THEN <<>> ELSE next(i)]
  <2>3. \A i \in 0..n : g[i] = f[i]
    BY <2>1, <2>2
  <2>4. f = [i \in 0..n |-> f[i]] /\ g = [i \in 0..n |-> g[i]]
    BY <2>1
  <2>5. f = g
    <3> HIDE DEF g
    <3> QED BY <2>3, <2>4
  <2>6. Rec(f)
    BY <1>1, <2>5 DEF Rec, next
  <2> QED BY <2>6
<1>7. \E R : Rec(R) /\ Ens!ShortLabel(l) = R[Len(text)]
    BY <1>6 DEF Rec, Ens!ShortLabel
<1>8. ASSUME NEW R, Rec(R) PROVE ShortOf(R, text, flag)
  <2>1. R[0] = <<>>
    BY <1>1, <1>8 DEF Rec
  <2>2. ASSUME NEW i \in 1..n
        PROVE  R[i] = IF i \in flag THEN Append(R[i - 1], text[i]) ELSE R[i - 1]
    <3>1. i \in 0..n /\ i # 0
      OBVIOUS
    <3> QED BY <1>1, <1>8, <3>1 DEF Rec
  <2> QED BY <1>1, <2>1, <2>2 DEF ShortOf
<1> QED BY <1>7, <1>8

\* What has been read is as long as the marks found, and begins the short label.
LEMMA ShortIsRead ==
    ASSUME NEW S, NEW text \in Seq(S), NEW short \in Seq(S), NEW M, MarksOf(M, text, short),
           NEW R, ShortOf(R, text, Ens!ToSet(M[Len(text)]))
    PROVE  LET r == R[Len(text)]
           IN  /\ r \in Seq(S) /\ Len(r) = Len(M[Len(text)])
               /\ \A k \in 1..Len(r) : r[k] = short[k]
<1> DEFINE Reads(i) == /\ R[i] \in Seq(S) /\ Len(R[i]) = Len(M[i])
                       /\ \A k \in 1..Len(R[i]) : R[i][k] = short[k]
           good == {i \in 0..Len(text) : Reads(i)}
<1>1. Len(text) \in Nat /\ Len(short) \in Nat
    BY LenProperties
<1>2. \A i \in 0..Len(text) : GoodMarks(M, text, short, i)
    BY MarksAreGood
<1>3. 0 \in good
  <2>1. R[0] = <<>> /\ M[0] = <<>>
    BY DEF MarksOf, ShortOf
  <2>2. <<>> \in Seq(S) /\ Len(<<>>) = 0
    BY EmptySeq
  <2>3. R[0] \in Seq(S) /\ Len(R[0]) = 0 /\ Len(M[0]) = 0
    BY <2>1, <2>2
  <2> QED BY <1>1, <2>3
<1>4. ASSUME NEW i \in 1..Len(text), i - 1 \in good PROVE i \in good
  <2>1. Reads(i - 1)
    BY <1>4
  <2> PICK before : before = M[i - 1]
    OBVIOUS
  <2> PICK read : read = R[i - 1]
    OBVIOUS
  <2>2. /\ read \in Seq(S) /\ Len(read) = Len(before)
        /\ \A k \in 1..Len(read) : read[k] = short[k]
    BY <2>1
  <2>3. before \in Seq(1..(i - 1)) /\ i - 1 \in 0..Len(text)
    <3>1. i - 1 \in 0..Len(text)
      BY <1>1
    <3> QED BY <1>2, <3>1 DEF GoodMarks
  <2>4. Marked(M, text, short, i) <=> i \in Ens!ToSet(M[Len(text)])
    <3>1. GoodMarks(M, text, short, Len(text))
      BY <1>1, <1>2
    <3> QED BY <3>1 DEF GoodMarks
  <2>5. CASE Marked(M, text, short, i)
    <3>1. M[i] = Append(before, i) /\ R[i] = Append(read, text[i])
      BY <2>4, <2>5 DEF MarksOf, ShortOf
    <3>2. text[i] \in S /\ text[i] = short[Len(read) + 1] /\ Len(read) \in Nat
      <4>1. text[i] \in S
        BY <1>1, ElementOfSeq
      <4> QED BY <2>2, <2>5, <4>1, LenProperties DEF Marked
    <3>3. Appended(read, text[i], S, S)
      BY <2>2, <3>2, SetOfAppended
    <3>4. i \in 1..i /\ 1..(i - 1) \subseteq 1..i
      BY <1>1
    <3>5. Appended(before, i, 1..(i - 1), 1..i)
      BY <2>3, <3>4, SetOfAppended
    <3>6. R[i] \in Seq(S) /\ Len(R[i]) = Len(read) + 1 /\ Len(M[i]) = Len(before) + 1
      BY <3>1, <3>3, <3>5 DEF Appended
    <3>7. ASSUME NEW k \in 1..(Len(read) + 1) PROVE R[i][k] = short[k]
      <4>1. k \in 1..Len(read) \/ k = Len(read) + 1
        <5> PICK l \in Nat : l = Len(read)
          BY <3>2
        <5>1. k \in 1..(l + 1)
          OBVIOUS
        <5> QED BY <5>1
      <4> QED BY <2>2, <3>1, <3>2, <3>3, <4>1 DEF Appended
    <3> QED BY <2>2, <3>6, <3>7
  <2>6. CASE ~Marked(M, text, short, i)
    <3>1. M[i] = before /\ R[i] = read
      BY <2>4, <2>6 DEF MarksOf, ShortOf
    <3> QED BY <2>2, <3>1
  <2> QED BY <2>5, <2>6
<1>5. \A i \in 1..Len(text) : i - 1 \in good => i \in good
    BY <1>4
<1> HIDE DEF good
<1>6. \A i \in 0..Len(text) : i \in good
    BY <1>1, <1>3, <1>5, Upto
<1>7. Len(text) \in good
    BY <1>1, <1>6
<1> QED BY <1>7 DEF good

\* The cardinality that the instance speaks of is that of the theorems.
LEMMA SameCardinality == \A U : Ens!Cardinality(U) = Cardinality(U)
    BY DEF Cardinality, Ens!Cardinality

LEMMA LabelAccepted ==
    ASSUME ShortLength \in Int, NEW S, NEW text \in Seq(S), NEW short \in Seq(S),
           Ens!SetLabel(text, short).code = 0
    PROVE  LET l == [text |-> text, flag |-> Ens!SetLabel(text, short).flag]
           IN  Ens!ShortLabel(l) = short /\ Ens!Cardinality(l.flag) <= ShortLength
<1> DEFINE l == [text |-> text, flag |-> Ens!SetLabel(text, short).flag]
<1>1. PICK M : MarksOf(M, text, short) /\ Ens!Marks(text, short) = M[Len(text)]
    BY MarksAreFound
<1> PICK marks : marks = M[Len(text)]
    OBVIOUS
<1>2. /\ marks \in Seq(1..Len(text)) /\ Len(marks) <= Len(short)
      /\ IsFiniteSet(Ens!ToSet(marks)) /\ Cardinality(Ens!ToSet(marks)) <= Len(marks)
  <2>1. GoodMarks(M, text, short, Len(text))
    BY <1>1, MarksAreGood, LenProperties
  <2> QED BY <2>1 DEF GoodMarks
<1>3. Len(marks) \in Nat /\ Len(short) \in Nat /\ Cardinality(Ens!ToSet(marks)) \in Nat
    BY <1>2, LenProperties, FS_CardinalityType
<1>4. /\ Len(marks) = Len(short) /\ Len(marks) <= ShortLength
      /\ Ens!SetLabel(text, short) = [code |-> 0, flag |-> Ens!ToSet(marks)]
  <2>1. Ens!SetLabel(text, short) = Ens!SetFIG1ShortLabel(text, short)
    BY DEF Ens!SetLabel
  <2>2. ~(Len(marks) < Len(short)) /\ ~(Len(marks) > ShortLength)
    BY <1>1, <2>1 DEF Ens!SetFIG1ShortLabel
  <2>3. Ens!SetFIG1ShortLabel(text, short) = [code |-> 0, flag |-> Ens!ToSet(marks)]
    BY <1>1, <2>2 DEF Ens!SetFIG1ShortLabel
  <2> QED BY <1>2, <1>3, <2>1, <2>2, <2>3
<1>5. l.text = text /\ l.flag = Ens!ToSet(marks)
    BY <1>4
<1>6. Ens!ShortLabel(l) = short
  <2>1. PICK R : ShortOf(R, text, Ens!ToSet(marks)) /\ Ens!ShortLabel(l) = R[Len(text)]
    <3>1. \E R : ShortOf(R, l.text, l.flag) /\ Ens!ShortLabel(l) = R[Len(l.text)]
      <4> HIDE DEF l
      <4>1. l.text \in Seq(S)
        BY <1>5
      <4> QED BY <4>1, ShortIsFound
    <3> HIDE DEF l
    <3> QED BY <1>5, <3>1
  <2> PICK r : r = R[Len(text)]
    OBVIOUS
  <2>2. r \in Seq(S) /\ Len(r) = Len(marks) /\ \A k \in 1..Len(r) : r[k] = short[k]
    BY <1>1, <2>1, ShortIsRead
  <2>3. r = short
    BY <1>4, <2>2, SeqEqual
  <2> HIDE DEF l
  <2> QED BY <2>1, <2>3
<1>7. Cardinality(l.flag) <= ShortLength
  <2> HIDE DEF l
  <2> QED BY <1>2, <1>3, <1>4, <1>5
<1> QED BY <1>6, <1>7, SameCardinality

\* Of the label asked for and of the one being set: each was accepted, and the flag is that of
\* the newer of the two.
Asked(S) == [text : Seq(S), short : Seq(S)]
Accepted(q) == Ens!SetLabel(q.text, q.short).code = 0
Flag(q) == Ens!SetLabel(q.text, q.short).flag

LabelInvariant(S) ==
    /\ label = [text |-> label.text, flag |-> label.flag]
    /\ asked \in Seq(Asked(S)) /\ setting \in Seq(Asked(S))
    /\ asked # <<>> => label.text = asked[1].text
    /\ asked # <<>> /\ setting = <<>> => Accepted(asked[1]) /\ label.flag = Flag(asked[1])
    /\ setting # <<>> => /\ Accepted(setting[1]) /\ label.flag = Flag(setting[1])
                         /\ pc \in {"running", "failed"}

LEMMA FirstOfTwo ==
    ASSUME NEW A, NEW s \in Seq(A), NEW t \in Seq(A)
    PROVE  /\ s \o t # <<>> <=> s # <<>> \/ t # <<>>
           /\ s # <<>> => (s \o t)[1] = s[1]
           /\ s = <<>> => s \o t = t
OBVIOUS

LEMMA LabelInvariantSuffices ==
    ASSUME ShortLength \in Int, NEW S, LabelInvariant(S)
    PROVE  LabelAsAsked
<1>1. \A q \in Asked(S) : q.text \in Seq(S) /\ q.short \in Seq(S)
    BY DEF Asked
<1>2. ASSUME NEW q \in Asked(S), Accepted(q), label.flag = Flag(q)
      PROVE  /\ Ens!ShortLabel([text |-> q.text, flag |-> label.flag]) = q.short
             /\ Ens!Cardinality(label.flag) <= ShortLength
  <2>1. Ens!ShortLabel([text |-> q.text, flag |-> Flag(q)]) = q.short
        /\ Ens!Cardinality(Flag(q)) <= ShortLength
    BY <1>1, <1>2, LabelAccepted DEF Accepted, Flag
  <2> QED BY <1>2, <2>1
<1>3. \A q \in Seq(Asked(S)) : q # <<>> => q[1] \in Asked(S)
    OBVIOUS
<1>4. ASSUME setting \o asked # <<>>
      PROVE  LET q == (setting \o asked)[1] IN
             q \in Asked(S) /\ Accepted(q) /\ label.flag = Flag(q)
  <2>1. asked \in Seq(Asked(S)) /\ setting \in Seq(Asked(S))
    BY DEF LabelInvariant
  <2>2. CASE setting # <<>>
    BY <1>3, <2>1, <2>2, FirstOfTwo DEF LabelInvariant
  <2>3. CASE setting = <<>>
    BY <1>3, <1>4, <2>1, <2>3, FirstOfTwo DEF LabelInvariant
  <2> QED BY <2>2, <2>3
<1>5. asked # <<>> => label.text = asked[1].text
    BY DEF LabelInvariant
<1> HIDE DEF LabelInvariant
<1> QED BY <1>2, <1>4, <1>5 DEF LabelAsAsked, Ens!LabelAsAsked

(***************************************************************************)
(* The label on the air is the one last accepted, and its flag marks just  *)
(* the short label asked for, whatever the texts; between the two writes   *)
(* of a change the flag is that of the next one (DabLabel::setLabel).      *)
(***************************************************************************)
THEOREM LabelsAreAsAsked ==
    ASSUME ShortLength \in Int, NEW S, Labels \subseteq Seq(S),
           \A g \in Generals : g.text \in Seq(S) /\ g.short \in Seq(S)
    PROVE  EnsembleSpec => []LabelAsAsked
<1>1. EnsembleInit => LabelInvariant(S)
    BY DEF EnsembleInit, Ens!Init, LabelInvariant
<1>2. LabelInvariant(S) /\ [EnsembleNext]_allVars => LabelInvariant(S)'
  <2> SUFFICES ASSUME LabelInvariant(S), [EnsembleNext]_allVars PROVE LabelInvariant(S)'
    OBVIOUS
  <2>1. CASE UNCHANGED <<label, asked, setting>> /\ (pc' = pc \/ setting = <<>> \/ pc' = "failed")
    BY <2>1 DEF LabelInvariant, Accepted, Flag
  <2>2. CASE Ens!ParseGeneral
    <3>1. setting = <<>> /\ setting' = <<>>
      BY <2>2 DEF Ens!ParseGeneral, LabelInvariant
    <3>2. PICK g \in Generals :
              \/ UNCHANGED <<label, asked>>
              \/ /\ Ens!EnsembleLabel(g).code = 0
                 /\ label' = [text |-> g.text, flag |-> Ens!EnsembleLabel(g).flag]
                 /\ asked' = IF g.hasShort THEN <<[text |-> g.text, short |-> g.short]>> ELSE <<>>
      BY <2>2 DEF Ens!ParseGeneral
    <3>3. CASE UNCHANGED <<label, asked>>
      BY <2>1, <3>1, <3>3
    <3>4. CASE ~UNCHANGED <<label, asked>> /\ ~g.hasShort
      BY <3>1, <3>2, <3>4 DEF LabelInvariant
    <3>5. CASE ~UNCHANGED <<label, asked>> /\ g.hasShort
      <4> DEFINE q == [text |-> g.text, short |-> g.short]
      <4>1. Ens!EnsembleLabel(g) = Ens!SetLabel(g.text, g.short)
        BY <3>5 DEF Ens!EnsembleLabel
      <4>2. q \in Asked(S) /\ Accepted(q) /\ q.text = g.text
        BY <3>2, <3>5, <4>1 DEF Asked, Accepted
      <4>3. label' = [text |-> g.text, flag |-> Flag(q)] /\ asked' = <<q>>
        BY <3>2, <3>5, <4>1 DEF Flag
      <4> HIDE DEF q
      <4> QED BY <3>1, <4>2, <4>3 DEF LabelInvariant, Accepted, Flag
    <3> QED BY <3>3, <3>4, <3>5
  <2>3. CASE Ens!RcSetLabel /\ pc = "running" /\ pc' = pc
    <3>1. PICK text \in Labels, short \in Labels :
              \/ UNCHANGED <<label, setting>>
              \/ /\ Ens!SetLabel(text, short).code = 0
                 /\ label' = [label EXCEPT !.flag = Ens!SetLabel(text, short).flag]
                 /\ setting' = <<[text |-> text, short |-> short]>>
      BY <2>3 DEF Ens!RcSetLabel
    <3>2. asked' = asked
      BY <2>3 DEF Ens!RcSetLabel
    <3>3. CASE UNCHANGED <<label, setting>>
      BY <2>1, <2>3, <3>2, <3>3
    <3>4. CASE ~UNCHANGED <<label, setting>>
      <4> DEFINE q == [text |-> text, short |-> short]
      <4>1. q \in Asked(S) /\ Accepted(q)
        BY <3>1, <3>4 DEF Asked, Accepted
      <4>2. label' = [label EXCEPT !.flag = Flag(q)] /\ setting' = <<q>>
        BY <3>1, <3>4 DEF Flag
      <4>3. label'.text = label.text /\ label'.flag = Flag(q)
            /\ label' = [text |-> label'.text, flag |-> label'.flag]
        BY <4>2 DEF LabelInvariant
      <4> HIDE DEF q
      <4> QED BY <2>3, <3>2, <4>1, <4>2, <4>3 DEF LabelInvariant, Accepted, Flag
    <3> QED BY <3>3, <3>4
  <2>4. CASE Ens!SetLabelText
    <3> DEFINE q == setting[1]
    <3>1. /\ setting # <<>> /\ setting' = <<>> /\ asked' = setting
          /\ label' = [label EXCEPT !.text = q.text]
      BY <2>4 DEF Ens!SetLabelText
    <3>2. label' = [text |-> label'.text, flag |-> label.flag] /\ label'.text = q.text
          /\ label'.flag = label.flag
      BY <3>1 DEF LabelInvariant
    <3> QED BY <3>1, <3>2 DEF LabelInvariant, Accepted, Flag
  <2>5. \/ Ens!ParseGeneral \/ Ens!SetLabelText
        \/ Ens!RcSetLabel /\ pc = "running" /\ pc' = pc
        \/ UNCHANGED <<label, asked, setting>> /\ (pc' = pc \/ pc \notin {"running", "failed"} \/ pc' = "failed")
    BY DEF EnsembleNext, NotContents, allVars, ensembleVars, Ens!Next, Ens!ParseService,
           Ens!ParseSubchannel, Ens!ParseComponent, Ens!EndOfSection, Ens!ParseLinking,
           Ens!PrepareSubchannels, Ens!PrepareServicesComponents, Ens!PrepareDataInputs,
           Ens!LastChecks, Ens!RemoteControl, Ens!ReloadLinking, Ens!RcSetLocalTimeOffset,
           Ens!WriteFourthFib, Ens!running
  <2>6. pc \notin {"running", "failed"} => setting = <<>>
    BY DEF LabelInvariant
  <2> QED BY <2>1, <2>2, <2>3, <2>4, <2>5, <2>6
<1>3. LabelInvariant(S) => LabelAsAsked
    BY LabelInvariantSuffices
<1> QED BY <1>1, <1>2, <1>3, PTL DEF EnsembleSpec

-----------------------------------------------------------------------------
(***************************************************************************)
(* The steps of the parser, of prepare and of the remote control.          *)
(***************************************************************************)
LEMMA EnsembleSteps ==
    ASSUME [EnsembleNext]_allVars
    PROVE  \/ Ens!ParseGeneral \/ Ens!ParseService \/ Ens!ParseSubchannel \/ Ens!ParseComponent
           \/ Ens!EndOfSection \/ Ens!ParseLinking \/ Ens!PrepareSubchannels
           \/ Ens!PrepareServicesComponents \/ Ens!PrepareDataInputs \/ Ens!LastChecks
           \/ Ens!WriteFourthFib \/ Ens!SetLabelText
           \/ pc = "running" /\ pc' = pc /\ Ens!ReloadLinking
           \/ pc = "running" /\ pc' = pc /\ Ens!RcSetLabel
           \/ pc = "running" /\ pc' = pc /\ Ens!RcSetLocalTimeOffset
           \/ UNCHANGED ensembleVars
<1>1. Ens!Next \/ UNCHANGED ensembleVars
    BY DEF EnsembleNext, NotContents, allVars
<1>2. CASE Ens!RemoteControl
    BY <1>2 DEF Ens!RemoteControl
<1> QED BY <1>1, <1>2 DEF Ens!Next

Parsed == {"prepare_subchannels", "prepare_components", "prepare_inputs", "last_checks", "running"}

LinkingInvariant ==
    /\ pc \in Parsed => /\ linking = Ens!ParsedLinking(loaded)
                        /\ ~Ens!LinksThrow(loaded) /\ ~Ens!FreqsThrow(loaded)
    /\ pc = "running" => Ens!ValidateLinkageSets(linking.links)

(***************************************************************************)
(* The linking information is that of one file at any time, and checked    *)
(* against the services (DabMultiplexer::reload_linking).                  *)
(***************************************************************************)
THEOREM LinkingIsAlwaysOfOneFile == EnsembleSpec => []LinkingIsOfOneFile
<1>1. EnsembleInit => LinkingInvariant
    BY DEF EnsembleInit, Ens!Init, LinkingInvariant, Parsed
<1>2. LinkingInvariant /\ [EnsembleNext]_allVars => LinkingInvariant'
  <2> SUFFICES ASSUME LinkingInvariant, [EnsembleNext]_allVars PROVE LinkingInvariant'
    OBVIOUS
  <2> DEFINE OK(f) == ~Ens!LinksThrow(f) /\ ~Ens!FreqsThrow(f)
             Valid(links) == Ens!ValidateLinkageSets(links)
  <2>1. \A f : Ens!ParsedLinking(f).links = f.links
    BY DEF Ens!ParsedLinking
  <2>2. /\ pc \in Parsed => linking = Ens!ParsedLinking(loaded) /\ OK(loaded)
        /\ pc = "running" => Valid(linking.links)
    BY DEF LinkingInvariant
  <2>3. ASSUME /\ pc' \in Parsed => linking' = Ens!ParsedLinking(loaded') /\ OK(loaded')
               /\ pc' = "running" => services' = services /\ Valid(linking'.links)
        PROVE  LinkingInvariant'
    <3>1. pc' = "running" => (\A links : Valid(links)' <=> Valid(links))
      <4>1. ASSUME services' = services, NEW links PROVE Valid(links)' <=> Valid(links)
        BY <4>1, Zenon DEF Ens!ValidateLinkageSets, Ens!HasUid
      <4> HIDE DEF Valid
      <4> QED BY <2>3, <4>1
    <3>2. \A f : OK(f)' <=> OK(f)
      BY DEF Ens!LinksThrow, Ens!FreqsThrow, Ens!LinkageOK, Ens!FrequencyOK, Ens!LinkOK
    <3> QED BY <2>3, <3>1, <3>2 DEF LinkingInvariant, Ens!ParsedLinking
  <2> HIDE DEF OK, Valid
  <2>4. CASE UNCHANGED <<linking, loaded, services, pc>>
    BY <2>2, <2>3, <2>4
  <2>5. CASE pc' \notin Parsed
    BY <2>3, <2>5 DEF Parsed
  <2>6. CASE UNCHANGED <<linking, loaded>> /\ pc \in Parsed /\ pc' # "running"
    BY <2>2, <2>3, <2>6
  <2>7. CASE Ens!ParseLinking
    BY <2>3, <2>5, <2>7 DEF Ens!ParseLinking, Parsed, OK
  <2>8. CASE Ens!LastChecks
    BY <2>2, <2>3, <2>5, <2>8 DEF Ens!LastChecks, Parsed, Valid, Ens!parsed, Ens!running
  <2>9. CASE pc = "running" /\ pc' = pc /\ Ens!ReloadLinking
    <3>1. UNCHANGED services /\ (UNCHANGED <<linking, loaded>>
             \/ \E f \in LinkingFiles : /\ OK(f) /\ Valid(f.links)
                                        /\ linking' = Ens!ParsedLinking(f) /\ loaded' = f)
      BY <2>9 DEF Ens!ReloadLinking, Ens!Reloadable, Ens!parsed, OK, Valid
    <3> QED BY <2>1, <2>2, <2>3, <2>4, <2>9, <3>1 DEF Parsed
  <2>10. CASE \/ Ens!ParseGeneral \/ Ens!ParseService \/ Ens!ParseSubchannel \/ Ens!ParseComponent
              \/ Ens!EndOfSection
    BY <2>5, <2>10 DEF Ens!ParseGeneral, Ens!ParseService, Ens!ParseSubchannel, Ens!ParseComponent,
                       Ens!EndOfSection, Parsed
  <2>11. CASE \/ Ens!PrepareSubchannels \/ Ens!PrepareServicesComponents \/ Ens!PrepareDataInputs
    BY <2>5, <2>6, <2>11 DEF Ens!PrepareSubchannels, Ens!PrepareServicesComponents,
                             Ens!PrepareDataInputs, Ens!running, Parsed
  <2>12. CASE \/ pc = "running" /\ pc' = pc /\ Ens!RcSetLabel
              \/ pc = "running" /\ pc' = pc /\ Ens!RcSetLocalTimeOffset
              \/ UNCHANGED ensembleVars
    BY <2>4, <2>12 DEF Ens!RcSetLabel, Ens!RcSetLocalTimeOffset, Ens!parsed, ensembleVars
  <2>13. CASE Ens!WriteFourthFib \/ Ens!SetLabelText
    BY <2>4, <2>5, <2>13 DEF Ens!WriteFourthFib, Ens!SetLabelText, Ens!parsed, Parsed
  <2> QED BY <2>7, <2>8, <2>9, <2>10, <2>11, <2>12, <2>13, EnsembleSteps
<1>3. LinkingInvariant => LinkingIsOfOneFile
    BY DEF LinkingInvariant, LinkingIsOfOneFile, Ens!LinkingIsOfOneFile, Parsed
<1> QED BY <1>1, <1>2, <1>3, PTL DEF EnsembleSpec

-----------------------------------------------------------------------------
(***************************************************************************)
(* Sequences of whatever there may be.                                     *)
(***************************************************************************)
IsSeq(s) == \E X : s \in Seq(X)

IsAppended(s, t, e) ==
    /\ IsSeq(t) /\ Len(t) = Len(s) + 1 /\ Len(s) \in Nat
    /\ DOMAIN s = 1..Len(s) /\ DOMAIN t = 1..Len(t)
    /\ \A k \in 1..Len(s) : t[k] = s[k]
    /\ t[Len(s) + 1] = e

LEMMA Appending ==
    ASSUME NEW s, IsSeq(s), NEW e PROVE IsAppended(s, Append(s, e), e)
<1>1. PICK X : s \in Seq(X)
    BY DEF IsSeq
<1> PICK U : U = X \union {e}
    OBVIOUS
<1>2. e \in U /\ X \subseteq U
    OBVIOUS
<1>3. Appended(s, e, X, U)
    BY <1>1, <1>2, SetOfAppended
<1>4. /\ Append(s, e) \in Seq(U) /\ Len(Append(s, e)) = Len(s) + 1
      /\ \A k \in 1..Len(s) : Append(s, e)[k] = s[k]
      /\ Append(s, e)[Len(s) + 1] = e
    BY <1>3 DEF Appended
<1>5. Len(s) \in Nat /\ DOMAIN s = 1..Len(s)
    BY <1>1, LenProperties
<1>6. DOMAIN Append(s, e) = 1..Len(Append(s, e))
    BY <1>4, LenProperties
<1>7. IsSeq(Append(s, e))
    BY <1>4 DEF IsSeq
<1> QED BY <1>4, <1>5, <1>6, <1>7 DEF IsAppended

LEMMA SeqFacts ==
    ASSUME NEW s, IsSeq(s)
    PROVE  Len(s) \in Nat /\ DOMAIN s = 1..Len(s)
BY LenProperties DEF IsSeq

(***************************************************************************)
(* The subchannels with their start addresses, one after the other.        *)
(***************************************************************************)
PlacedOne(P, i) == [Ens!Adjusted(subchannels[i]) EXCEPT !.startAddress = P[i - 1].next]
PlacedNext(P, i) ==
    [list |-> Append(P[i - 1].list, PlacedOne(P, i)),
     next |-> PlacedOne(P, i).startAddress + Ens!GetSizeCu(PlacedOne(P, i))]
IsPlaced(P, n) ==
    P = [i \in 0..n |-> IF i = 0 THEN [list |-> <<>>, next |-> 0] ELSE PlacedNext(P, i)]

LEMMA PlacingEnds ==
    ASSUME Len(subchannels) \in Nat
    PROVE  \E P : IsPlaced(P, Len(subchannels)) /\ Ens!Placed = P[Len(subchannels)].list
<1> PICK n \in Nat : n = Len(subchannels)
    OBVIOUS
<1> DEFINE S == {m \in 0..n : \E P : IsPlaced(P, m)}
<1>1. 0 \in S
  <2> DEFINE P == [i \in 0..0 |-> [list |-> <<>>, next |-> 0]]
  <2>1. P = [i \in 0..0 |-> IF i = 0 THEN [list |-> <<>>, next |-> 0] ELSE PlacedNext(P, i)]
    <3> HIDE DEF P
    <3>1. \A i \in 0..0 : i = 0
      OBVIOUS
    <3> QED BY <3>1 DEF P
  <2> HIDE DEF P
  <2> QED BY <2>1 DEF IsPlaced
<1>2. ASSUME NEW m \in 1..n, m - 1 \in S PROVE m \in S
  <2>1. PICK P : IsPlaced(P, m - 1)
    BY <1>2
  <2> PICK last : last = PlacedNext(P, m)
    OBVIOUS
  <2> DEFINE Q == [i \in 0..m |-> IF i = m THEN last ELSE P[i]]
  <2>2. \A i \in 0..m : Q[i] = IF i = m THEN last ELSE P[i]
    OBVIOUS
  <2>3. \A i \in 1..m : Q[i - 1] = P[i - 1]
    BY <2>2
  <2>4. \A i \in 1..m : PlacedNext(Q, i) = PlacedNext(P, i)
    <3> HIDE DEF Q
    <3> QED BY <2>3 DEF PlacedNext, PlacedOne
  <2> DEFINE R == [i \in 0..m |-> IF i = 0 THEN [list |-> <<>>, next |-> 0] ELSE PlacedNext(Q, i)]
  <2>5. \A i \in 0..m : Q[i] = R[i]
    <3>1. ASSUME NEW i \in 0..m PROVE Q[i] = R[i]
      <4> HIDE DEF Q
      <4>1. CASE i = m
        <5>1. R[i] = PlacedNext(Q, i)
          BY <4>1
        <5> QED BY <2>2, <2>4, <4>1, <5>1
      <4>2. CASE i # m
        <5>1. i \in 0..(m - 1) /\ Q[i] = P[i]
          BY <2>2, <4>2
        <5>2. P[i] = IF i = 0 THEN [list |-> <<>>, next |-> 0] ELSE PlacedNext(P, i)
          BY <2>1, <5>1 DEF IsPlaced
        <5>3. i # 0 => PlacedNext(Q, i) = PlacedNext(P, i)
          BY <2>4
        <5> QED BY <5>1, <5>2, <5>3
      <4> QED BY <4>1, <4>2
    <3> QED BY <3>1
  <2>6. Q = [i \in 0..m |-> Q[i]] /\ R = [i \in 0..m |-> R[i]]
    OBVIOUS
  <2>7. Q = R
    <3> HIDE DEF Q, R
    <3> QED BY <2>5, <2>6
  <2>8. IsPlaced(Q, m)
    <3> HIDE DEF Q
    <3> QED BY <2>7 DEF IsPlaced
  <2> HIDE DEF Q, R
  <2> QED BY <2>8
<1>3. \A m \in 1..n : m - 1 \in S => m \in S
    BY <1>2
<1>4. n \in S
  <2> HIDE DEF S
  <2>1. \A m \in 0..n : m \in S
    BY <1>1, <1>3, Upto
  <2> QED BY <2>1
<1>5. \E P : IsPlaced(P, n)
    BY <1>4
<1> QED BY <1>5 DEF IsPlaced, PlacedNext, PlacedOne, Ens!Placed

LEMMA PlacedInOrder ==
    ASSUME NEW n \in Nat, NEW P, IsPlaced(P, n)
    PROVE  \A m \in 0..n : /\ IsSeq(P[m].list) /\ Len(P[m].list) = m
                           /\ \A i \in 1..m : P[m].list[i] = PlacedOne(P, i)
<1> DEFINE placed(m) == /\ IsSeq(P[m].list) /\ Len(P[m].list) = m
                      /\ \A i \in 1..m : P[m].list[i] = PlacedOne(P, i)
           S == {m \in 0..n : placed(m)}
<1>1. 0 \in S
  <2>1. P[0] = [list |-> <<>>, next |-> 0]
    BY DEF IsPlaced
  <2>2. P[0].list = <<>>
    BY <2>1
  <2>3. Len(P[0].list) = 0 /\ IsSeq(P[0].list)
    BY <2>2, EmptySeq DEF IsSeq
  <2> QED BY <2>3
<1>2. ASSUME NEW m \in 1..n, m - 1 \in S PROVE m \in S
  <2>1. placed(m - 1)
    BY <1>2
  <2> PICK before : before = P[m - 1].list
    OBVIOUS
  <2>2. P[m] = PlacedNext(P, m)
    BY DEF IsPlaced
  <2>3. P[m].list = Append(before, PlacedOne(P, m))
    BY <2>2 DEF PlacedNext
  <2>4. IsSeq(before) /\ Len(before) = m - 1 /\ \A i \in 1..(m - 1) : before[i] = PlacedOne(P, i)
    BY <2>1
  <2>5. IsAppended(before, P[m].list, PlacedOne(P, m))
    BY <2>3, <2>4, Appending
  <2> PICK after : after = P[m].list
    OBVIOUS
  <2>6. /\ IsSeq(after) /\ Len(after) = m
        /\ \A i \in 1..(m - 1) : after[i] = before[i]
        /\ after[m] = PlacedOne(P, m)
    BY <2>4, <2>5 DEF IsAppended
  <2>7. \A i \in 1..m : after[i] = PlacedOne(P, i)
    BY <2>4, <2>6
  <2> QED BY <2>6, <2>7
<1>3. \A m \in 1..n : m - 1 \in S => m \in S
    BY <1>2
<1> HIDE DEF S
<1>4. \A m \in 0..n : m \in S
    BY <1>1, <1>3, Upto
<1> QED BY <1>4 DEF S

-----------------------------------------------------------------------------
(***************************************************************************)
(* References between the elements, by identifier.                         *)
(***************************************************************************)
IsSubchannel(s) ==
    s = [uid |-> s.uid, id |-> s.id, type |-> s.type, proto |-> s.proto, bitrate |-> s.bitrate,
         form |-> s.form, eepProfile |-> s.eepProfile, tableIndex |-> s.tableIndex,
         level |-> s.level, startAddress |-> s.startAddress]
IsComponent(c) ==
    c = [serviceId |-> c.serviceId, subchId |-> c.subchId, SCIdS |-> c.SCIdS, type |-> c.type]

Shapes ==
    /\ IsSeq(services) /\ IsSeq(subchannels) /\ IsSeq(components)
    /\ \A i \in DOMAIN subchannels : IsSubchannel(subchannels[i])
    /\ \A i \in DOMAIN components : IsComponent(components[i])

IdsDiffer(xs) == \A i, j \in DOMAIN xs : xs[i].id = xs[j].id => i = j

HasId(xs, id) == \E j \in DOMAIN xs : xs[j].id = id
AllRefer ==
    \A i \in DOMAIN components :
        HasId(services, components[i].serviceId) /\ HasId(subchannels, components[i].subchId)

Own(xs, id) == {i \in DOMAIN xs : xs[i].serviceId = id}
Numbered(xs, id) ==
    /\ IsFiniteSet(Own(xs, id))
    /\ {xs[i].SCIdS : i \in Own(xs, id)} = 0..(Cardinality(Own(xs, id)) - 1)

ReferencesInvariant ==
    /\ Shapes
    /\ IdsDiffer(services)
    /\ AllRefer
    /\ \A id : Numbered(components, id)
    /\ pc \in Parsed \ {"prepare_subchannels"} => IdsDiffer(subchannels)
    /\ pc \in {"prepare_inputs", "last_checks", "running"} =>
          \A i \in DOMAIN services : Own(components, services[i].id) # {}

LEMMA ServiceKeeps ==
    ASSUME ReferencesInvariant, Ens!ParseService PROVE ReferencesInvariant'
<1>1. UNCHANGED <<subchannels, components>> /\ pc' \notin Parsed
    BY DEF Ens!ParseService, Parsed
<1>2. CASE UNCHANGED services
    BY <1>1, <1>2 DEF ReferencesInvariant, Shapes, AllRefer, Parsed
<1>3. ASSUME NEW e \in ServiceEntries, Ens!ServiceOK(e),
             services' = Append(services, Ens!NewService(e))
      PROVE  ReferencesInvariant'
  <2> PICK new : new = Ens!NewService(e)
    OBVIOUS
  <2>1. IsAppended(services, services', new)
    BY <1>3, Appending DEF ReferencesInvariant, Shapes
  <2>2. \A i \in DOMAIN services : services[i].id # new.id
    BY <1>3 DEF Ens!ServiceOK, Ens!NewService, Ens!ToSet
  <2>3. IdsDiffer(services')
    <3>1. \A i \in DOMAIN services' : i \in DOMAIN services \/ i = Len(services) + 1
      BY <2>1 DEF IsAppended
    <3> QED BY <2>1, <2>2, <3>1 DEF IsAppended, IdsDiffer, ReferencesInvariant
  <2>4. \A id : HasId(services, id) => HasId(services', id)
    BY <2>1 DEF IsAppended, HasId
  <2>5. IsSeq(services')
    BY <2>1 DEF IsAppended
  <2> QED BY <1>1, <2>3, <2>4, <2>5 DEF ReferencesInvariant, Shapes, AllRefer, Parsed
<1>4. \/ UNCHANGED services
      \/ \E e \in ServiceEntries : Ens!ServiceOK(e) /\ services' = Append(services, Ens!NewService(e))
    BY DEF Ens!ParseService
<1> QED BY <1>2, <1>3, <1>4

LEMMA SubchannelKeeps ==
    ASSUME ReferencesInvariant, Ens!ParseSubchannel PROVE ReferencesInvariant'
<1>1. UNCHANGED <<services, components>> /\ pc' \notin Parsed
    BY DEF Ens!ParseSubchannel, Parsed
<1>2. CASE UNCHANGED subchannels
    BY <1>1, <1>2 DEF ReferencesInvariant, Shapes, AllRefer, Parsed
<1>3. ASSUME NEW e \in SubchannelEntries, subchannels' = Append(subchannels, Ens!NewSubchannel(e))
      PROVE  ReferencesInvariant'
  <2> PICK new : new = Ens!NewSubchannel(e)
    OBVIOUS
  <2>1. IsAppended(subchannels, subchannels', new)
    BY <1>3, Appending DEF ReferencesInvariant, Shapes
  <2>2. IsSubchannel(new)
    BY DEF IsSubchannel, Ens!NewSubchannel
  <2>3. \A i \in DOMAIN subchannels' : IsSubchannel(subchannels'[i])
    <3>1. \A i \in DOMAIN subchannels' : i \in DOMAIN subchannels \/ i = Len(subchannels) + 1
      BY <2>1 DEF IsAppended
    <3>2. \A i \in DOMAIN subchannels : subchannels'[i] = subchannels[i] /\ IsSubchannel(subchannels[i])
      BY <2>1 DEF IsAppended, ReferencesInvariant, Shapes
    <3>3. subchannels'[Len(subchannels) + 1] = new
      BY <2>1 DEF IsAppended
    <3> QED BY <2>2, <3>1, <3>2, <3>3
  <2>4. \A id : HasId(subchannels, id) => HasId(subchannels', id)
    BY <2>1 DEF IsAppended, HasId
  <2>5. IsSeq(subchannels')
    BY <2>1 DEF IsAppended
  <2> QED BY <1>1, <2>3, <2>4, <2>5 DEF ReferencesInvariant, Shapes, AllRefer, Parsed
<1>4. \/ UNCHANGED subchannels
      \/ \E e \in SubchannelEntries : subchannels' = Append(subchannels, Ens!NewSubchannel(e))
    BY DEF Ens!ParseSubchannel
<1> QED BY <1>2, <1>3, <1>4

LEMMA NumberedOn ==
    ASSUME NEW s, IsSeq(s), NEW e, NEW t, IsAppended(s, t, e), NEW id, Numbered(s, id),
           e.serviceId = id => e.SCIdS = Cardinality(Own(s, id))
    PROVE  Numbered(t, id)
<1> PICK n \in Nat : n = Len(s)
    BY SeqFacts
<1>1. /\ DOMAIN s = 1..n /\ DOMAIN t = 1..(n + 1)
      /\ \A i \in 1..n : t[i] = s[i]
      /\ t[n + 1] = e
    BY DEF IsAppended
<1> DEFINE numbers(x) == {x[i].SCIdS : i \in Own(x, id)}
<1> PICK card \in Nat : card = Cardinality(Own(s, id))
    BY FS_CardinalityType DEF Numbered
<1>2. IsFiniteSet(Own(s, id)) /\ numbers(s) = 0..(card - 1)
    BY DEF Numbered
<1>3. CASE e.serviceId # id
  <2>1. Own(t, id) = Own(s, id)
    BY <1>1, <1>3 DEF Own
  <2>2. \A i \in Own(s, id) : t[i] = s[i]
    BY <1>1 DEF Own
  <2>3. numbers(t) = numbers(s)
    BY <2>1, <2>2
  <2> HIDE DEF numbers
  <2> QED BY <1>2, <2>1, <2>3 DEF Numbered, numbers
<1>4. CASE e.serviceId = id
  <2>1. Own(t, id) = Own(s, id) \union {n + 1} /\ n + 1 \notin Own(s, id)
    <3>1. \A i \in 1..(n + 1) : i \in 1..n \/ i = n + 1
      OBVIOUS
    <3>2. n + 1 \notin 1..n /\ 1..n \subseteq 1..(n + 1) /\ n + 1 \in 1..(n + 1)
      OBVIOUS
    <3> QED BY <1>1, <1>4, <3>1, <3>2 DEF Own
  <2> PICK own : own = Own(s, id)
    OBVIOUS
  <2>2. IsFiniteSet(own \union {n + 1}) /\ Cardinality(own \union {n + 1}) = card + 1
    BY <1>2, <2>1, FS_AddElement
  <2>3. \A i \in own : t[i] = s[i]
    BY <1>1 DEF Own
  <2>4. numbers(t) = numbers(s) \union {card}
    BY <1>1, <1>4, <2>1, <2>3
  <2>5. 0..(card - 1) \union {card} = 0..((card + 1) - 1)
    OBVIOUS
  <2> HIDE DEF numbers
  <2>6. numbers(t) = 0..(Cardinality(Own(t, id)) - 1)
    BY <1>2, <2>1, <2>2, <2>4, <2>5
  <2> QED BY <2>1, <2>2, <2>6 DEF Numbered, numbers
<1> QED BY <1>3, <1>4

LEMMA ComponentKeeps ==
    ASSUME ReferencesInvariant, Ens!ParseComponent PROVE ReferencesInvariant'
<1>1. UNCHANGED <<services, subchannels>> /\ pc' \notin Parsed
    BY DEF Ens!ParseComponent, Parsed
<1>2. CASE UNCHANGED components
    BY <1>1, <1>2 DEF ReferencesInvariant, Shapes, AllRefer, Parsed
<1>3. ASSUME NEW e \in ComponentEntries, Ens!ComponentOK(e),
             components' = Append(components, Ens!NewComponent(e))
      PROVE  ReferencesInvariant'
  <2> PICK new : new = Ens!NewComponent(e)
    OBVIOUS
  <2>1. IsAppended(components, components', new)
    BY <1>3, Appending DEF ReferencesInvariant, Shapes
  <2>2. IsComponent(new)
    BY DEF IsComponent, Ens!NewComponent
  <2>3. \A i \in DOMAIN components' : i \in DOMAIN components \/ i = Len(components) + 1
    BY <2>1 DEF IsAppended
  <2>4. \A i \in DOMAIN components : components'[i] = components[i]
    BY <2>1 DEF IsAppended
  <2>5. components'[Len(components) + 1] = new /\ IsSeq(components')
    BY <2>1 DEF IsAppended
  <2>6. \A i \in DOMAIN components' : IsComponent(components'[i])
    BY <2>2, <2>3, <2>4, <2>5 DEF ReferencesInvariant, Shapes
  <2>7. HasId(services, new.serviceId) /\ HasId(subchannels, new.subchId)
    BY <1>3 DEF HasId, Ens!ComponentOK, Ens!HasUid, Ens!NewComponent, Ens!ByUid
  <2>8. AllRefer'
    BY <1>1, <2>3, <2>4, <2>5, <2>7 DEF ReferencesInvariant, AllRefer
  <2>9. new.SCIdS = Cardinality(Own(components, new.serviceId))
    BY SameCardinality DEF Ens!NewComponent, Ens!NbComponent, Own
  <2>10. ASSUME NEW id PROVE Numbered(components', id)
    <3>1. IsSeq(components) /\ Numbered(components, id)
      BY DEF ReferencesInvariant, Shapes
    <3> QED BY <2>1, <2>9, <3>1, NumberedOn
  <2> QED BY <1>1, <2>5, <2>6, <2>8, <2>10 DEF ReferencesInvariant, Shapes, Parsed
<1>4. \/ UNCHANGED components
      \/ \E e \in ComponentEntries : Ens!ComponentOK(e) /\ components' = Append(components, Ens!NewComponent(e))
    BY DEF Ens!ParseComponent
<1> QED BY <1>2, <1>3, <1>4

LEMMA PrepareSubchannelsKeeps ==
    ASSUME ReferencesInvariant, Ens!PrepareSubchannels PROVE ReferencesInvariant'
<1>1. UNCHANGED <<services, subchannels, components>>
    BY DEF Ens!PrepareSubchannels, Ens!parsed
<1>2. /\ pc' \notin {"prepare_inputs", "last_checks", "running"}
      /\ pc' \in Parsed => IdsDiffer(subchannels)
    BY DEF Ens!PrepareSubchannels, Parsed, IdsDiffer
<1> QED BY <1>1, <1>2 DEF ReferencesInvariant, Shapes, AllRefer

LEMMA PrepareComponentsKeeps ==
    ASSUME ReferencesInvariant, Ens!PrepareServicesComponents PROVE ReferencesInvariant'
<1>1. UNCHANGED <<services, subchannels>> /\ pc \in Parsed \ {"prepare_subchannels"}
    BY DEF Ens!PrepareServicesComponents, Parsed
<1>2. CASE UNCHANGED components /\ pc' = "failed"
    BY <1>1, <1>2 DEF ReferencesInvariant, Shapes, AllRefer, Parsed
<1>3. CASE /\ \A s \in Ens!ToSet(services) : Ens!NbComponent(s.id) > 0
           /\ components' = [i \in DOMAIN components |->
                               [components[i] EXCEPT !.type = Ens!AdjustedType(components[i])]]
           /\ pc' = "prepare_inputs"
  <2>1. DOMAIN components' = DOMAIN components
    BY <1>3
  <2>2. \A i \in DOMAIN components :
           /\ IsComponent(components'[i])
           /\ components'[i].serviceId = components[i].serviceId
           /\ components'[i].subchId = components[i].subchId
           /\ components'[i].SCIdS = components[i].SCIdS
    <3>1. ASSUME NEW i \in DOMAIN components
          PROVE  /\ IsComponent(components'[i])
                 /\ components'[i].serviceId = components[i].serviceId
                 /\ components'[i].subchId = components[i].subchId
                 /\ components'[i].SCIdS = components[i].SCIdS
      <4> PICK c : c = components[i]
        OBVIOUS
      <4>1. c = [serviceId |-> c.serviceId, subchId |-> c.subchId, SCIdS |-> c.SCIdS, type |-> c.type]
        BY DEF ReferencesInvariant, Shapes, IsComponent
      <4> PICK type : type = Ens!AdjustedType(c)
        OBVIOUS
      <4>2. components'[i] = [c EXCEPT !.type = type]
        BY <1>3
      <4>3. [c EXCEPT !.type = type] =
              [serviceId |-> c.serviceId, subchId |-> c.subchId, SCIdS |-> c.SCIdS, type |-> type]
        BY <4>1
      <4> QED BY <4>2, <4>3 DEF IsComponent
    <3> QED BY <3>1
  <2>3. IsSeq(components')
    <3> PICK n \in Nat : n = Len(components)
      BY SeqFacts DEF ReferencesInvariant, Shapes
    <3>1. DOMAIN components = 1..n
      BY SeqFacts DEF ReferencesInvariant, Shapes
    <3> PICK X : X = {components'[i] : i \in 1..n}
      OBVIOUS
    <3>2. components' \in [1..n -> X]
      BY <1>3, <3>1
    <3>3. components' \in Seq(X)
      BY <3>2, SeqDef
    <3> QED BY <3>3 DEF IsSeq
  <2>4. AllRefer'
    BY <1>1, <2>1, <2>2 DEF ReferencesInvariant, AllRefer
  <2>5. \A id : Own(components', id) = Own(components, id)
    BY <2>1, <2>2 DEF Own
  <2>6. ASSUME NEW id PROVE Numbered(components', id)
    <3>1. Numbered(components, id)
      BY DEF ReferencesInvariant
    <3>2. \A i \in Own(components, id) : components'[i].SCIdS = components[i].SCIdS
      BY <2>2 DEF Own
    <3>3. {components'[i].SCIdS : i \in Own(components, id)} = {components[i].SCIdS : i \in Own(components, id)}
      BY <3>2
    <3> QED BY <2>5, <3>1, <3>3 DEF Numbered
  <2>7. \A i \in DOMAIN services : Own(components, services[i].id) # {}
    <3>1. ASSUME NEW i \in DOMAIN services, Own(components, services[i].id) = {} PROVE FALSE
      <4>1. Ens!NbComponent(services[i].id) > 0
        BY <1>3 DEF Ens!ToSet
      <4>2. Ens!NbComponent(services[i].id) = Cardinality(Own(components, services[i].id))
        BY SameCardinality DEF Ens!NbComponent, Own
      <4> QED BY <3>1, <4>1, <4>2, FS_EmptySet
    <3> QED BY <3>1
  <2>8. Shapes'
    BY <1>1, <2>1, <2>2, <2>3 DEF ReferencesInvariant, Shapes
  <2>9. /\ IdsDiffer(services') /\ IdsDiffer(subchannels')
        /\ \A i \in DOMAIN services' : Own(components', services'[i].id) # {}
    BY <1>1, <2>5, <2>7 DEF ReferencesInvariant
  <2> QED BY <2>4, <2>6, <2>8, <2>9 DEF ReferencesInvariant
<1> QED BY <1>2, <1>3 DEF Ens!PrepareServicesComponents

\* Placing the subchannels leaves them what they are, but for what it sets.
SameButPlaced(t, s) ==
    IsSubchannel(t) /\ t.uid = s.uid /\ t.id = s.id /\ t.type = s.type /\ t.proto = s.proto
    /\ t.eepProfile = s.eepProfile /\ t.level = s.level
    /\ t.bitrate = Ens!SetBitrate(s)
    /\ t.form = (IF s.form = "UEP" /\ ~Ens!HasUepProfile(Ens!SetBitrate(s), s.level)
                 THEN "EEP" ELSE s.form)

LEMMA PlacedKeeps ==
    ASSUME Shapes
    PROVE  /\ IsSeq(Ens!Placed) /\ DOMAIN Ens!Placed = DOMAIN subchannels
           /\ \A i \in DOMAIN subchannels : SameButPlaced(Ens!Placed[i], subchannels[i])
<1> PICK n \in Nat : n = Len(subchannels)
    BY SeqFacts DEF Shapes
<1>1. DOMAIN subchannels = 1..n
    BY SeqFacts DEF Shapes
<1>2. PICK P : IsPlaced(P, n) /\ Ens!Placed = P[n].list
    BY PlacingEnds
<1>3. /\ IsSeq(Ens!Placed) /\ Len(Ens!Placed) = n
      /\ \A i \in 1..n : Ens!Placed[i] = PlacedOne(P, i)
    BY <1>2, PlacedInOrder
<1>4. ASSUME NEW i \in 1..n PROVE SameButPlaced(PlacedOne(P, i), subchannels[i])
  <2> PICK s : s = subchannels[i]
    OBVIOUS
  <2>1. s = [uid |-> s.uid, id |-> s.id, type |-> s.type, proto |-> s.proto, bitrate |-> s.bitrate,
             form |-> s.form, eepProfile |-> s.eepProfile, tableIndex |-> s.tableIndex,
             level |-> s.level, startAddress |-> s.startAddress]
    BY <1>1 DEF Shapes, IsSubchannel
  <2> PICK bitrate : bitrate = Ens!SetBitrate(s)
    OBVIOUS
  <2> PICK form : form = IF s.form = "UEP" /\ ~Ens!HasUepProfile(bitrate, s.level)
                         THEN "EEP" ELSE s.form
    OBVIOUS
  <2> PICK start : start = P[i - 1].next
    OBVIOUS
  <2>2. PlacedOne(P, i) = [[s EXCEPT !.bitrate = bitrate, !.form = form] EXCEPT !.startAddress = start]
    BY DEF PlacedOne, Ens!Adjusted
  <2>3. PlacedOne(P, i) =
            [uid |-> s.uid, id |-> s.id, type |-> s.type, proto |-> s.proto, bitrate |-> bitrate,
             form |-> form, eepProfile |-> s.eepProfile, tableIndex |-> s.tableIndex,
             level |-> s.level, startAddress |-> start]
    BY <2>1, <2>2
  <2> QED BY <2>3 DEF SameButPlaced, IsSubchannel
<1> QED BY <1>1, <1>3, <1>4, SeqFacts

LEMMA PrepareInputsKeeps ==
    ASSUME ReferencesInvariant, Ens!PrepareDataInputs PROVE ReferencesInvariant'
<1>1. UNCHANGED <<services, components>> /\ pc = "prepare_inputs"
    BY DEF Ens!PrepareDataInputs
<1>2. CASE UNCHANGED subchannels /\ pc' = "failed"
    BY <1>1, <1>2 DEF ReferencesInvariant, Shapes, AllRefer, Parsed
<1>3. CASE subchannels' = Ens!Placed /\ pc' = "last_checks"
  <2>1. /\ IsSeq(subchannels') /\ DOMAIN subchannels' = DOMAIN subchannels
        /\ \A i \in DOMAIN subchannels : SameButPlaced(subchannels'[i], subchannels[i])
    BY <1>3, PlacedKeeps DEF ReferencesInvariant
  <2>2. \A i \in DOMAIN subchannels : IsSubchannel(subchannels'[i]) /\ subchannels'[i].id = subchannels[i].id
    BY <2>1 DEF SameButPlaced
  <2>3. Shapes' /\ AllRefer'
    BY <1>1, <2>1, <2>2 DEF ReferencesInvariant, Shapes, AllRefer, HasId
  <2>4. IdsDiffer(subchannels')
    BY <1>1, <2>1, <2>2 DEF ReferencesInvariant, IdsDiffer, Parsed
  <2> QED BY <1>1, <2>3, <2>4 DEF ReferencesInvariant
<1> QED BY <1>2, <1>3 DEF Ens!PrepareDataInputs

LEMMA ReferencesKept == ReferencesInvariant /\ [EnsembleNext]_allVars => ReferencesInvariant'
<1> SUFFICES ASSUME ReferencesInvariant, [EnsembleNext]_allVars PROVE ReferencesInvariant'
    OBVIOUS
<1>1. CASE UNCHANGED <<services, subchannels, components, pc>>
    BY <1>1 DEF ReferencesInvariant, Shapes, AllRefer
<1>2. CASE UNCHANGED <<services, subchannels, components>> /\ pc' \notin Parsed \ {"prepare_subchannels"}
    BY <1>2 DEF ReferencesInvariant, Shapes, AllRefer, Parsed
<1>3. CASE Ens!LastChecks
    BY <1>3 DEF ReferencesInvariant, Shapes, AllRefer, Parsed, Ens!LastChecks, Ens!parsed
<1>4. CASE Ens!ParseGeneral \/ Ens!EndOfSection \/ Ens!ParseLinking
    BY <1>2, <1>4 DEF Ens!ParseGeneral, Ens!EndOfSection, Ens!ParseLinking, Ens!parsed, Parsed
<1>5. CASE \/ pc = "running" /\ pc' = pc /\ Ens!ReloadLinking
           \/ pc = "running" /\ pc' = pc /\ Ens!RcSetLabel
           \/ pc = "running" /\ pc' = pc /\ Ens!RcSetLocalTimeOffset
           \/ UNCHANGED ensembleVars
    BY <1>1, <1>5 DEF Ens!ReloadLinking, Ens!RcSetLabel, Ens!RcSetLocalTimeOffset, Ens!parsed, ensembleVars
<1>6. CASE Ens!WriteFourthFib \/ Ens!SetLabelText
    BY <1>1, <1>2, <1>6 DEF Ens!WriteFourthFib, Ens!SetLabelText, Ens!parsed, Parsed
<1> QED BY <1>3, <1>4, <1>5, <1>6, EnsembleSteps, ServiceKeeps, SubchannelKeeps, ComponentKeeps,
           PrepareSubchannelsKeeps, PrepareComponentsKeeps, PrepareInputsKeeps

LEMMA ReferencesStart == EnsembleInit => ReferencesInvariant
<1> SUFFICES ASSUME EnsembleInit PROVE ReferencesInvariant
    OBVIOUS
<1>1. services = <<>> /\ subchannels = <<>> /\ components = <<>> /\ pc = "general"
    BY DEF EnsembleInit, Ens!Init
<1>2. IsSeq(<<>>) /\ DOMAIN <<>> = {}
    BY EmptySeq DEF IsSeq
<1>3. \A id : Own(<<>>, id) = {}
    BY <1>2 DEF Own
<1>4. \A id : Numbered(<<>>, id)
    BY <1>3, FS_EmptySet DEF Numbered
<1> QED BY <1>1, <1>2, <1>4 DEF ReferencesInvariant, Shapes, IdsDiffer, AllRefer, Parsed

(***************************************************************************)
(* What the FIGs look up by identifier is there, once and only once, and   *)
(* the components of a service are numbered from 0 on, for every           *)
(* configuration (parse_ptree, prepare_subchannels and                     *)
(* prepare_services_components).                                           *)
(***************************************************************************)
THEOREM ReferencesAlwaysResolve == EnsembleSpec => []ReferencesResolve
<1>1. ReferencesInvariant => ReferencesResolve
  <2> SUFFICES ASSUME ReferencesInvariant, pc = "running" PROVE ReferencesResolve
    BY DEF ReferencesResolve, Ens!ReferencesResolve
  <2>1. IdsDiffer(services) /\ IdsDiffer(subchannels) /\ AllRefer
    BY DEF ReferencesInvariant, Parsed
  <2>2. ASSUME NEW xs, IdsDiffer(xs), NEW id, HasId(xs, id)
        PROVE  Ens!Cardinality({i \in DOMAIN xs : xs[i].id = id}) = 1
    <3>1. PICK j \in DOMAIN xs : xs[j].id = id
      BY <2>2 DEF HasId
    <3>2. {i \in DOMAIN xs : xs[i].id = id} = {j}
      BY <2>2, <3>1 DEF IdsDiffer
    <3> QED BY <3>2, FS_Singleton, SameCardinality
  <2>3. \A c \in Ens!ToSet(components) :
           /\ Ens!Cardinality({i \in DOMAIN subchannels : subchannels[i].id = c.subchId}) = 1
           /\ Ens!Cardinality({i \in DOMAIN services : services[i].id = c.serviceId}) = 1
    BY <2>1, <2>2 DEF AllRefer, Ens!ToSet
  <2>4. ASSUME NEW s \in Ens!ToSet(services), NEW own,
               own = {i \in DOMAIN components : components[i].serviceId = s.id}
        PROVE  own # {} /\ {components[i].SCIdS : i \in own} = 0..(Ens!Cardinality(own) - 1)
    <3>1. own = Own(components, s.id)
      BY <2>4 DEF Own
    <3>2. own # {}
      BY <3>1 DEF ReferencesInvariant, Ens!ToSet
    <3> QED BY <3>1, <3>2, SameCardinality DEF ReferencesInvariant, Numbered
  <2> QED BY <2>3, <2>4 DEF ReferencesResolve, Ens!ReferencesResolve
<1> QED BY <1>1, ReferencesStart, ReferencesKept, PTL DEF EnsembleSpec

-----------------------------------------------------------------------------
(***************************************************************************)
(* Capacity: the size of a subchannel in the multiplex and in a frame.     *)
(***************************************************************************)
Words(s) == Ens!GetSizeByte(s) \div 4

Fit(words, size) == /\ size \in Nat /\ size > 0
                    /\ words \in Nat /\ words > 0 /\ 2 * (words \div 2) = words
                    /\ 5 * words <= 8 * size

\* The sizes of the table, one bitrate after the other.
LEMMA UepFits ==
    ASSUME NEW b \in Ens!UepBitrates, NEW k \in 1..5, Ens!UepSizes[b][k] # 0
    PROVE  Fit((b * 3) \div 4, Ens!UepSizes[b][k])
<1> PICK x : x = Ens!UepSizes[b][k]
    OBVIOUS
<1>1. CASE b = 32
  <2>1. Ens!UepSizes[b] = <<16, 21, 24, 29, 35>>
    BY <1>1 DEF Ens!UepSizes, Ens!UepBitrates
  <2>2. x # 0 /\ x \in {16, 21, 24, 29, 35}
    BY <2>1
  <2> QED BY <1>1, <2>2 DEF Fit
<1>2. CASE b = 48
  <2>1. Ens!UepSizes[b] = <<24, 29, 35, 42, 52>>
    BY <1>2 DEF Ens!UepSizes, Ens!UepBitrates
  <2>2. x # 0 /\ x \in {24, 29, 35, 42, 52}
    BY <2>1
  <2> QED BY <1>2, <2>2 DEF Fit
<1>3. CASE b = 56
  <2>1. Ens!UepSizes[b] = <<29, 35, 42, 52, 0>>
    BY <1>3 DEF Ens!UepSizes, Ens!UepBitrates
  <2>2. x # 0 /\ x \in {29, 35, 42, 52, 0}
    BY <2>1
  <2> QED BY <1>3, <2>2 DEF Fit
<1>4. CASE b = 64
  <2>1. Ens!UepSizes[b] = <<32, 42, 48, 58, 70>>
    BY <1>4 DEF Ens!UepSizes, Ens!UepBitrates
  <2>2. x # 0 /\ x \in {32, 42, 48, 58, 70}
    BY <2>1
  <2> QED BY <1>4, <2>2 DEF Fit
<1>5. CASE b = 80
  <2>1. Ens!UepSizes[b] = <<40, 52, 58, 70, 84>>
    BY <1>5 DEF Ens!UepSizes, Ens!UepBitrates
  <2>2. x # 0 /\ x \in {40, 52, 58, 70, 84}
    BY <2>1
  <2> QED BY <1>5, <2>2 DEF Fit
<1>6. CASE b = 96
  <2>1. Ens!UepSizes[b] = <<48, 58, 70, 84, 104>>
    BY <1>6 DEF Ens!UepSizes, Ens!UepBitrates
  <2>2. x # 0 /\ x \in {48, 58, 70, 84, 104}
    BY <2>1
  <2> QED BY <1>6, <2>2 DEF Fit
<1>7. CASE b = 112
  <2>1. Ens!UepSizes[b] = <<58, 70, 84, 104, 0>>
    BY <1>7 DEF Ens!UepSizes, Ens!UepBitrates
  <2>2. x # 0 /\ x \in {58, 70, 84, 104, 0}
    BY <2>1
  <2> QED BY <1>7, <2>2 DEF Fit
<1>8. CASE b = 128
  <2>1. Ens!UepSizes[b] = <<64, 84, 96, 116, 140>>
    BY <1>8 DEF Ens!UepSizes, Ens!UepBitrates
  <2>2. x # 0 /\ x \in {64, 84, 96, 116, 140}
    BY <2>1
  <2> QED BY <1>8, <2>2 DEF Fit
<1>9. CASE b = 160
  <2>1. Ens!UepSizes[b] = <<80, 104, 116, 140, 168>>
    BY <1>9 DEF Ens!UepSizes, Ens!UepBitrates
  <2>2. x # 0 /\ x \in {80, 104, 116, 140, 168}
    BY <2>1
  <2> QED BY <1>9, <2>2 DEF Fit
<1>10. CASE b = 192
  <2>1. Ens!UepSizes[b] = <<96, 116, 140, 168, 208>>
    BY <1>10 DEF Ens!UepSizes, Ens!UepBitrates
  <2>2. x # 0 /\ x \in {96, 116, 140, 168, 208}
    BY <2>1
  <2> QED BY <1>10, <2>2 DEF Fit
<1>11. CASE b = 224
  <2>1. Ens!UepSizes[b] = <<116, 140, 168, 208, 232>>
    BY <1>11 DEF Ens!UepSizes, Ens!UepBitrates
  <2>2. x # 0 /\ x \in {116, 140, 168, 208, 232}
    BY <2>1
  <2> QED BY <1>11, <2>2 DEF Fit
<1>12. CASE b = 256
  <2>1. Ens!UepSizes[b] = <<128, 168, 192, 232, 280>>
    BY <1>12 DEF Ens!UepSizes, Ens!UepBitrates
  <2>2. x # 0 /\ x \in {128, 168, 192, 232, 280}
    BY <2>1
  <2> QED BY <1>12, <2>2 DEF Fit
<1>13. CASE b = 320
  <2>1. Ens!UepSizes[b] = <<160, 208, 0, 280, 0>>
    BY <1>13 DEF Ens!UepSizes, Ens!UepBitrates
  <2>2. x # 0 /\ x \in {160, 208, 0, 280, 0}
    BY <2>1
  <2> QED BY <1>13, <2>2 DEF Fit
<1>14. CASE b = 384
  <2>1. Ens!UepSizes[b] = <<192, 0, 280, 0, 416>>
    BY <1>14 DEF Ens!UepSizes, Ens!UepBitrates
  <2>2. x # 0 /\ x \in {192, 0, 280, 0, 416}
    BY <2>1
  <2> QED BY <1>14, <2>2 DEF Fit
<1> QED BY <1>1, <1>2, <1>3, <1>4, <1>5, <1>6, <1>7, <1>8, <1>9, <1>10, <1>11, <1>12, <1>13, <1>14 DEF Ens!UepBitrates

Coded(s) ==
    /\ s.form \in {"UEP", "EEP"} /\ s.level \in 0..4 /\ s.eepProfile \in {"EEP_A", "EEP_B"}
    /\ s.bitrate \in Nat /\ s.bitrate % 8 = 0

\* A protection level that the profile does not have gives no size.
Sized(s) ==
    IF Ens!NoSuchLevel(s) THEN Ens!GetSizeCu(s) = 0 ELSE Fit(Words(s), Ens!GetSizeCu(s))

LEMMA CodedFits ==
    ASSUME NEW s, Coded(s), s.bitrate > 0,
           s.form = "UEP" => Ens!HasUepProfile(s.bitrate, s.level),
           s.form = "EEP" /\ s.eepProfile = "EEP_B" => s.bitrate % 32 = 0
    PROVE  Sized(s)
<1> SUFFICES ASSUME ~Ens!NoSuchLevel(s) PROVE Sized(s)
    BY DEF Sized, Ens!NoSuchLevel, Ens!GetSizeCu
<1>4. s.form = "EEP" => s.level \in 0..3
    BY DEF Ens!NoSuchLevel, Coded
<1> PICK b \in Nat : b = s.bitrate
    BY DEF Coded
<1> PICK m \in Nat : b = 8 * m
  <2>1. b % 8 = 0
    BY DEF Coded
  <2> QED BY <2>1
<1>1. m > 0 /\ Words(s) = 6 * m
    BY DEF Words, Ens!GetSizeByte
<1>2. CASE s.form = "UEP"
  <2>1. Ens!GetSizeCu(s) = Ens!UepSizes[b][5 - s.level]
    BY <1>2 DEF Ens!GetSizeCu
  <2>2. b \in Ens!UepBitrates /\ Ens!UepSizes[b][5 - s.level] # 0 /\ 5 - s.level \in 1..5
    BY <1>2 DEF Ens!HasUepProfile, Coded
  <2>3. Fit((b * 3) \div 4, Ens!UepSizes[b][5 - s.level])
    BY <2>2, UepFits
  <2> QED BY <2>1, <2>3 DEF Sized, Words, Ens!GetSizeByte
<1>3. CASE s.form = "EEP" /\ s.eepProfile = "EEP_A"
  <2>1. Ens!GetSizeCu(s) = (b * <<12, 8, 6, 4>>[s.level + 1]) \div 8
    BY <1>3, <1>4 DEF Ens!GetSizeCu, Coded
  <2>2. <<12, 8, 6, 4>>[s.level + 1] \in {12, 8, 6, 4}
    BY <1>3, <1>4 DEF Coded
  <2>3. Ens!GetSizeCu(s) \in {12 * m, 8 * m, 6 * m, 4 * m}
    BY <2>1, <2>2
  <2> QED BY <1>1, <2>3 DEF Sized, Fit
<1>5. CASE s.form = "EEP" /\ s.eepProfile = "EEP_B"
  <2>1. Ens!GetSizeCu(s) = (b * <<27, 21, 18, 15>>[s.level + 1]) \div 32
    BY <1>4, <1>5 DEF Ens!GetSizeCu, Coded
  <2>2. <<27, 21, 18, 15>>[s.level + 1] \in {27, 21, 18, 15}
    BY <1>4, <1>5 DEF Coded
  <2> PICK k \in Nat : b = 32 * k
    <3>1. b % 32 = 0
      BY <1>5
    <3> QED BY <3>1
  <2>3. Ens!GetSizeCu(s) \in {27 * k, 21 * k, 18 * k, 15 * k} /\ m = 4 * k
    BY <2>1, <2>2
  <2> QED BY <1>1, <2>3 DEF Sized, Fit
<1> QED BY <1>2, <1>3, <1>5 DEF Coded

\* The start addresses: each subchannel begins where the one before it ends.
Chained(xs) ==
    \A i \in DOMAIN xs :
        xs[i].startAddress = IF i = 1 THEN 0
                             ELSE xs[i - 1].startAddress + Ens!GetSizeCu(xs[i - 1])

LEMMA PlacedIsChained ==
    ASSUME Shapes PROVE Chained(Ens!Placed)
<1> PICK n \in Nat : n = Len(subchannels)
    BY SeqFacts DEF Shapes
<1>1. DOMAIN subchannels = 1..n
    BY SeqFacts DEF Shapes
<1>2. PICK P : IsPlaced(P, n) /\ Ens!Placed = P[n].list
    BY PlacingEnds
<1>3. /\ IsSeq(Ens!Placed) /\ Len(Ens!Placed) = n
      /\ \A i \in 1..n : Ens!Placed[i] = PlacedOne(P, i)
    BY <1>2, PlacedInOrder
<1>4. P[0].next = 0
  <2>1. P[0] = [list |-> <<>>, next |-> 0]
    BY <1>2 DEF IsPlaced
  <2> QED BY <2>1
<1>5. ASSUME NEW i \in 1..n PROVE PlacedOne(P, i).startAddress = P[i - 1].next
  <2> PICK s : s = subchannels[i]
    OBVIOUS
  <2>1. s = [uid |-> s.uid, id |-> s.id, type |-> s.type, proto |-> s.proto, bitrate |-> s.bitrate,
             form |-> s.form, eepProfile |-> s.eepProfile, tableIndex |-> s.tableIndex,
             level |-> s.level, startAddress |-> s.startAddress]
    BY <1>1 DEF Shapes, IsSubchannel
  <2> PICK t : t = Ens!Adjusted(s)
    OBVIOUS
  <2>2. "startAddress" \in DOMAIN t
    BY <2>1 DEF Ens!Adjusted
  <2> QED BY <2>2 DEF PlacedOne
<1>6. ASSUME NEW i \in 1..n PROVE P[i].next = PlacedOne(P, i).startAddress + Ens!GetSizeCu(PlacedOne(P, i))
  <2>1. P[i] = PlacedNext(P, i)
    BY <1>2 DEF IsPlaced
  <2> QED BY <2>1 DEF PlacedNext
<1>7. ASSUME NEW i \in 2..n
      PROVE  Ens!Placed[i].startAddress
                = Ens!Placed[i - 1].startAddress + Ens!GetSizeCu(Ens!Placed[i - 1])
  <2>1. i - 1 \in 1..n /\ i \in 1..n
    OBVIOUS
  <2>2. Ens!Placed[i] = PlacedOne(P, i) /\ Ens!Placed[i - 1] = PlacedOne(P, i - 1)
    BY <1>3, <2>1
  <2> QED BY <1>5, <1>6, <2>1, <2>2
<1>8. n > 0 => Ens!Placed[1].startAddress = 0
    BY <1>3, <1>4, <1>5
<1>9. DOMAIN Ens!Placed = 1..n
    BY <1>3, SeqFacts
<1> PICK placed : placed = Ens!Placed
    OBVIOUS
<1>10. \A i \in 1..n : i = 1 \/ i \in 2..n
    OBVIOUS
<1> QED BY <1>7, <1>8, <1>9, <1>10 DEF Chained

(***************************************************************************)
(* What is asked of the configuration: numbers where there should be, the  *)
(* bitrates of MPEG, and a frame that has room for the header of MaxIds    *)
(* subchannels, the FIC and the longest streams of Capacity units, of 8/5  *)
(* words each.                                                             *)
(***************************************************************************)
Sensible ==
    /\ MaxIds \in Nat /\ Capacity \in Nat /\ FrameBuffer \in Nat
    /\ MpegBitrate \in Nat /\ MpegBitrate % 8 = 0
    /\ 5 + 32 + MaxIds + (8 * Capacity) \div 5 <= FrameBuffer \div 4
    /\ \A e \in SubchannelEntries :
          e.bitrate \in Int /\ e.id \in Int /\ e.protection \in Int

Reading == {"general", "services", "subchannels", "components", "linking",
            "prepare_subchannels", "prepare_components", "prepare_inputs"}

FitsInvariant ==
    /\ ReferencesInvariant
    /\ \A i \in DOMAIN subchannels : subchannels[i].id \in 0..(MaxIds - 1)
    /\ pc \in Reading => \A i \in DOMAIN subchannels : Coded(subchannels[i])
    /\ pc \in {"last_checks", "running"} =>
          Chained(subchannels) /\ \A i \in DOMAIN subchannels : Sized(subchannels[i])
    /\ pc = "running" => Ens!CapacityOK

LEMMA ReadIs ==
    ASSUME Sensible, NEW e \in SubchannelEntries, Ens!SubchannelOK(e)
    PROVE  LET new == Ens!NewSubchannel(e) IN Coded(new) /\ new.id \in 0..(MaxIds - 1)
<1> PICK new : new = Ens!NewSubchannel(e)
    OBVIOUS
<1>1. /\ new.id = Ens!SubchannelId(e) /\ new.bitrate = e.bitrate % 65536 /\ new.form = Ens!Form(e)
      /\ new.type = e.type /\ new.proto = e.proto
      /\ new.level = e.protection - 1 /\ new.eepProfile \in {"EEP_A", "EEP_B"}
    BY DEF Ens!NewSubchannel
<1>2. /\ e.bitrate \in Int /\ e.id \in Int /\ e.protection \in Int /\ e.bitrate % 8 = 0
      /\ e.protection \in 1..(IF Ens!Form(e) = "UEP" THEN 5 ELSE 4)
      /\ Ens!SubchannelId(e) < MaxIds
  <2>1. /\ e.bitrate % 8 = 0 /\ Ens!SubchannelId(e) < MaxIds
        /\ e.protection \in 1..(IF Ens!Form(e) = "UEP" THEN 5 ELSE 4)
    BY Zenon DEF Ens!SubchannelOK
  <2> QED BY <2>1 DEF Sensible
<1>3. Ens!Form(e) \in {"UEP", "EEP"}
    BY DEF Ens!Form
<1>4. new.bitrate \in Nat /\ new.bitrate % 8 = 0
  <2> PICK m \in Int : e.bitrate = 8 * m
    BY <1>2
  <2> PICK r \in Nat : r = e.bitrate % 65536
    BY <1>2
  <2> PICK q \in Int : q = e.bitrate \div 65536
    BY <1>2
  <2>1. 8 * m = 65536 * q + r
    BY <1>2
  <2>2. r = 8 * (m - 8192 * q)
    BY <2>1
  <2>3. r % 8 = 0
    BY <2>2
  <2> QED BY <1>1, <2>3
<1>5. Ens!SubchannelId(e) \in 0..(MaxIds - 1)
  <2>1. CASE e.id # NotGiven
    <3>1. Ens!SubchannelId(e) = e.id % 256
      BY <2>1 DEF Ens!SubchannelId, Ens!NotGiven, NotGiven
    <3> QED BY <1>2, <3>1 DEF Sensible
  <2>2. CASE e.id = NotGiven
    <3> DEFINE free == (0..(MaxIds - 1)) \ ({0} \union {s.id : s \in Ens!ToSet(subchannels)})
    <3>1. Ens!SubchannelId(e) = IF free = {} THEN 0 ELSE CHOOSE i \in free : \A j \in free : i <= j
      BY <2>2 DEF Ens!SubchannelId, Ens!NotGiven, NotGiven, Ens!FirstFree
    <3>2. free \subseteq 0..(MaxIds - 1) /\ free \subseteq Nat
      BY DEF Sensible
    <3> HIDE DEF free
    <3>3. CASE free # {}
      <4>1. \E i \in free : \A j \in free : i <= j
        BY <3>2, <3>3, Smallest
      <4>2. (CHOOSE i \in free : \A j \in free : i <= j) \in free
        BY <4>1
      <4> QED BY <3>1, <3>2, <3>3, <4>2
    <3>4. CASE free = {}
      BY <1>2, <3>1, <3>4 DEF Sensible
    <3> QED BY <3>3, <3>4
  <2> QED BY <2>1, <2>2
<1>6. Coded(new)
    BY <1>1, <1>2, <1>3, <1>4 DEF Coded
<1> QED BY <1>1, <1>5, <1>6

LEMMA PlacedFits ==
    ASSUME Sensible, Shapes, NEW i \in DOMAIN subchannels, Coded(subchannels[i]),
           ~Ens!InputRefuses(Ens!Placed[i]), ~Ens!ProfileRefused(Ens!Placed[i])
    PROVE  Sized(Ens!Placed[i])
<1> PICK s : s = subchannels[i]
    OBVIOUS
<1> PICK t : t = Ens!Placed[i]
    OBVIOUS
<1>1. SameButPlaced(t, s)
    BY PlacedKeeps
<1>2. t.bitrate = Ens!SetBitrate(s) /\ t.bitrate \in Nat /\ t.bitrate % 8 = 0
    BY <1>1 DEF SameButPlaced, Ens!SetBitrate, Sensible, Coded
<1>3. t.level = s.level /\ t.level \in 0..4 /\ t.eepProfile \in {"EEP_A", "EEP_B"}
    BY <1>1 DEF SameButPlaced, Coded
<1> DEFINE has == Ens!HasUepProfile(t.bitrate, t.level)
<1>4. t.form = IF s.form = "UEP" /\ ~has THEN "EEP" ELSE s.form
    BY <1>1, <1>2, <1>3 DEF SameButPlaced
<1>5. s.form \in {"UEP", "EEP"}
    BY DEF Coded
<1>6. t.bitrate > 0
    BY <1>2 DEF Ens!InputRefuses
<1>7. t.form = "EEP" /\ t.eepProfile = "EEP_B" => t.bitrate % 32 = 0
    BY DEF Ens!ProfileRefused
<1> HIDE DEF has
<1>8. t.form \in {"UEP", "EEP"} /\ (t.form = "UEP" => has)
    BY <1>4, <1>5
<1> QED BY <1>2, <1>3, <1>6, <1>7, <1>8, CodedFits DEF Coded, has

LEMMA FitsStart == EnsembleInit => FitsInvariant
<1> SUFFICES ASSUME EnsembleInit PROVE FitsInvariant
    OBVIOUS
<1>1. subchannels = <<>> /\ pc = "general" /\ DOMAIN <<>> = {}
    BY EmptySeq DEF EnsembleInit, Ens!Init
<1>2. \A i \in DOMAIN subchannels : FALSE
    BY <1>1
<1> QED BY <1>1, <1>2, ReferencesStart DEF FitsInvariant

LEMMA FitsKept == Sensible /\ FitsInvariant /\ [EnsembleNext]_allVars => FitsInvariant'
<1> SUFFICES ASSUME Sensible, FitsInvariant, [EnsembleNext]_allVars PROVE FitsInvariant'
    OBVIOUS
<1>1. ReferencesInvariant /\ ReferencesInvariant'
    BY ReferencesKept DEF FitsInvariant
<1>2. CASE UNCHANGED <<subchannels, pc>>
    BY <1>1, <1>2 DEF FitsInvariant, Ens!CapacityOK
<1>3. CASE UNCHANGED subchannels /\ pc \in Reading /\ pc' \in Reading
    BY <1>1, <1>3 DEF FitsInvariant, Reading
<1>4. CASE UNCHANGED subchannels /\ pc' = "failed"
    BY <1>1, <1>4 DEF FitsInvariant, Reading
<1>5. CASE \/ Ens!ParseGeneral \/ Ens!ParseService \/ Ens!ParseComponent \/ Ens!EndOfSection
           \/ Ens!ParseLinking \/ Ens!PrepareSubchannels \/ Ens!PrepareServicesComponents
    BY <1>3, <1>4, <1>5 DEF Ens!ParseGeneral, Ens!ParseService, Ens!ParseComponent, Ens!EndOfSection,
       Ens!ParseLinking, Ens!PrepareSubchannels, Ens!PrepareServicesComponents, Ens!parsed, Reading
<1>6. CASE Ens!ParseSubchannel
  <2>1. pc \in Reading /\ (pc' = pc \/ pc' = "failed")
    BY <1>6 DEF Ens!ParseSubchannel, Reading
  <2>2. CASE UNCHANGED subchannels
    BY <1>2, <1>4, <2>1, <2>2
  <2>3. ASSUME NEW e \in SubchannelEntries, Ens!SubchannelOK(e), pc' = pc,
               subchannels' = Append(subchannels, Ens!NewSubchannel(e))
        PROVE  FitsInvariant'
    <3> PICK new : new = Ens!NewSubchannel(e)
      OBVIOUS
    <3>1. Coded(new) /\ new.id \in 0..(MaxIds - 1)
      BY <2>3, ReadIs
    <3>2. IsAppended(subchannels, subchannels', new)
      BY <1>1, <2>3, Appending DEF ReferencesInvariant, Shapes
    <3>3. \A i \in DOMAIN subchannels' : i = Len(subchannels) + 1 \/
             (i \in DOMAIN subchannels /\ subchannels'[i] = subchannels[i])
      BY <3>2 DEF IsAppended
    <3>4. subchannels'[Len(subchannels) + 1] = new
      BY <3>2 DEF IsAppended
    <3>5. \A i \in DOMAIN subchannels' : Coded(subchannels'[i]) /\ subchannels'[i].id \in 0..(MaxIds - 1)
      BY <2>1, <3>1, <3>3, <3>4 DEF FitsInvariant
    <3>6. \A x : Coded(x)' <=> Coded(x)
      BY DEF Coded
    <3> QED BY <1>1, <2>1, <2>3, <3>5, <3>6 DEF FitsInvariant, Reading
  <2>4. \/ UNCHANGED subchannels
        \/ \E e \in SubchannelEntries :
              Ens!SubchannelOK(e) /\ pc' = pc /\ subchannels' = Append(subchannels, Ens!NewSubchannel(e))
    BY <1>6 DEF Ens!ParseSubchannel
  <2> QED BY <2>2, <2>3, <2>4
<1>7. CASE Ens!PrepareDataInputs
  <2>1. CASE UNCHANGED subchannels /\ pc' = "failed"
    BY <1>4, <2>1
  <2>2. CASE /\ ~(\E s \in Ens!ToSet(Ens!Placed) : Ens!InputRefuses(s) \/ Ens!ProfileRefused(s))
             /\ subchannels' = Ens!Placed /\ pc' = "last_checks"
    <3>1. /\ Shapes /\ pc \in Reading
          /\ \A i \in DOMAIN subchannels : Coded(subchannels[i]) /\ subchannels[i].id \in 0..(MaxIds - 1)
      BY <1>7 DEF FitsInvariant, ReferencesInvariant, Ens!PrepareDataInputs, Reading
    <3> PICK placed : placed = Ens!Placed
      OBVIOUS
    <3>2. /\ DOMAIN placed = DOMAIN subchannels
          /\ \A i \in DOMAIN subchannels : SameButPlaced(placed[i], subchannels[i])
      BY <3>1, PlacedKeeps
    <3>3. \A i \in DOMAIN placed : placed[i].id \in 0..(MaxIds - 1)
      BY <3>1, <3>2 DEF SameButPlaced
    <3>4. \A i \in DOMAIN placed : ~Ens!InputRefuses(placed[i]) /\ ~Ens!ProfileRefused(placed[i])
      BY <2>2 DEF Ens!ToSet
    <3>5. \A i \in DOMAIN placed : Sized(placed[i])
      BY <3>1, <3>2, <3>4, PlacedFits
    <3>6. Chained(placed)
      BY <3>1, PlacedIsChained
    <3> QED BY <1>1, <2>2, <3>3, <3>5, <3>6 DEF FitsInvariant, Reading
  <2> QED BY <1>7, <2>1, <2>2 DEF Ens!PrepareDataInputs
<1>8. CASE Ens!LastChecks
  <2>1. UNCHANGED subchannels /\ pc = "last_checks" /\ pc' \in {"running", "failed"}
    BY <1>8 DEF Ens!LastChecks, Ens!parsed
  <2>2. pc' = "running" => Ens!CapacityOK
    BY <1>8 DEF Ens!LastChecks
  <2>3. CASE pc' = "running"
    BY <1>1, <2>1, <2>2, <2>3 DEF FitsInvariant, Reading, Ens!CapacityOK
  <2> QED BY <1>4, <2>1, <2>3
<1>9. CASE \/ pc = "running" /\ pc' = pc /\ Ens!ReloadLinking
           \/ pc = "running" /\ pc' = pc /\ Ens!RcSetLabel
           \/ pc = "running" /\ pc' = pc /\ Ens!RcSetLocalTimeOffset
           \/ UNCHANGED ensembleVars
    BY <1>2, <1>9 DEF Ens!ReloadLinking, Ens!RcSetLabel, Ens!RcSetLocalTimeOffset, Ens!parsed, ensembleVars
<1>10. CASE Ens!WriteFourthFib \/ Ens!SetLabelText
    BY <1>2, <1>4, <1>10 DEF Ens!WriteFourthFib, Ens!SetLabelText, Ens!parsed
<1> QED BY <1>5, <1>6, <1>7, <1>8, <1>9, <1>10, EnsembleSteps

-----------------------------------------------------------------------------
(***************************************************************************)
(* The frame.  f[i] are the words of the first i streams.                  *)
(***************************************************************************)
IsSum(f, n, xs) ==
    /\ f \in [0..n -> Nat] /\ f[0] = 0
    /\ \A i \in 1..n : f[i] = f[i - 1] + xs[i].words

LEMMA SumExists ==
    ASSUME NEW n \in Nat, NEW xs, \A i \in 1..n : xs[i].words \in Nat
    PROVE  \E f : IsSum(f, n, xs)
<1>0. \A i \in 1..n, v \in Nat : v + xs[i].words \in Nat
    OBVIOUS
<1> DEFINE at(i) == [v \in Nat |-> v + xs[i].words]
<1> PICK step : step = [i \in 1..n |-> at(i)]
    OBVIOUS
<1>1. step \in [1..n -> [Nat -> Nat]]
  <2>1. \A i \in 1..n : at(i) \in [Nat -> Nat]
    BY <1>0
  <2> HIDE DEF at
  <2> QED BY <2>1
<1>2. 0 \in Nat
    OBVIOUS
<1>3. \E f : IsRecursion(f, Nat, n, 0, step)
  <2> HIDE DEF at
  <2> QED BY <1>1, <1>2, Recursion
<1>4. PICK f : f \in [0..n -> Nat] /\ f[0] = 0 /\ \A i \in 1..n : f[i] = step[i][f[i - 1]]
    BY <1>3 DEF IsRecursion
<1>5. ASSUME NEW i \in 1..n PROVE f[i] = f[i - 1] + xs[i].words
  <2>1. step[i] = at(i) /\ f[i - 1] \in Nat
    BY <1>4
  <2> QED BY <1>4, <2>1
<1> QED BY <1>4, <1>5 DEF IsSum

LEMMA SumIsUnique ==
    ASSUME NEW n \in Nat, NEW xs, NEW f, IsSum(f, n, xs),
           NEW g, g[0] = 0, \A i \in 1..n : g[i] = g[i - 1] + xs[i].words
    PROVE  \A i \in 0..n : g[i] = f[i]
<1> DEFINE S == {i \in 0..n : g[i] = f[i]}
<1>1. 0 \in S
    BY DEF IsSum
<1>2. \A i \in 1..n : i - 1 \in S => i \in S
    BY DEF IsSum
<1> HIDE DEF S
<1>3. \A i \in 0..n : i \in S
    BY <1>1, <1>2, Upto
<1> QED BY <1>3 DEF S

LEMMA SumGrows ==
    ASSUME NEW n \in Nat, NEW xs, NEW f, IsSum(f, n, xs), \A i \in 1..n : xs[i].words \in Nat
    PROVE  \A i \in 0..n, j \in 0..n : i <= j => f[i] <= f[j]
<1> SUFFICES ASSUME NEW i \in 0..n PROVE \A j \in 0..n : i <= j => f[i] <= f[j]
    OBVIOUS
<1> DEFINE S == {j \in 0..n : i <= j => f[i] <= f[j]}
<1>1. 0 \in S
    BY DEF IsSum
<1>2. ASSUME NEW j \in 1..n, j - 1 \in S PROVE j \in S
  <2>1. f[j] = f[j - 1] + xs[j].words /\ f[j] \in Nat /\ f[j - 1] \in Nat /\ xs[j].words \in Nat /\ f[i] \in Nat
    BY DEF IsSum
  <2> QED BY <1>2, <2>1
<1>3. \A j \in 1..n : j - 1 \in S => j \in S
    BY <1>2
<1> HIDE DEF S
<1>4. \A j \in 0..n : j \in S
    BY <1>1, <1>3, Upto
<1> QED BY <1>4 DEF S

LEMMA StreamsAreSummed ==
    ASSUME NEW xs, NEW n \in Nat, n = Len(xs), NEW f, IsSum(f, n, xs)
    PROVE  \A i \in 1..(n + 1) : Ens!Eti!StreamsBefore(xs, i) = f[i - 1]
<1> DEFINE Rec(g) == g = [k \in 0..Len(xs) |-> IF k = 0 THEN 0 ELSE g[k - 1] + xs[k].words]
<1>1. Rec(f)
  <2> DEFINE g == [k \in 0..n |-> IF k = 0 THEN 0 ELSE f[k - 1] + xs[k].words]
  <2>1. \A k \in 0..n : g[k] = f[k]
    BY DEF IsSum
  <2>2. f = [k \in 0..n |-> f[k]] /\ g = [k \in 0..n |-> g[k]]
    BY DEF IsSum
  <2>3. f = g
    <3> HIDE DEF g
    <3> QED BY <2>1, <2>2
  <2> QED BY <2>3
<1>2. ASSUME NEW g, Rec(g) PROVE \A i \in 0..n : g[i] = f[i]
  <2>1. g[0] = 0
    BY <1>2
  <2>2. ASSUME NEW i \in 1..n PROVE g[i] = g[i - 1] + xs[i].words
    <3>1. i \in 0..n /\ i # 0
      OBVIOUS
    <3> QED BY <1>2, <3>1
  <2> HIDE DEF Rec
  <2> QED BY <2>1, <2>2, SumIsUnique
<1>3. PICK g : Rec(g) /\ g = CHOOSE h : Rec(h)
  <2> HIDE DEF Rec
  <2> QED BY <1>1
<1>4. ASSUME NEW i \in 1..(n + 1) PROVE Ens!Eti!StreamsBefore(xs, i) = f[i - 1]
  <2>1. Ens!Eti!StreamsBefore(xs, i) = g[i - 1]
    BY <1>3 DEF Ens!Eti!StreamsBefore
  <2>2. i - 1 \in 0..n
    OBVIOUS
  <2> HIDE DEF Rec
  <2> QED BY <1>2, <1>3, <2>1, <2>2
<1> QED BY <1>4

IsEnsemble(e, n, f) ==
    /\ n \in Nat /\ Len(e.subchannels) = n /\ DOMAIN e.subchannels = 1..n
    /\ \A i \in 1..n : /\ e.subchannels[i].words \in Nat /\ e.subchannels[i].words > 0
                       /\ 2 * (e.subchannels[i].words \div 2) = e.subchannels[i].words
    /\ IdsDiffer(e.subchannels)
    /\ IsSum(f, n, e.subchannels)

\* The FIC, and the first word after it; where the frame ends.
Fic(e) == Ens!Eti!FICL(e.mode)
After(e, n) == n + 3 + Fic(e)

NumbersOf(e, n, f) ==
    /\ Fic(e) = (IF e.mode = 3 THEN 32 ELSE 24) /\ Ens!Eti!FibWords(e.mode) = Fic(e)
    /\ Ens!Eti!FL(e) = After(e, n) - 2 + f[n] /\ f[n] \in Nat
    /\ \A i \in 1..n : Ens!Eti!StreamAt(e, i) = After(e, n) + f[i - 1]
    /\ \A i \in 1..n : f[i] = f[i - 1] + e.subchannels[i].words
    /\ \A i \in 0..n, j \in 0..n : f[i] \in Nat /\ (i <= j => f[i] <= f[j])

LEMMA FrameNumbers ==
    ASSUME NEW e, NEW n, NEW f, IsEnsemble(e, n, f) PROVE NumbersOf(e, n, f)
<1>1. n \in Nat /\ Len(e.subchannels) = n /\ IsSum(f, n, e.subchannels)
    BY DEF IsEnsemble
<1>2. Fic(e) = (IF e.mode = 3 THEN 32 ELSE 24) /\ Ens!Eti!FibWords(e.mode) = Fic(e)
    BY DEF Fic, Ens!Eti!FICL, Ens!Eti!FibWords
<1>3. \A i \in 1..(n + 1) : Ens!Eti!StreamsBefore(e.subchannels, i) = f[i - 1]
    BY <1>1, StreamsAreSummed
<1>4. \A i \in 0..n, j \in 0..n : f[i] \in Nat /\ (i <= j => f[i] <= f[j])
  <2>1. \A i \in 1..n : e.subchannels[i].words \in Nat
    BY DEF IsEnsemble
  <2>2. \A i \in 0..n, j \in 0..n : i <= j => f[i] <= f[j]
    BY <1>1, <2>1, SumGrows
  <2> QED BY <1>1, <2>2 DEF IsSum
<1>5. Ens!Eti!FL(e) = After(e, n) - 2 + f[n] /\ f[n] \in Nat
  <2>1. Ens!Eti!StreamsBefore(e.subchannels, n + 1) = f[n]
    BY <1>1, <1>3
  <2>2. Ens!Eti!FL(e) = 1 + Fic(e) + n + f[n]
    BY <1>1, <2>1 DEF Ens!Eti!FL, Fic
  <2> QED BY <1>1, <1>2, <1>4, <2>2 DEF After
<1>6. \A i \in 1..n : Ens!Eti!StreamAt(e, i) = After(e, n) + f[i - 1]
  <2>1. ASSUME NEW i \in 1..n PROVE Ens!Eti!StreamAt(e, i) = After(e, n) + f[i - 1]
    <3>1. Ens!Eti!StreamAt(e, i) = n + 3 + Fic(e) + f[i - 1]
      BY <1>1, <1>2, <1>3 DEF Ens!Eti!StreamAt
    <3> QED BY <3>1 DEF After
  <2> QED BY <2>1
<1> QED BY <1>1, <1>2, <1>4, <1>5, <1>6 DEF IsSum, NumbersOf

\* What is where in the frame.
ContentsOf(e, n, f) ==
    /\ Ens!Eti!Content(e, 0, Ens!Eti!FL(e) + 2) = [eof |-> TRUE]
    /\ Ens!Eti!Content(e, 0, Ens!Eti!FL(e) + 3) = [tist |-> 0]
    /\ Ens!Eti!Content(e, 0, 1) =
         [fct |-> 0, nst |-> n, fp |-> 0, mid |-> Ens!Eti!MID(e.mode), fl |-> Ens!Eti!FL(e)]
    /\ \A j \in 1..n : Ens!Eti!Content(e, 0, j + 1) =
         [scid |-> e.subchannels[j].id, stl |-> e.subchannels[j].words \div 2]
    /\ \A k \in 0..(Fic(e) - 1) : Ens!Eti!Content(e, 0, n + 3 + k) = [fic |-> k]
    /\ \A i \in 1..n : \A k \in 0..(e.subchannels[i].words - 1) :
         Ens!Eti!Content(e, 0, After(e, n) + f[i - 1] + k) =
           [stream |-> e.subchannels[i].id, word |-> k]

LEMMA FrameContents ==
    ASSUME NEW e, NEW n, NEW f, IsEnsemble(e, n, f) PROVE ContentsOf(e, n, f)
<1>n. n \in Nat
    BY DEF IsEnsemble
<1> USE <1>n
<1>0. NumbersOf(e, n, f) /\ Len(e.subchannels) = n
    BY FrameNumbers DEF IsEnsemble
<1>words. \A i \in 1..n : e.subchannels[i].words \in Nat
    BY DEF IsEnsemble
<1> PICK F0 \in Nat : F0 = Fic(e) /\ F0 > 0
    BY <1>0 DEF NumbersOf
<1> PICK FL0 \in Nat : FL0 = Ens!Eti!FL(e)
    BY <1>0 DEF After, NumbersOf
<1>1. /\ After(e, n) = n + 3 + F0 /\ FL0 = n + 1 + F0 + f[n] /\ f[n] \in Nat
      /\ Len(e.subchannels) = n
    BY <1>0 DEF After, NumbersOf
<1>l. f[n] \in Nat /\ FL0 + 2 = n + 3 + F0 + f[n]
    BY <1>1
<1>g. FL0 > n + 1
  <2> PICK v \in Nat : v = f[n]
    BY <1>1
  <2>1. FL0 = n + 1 + F0 + v
    BY <1>1
  <2> QED BY <2>1
<1> DEFINE StreamIs(i, w) == w \in Ens!Eti!StreamAt(e, i)..(Ens!Eti!StreamAt(e, i) + e.subchannels[i].words - 1)
<1>2. ASSUME NEW w \in Int, NEW i \in 1..n
      PROVE  StreamIs(i, w) <=> n + 3 + F0 + f[i - 1] <= w /\ w < n + 3 + F0 + f[i]
  <2>1. /\ Ens!Eti!StreamAt(e, i) = n + 3 + F0 + f[i - 1] /\ f[i] = f[i - 1] + e.subchannels[i].words
        /\ e.subchannels[i].words \in Nat /\ f[i - 1] \in Nat /\ f[i] \in Nat
    <3>1. i - 1 \in 0..n /\ i \in 0..n
      OBVIOUS
    <3> QED BY <1>0, <1>1, <1>words, <3>1 DEF NumbersOf
  <2> QED BY <2>1
<1>3. Ens!Eti!Content(e, 0, FL0 + 2) = [eof |-> TRUE]
    BY DEF Ens!Eti!Content
<1>4. Ens!Eti!Content(e, 0, FL0 + 3) = [tist |-> 0]
    BY DEF Ens!Eti!Content
<1>5. Ens!Eti!Content(e, 0, 1) = [fct |-> 0, nst |-> n, fp |-> 0, mid |-> Ens!Eti!MID(e.mode), fl |-> FL0]
  <2>1. 1 # FL0 + 2 /\ 1 # FL0 + 3
    BY <1>g
  <2> QED BY <1>1, <2>1 DEF Ens!Eti!Content
<1>6. ASSUME NEW j \in 1..n
      PROVE  Ens!Eti!Content(e, 0, j + 1) = [scid |-> e.subchannels[j].id, stl |-> e.subchannels[j].words \div 2]
  <2>1. j + 1 # FL0 + 2 /\ j + 1 # FL0 + 3 /\ j + 1 # 0 /\ j + 1 # 1 /\ j + 1 < n + 2 /\ (j + 1) - 1 = j
    BY <1>g
  <2> QED BY <1>1, <2>1 DEF Ens!Eti!Content
<1>7. ASSUME NEW w \in Int, n + 3 <= w, w < FL0 + 2
      PROVE  Ens!Eti!Content(e, 0, w) =
               IF \E i \in 1..n : StreamIs(i, w)
               THEN LET i == CHOOSE i \in 1..n : StreamIs(i, w)
                    IN  [stream |-> e.subchannels[i].id, word |-> w - Ens!Eti!StreamAt(e, i)]
               ELSE IF w < n + 3 + Ens!Eti!FibWords(e.mode) THEN [fic |-> w - n - 3] ELSE [zero |-> TRUE]
  <2>1. w # FL0 + 2 /\ w # FL0 + 3 /\ w # 0 /\ w # 1 /\ ~(w < n + 2) /\ w # n + 2
    BY <1>7
  <2> QED BY <1>1, <2>1 DEF Ens!Eti!Content
<1>8. ASSUME NEW k \in 0..(F0 - 1) PROVE Ens!Eti!Content(e, 0, n + 3 + k) = [fic |-> k]
  <2> PICK w \in Int : w = n + 3 + k
    OBVIOUS
  <2>1. n + 3 <= w /\ w < FL0 + 2 /\ w < n + 3 + F0 /\ w - n - 3 = k
    <3>1. n + 3 <= w /\ w < n + 3 + F0 /\ w - n - 3 = k
      OBVIOUS
    <3> PICK v \in Nat : v = f[n]
      BY <1>l
    <3>2. FL0 + 2 = n + 3 + F0 + v
      BY <1>l
    <3> QED BY <3>1, <3>2
  <2>2. \A i \in 1..n : ~StreamIs(i, w)
    <3>1. \A i \in 1..n : f[i - 1] \in Nat
      <4>1. \A i \in 1..n : i - 1 \in 0..n
        OBVIOUS
      <4> QED BY <1>0, <4>1 DEF NumbersOf
    <3> HIDE DEF StreamIs
    <3> QED BY <1>2, <2>1, <3>1
  <2> HIDE DEF StreamIs
  <2>3. Ens!Eti!Content(e, 0, w) = [fic |-> w - n - 3]
    BY <1>0, <1>7, <2>1, <2>2 DEF NumbersOf
  <2> QED BY <2>1, <2>3
<1>9. ASSUME NEW i \in 1..n, NEW k \in 0..(e.subchannels[i].words - 1)
      PROVE  Ens!Eti!Content(e, 0, After(e, n) + f[i - 1] + k) = [stream |-> e.subchannels[i].id, word |-> k]
  <2>1. /\ f[i - 1] \in Nat /\ f[i] \in Nat /\ f[i] = f[i - 1] + e.subchannels[i].words /\ f[i] <= f[n]
        /\ e.subchannels[i].words \in Nat
    <3>1. i - 1 \in 0..n /\ i \in 0..n /\ n \in 0..n /\ i <= n
      OBVIOUS
    <3> QED BY <1>0, <1>words, <3>1 DEF NumbersOf
  <2> PICK w \in Int : w = n + 3 + F0 + f[i - 1] + k
    BY <2>1
  <2>2. /\ After(e, n) + f[i - 1] + k = w
        /\ n + 3 <= w /\ w < FL0 + 2 /\ n + 3 + F0 + f[i - 1] <= w /\ w < n + 3 + F0 + f[i]
    <3> PICK t \in Nat : t = e.subchannels[i].words
      BY <2>1
    <3> PICK u \in Nat : u = f[i - 1]
      BY <2>1
    <3> PICK v \in Nat : v = f[n]
      BY <1>1
    <3>1. k \in Nat /\ k < t /\ f[i] = u + t /\ u + t <= v /\ w = n + 3 + F0 + u + k
      BY <2>1
    <3>2. w < n + 3 + F0 + (u + t) /\ n + 3 + F0 + u <= w /\ n + 3 <= w
      BY <3>1
    <3>3. w < FL0 + 2
      BY <1>l, <3>1, <3>2
    <3> QED BY <1>1, <3>1, <3>2, <3>3
  <2>3. StreamIs(i, w)
    <3> HIDE DEF StreamIs
    <3> QED BY <1>2, <2>2
  <2>4. ASSUME NEW j \in 1..n, StreamIs(j, w) PROVE j = i
    <3>1. n + 3 + F0 + f[j - 1] <= w /\ w < n + 3 + F0 + f[j]
      <4> HIDE DEF StreamIs
      <4> QED BY <1>2, <2>4
    <3>2. /\ f[j - 1] \in Nat /\ f[j] \in Nat
          /\ i < j => f[i] <= f[j - 1]
          /\ j < i => f[j] <= f[i - 1]
      <4>1. i - 1 \in 0..n /\ i \in 0..n /\ j - 1 \in 0..n /\ j \in 0..n
        OBVIOUS
      <4>2. (i < j => i <= j - 1) /\ (j < i => j <= i - 1)
        OBVIOUS
      <4> QED BY <1>0, <4>1, <4>2 DEF NumbersOf
    <3> QED BY <2>1, <2>2, <3>1, <3>2
  <2> HIDE DEF StreamIs
  <2>5. (CHOOSE j \in 1..n : StreamIs(j, w)) = i
    BY <2>3, <2>4
  <2>6. Ens!Eti!Content(e, 0, w) = [stream |-> e.subchannels[i].id, word |-> w - Ens!Eti!StreamAt(e, i)]
    BY <1>7, <2>2, <2>3, <2>5
  <2>7. w - Ens!Eti!StreamAt(e, i) = k
    <3>1. Ens!Eti!StreamAt(e, i) = n + 3 + F0 + f[i - 1]
      BY <1>0, <1>1 DEF NumbersOf
    <3> QED BY <2>1, <3>1
  <2> QED BY <2>2, <2>6, <2>7
<1> QED BY <1>3, <1>4, <1>5, <1>6, <1>8, <1>9 DEF ContentsOf

\* A reader that goes by the header finds every part of the frame.
LEMMA FrameReadsBack ==
    ASSUME NEW e, NEW n, NEW f, IsEnsemble(e, n, f), Ens!Eti!FrameSize(e) <= FrameBuffer \div 4
    PROVE  Ens!Eti!ReadsBack(e, 0)
<1>n. n \in Nat
    BY DEF IsEnsemble
<1> USE <1>n
<1>0. NumbersOf(e, n, f) /\ ContentsOf(e, n, f)
    BY FrameNumbers, FrameContents
<1> PICK F0 \in Nat : F0 = Fic(e) /\ F0 > 0
    BY <1>0 DEF NumbersOf
<1> PICK FL0 \in Nat : FL0 = Ens!Eti!FL(e)
    BY <1>0 DEF After, NumbersOf
<1>1. After(e, n) = n + 3 + F0 /\ FL0 = n + 1 + F0 + f[n] /\ f[n] \in Nat
    BY <1>0 DEF After, NumbersOf
<1> PICK eti : eti = Ens!Eti!Frame(e, 0)
    OBVIOUS
<1>2. \A w \in 0..(FL0 + 3) : eti[w] = Ens!Eti!Content(e, 0, w)
    BY DEF Ens!Eti!Frame, Ens!Eti!FrameSize
<1>3. eti[1].nst = n /\ eti[1].mid = Ens!Eti!MID(e.mode) /\ eti[1].fl = FL0
  <2>1. eti[1] = [fct |-> 0, nst |-> n, fp |-> 0, mid |-> Ens!Eti!MID(e.mode), fl |-> FL0]
    BY <1>0, <1>2 DEF ContentsOf
  <2> QED BY <2>1
<1>4. F0 = (IF eti[1].mid = 3 THEN 32 ELSE 24) /\ F0 = 8 * (IF e.mode = 3 THEN 4 ELSE 3)
    BY <1>0, <1>3 DEF NumbersOf, Ens!Eti!MID
<1>5. \A j \in 1..n : eti[j + 1].scid = e.subchannels[j].id /\ 2 * eti[j + 1].stl = e.subchannels[j].words
  <2>1. ASSUME NEW j \in 1..n
        PROVE  eti[j + 1].scid = e.subchannels[j].id /\ 2 * eti[j + 1].stl = e.subchannels[j].words
    <3>1. j + 1 \in 0..(FL0 + 3)
      BY <1>1
    <3>2. eti[j + 1] = [scid |-> e.subchannels[j].id, stl |-> e.subchannels[j].words \div 2]
      BY <1>0, <1>2, <3>1 DEF ContentsOf
    <3> QED BY <3>2 DEF IsEnsemble
  <2> QED BY <2>1
<1>6. Ens!Eti!EndOf(eti) = [eof |-> TRUE] /\ Ens!Eti!TistOf(eti) = [tist |-> 0]
  <2>1. FL0 + 2 \in 0..(FL0 + 3) /\ FL0 + 3 \in 0..(FL0 + 3) /\ 2 + FL0 = FL0 + 2 /\ 3 + FL0 = FL0 + 3
    OBVIOUS
  <2> QED BY <1>0, <1>2, <1>3, <2>1 DEF ContentsOf, Ens!Eti!EndOf, Ens!Eti!TistOf
<1>7. /\ DOMAIN Ens!Eti!FicOf(eti) = 0..(F0 - 1)
      /\ \A w \in {0, F0 - 1} : Ens!Eti!FicOf(eti)[w] = [fic |-> w]
  <2>1. Ens!Eti!FicOf(eti) = [w \in 0..(F0 - 1) |-> eti[n + 3 + w]]
    BY <1>3, <1>4 DEF Ens!Eti!FicOf
  <2>2. \A w \in 0..(F0 - 1) : eti[n + 3 + w] = [fic |-> w]
    <3>1. \A w \in 0..(F0 - 1) : n + 3 + w \in 0..(FL0 + 3)
      BY <1>1
    <3> QED BY <1>0, <1>2, <3>1 DEF ContentsOf
  <2>3. {0, F0 - 1} \subseteq 0..(F0 - 1)
    OBVIOUS
  <2> QED BY <2>1, <2>2, <2>3
<1>8. ASSUME NEW i \in 1..n
      PROVE  LET s == e.subchannels[i] IN
             /\ DOMAIN Ens!Eti!StreamOf(eti, s.id) = 0..(s.words - 1)
             /\ \A w \in {0, s.words - 1} :
                   Ens!Eti!StreamOf(eti, s.id)[w] = [stream |-> s.id, word |-> w]
  <2> PICK s : s = e.subchannels[i]
    OBVIOUS
  <2>1. s.words \in Nat /\ s.words > 0
    BY DEF IsEnsemble
  <2>2. (CHOOSE j \in 1..n : eti[j + 1].scid = s.id) = i
    <3>1. eti[i + 1].scid = s.id
      BY <1>5
    <3>2. \A j \in 1..n : e.subchannels[j].id = e.subchannels[i].id => j = i
      BY DEF IsEnsemble, IdsDiffer
    <3>3. \A j \in 1..n : eti[j + 1].scid = s.id => j = i
      BY <1>5, <3>2
    <3> QED BY <3>1, <3>3
  <2> DEFINE Rec(g) == g = [k \in 0..n |-> IF k = 0 THEN 0 ELSE g[k - 1] + 2 * eti[k + 1].stl]
  <2>3. Rec(f)
    <3> DEFINE g == [k \in 0..n |-> IF k = 0 THEN 0 ELSE f[k - 1] + 2 * eti[k + 1].stl]
    <3>1. \A k \in 0..n : g[k] = f[k]
      <4>1. ASSUME NEW k \in 0..n PROVE g[k] = f[k]
        <5>1. CASE k = 0
          BY <5>1 DEF IsEnsemble, IsSum
        <5>2. CASE k \in 1..n
          <6>1. g[k] = f[k - 1] + 2 * eti[k + 1].stl
            BY <5>2
          <6>2. 2 * eti[k + 1].stl = e.subchannels[k].words
            BY <1>5, <5>2
          <6>3. f[k] = f[k - 1] + e.subchannels[k].words
            BY <1>0, <5>2 DEF NumbersOf
          <6> QED BY <6>1, <6>2, <6>3
        <5> QED BY <5>1, <5>2
      <4> QED BY <4>1
    <3>2. f = [k \in 0..n |-> f[k]] /\ g = [k \in 0..n |-> g[k]]
      BY DEF IsEnsemble, IsSum
    <3>3. f = g
      <4> HIDE DEF g
      <4> QED BY <3>1, <3>2
    <3> QED BY <3>3
  <2>4. ASSUME NEW g, Rec(g) PROVE \A k \in 0..n : g[k] = f[k]
    <3>1. g[0] = 0
      BY <2>4
    <3>2. ASSUME NEW k \in 1..n PROVE g[k] = g[k - 1] + e.subchannels[k].words
      <4>1. k \in 0..n /\ k # 0
        OBVIOUS
      <4>2. g[k] = g[k - 1] + 2 * eti[k + 1].stl
        BY <2>4, <4>1
      <4>3. 2 * eti[k + 1].stl = e.subchannels[k].words
        BY <1>5
      <4> HIDE DEF Rec
      <4> QED BY <4>2, <4>3
    <3>3. IsSum(f, n, e.subchannels)
      BY DEF IsEnsemble
    <3> HIDE DEF Rec
    <3> QED BY <3>1, <3>2, <3>3, SumIsUnique
  <2>5. PICK g : Rec(g) /\ g = CHOOSE h : Rec(h)
    <3> HIDE DEF Rec
    <3> QED BY <2>3
  <2>6. g[i - 1] = f[i - 1]
    <3>1. i - 1 \in 0..n
      OBVIOUS
    <3> HIDE DEF Rec
    <3> QED BY <2>4, <2>5, <3>1
  <2> DEFINE first == 3 + n + F0 + g[i - 1]
  <2>7. Ens!Eti!StreamOf(eti, s.id) = [w \in 0..(2 * eti[i + 1].stl - 1) |-> eti[first + w]]
    <3> PICK nst : nst = eti[1].nst
      OBVIOUS
    <3> PICK length : length = IF eti[1].mid = 3 THEN 32 ELSE 24
      OBVIOUS
    <3> PICK j : j = CHOOSE x \in 1..nst : eti[x + 1].scid = s.id
      OBVIOUS
    <3> PICK l : l = CHOOSE h : h = [k \in 0..nst |-> IF k = 0 THEN 0 ELSE h[k - 1] + 2 * eti[k + 1].stl]
      OBVIOUS
    <3>1. Ens!Eti!StreamOf(eti, s.id) = [w \in 0..(2 * eti[j + 1].stl - 1) |-> eti[3 + nst + length + l[j - 1] + w]]
      BY DEF Ens!Eti!StreamOf
    <3>2. nst = n /\ length = F0
      BY <1>3, <1>4
    <3>3. j = i /\ l = g
      BY <2>2, <2>5, <3>2
    <3> QED BY <3>1, <3>2, <3>3
  <2>8. Ens!Eti!StreamOf(eti, s.id) = [w \in 0..(s.words - 1) |-> eti[first + w]]
    <3>1. 2 * eti[i + 1].stl = s.words
      BY <1>5
    <3> HIDE DEF first
    <3> QED BY <2>7, <3>1
  <2>9. f[i - 1] \in Nat /\ f[i] = f[i - 1] + s.words /\ f[i] <= f[n]
    <3>1. i - 1 \in 0..n /\ i \in 0..n /\ n \in 0..n /\ i <= n
      OBVIOUS
    <3> QED BY <1>0, <3>1 DEF NumbersOf
  <2>10. \A w \in 0..(s.words - 1) : eti[first + w] = [stream |-> s.id, word |-> w]
    <3>1. ASSUME NEW w \in 0..(s.words - 1) PROVE eti[first + w] = [stream |-> s.id, word |-> w]
      <4>1. first + w = After(e, n) + f[i - 1] + w /\ first + w \in 0..(FL0 + 3)
        BY <1>1, <2>1, <2>6, <2>9
      <4> HIDE DEF first
      <4> QED BY <1>0, <1>2, <4>1 DEF ContentsOf
    <3> QED BY <3>1
  <2>11. {0, s.words - 1} \subseteq 0..(s.words - 1)
    BY <2>1
  <2> HIDE DEF first
  <2> QED BY <2>8, <2>10, <2>11
<1>9. \A s \in Ens!ToSet(e.subchannels) :
          /\ DOMAIN Ens!Eti!StreamOf(eti, s.id) = 0..(s.words - 1)
          /\ \A w \in {0, s.words - 1} : Ens!Eti!StreamOf(eti, s.id)[w] = [stream |-> s.id, word |-> w]
  <2>1. DOMAIN e.subchannels = 1..n
    BY DEF IsEnsemble
  <2>2. \A s \in Ens!ToSet(e.subchannels) : \E i \in 1..n : s = e.subchannels[i]
    BY <2>1 DEF Ens!ToSet
  <2> QED BY <1>8, <2>2
<1> QED BY <1>4, <1>6, <1>7, <1>9 DEF Ens!Eti!ReadsBack, Ens!Eti!SameEnds, Ens!Eti!ToSet, Ens!ToSet

-----------------------------------------------------------------------------
(***************************************************************************)
(* The multiplex.  a[i] is the start address of the i-th subchannel, z[i]  *)
(* its size.                                                               *)
(***************************************************************************)
InOrder(n, a, z) ==
    \A i \in 1..n : a[i] \in Nat /\ \A j \in 1..n : i < j => a[i] + z[i] <= a[j]

IsChain(n, a, z) ==
    \A i \in 1..n : z[i] \in Nat /\ a[i] = IF i = 1 THEN 0 ELSE a[i - 1] + z[i - 1]

LEMMA OneAfterTheOther ==
    ASSUME NEW n \in Nat, NEW a, NEW z, IsChain(n, a, z) PROVE InOrder(n, a, z)
<1> USE DEF IsChain
<1> DEFINE S == {j \in 0..n : j > 0 => a[j] \in Nat}
<1>1. ASSUME NEW j \in 1..n, j - 1 \in S PROVE j \in S
  <2>1. CASE j = 1
    BY <2>1
  <2>2. CASE j \in 2..n
    <3>1. j - 1 \in 1..n /\ a[j] = a[j - 1] + z[j - 1]
      BY <2>2
    <3> QED BY <1>1, <3>1
  <2> QED BY <2>1, <2>2
<1>2. 0 \in S /\ \A j \in 1..n : j - 1 \in S => j \in S
  <2>1. 0 \in S
    OBVIOUS
  <2> HIDE DEF S
  <2> QED BY <1>1, <2>1
<1>3. \A j \in 1..n : a[j] \in Nat
  <2> HIDE DEF S
  <2>1. \A j \in 0..n : j \in S
    BY <1>2, Upto
  <2> USE DEF S
  <2> QED BY <2>1
<1>4. ASSUME NEW i \in 1..n PROVE \A j \in 1..n : i < j => a[i] + z[i] <= a[j]
  <2> DEFINE U == {j \in 0..n : j > 0 /\ i < j => a[i] + z[i] <= a[j]}
  <2>1. 0 \in U
    OBVIOUS
  <2>2. ASSUME NEW j \in 1..n, j - 1 \in U PROVE j \in U
    <3>1. CASE j <= i
      BY <3>1
    <3>2. CASE j > i
      <4>1. j - 1 \in 1..n /\ a[j] = a[j - 1] + z[j - 1]
        BY <3>2
      <4>2. /\ a[i] \in Nat /\ z[i] \in Nat /\ a[j] \in Nat
            /\ a[j - 1] \in Nat /\ z[j - 1] \in Nat
        BY <1>3, <4>1
      <4>3. CASE j - 1 = i
        BY <4>1, <4>2, <4>3
      <4>4. CASE j - 1 > i
        BY <2>2, <4>1, <4>2, <4>4
      <4> QED BY <3>2, <4>3, <4>4
    <3> QED BY <3>1, <3>2
  <2>3. \A j \in 1..n : j - 1 \in U => j \in U
    BY <2>2
  <2> HIDE DEF U
  <2>4. \A j \in 0..n : j \in U
    BY <2>1, <2>3, Upto
  <2> USE DEF U
  <2> QED BY <2>4
<1> QED BY <1>3, <1>4 DEF InOrder

\* The words of all streams, by the capacity that the last of them ends in.
LEMMA StreamsAreBounded ==
    ASSUME NEW n \in Nat, n > 0, NEW a, NEW z, InOrder(n, a, z), \A i \in 1..n : z[i] \in Nat,
           NEW f, NEW xs, IsSum(f, n, xs), \A i \in 1..n : xs[i].words \in Nat /\ 5 * xs[i].words <= 8 * z[i]
    PROVE  5 * f[n] <= 8 * (a[n] + z[n])
<1> DEFINE S == {i \in 0..n : i > 0 => 5 * f[i] <= 8 * (a[i] + z[i])}
<1>1. 0 \in S
    OBVIOUS
<1>2. ASSUME NEW i \in 1..n, i - 1 \in S PROVE i \in S
  <2>1. /\ f[i] = f[i - 1] + xs[i].words /\ f[i - 1] \in Nat /\ f[i] \in Nat
        /\ xs[i].words \in Nat /\ 5 * xs[i].words <= 8 * z[i] /\ a[i] \in Nat /\ z[i] \in Nat
    BY DEF IsSum, InOrder
  <2>2. CASE i = 1
    <3>1. f[i - 1] = 0
      BY <2>2 DEF IsSum
    <3> QED BY <2>1, <3>1
  <2>3. CASE i \in 2..n
    <3>1. i - 1 \in 1..n /\ i - 1 < i
      BY <2>3
    <3>2. a[i - 1] + z[i - 1] <= a[i] /\ a[i - 1] \in Nat /\ z[i - 1] \in Nat
      BY <3>1 DEF InOrder
    <3>3. 5 * f[i - 1] <= 8 * (a[i - 1] + z[i - 1])
      BY <1>2, <3>1
    <3> QED BY <2>1, <3>2, <3>3
  <2> QED BY <2>2, <2>3
<1>3. \A i \in 1..n : i - 1 \in S => i \in S
    BY <1>2
<1>4. n \in S
  <2> HIDE DEF S
  <2>1. \A i \in 0..n : i \in S
    BY <1>1, <1>3, Upto
  <2> QED BY <2>1
<1> QED BY <1>4

\* Identifiers that differ are no more than there are.
LEMMA DifferentIdsAreFew ==
    ASSUME NEW n \in Nat, NEW m \in Nat, NEW xs, DOMAIN xs = 1..n, IdsDiffer(xs),
           \A i \in 1..n : xs[i].id \in 0..(m - 1)
    PROVE  n <= m
<1> SUFFICES ASSUME n > m PROVE FALSE
    OBVIOUS
<1> DEFINE f == [i \in 1..n |-> xs[i].id]
<1>1. f \in [1..n -> 0..(m - 1)]
    OBVIOUS
<1>2. /\ IsFiniteSet(1..n) /\ Cardinality(1..n) = n
      /\ IsFiniteSet(0..(m - 1)) /\ Cardinality(0..(m - 1)) = m
  <2>1. /\ 0 \in Int /\ 1 \in Int /\ n \in Int /\ m - 1 \in Int
        /\ (IF 1 > n THEN 0 ELSE n - 1 + 1) = n
        /\ (IF 0 > m - 1 THEN 0 ELSE m - 1 - 0 + 1) = m
    OBVIOUS
  <2>2. IsFiniteSet(1..n) /\ Cardinality(1..n) = IF 1 > n THEN 0 ELSE n - 1 + 1
    BY <2>1, FS_Interval
  <2>3. IsFiniteSet(0..(m - 1)) /\ Cardinality(0..(m - 1)) = IF 0 > m - 1 THEN 0 ELSE m - 1 - 0 + 1
    BY <2>1, FS_Interval
  <2> QED BY <2>1, <2>2, <2>3
<1>3. Cardinality(0..(m - 1)) < Cardinality(1..n)
    BY <1>2
<1>4. \E x, y \in 1..n : x # y /\ f[x] = f[y]
  <2> HIDE DEF f
  <2> QED BY <1>1, <1>2, <1>3, FS_PigeonHole
<1> QED BY <1>4 DEF IdsDiffer

Start(i) == subchannels[i].startAddress
Size(i) == Ens!GetSizeCu(subchannels[i])

\* The subchannels of a multiplex that runs, in terms of their numbers.
IsMultiplex(n, a, z) ==
    /\ n \in Nat /\ n > 0 /\ DOMAIN subchannels = 1..n
    /\ \A i \in 1..n : /\ Start(i) = a[i] /\ Size(i) = z[i]
                       /\ a[i] \in Nat /\ z[i] \in Nat
                       /\ IF Ens!NoSuchLevel(subchannels[i]) THEN z[i] = 0
                          ELSE Fit(Words(subchannels[i]), z[i])
    /\ InOrder(n, a, z)
    /\ a[n] + z[n] <= Capacity

LEMMA RunningIsMultiplex ==
    ASSUME FitsInvariant, pc = "running" PROVE \E n, a, z : IsMultiplex(n, a, z)
<1>1. /\ IsSeq(subchannels) /\ Chained(subchannels) /\ Ens!CapacityOK
      /\ \A i \in DOMAIN subchannels : Sized(subchannels[i])
    BY DEF FitsInvariant, ReferencesInvariant, Shapes
<1> PICK n \in Nat : n = Len(subchannels)
    BY <1>1, SeqFacts
<1>2. DOMAIN subchannels = 1..n
    BY <1>1, SeqFacts
<1>3. n > 0
    BY <1>1, EmptySeq DEF Ens!CapacityOK, IsSeq
<1> PICK a : a = [i \in 1..n |-> Start(i)]
    OBVIOUS
<1> PICK z : z = [i \in 1..n |-> Size(i)]
    OBVIOUS
<1>4. \A i \in 1..n : Start(i) = a[i] /\ Size(i) = z[i]
    OBVIOUS
<1>5. \A i \in 1..n : /\ z[i] \in Nat
                      /\ IF Ens!NoSuchLevel(subchannels[i]) THEN z[i] = 0
                         ELSE Fit(Words(subchannels[i]), z[i])
    BY <1>1, <1>2, <1>4 DEF Sized, Size, Fit
<1>6. \A i \in 1..n : a[i] = IF i = 1 THEN 0 ELSE a[i - 1] + z[i - 1]
  <2>1. \A i \in 1..n : i = 1 \/ i - 1 \in 1..n
    OBVIOUS
  <2>2. \A i \in 1..n : Start(i) = IF i = 1 THEN 0 ELSE Start(i - 1) + Size(i - 1)
    BY <1>1, <1>2 DEF Chained, Start, Size
  <2> QED BY <1>4, <2>1, <2>2
<1>7. InOrder(n, a, z)
  <2>1. IsChain(n, a, z)
    BY <1>5, <1>6 DEF IsChain
  <2> QED BY <2>1, OneAfterTheOther
<1>8. a[n] + z[n] <= Capacity
  <2>1. Start(n) + Size(n) <= Capacity
    BY <1>1 DEF Ens!CapacityOK, Start, Size
  <2> QED BY <1>3, <1>4, <2>1
<1>9. IsMultiplex(n, a, z)
    BY <1>2, <1>3, <1>4, <1>5, <1>7, <1>8 DEF IsMultiplex, InOrder
<1> QED BY <1>9

LEMMA UnitsAreTheirOwn ==
    ASSUME Sensible, NEW n, NEW a, NEW z, IsMultiplex(n, a, z)
    PROVE  /\ \A s \in Ens!ToSet(subchannels) :
                 /\ Ens!CUs(s) \subseteq 0..(Capacity - 1)
                 /\ Ens!CUs(s) = {} <=> Ens!NoSuchLevel(s)
           /\ \A s, t \in Ens!ToSet(subchannels) : Ens!CUs(s) \intersect Ens!CUs(t) # {} => s = t
<1>1. /\ n \in Nat /\ n > 0 /\ DOMAIN subchannels = 1..n /\ InOrder(n, a, z)
      /\ a[n] + z[n] <= Capacity /\ Capacity \in Nat
    BY DEF IsMultiplex, Sensible
<1>2. \A i \in 1..n : /\ a[i] \in Nat /\ z[i] \in Nat
                      /\ z[i] = 0 <=> Ens!NoSuchLevel(subchannels[i])
                      /\ Ens!CUs(subchannels[i]) = a[i]..(a[i] + z[i] - 1)
    BY DEF IsMultiplex, Start, Size, Ens!CUs, Fit
<1>3. \A s \in Ens!ToSet(subchannels) : \E i \in 1..n : s = subchannels[i]
    BY <1>1 DEF Ens!ToSet
<1>4. \A i, j \in 1..n : i < j => a[i] + z[i] <= a[j]
    BY DEF IsMultiplex, InOrder
<1>5. ASSUME NEW i \in 1..n
      PROVE  /\ Ens!CUs(subchannels[i]) \subseteq 0..(Capacity - 1)
             /\ Ens!CUs(subchannels[i]) = {} <=> Ens!NoSuchLevel(subchannels[i])
  <2>2. a[i] + z[i] <= Capacity
    <3>1. CASE i = n
      BY <1>1, <3>1
    <3>2. CASE i < n
      <4>1. a[i] + z[i] <= a[n] /\ n \in 1..n
        BY <1>1, <1>4, <3>2
      <4> QED BY <1>1, <1>2, <4>1
    <3> QED BY <1>1, <3>1, <3>2
  <2> PICK x \in Nat, y \in Nat : x = a[i] /\ y = z[i]
    BY <1>2
  <2>3. /\ Ens!CUs(subchannels[i]) = x..(x + y - 1) /\ x + y <= Capacity
        /\ y = 0 <=> Ens!NoSuchLevel(subchannels[i])
    BY <1>2, <2>2
  <2>4. x..(x + y - 1) \subseteq 0..(Capacity - 1)
    BY <1>1, <2>3
  <2>5. x..(x + y - 1) = {} <=> y = 0
    <3>1. y = 0 => \A u \in x..(x + y - 1) : FALSE
      OBVIOUS
    <3>2. y # 0 => x \in x..(x + y - 1)
      OBVIOUS
    <3> QED BY <3>1, <3>2
  <2> QED BY <2>3, <2>4, <2>5
<1>6. ASSUME NEW i \in 1..n, NEW j \in 1..n, NEW u, u \in Ens!CUs(subchannels[i]), u \in Ens!CUs(subchannels[j])
      PROVE  i = j
  <2>1. u \in Int /\ a[i] <= u /\ u < a[i] + z[i] /\ a[j] <= u /\ u < a[j] + z[j]
    <3>1. /\ u \in a[i]..(a[i] + z[i] - 1) /\ u \in a[j]..(a[j] + z[j] - 1)
          /\ a[i] \in Nat /\ z[i] \in Nat /\ a[j] \in Nat /\ z[j] \in Nat
      BY <1>2, <1>6
    <3> QED BY <3>1
  <2>2. ~(i < j) /\ ~(j < i)
    BY <1>2, <1>4, <2>1
  <2> QED BY <2>2
<1> QED BY <1>3, <1>5, <1>6

LEMMA FiveEighths == \A x, c \in Nat : 5 * x <= 8 * c => x <= (8 * c) \div 5
<1> SUFFICES ASSUME NEW x \in Nat, NEW c \in Nat, 5 * x <= 8 * c PROVE x <= (8 * c) \div 5
    OBVIOUS
<1> PICK d \in Nat : d = (8 * c) \div 5
    OBVIOUS
<1>1. 8 * c < 5 * d + 5
    OBVIOUS
<1> QED BY <1>1

LEMMA HeaderAndStreams ==
    ASSUME NEW k \in Int, NEW m \in Int, NEW fic \in Int, NEW x \in Int, NEW c \in Int, NEW b \in Int,
           k <= m, fic <= 32, x <= c, 5 + 32 + m + c <= b
    PROVE  k + 3 + fic - 2 + x + 4 <= b
OBVIOUS

LEMMA FrameOfMultiplex ==
    ASSUME Sensible, FitsInvariant, pc = "running", NEW n, NEW a, NEW z, IsMultiplex(n, a, z),
           \A s \in Ens!ToSet(subchannels) : ~Ens!NoSuchLevel(s)
    PROVE  Ens!Eti!ReadsBack(Ens!Streams, 0)
<1>1. /\ n \in Nat /\ n > 0 /\ DOMAIN subchannels = 1..n /\ InOrder(n, a, z)
      /\ a[n] + z[n] <= Capacity /\ Capacity \in Nat
    BY DEF IsMultiplex, Sensible
<1>2. n = Len(subchannels)
  <2>1. Len(subchannels) \in Nat /\ DOMAIN subchannels = 1..Len(subchannels)
    BY SeqFacts DEF FitsInvariant, ReferencesInvariant, Shapes
  <2> QED BY <1>1, <2>1
<1> PICK e : e = Ens!Streams
    OBVIOUS
<1> PICK xs : xs = [i \in 1..n |-> [id |-> subchannels[i].id, words |-> Words(subchannels[i])]]
    OBVIOUS
<1>3. e.subchannels = xs
    BY <1>1 DEF Ens!Streams, Words
<1>4. \A i \in 1..n : xs[i].id = subchannels[i].id /\ xs[i].words = Words(subchannels[i])
    OBVIOUS
<1>5. \A i \in 1..n : /\ xs[i].words \in Nat /\ xs[i].words > 0
                      /\ 2 * (xs[i].words \div 2) = xs[i].words
                      /\ 5 * xs[i].words <= 8 * z[i] /\ z[i] \in Nat
  <2>1. \A i \in 1..n : ~Ens!NoSuchLevel(subchannels[i])
    BY <1>1 DEF Ens!ToSet
  <2> QED BY <1>4, <2>1 DEF IsMultiplex, Fit
<1>6. DOMAIN xs = 1..n /\ Len(xs) = n
  <2>1. DOMAIN xs = 1..n
    OBVIOUS
  <2> PICK X : X = {xs[i] : i \in 1..n}
    OBVIOUS
  <2>2. xs \in Seq(X)
    <3>1. xs \in [1..n -> X]
      OBVIOUS
    <3> QED BY <1>1, <3>1, SeqDef
  <2>3. Len(xs) \in Nat /\ DOMAIN xs = 1..Len(xs)
    BY <2>2, LenProperties
  <2> QED BY <1>1, <2>1, <2>3
<1> PICK f : IsSum(f, n, xs)
    BY <1>1, <1>5, SumExists
<1>7. IdsDiffer(subchannels)
    BY DEF FitsInvariant, ReferencesInvariant, Parsed
<1>8. IdsDiffer(xs)
    BY <1>1, <1>4, <1>6, <1>7 DEF IdsDiffer
<1>9. IsEnsemble(e, n, f)
    BY <1>1, <1>3, <1>5, <1>6, <1>8 DEF IsEnsemble
<1>10. n <= MaxIds
  <2>1. \A i \in 1..n : subchannels[i].id \in 0..(MaxIds - 1)
    BY <1>1 DEF FitsInvariant
  <2>2. MaxIds \in Nat
    BY DEF Sensible
  <2> QED BY <1>1, <1>7, <2>1, <2>2, DifferentIdsAreFew
<1>11. 5 * f[n] <= 8 * (a[n] + z[n])
  <2>1. \A i \in 1..n : z[i] \in Nat
    BY <1>5
  <2>2. \A i \in 1..n : xs[i].words \in Nat /\ 5 * xs[i].words <= 8 * z[i]
    BY <1>5
  <2> QED BY <1>1, <2>1, <2>2, StreamsAreBounded
<1>12. Ens!Eti!FrameSize(e) <= FrameBuffer \div 4
  <2>1. NumbersOf(e, n, f)
    BY <1>9, FrameNumbers
  <2> PICK F0 \in Nat : F0 = Fic(e) /\ F0 <= 32
    BY <2>1 DEF NumbersOf
  <2>2. Ens!Eti!FrameSize(e) = After(e, n) - 2 + f[n] + 4 /\ f[n] \in Nat
    BY <2>1 DEF NumbersOf, Ens!Eti!FrameSize
  <2>3. a[n] \in Nat /\ z[n] \in Nat
    BY <1>1 DEF IsMultiplex
  <2>4. 5 * f[n] <= 8 * Capacity
    <3> PICK x \in Nat, y \in Nat : x = f[n] /\ y = a[n] + z[n]
      BY <2>2, <2>3
    <3>1. 5 * x <= 8 * y /\ y <= Capacity /\ Capacity \in Nat
      BY <1>1, <1>11
    <3> QED BY <3>1
  <2>5. f[n] <= (8 * Capacity) \div 5
    BY <1>1, <2>2, <2>4, FiveEighths
  <2>6. MaxIds \in Nat /\ FrameBuffer \in Nat /\ 5 + 32 + MaxIds + (8 * Capacity) \div 5 <= FrameBuffer \div 4
    BY DEF Sensible
  <2> PICK c \in Int : c = (8 * Capacity) \div 5
    BY <1>1
  <2> PICK b \in Int : b = FrameBuffer \div 4
    BY <2>6
  <2> PICK x \in Nat : x = f[n]
    BY <2>2
  <2> PICK m \in Nat : m = MaxIds
    BY <2>6
  <2> PICK k \in Nat : k = n
    BY <1>1
  <2>7. k <= m /\ x <= c /\ 5 + 32 + m + c <= b
    BY <1>10, <2>5, <2>6
  <2>8. k + 3 + F0 - 2 + x + 4 <= b
    <3>1. k \in Int /\ m \in Int /\ F0 \in Int /\ x \in Int /\ F0 <= 32
      OBVIOUS
    <3> QED BY <2>7, <3>1, HeaderAndStreams
  <2> QED BY <2>2, <2>8 DEF After
<1> QED BY <1>9, <1>12, FrameReadsBack

(***************************************************************************)
(* When frames are made, the subchannels have capacity units of their own, *)
(* all of them in the multiplex, for every configuration that is Sensible; *)
(* those without any are those with a protection level that their profile  *)
(* does not have, and without such ones the frame fits its buffer, where a *)
(* reader who goes by the header finds every part, unless it is one of     *)
(* mode III that the carousel cannot fill (prepare_data_inputs, prepare    *)
(* and mux_frame).                                                         *)
(***************************************************************************)
THEOREM MultiplexAlwaysFits ==
    ASSUME Sensible PROVE EnsembleSpec => []MultiplexFits
<1>1. FitsInvariant => MultiplexFits
  <2> SUFFICES ASSUME FitsInvariant, pc = "running" PROVE MultiplexFits
    BY DEF MultiplexFits, Ens!MultiplexFits
  <2>1. PICK n, a, z : IsMultiplex(n, a, z)
    BY RunningIsMultiplex
  <2>2. (\A s \in Ens!ToSet(subchannels) : ~Ens!NoSuchLevel(s)) => Ens!Eti!ReadsBack(Ens!Streams, 0)
    BY <2>1, FrameOfMultiplex
  <2> QED BY <2>1, <2>2, UnitsAreTheirOwn DEF MultiplexFits, Ens!MultiplexFits
<1>2. FitsInvariant /\ [EnsembleNext]_allVars => FitsInvariant'
    BY FitsKept
<1> QED BY <1>1, <1>2, FitsStart, PTL DEF EnsembleSpec

-----------------------------------------------------------------------------
(***************************************************************************)
(* For every FIG, every list, every sequence of spaces and any number of   *)
(* changes meanwhile, a completed cycle has carried each entry once and in *)
(* whole, and receivers misread none but those of the mixed lists.  The    *)
(* sizes of the entries play no part, except for FIG 0/21, whose entries   *)
(* are cut where the space ends.                                           *)
(***************************************************************************)

\* The place of an entry in the walk.
Rank(i) == IF reversed THEN End - i ELSE i

ConfigOK ==
    /\ fig \in Figs /\ textControl \in BOOLEAN
    /\ N \in Nat /\ DOMAIN list = 1..N
    /\ \A i \in 1..N : list[i] \in Element /\ (fig \in InPieces => list[i].n >= 1)

\* A FIG whose iterator starts at the end is armed by its first cycle, whose first walk is
\* idle.
Armed == fig \in StartsAtEnd => cycles >= 1
Idle == ~Armed /\ (fig \in Alternating => half # LastHalf(fig))

PlaceOK ==
    /\ pos \in 1..End /\ piece \in Nat
    /\ half \in BOOLEAN /\ (fig \notin Alternating => half)
    /\ reversed \in BOOLEAN /\ (reversed => fig = "0/1")
    /\ Idle => pos = End
    /\ piece # 0 => /\ fig \in InPieces /\ pos < End
                    /\ piece < list[At].n /\ Takes(At)

\* A cycle that is complete has put the iterator back to where the next one begins.
CycleOK ==
    /\ filling \in BOOLEAN /\ complete \in BOOLEAN /\ cycles \in 0..2
    /\ filling => ~complete
    /\ complete => /\ pos = 1 /\ piece = 0 /\ cycles >= 1
                   /\ fig \in Alternating => half # LastHalf(fig)
    /\ fig = "0/21" => remaining \in Int

BookOK ==
    /\ wanted \subseteq 1..N /\ changed \subseteq 1..N
    /\ sent \in [1..N -> Nat]

\* The FIGs whose entries a receiver may misread.
Mixed == {"0/20", "0/24", "2/1", "2/5"}

MisreadOK == \A i \in malformed : i \in 1..N /\ MayMisread(i)

\* The header that is open is right for every entry that may still come, or, of FIG 0/20
\* and 0/24, it is that of an earlier entry.
HeaderFits(h) ==
    /\ fig = "0/21" => h \in [pd : {FALSE}, oe : BOOLEAN]
    /\ fig \in {"0/20", "0/24"} => \E j \in wanted : j < pos /\ h = Header(fig, list[j])
    /\ fig \notin {"0/20", "0/21", "0/24"} /\ fig \notin OwnHeader =>
          \A i \in 1..N : Matches(list[i], half) => h = Header(fig, list[i])

\* What has made the receiver lose its place among the entries up to i.
ShiftedBy(i) ==
    /\ fig \in Mixed
    /\ fig = "0/20" => \E j, k \in wanted : j <= i /\ k <= i /\ list[j].programme # list[k].programme
    /\ fig = "0/24" => \E j \in wanted : j <= i /\ ~list[j].programme
    /\ fig \in {"2/1", "2/5"} => \E j \in wanted : j <= i /\ list[j].alt # textControl

HeaderOK ==
    filling => /\ header = NoHeader \/ HeaderFits(header)
               /\ shifted => ShiftedBy(IF fig \in InPieces THEN pos ELSE pos - 1)

\* What has been sent of an entry when the walk has come to pos: all of it behind,
\* the pieces at pos, and in the second walk what the first one carried.
SentSoFar(i) ==
    IF i \in wanted /\ Matches(list[i], half)
    THEN IF Idle THEN 0
         ELSE IF Rank(i) < pos THEN Pieces(fig, list[i])
         ELSE IF Rank(i) = pos THEN piece ELSE 0
    ELSE IF /\ i \in wanted /\ fig \in Alternating /\ Armed
            /\ half = LastHalf(fig) /\ Matches(list[i], ~half)
         THEN Pieces(fig, list[i]) ELSE 0

SentOK == ~complete => \A i \in (1..N) \ changed : sent[i] = SentSoFar(i)
ExactOK ==
    complete => \A i \in (1..N) \ changed :
                    sent[i] = IF Carried(i) THEN Pieces(fig, list[i]) ELSE 0

IInv == ConfigOK /\ PlaceOK /\ CycleOK /\ BookOK /\ MisreadOK /\ HeaderOK
            /\ SentOK /\ ExactOK

-----------------------------------------------------------------------------
\* In an alternating FIG each entry belongs to one of the walks, in the others to
\* all of them.
LEMMA MatchesHalves ==
    ASSUME NEW e \in Element, NEW h \in BOOLEAN
    PROVE  /\ Matches(e, h) \in BOOLEAN
           /\ fig \in Alternating => (Matches(e, h) <=> ~Matches(e, ~h))
           /\ fig \notin Alternating => (Matches(e, h) <=> Matches(e, ~h))
<1>1. e.programme \in BOOLEAN /\ e.packet \in BOOLEAN
    BY DEF Element
<1> DEFINE P == e.programme
           K == e.packet
           Rest == /\ fig \in ProgrammeOnly => P
                   /\ fig \in DataOnly => ~P
                   /\ fig \in PacketOnly => K
<1>2. Matches(e, h) <=> /\ fig \in {"0/2", "0/8"} => P = h
                        /\ fig = "0/13" => K = ~h
                        /\ Rest
    BY DEF Matches
<1>3. Matches(e, ~h) <=> /\ fig \in {"0/2", "0/8"} => P = ~h
                         /\ fig = "0/13" => K = ~~h
                         /\ Rest
    BY DEF Matches
<1>4. fig \in Alternating => Rest
    BY DEF Alternating, ProgrammeOnly, DataOnly, PacketOnly
<1>5. P \in BOOLEAN /\ K \in BOOLEAN /\ h \in BOOLEAN
    BY <1>1
<1>6. Matches(e, h) \in BOOLEAN
    BY Zenon DEF Matches
<1>7. "0/2" # "0/13" /\ "0/8" # "0/13"
    OBVIOUS
<1> HIDE DEF P, K, Rest
<1> QED BY <1>2, <1>3, <1>4, <1>5, <1>6, <1>7, Zenon DEF Alternating

LEMMA Halves ==
    fig \in Alternating => /\ FirstHalf(fig) = ~LastHalf(fig)
                           /\ LastHalf(fig) \in BOOLEAN /\ FirstHalf(fig) \in BOOLEAN
BY DEF Alternating, FirstHalf, LastHalf

\* The pieces of an element are at least one.
LEMMA PiecesPositive ==
    ASSUME ConfigOK, NEW i \in 1..N
    PROVE  Pieces(fig, list[i]) \in Nat /\ Pieces(fig, list[i]) >= 1
<1>1. list[i] \in Element /\ list[i].n \in Nat
    BY DEF ConfigOK, Element
<1> QED BY <1>1 DEF ConfigOK, Pieces

LEMMA InitInv ==
    ASSUME Init
    PROVE  IInv
<1>1. PICK n \in Nat : list \in [1..n -> Kinds(fig)]
  <2>1. fig \in Figs /\ MaxItems(fig) \in Nat
    BY MaxItemsAssumption DEF Init
  <2> QED BY <2>1 DEF Init
<1>2. N = n /\ N \in Nat /\ DOMAIN list = 1..N
    BY <1>1, LenProperties DEF N
<1>3. ConfigOK
  <2>1. fig \in Figs /\ textControl \in BOOLEAN
    BY DEF Init
  <2>2. ASSUME NEW i \in 1..N
        PROVE  list[i] \in Element /\ (fig \in InPieces => list[i].n >= 1)
    BY <1>1, <1>2, <2>1, KindsAssumption
  <2> QED BY <1>2, <2>1, <2>2 DEF ConfigOK
<1>4. PlaceOK
  <2>1. pos \in 1..End /\ piece = 0 /\ reversed \in BOOLEAN
    <3>1. (pos = End \/ pos = 1) /\ piece = 0
      BY DEF Init
    <3>2. End \in Nat /\ End >= 1
      BY <1>2 DEF End
    <3>3. reversed \in BOOLEAN
      BY DEF Init
    <3> QED BY <3>1, <3>2, <3>3
  <2>3. (reversed => fig = "0/1") /\ (Idle => pos = End)
    BY DEF Init, Idle, Armed
  <2>2. half = FirstHalf(fig) /\ half \in BOOLEAN /\ (fig \notin Alternating => half)
    BY DEF Init, FirstHalf, Alternating
  <2> QED BY <2>1, <2>2, <2>3 DEF PlaceOK
<1>5. malformed = {} /\ complete = FALSE /\ filling = FALSE /\ cycles = 0 /\ remaining = 0
    BY Zenon DEF Init
<1>8. CycleOK /\ HeaderOK /\ ExactOK
  <2>1. cycles \in 0..2 /\ remaining \in Int
    BY <1>5
  <2> QED BY <1>5, <2>1, Zenon DEF CycleOK, HeaderOK, ExactOK
<1>9. MisreadOK
    BY <1>5 DEF MisreadOK
<1>6. BookOK
    BY <1>2 DEF Init, BookOK
<1>7. SentOK
  <2> SUFFICES ASSUME NEW i \in (1..N) \ changed
               PROVE  sent[i] = SentSoFar(i)
    BY DEF SentOK
  <2>1. i \in DOMAIN list /\ piece = 0 /\ sent[i] = 0 /\ half = FirstHalf(fig) /\ cycles = 0
    BY <1>2 DEF Init
  <2>2. ~Idle => ~(Rank(i) < pos)
    <3>1. ~Idle => pos = 1
      BY <2>1, Halves DEF Init, Idle, Armed
    <3> QED BY <1>2, <1>4, <2>1, <3>1 DEF Rank, End, PlaceOK
  <2>3. ~(fig \in Alternating /\ half = LastHalf(fig))
    BY <2>1, Halves
  <2> QED BY <2>1, <2>2, <2>3, Zenon DEF SentSoFar
<1> QED BY <1>3, <1>4, <1>5, <1>6, <1>7, <1>8, <1>9 DEF IInv

\* What the steps that leave the configuration alone keep.
LEMMA SameConfig ==
    ASSUME ConfigOK, UNCHANGED config
    PROVE  ConfigOK' /\ N' = N /\ End' = End
BY DEF ConfigOK, config, N, End

\* What a receiver may misread does not change either, since what the mixed FIGs have to
\* send does not.
LEMMA SameMisread ==
    ASSUME MisreadOK, UNCHANGED config, UNCHANGED wanted \/ fig \in Changeable,
           malformed' \subseteq malformed
    PROVE  MisreadOK'
<1>1. CASE UNCHANGED wanted
    BY <1>1 DEF MisreadOK, MayMisread, config, N
<1>2. CASE fig \in Changeable
  <2>1. fig \notin {"0/20", "0/24", "2/1", "2/5"}
    BY <1>2 DEF Changeable
  <2>2. malformed = {}
    BY <2>1 DEF MisreadOK, MayMisread
  <2> QED BY <2>2 DEF MisreadOK
<1> QED BY <1>1, <1>2

LEMMA BeginInv ==
    ASSUME IInv, NEW space \in Spaces, Begin(space)
    PROVE  IInv'
<1> USE DEF IInv, config
<1>1. ConfigOK' /\ N' = N /\ End' = End
    BY SameConfig DEF Begin
<1>2. ~filling /\ space \in Int /\ N \in Nat
  <2>1. space \in 0..30
    BY SpacesAssumption DEF FibSize
  <2> QED BY <2>1 DEF Begin, ConfigOK
<1>3. PlaceOK'
  <2>1. fig \in Restarting => pos' = 1 /\ piece' = 0 /\ half' = half /\ ~Idle'
    BY DEF Begin, Resume, PlaceOK, Restarting, InPieces, Idle, Armed, StartsAtEnd
  <2>2. fig \notin Restarting => UNCHANGED <<pos, piece, half, reversed, wanted, list, fig, cycles>>
    BY DEF Begin, Resume
  <2>3. CASE fig \in Restarting
    BY <1>1, <1>2, <2>1, <2>3 DEF Begin, PlaceOK, End
  <2>4. CASE fig \notin Restarting
    BY <1>1, <2>2, <2>4 DEF PlaceOK, At, Takes, Matches, End, Idle, Armed
  <2> QED BY <2>3, <2>4
<1>4. CycleOK'
  <2>1. /\ filling' \in BOOLEAN /\ complete' = FALSE
        /\ UNCHANGED cycles /\ remaining' = space
    BY <1>2 DEF Begin
  <2> QED BY <1>2, <2>1, Zenon DEF CycleOK
<1>5. MisreadOK' /\ HeaderOK' /\ ExactOK'
  <2>1. malformed' \subseteq malformed /\ UNCHANGED wanted
    BY DEF Begin
  <2>2. MisreadOK'
    BY <2>1, SameMisread DEF Begin
  <2> QED BY <2>2 DEF Begin, HeaderOK, ExactOK
<1>6. BookOK'
    BY <1>1 DEF Begin, BookOK, ConfigOK
<1>7. SentOK'
  <2> SUFFICES ASSUME NEW i \in (1..N) \ changed'
               PROVE  sent'[i] = SentSoFar(i)'
    BY <1>1 DEF SentOK
  <2>1. i \in 1..N /\ UNCHANGED <<fig, list, wanted, reversed, piece, half, cycles>>
    BY DEF Begin
  <2>2. CASE complete \/ fig \in Restarting
    <3>1. sent'[i] = 0
      BY <2>1, <2>2 DEF Begin, ConfigOK
    <3>2. pos' = 1 /\ piece' = 0
      BY <2>2 DEF Begin, Resume, CycleOK, PlaceOK, Restarting, InPieces
    <3>3. ~(Rank(i)' < pos')
      BY <1>1, <1>2, <1>3, <2>1, <3>2 DEF Rank, End, PlaceOK
    <3>4. ~(fig' \in Alternating /\ half' = LastHalf(fig'))
      BY <2>1, <2>2 DEF CycleOK, Restarting, Alternating
    <3> QED BY <3>1, <3>2, <3>3, <3>4, Zenon DEF SentSoFar
  <2>3. CASE ~complete /\ fig \notin Restarting
    <3>1. sent' = sent /\ changed' = changed /\ pos' = pos
      BY <2>1, <2>3 DEF Begin, Resume
    <3>2. SentSoFar(i)' = SentSoFar(i)
      BY <1>1, <2>1, <3>1 DEF SentSoFar, Rank, Matches, Idle, Armed
    <3> QED BY <2>1, <2>3, <3>1, <3>2 DEF SentOK
  <2> QED BY <2>2, <2>3
<1> QED BY <1>1, <1>3, <1>4, <1>5, <1>6, <1>7

LEMMA NoRoomInv ==
    ASSUME IInv, NoRoom
    PROVE  IInv'
<1> USE DEF IInv, config
<1>1. ConfigOK' /\ N' = N /\ End' = End
    BY SameConfig DEF NoRoom
<1>2. /\ filling /\ filling' = FALSE
      /\ UNCHANGED <<fig, list, textControl, wanted, reversed, pos, piece, half, remaining,
                     complete, cycles, sent, malformed, changed>>
    BY DEF NoRoom, Break, history, block
<1>3. PlaceOK'
    BY <1>1, <1>2 DEF PlaceOK, At, Takes, Matches, End, Idle, Armed
<1>4. CycleOK' /\ BookOK' /\ HeaderOK' /\ MisreadOK'
    BY <1>1, <1>2, SameMisread DEF CycleOK, BookOK, HeaderOK
<1>5. SentOK' /\ ExactOK'
    BY <1>1, <1>2 DEF SentOK, ExactOK, Armed, Idle, SentSoFar, Rank, Matches, CycleOK, Carried
<1> QED BY <1>1, <1>3, <1>4, <1>5

\* The element under the iterator is the one whose rank is pos.
LEMMA RankOfAt ==
    ASSUME ConfigOK, reversed \in BOOLEAN, pos \in 1..N
    PROVE  /\ At \in 1..N
           /\ \A i \in 1..N : Rank(i) \in 1..N /\ (Rank(i) = pos <=> i = At)
<1>1. N \in Nat
    BY DEF ConfigOK
<1>2. CASE reversed
    BY <1>1, <1>2 DEF At, Rank, End
<1>3. CASE ~reversed
    BY <1>1, <1>3 DEF At, Rank, End
<1> QED BY <1>2, <1>3

LEMMA SkipInv ==
    ASSUME IInv, Skip
    PROVE  IInv'
<1> USE DEF IInv, config
<1>1. ConfigOK' /\ N' = N /\ End' = End /\ N \in Nat
    BY SameConfig DEF Skip, ConfigOK
<1>2. /\ filling /\ ~Takes(At) /\ pos' = pos + 1
      /\ UNCHANGED <<fig, list, textControl, wanted, reversed, piece, half, filling, remaining,
                     header, shifted, complete, cycles, sent, malformed, changed>>
    BY DEF Skip, history, block
<1>3. pos \in 1..N /\ piece = 0 /\ reversed \in BOOLEAN
    BY <1>1, <1>2 DEF Skip, PlaceOK, End
<1>8. ~Idle /\ ~Idle' /\ (Armed' <=> Armed)
    BY <1>1, <1>2, <1>3 DEF PlaceOK, Idle, Armed, End
<1>4. PlaceOK'
    BY <1>1, <1>2, <1>3, <1>8 DEF PlaceOK, End
<1>5. CycleOK' /\ BookOK' /\ HeaderOK' /\ MisreadOK'
  <2>1. CycleOK' /\ BookOK' /\ MisreadOK'
    BY <1>1, <1>2, SameMisread DEF CycleOK, BookOK
  <2>2. ASSUME HeaderFits(header) PROVE HeaderFits(header)'
    <3>1. fig \in {"0/20", "0/24"} => \E j \in wanted : j < pos' /\ header = Header(fig, list[j])
      BY <1>2, <1>3, <2>2 DEF HeaderFits, BookOK
    <3>2. \A i \in 1..N : Matches(list[i], half)' <=> Matches(list[i], half)
      BY <1>2 DEF Matches
    <3>3. \A i : Header(fig, list[i])' = Header(fig, list[i])
      BY <1>2 DEF Header
    <3>4. UNCHANGED <<N, fig, header, wanted>>
      BY <1>1, <1>2
    <3> QED BY <2>2, <3>1, <3>2, <3>3, <3>4, Zenon DEF HeaderFits
  <2>3. ASSUME shifted PROVE ShiftedBy(IF fig \in InPieces THEN pos ELSE pos - 1)'
    <3>1. ShiftedBy(IF fig \in InPieces THEN pos ELSE pos - 1)
      BY <1>2, <2>3 DEF HeaderOK
    <3>2. ASSUME NEW a \in Int, NEW b \in Int, a <= b, ShiftedBy(a) PROVE ShiftedBy(b)
      BY <3>2 DEF ShiftedBy, BookOK
    <3>3. ShiftedBy(IF fig \in InPieces THEN pos' ELSE pos' - 1)
      BY <1>2, <1>3, <3>1, <3>2
    <3> QED BY <1>2, <3>3 DEF ShiftedBy
  <2> QED BY <1>2, <2>1, <2>2, <2>3 DEF HeaderOK
<1>6. SentOK'
  <2> SUFFICES ASSUME NEW i \in (1..N) \ changed
               PROVE  sent[i] = SentSoFar(i)'
    BY <1>1, <1>2 DEF SentOK
  <2>1. ~complete /\ sent[i] = SentSoFar(i)
    BY <1>2 DEF CycleOK, SentOK
  <2>2. Rank(i)' = Rank(i) /\ Rank(i) \in 1..N /\ (Rank(i) = pos => i = At)
    BY <1>1, <1>2, <1>3, RankOfAt DEF Rank
  <2>3. i \in wanted /\ Matches(list[i], half) => Rank(i) # pos
    BY <1>2, <2>2 DEF Takes
  <2>4. Rank(i) # pos => /\ Rank(i)' < pos' <=> Rank(i) < pos
                         /\ Rank(i)' = pos' => piece = 0
    BY <1>2, <1>3, <2>2
  <2>5. (Matches(list[i], half) <=> Matches(list[i], half)')
        /\ (Matches(list[i], ~half) <=> Matches(list[i], ~half)')
    BY <1>2 DEF Matches
  <2> QED BY <1>2, <1>3, <1>8, <2>1, <2>3, <2>4, <2>5, Zenon DEF SentSoFar
<1>7. ExactOK'
    BY <1>2 DEF ExactOK, CycleOK
<1> QED BY <1>1, <1>4, <1>5, <1>6, <1>7

LEMMA ChangeInv ==
    ASSUME IInv, NEW j \in DOMAIN list, Change(j)
    PROVE  IInv'
<1> USE DEF IInv, config
<1>1. ConfigOK' /\ N' = N /\ End' = End /\ j \in 1..N
    BY SameConfig DEF Change, ConfigOK
<1>2. /\ UNCHANGED <<fig, list, textControl, reversed, pos, piece, half, filling, remaining,
                     header, shifted, complete, cycles, sent, malformed>>
      /\ changed' = changed \union {j}
      /\ wanted' = IF j \in wanted THEN wanted \ {j} ELSE wanted \union {j}
      /\ fig \notin InPieces /\ fig \in Changeable /\ fig \notin Mixed
    BY DEF Change, place, block, Changeable, InPieces, Mixed
<1>3. PlaceOK'
    BY <1>1, <1>2 DEF PlaceOK, End, Idle, Armed
<1>4. CycleOK' /\ HeaderOK' /\ MisreadOK'
  <2>1. CycleOK' /\ MisreadOK'
    BY <1>1, <1>2, SameMisread DEF CycleOK
  <2>2. filling => ~shifted
    BY <1>2 DEF HeaderOK, ShiftedBy
  <2>3. HeaderFits(header) => HeaderFits(header)'
    <3>1. fig \notin {"0/20", "0/24"}
      BY <1>2 DEF Mixed
    <3>2. \A i \in 1..N : Matches(list[i], half)' <=> Matches(list[i], half)
      BY <1>2 DEF Matches
    <3>3. \A i : Header(fig, list[i])' = Header(fig, list[i])
      BY <1>2 DEF Header
    <3>4. UNCHANGED <<N, fig, header>>
      BY <1>1, <1>2
    <3> QED BY <3>1, <3>2, <3>3, <3>4, Zenon DEF HeaderFits
  <2> QED BY <1>2, <2>1, <2>2, <2>3 DEF HeaderOK
<1>5. BookOK'
    BY <1>1, <1>2 DEF BookOK
<1>6. ASSUME NEW i \in (1..N) \ changed'
      PROVE  /\ i \in (1..N) \ changed /\ (i \in wanted' <=> i \in wanted)
             /\ SentSoFar(i)' = SentSoFar(i)
  <2>1. i \in (1..N) \ changed /\ (i \in wanted' <=> i \in wanted)
    BY <1>2
  <2> QED BY <1>1, <1>2, <2>1 DEF SentSoFar, Rank, Matches, Idle, Armed
<1>7. SentOK'
    BY <1>1, <1>2, <1>6 DEF SentOK
<1>8. ExactOK'
    BY <1>1, <1>2, <1>6 DEF ExactOK, Matches, Carried
<1> QED BY <1>1, <1>3, <1>4, <1>5, <1>7, <1>8

\* At the end of the list the walk has carried its entries, and with the last walk
\* the cycle all of them.
LEMMA EndOfListInv ==
    ASSUME IInv, EndOfList
    PROVE  IInv'
<1> USE DEF IInv, config
<1>1. ConfigOK' /\ N' = N /\ End' = End /\ N \in Nat /\ End = N + 1
    BY SameConfig DEF EndOfList, ConfigOK, End
<1>2. /\ filling /\ ~complete /\ filling' = FALSE /\ pos = End /\ pos' = 1 /\ piece' = piece
      /\ UNCHANGED <<fig, list, textControl, wanted, remaining, header, sent, malformed, changed>>
    BY DEF EndOfList, CycleOK, block
<1>3. piece = 0
    BY <1>1, <1>2 DEF PlaceOK
<1>4. complete' = (fig \in Alternating => half = LastHalf(fig))
    BY DEF EndOfList
<1>5. half' = (IF fig \in Alternating THEN ~half ELSE half) /\ half' \in BOOLEAN /\ half \in BOOLEAN
    BY DEF EndOfList, PlaceOK
<1>6. reversed' \in BOOLEAN /\ reversed \in BOOLEAN /\ (reversed' => fig = "0/1")
    BY DEF EndOfList, PlaceOK
<1>7. cycles' \in 0..2 /\ (complete' => cycles' >= 1) /\ (~complete' => cycles' = cycles)
      /\ (complete' => (cycles' = 1 <=> cycles = 0)) /\ cycles \in 0..2
  <2>1. cycles' = IF complete' /\ cycles < 2 THEN cycles + 1 ELSE cycles
    BY DEF EndOfList
  <2> QED BY <2>1 DEF CycleOK
<1>8. PlaceOK'
  <2>1. pos' \in 1..End' /\ piece' = 0 /\ piece' \in Nat
    BY <1>1, <1>2, <1>3
  <2>2. fig' \notin Alternating => half'
    BY <1>2, <1>5 DEF PlaceOK
  <2>3. ~Idle'
    <3>1. CASE complete'
      BY <1>7, <3>1 DEF Idle, Armed
    <3>2. CASE ~complete'
      <4>1. fig \in Alternating /\ half # LastHalf(fig) /\ LastHalf(fig) \in BOOLEAN
        BY <1>4, <3>2, Halves
      <4>2. half' = LastHalf(fig)'
        BY <1>2, <1>5, <4>1 DEF LastHalf
      <4> QED BY <1>2, <4>1, <4>2 DEF Idle
    <3> QED BY <3>1, <3>2
  <2> QED BY <1>2, <1>5, <1>6, <2>1, <2>2, <2>3 DEF PlaceOK
<1>9. CycleOK'
  <2>1. complete' \in BOOLEAN
    BY <1>4
  <2>2. complete' => (fig' \in Alternating => half' # LastHalf(fig'))
    BY <1>2, <1>4, <1>5, Halves
  <2>3. fig' = "0/21" => remaining' \in Int
    BY <1>2 DEF CycleOK
  <2> QED BY <1>2, <1>3, <1>7, <2>1, <2>2, <2>3, Zenon DEF CycleOK
<1>10. BookOK' /\ HeaderOK' /\ MisreadOK'
    BY <1>1, <1>2, SameMisread DEF BookOK, HeaderOK
<1>11. ASSUME NEW i \in (1..N) \ changed
       PROVE  sent[i] = IF \/ i \in wanted /\ Matches(list[i], half) /\ ~Idle
                           \/ /\ i \in wanted /\ fig \in Alternating /\ Armed
                              /\ half = LastHalf(fig) /\ Matches(list[i], ~half)
                        THEN Pieces(fig, list[i]) ELSE 0
  <2>1. sent[i] = SentSoFar(i)
    BY <1>2, <1>11 DEF SentOK
  <2>2. Rank(i) < pos
    BY <1>1, <1>2, <1>6 DEF Rank
  <2>3. i \in 1..N /\ list[i] \in Element
    BY DEF ConfigOK
  <2>4. fig \in Alternating => (Matches(list[i], half) <=> ~Matches(list[i], ~half))
    BY <1>5, <2>3, MatchesHalves
  <2> QED BY <2>1, <2>2, <2>4, Zenon DEF SentSoFar
<1>12. ASSUME NEW i \in 1..N
       PROVE  /\ Matches(list[i], TRUE)' <=> Matches(list[i], TRUE)
              /\ Matches(list[i], FALSE)' <=> Matches(list[i], FALSE)
              /\ fig \in Alternating => (Matches(list[i], half) <=> ~Matches(list[i], ~half))
              /\ fig \notin Alternating => (Matches(list[i], half) <=> Matches(list[i], ~half))
              /\ Matches(list[i], half) \in BOOLEAN
  <2>1. list[i] \in Element
    BY DEF ConfigOK
  <2>2. UNCHANGED <<fig, list>>
    BY <1>2
  <2>3. /\ Matches(list[i], TRUE)' <=> Matches(list[i], TRUE)
        /\ Matches(list[i], FALSE)' <=> Matches(list[i], FALSE)
    BY <2>2 DEF Matches
  <2> QED BY <1>5, <2>1, <2>3, MatchesHalves
<1>13. SentOK'
  <2> SUFFICES ASSUME ~complete', NEW i \in (1..N) \ changed
               PROVE  sent[i] = SentSoFar(i)'
    BY <1>1, <1>2 DEF SentOK
  <2>1. fig \in Alternating /\ half = ~LastHalf(fig) /\ half' = LastHalf(fig) /\ half' = ~half
    <3>1. fig \in Alternating /\ half # LastHalf(fig) /\ LastHalf(fig) \in BOOLEAN
      BY <1>4, Halves
    <3>2. half' = ~half
      BY <1>5, <3>1
    <3> QED BY <1>5, <3>1, <3>2
  <2>2. (Armed' <=> Armed) /\ ~Idle' /\ (Idle <=> ~Armed)
    BY <1>2, <1>5, <1>7, <2>1 DEF Armed, Idle, LastHalf
  <2>3. sent[i] = IF i \in wanted /\ Matches(list[i], half) /\ Armed
                  THEN Pieces(fig, list[i]) ELSE 0
    <3>1. half # LastHalf(fig)
      BY <1>5, <2>1
    <3> QED BY <1>11, <2>2, <3>1
  <2>4. ~(Rank(i)' < pos')
    BY <1>1, <1>2, <1>6 DEF Rank
  <2>5. /\ Matches(list[i], half)' <=> ~Matches(list[i], half)
        /\ Matches(list[i], ~half)' <=> Matches(list[i], half)
    BY <1>2, <1>5, <1>12, <2>1 DEF Matches
  <2>7. half' = LastHalf(fig)' /\ fig' \in Alternating
    BY <1>2, <2>1 DEF LastHalf
  <2>6. SentSoFar(i)' = IF i \in wanted /\ Matches(list[i], half) /\ Armed
                        THEN Pieces(fig, list[i]) ELSE 0
    BY <1>2, <1>3, <2>2, <2>4, <2>5, <2>7, Zenon DEF SentSoFar
  <2> QED BY <2>3, <2>6
<1>14. ExactOK'
  <2> SUFFICES ASSUME complete', NEW i \in (1..N) \ changed
               PROVE  sent[i] = IF Carried(i)' THEN Pieces(fig, list[i]) ELSE 0
    BY <1>1, <1>2 DEF ExactOK
  <2> DEFINE First == fig \in StartsAtEnd /\ cycles' = 1
  <2>1. First <=> ~Armed
    BY <1>7 DEF Armed
  <2>2. fig \in Alternating => half = LastHalf(fig) /\ ~Idle
    BY <1>4 DEF Idle
  <2>3. fig \notin Alternating => (Idle <=> First)
    BY <2>1 DEF Idle
  <2>4. \A g \in BOOLEAN : Matches(list[i], g)' <=> Matches(list[i], g)
    BY <1>2 DEF Matches
  <2>5. Carried(i)' <=> /\ i \in wanted
                        /\ \E g \in BOOLEAN :
                              /\ Matches(list[i], g)
                              /\ First => (fig \in Alternating /\ g = LastHalf(fig))
    <3>1. UNCHANGED <<fig, wanted>> /\ LastHalf(fig)' = LastHalf(fig)
      BY <1>2 DEF LastHalf
    <3>2. Carried(i)' <=>
            /\ i \in wanted'
            /\ \E g \in BOOLEAN :
                  /\ Matches(list[i], g)'
                  /\ (fig' \in StartsAtEnd /\ cycles' = 1)
                        => (fig' \in Alternating /\ g = LastHalf(fig)')
      BY DEF Carried
    <3> QED BY <2>4, <3>1, <3>2, Zenon
  <2>6. (\E g \in BOOLEAN : Matches(list[i], g))
           <=> Matches(list[i], half) \/ (fig \in Alternating /\ Matches(list[i], ~half))
    <3>1. \A g \in BOOLEAN : g = half \/ g = ~half
      BY <1>5
    <3>2. half \in BOOLEAN /\ (~half) \in BOOLEAN
      BY <1>5
    <3> QED BY <1>12, <3>1, <3>2
  <2> HIDE DEF First
  <2>7. CASE First /\ fig \in Alternating
    <3>1. Carried(i)' <=> i \in wanted /\ Matches(list[i], half)
      BY <1>5, <2>2, <2>5, <2>7, Zenon
    <3>2. sent[i] = IF i \in wanted /\ Matches(list[i], half) THEN Pieces(fig, list[i]) ELSE 0
      BY <1>11, <2>1, <2>2, <2>7, Zenon
    <3> QED BY <3>1, <3>2, Zenon
  <2>8. CASE First /\ fig \notin Alternating
    <3>1. ~Carried(i)'
      BY <2>5, <2>8, Zenon
    <3>2. sent[i] = 0
      BY <1>11, <2>3, <2>8, Zenon
    <3> QED BY <3>1, <3>2, Zenon
  <2>9. CASE ~First
    <3>1. Armed /\ ~Idle
      BY <2>1, <2>9 DEF Idle
    <3>2. Carried(i)' <=> i \in wanted /\ (\E g \in BOOLEAN : Matches(list[i], g))
      BY <2>5, <2>9, Zenon
    <3> QED BY <1>11, <2>2, <2>6, <3>1, <3>2, Zenon
  <2> QED BY <2>7, <2>8, <2>9
<1> QED BY <1>1, <1>8, <1>9, <1>10, <1>13, <1>14

\* With room for one frequency, FIG 0/21 puts at least one, and never more than the
\* entry still has; the others put one piece.
LEMMA BatchFits ==
    ASSUME IInv, filling, pos < End, Takes(At), HasRoom(list[At]),
           NEW room, room = remaining - (IF NewHeader(list[At]) THEN 2 ELSE 0)
    PROVE  LET k == Batch(fig, list[At], piece, room)
           IN  k \in Nat /\ k >= 1 /\ piece + k <= Pieces(fig, list[At])
<1> USE DEF IInv
<1> DEFINE e == list[At]
           k == Batch(fig, e, piece, room)
<1>1. At \in 1..N /\ e \in Element /\ e.n \in Nat /\ piece \in Nat
  <2>1. N \in Nat /\ pos \in 1..N /\ reversed \in BOOLEAN /\ piece \in Nat
    BY DEF ConfigOK, PlaceOK, End
  <2>2. At \in 1..N
    BY <2>1, RankOfAt
  <2>3. e \in Element
    BY <2>2 DEF ConfigOK
  <2> QED BY <2>1, <2>2, <2>3 DEF Element
<1>2. piece < Pieces(fig, e) /\ Pieces(fig, e) \in Nat
    BY <1>1, PiecesPositive DEF PlaceOK, Pieces
<1>3. CASE fig # "0/21"
  <2>1. k = 1
    BY <1>3 DEF Batch
  <2> QED BY <1>1, <1>2, <2>1
<1>4. CASE fig = "0/21"
  <2> DEFINE W == Frequency(e)
             H == ListHeader(e)
             P == PerList(e)
  <2>1. W \in {1, 2, 3} /\ H \in {5, 6} /\ P \in {2, 3, 7}
    BY DEF Frequency, ListHeader, PerList
  <2>2. room \in Int /\ 2 + H + W <= room
    <3>1. remaining \in Int
      BY <1>4 DEF CycleOK
    <3>2. Needs(e) <= remaining /\ Needs(e) = 2 + H + W + (IF NewHeader(e) THEN 2 ELSE 0)
      BY <1>4 DEF HasRoom, Needs, Required
    <3> HIDE DEF e, W, H
    <3>3. CASE NewHeader(e)
      BY <2>1, <3>1, <3>2, <3>3 DEF e
    <3>4. CASE ~NewHeader(e)
      BY <2>1, <3>1, <3>2, <3>4 DEF e
    <3> QED BY <3>3, <3>4
  <2>3. Pieces(fig, e) = e.n
    BY <1>4 DEF Pieces, InPieces
  <2>4. k = Lesser(Lesser(P, e.n - piece), (room - H) \div W)
    BY <1>4 DEF Batch
  <2> HIDE DEF e, k, W, H, P
  <2>5. (room - H) \div W \in Int /\ (room - H) \div W >= 1
    <3>1. CASE W = 1
      BY <2>1, <2>2, <3>1
    <3>2. CASE W = 2
      BY <2>1, <2>2, <3>2
    <3>3. CASE W = 3
      BY <2>1, <2>2, <3>3
    <3> QED BY <2>1, <3>1, <3>2, <3>3
  <2>6. PICK q \in Int : q = (room - H) \div W /\ q >= 1
    BY <2>5
  <2>7. k \in Int /\ k >= 1 /\ k <= e.n - piece
    BY <1>1, <1>2, <2>1, <2>3, <2>4, <2>6 DEF Lesser
  <2> QED BY <1>1, <2>3, <2>7 DEF e, k
<1> QED BY <1>3, <1>4

\* Entries of one walk ask for the same header, but for FIG 0/20, 0/21 and 0/24 and the FIGs
\* that write a header for each.
LEMMA SameHeader ==
    ASSUME ConfigOK, half \in BOOLEAN, NEW i \in 1..N, NEW j \in 1..N,
           Matches(list[i], half), Matches(list[j], half),
           fig \notin {"0/20", "0/21", "0/24"}, fig \notin OwnHeader
    PROVE  Header(fig, list[i]) = Header(fig, list[j])
<1> DEFINE a == list[i]
           b == list[j]
<1>1. a \in Element /\ b \in Element /\ i \in DOMAIN list /\ j \in DOMAIN list
    BY DEF ConfigOK
<1>2. /\ a.programme \in BOOLEAN /\ b.programme \in BOOLEAN
      /\ a.packet \in BOOLEAN /\ b.packet \in BOOLEAN
      /\ a.alt \in BOOLEAN /\ b.alt \in BOOLEAN
    BY <1>1 DEF Element
<1>3. fig \in {"0/2", "0/8", "0/8 data"} => a.programme = b.programme
  <2>1. CASE fig \in {"0/2", "0/8"}
    BY <1>2, <2>1 DEF Matches
  <2>2. CASE fig = "0/8 data"
    BY <1>2, <2>2 DEF Matches, DataOnly
  <2> QED BY <2>1, <2>2
<1>4. fig = "0/13" => a.packet = b.packet
    BY <1>2 DEF Matches
<1>6. fig \notin {"1/4", "2/4"}
    BY DEF OwnHeader
<1> HIDE DEF a, b
<1>7. Header(fig, a).pd = Header(fig, b).pd
    BY <1>2, <1>3, <1>4, <1>6 DEF Header
<1>8. Header(fig, a).oe = Header(fig, b).oe
    BY <1>2 DEF Header
<1> QED BY <1>7, <1>8 DEF Header, a, b

\* Whether the header is new or already there, it is the one the entry needs, but for FIG
\* 0/20 and 0/24.
LEMMA RightHeader ==
    ASSUME ConfigOK, half \in BOOLEAN, HeaderOK, filling, NEW j \in 1..N, Matches(list[j], half),
           fig \notin {"0/20", "0/24"}, NEW h, h = IF NewHeader(list[j]) THEN Header(fig, list[j]) ELSE header
    PROVE  h = Header(fig, list[j]) /\ HeaderFits(h)
<1> DEFINE e == list[j]
<1>1. e \in Element /\ e.alt \in BOOLEAN
    BY DEF ConfigOK, Element
<1>2. h = Header(fig, e)
  <2>1. CASE NewHeader(e)
    BY <2>1
  <2>2. CASE ~NewHeader(e)
    <3>1. HeaderFits(header) /\ h = header /\ fig \notin OwnHeader
      BY <2>2 DEF NewHeader, HeaderOK
    <3>2. CASE fig = "0/21"
      <4>1. header \in [pd : {FALSE}, oe : BOOLEAN] /\ header.oe = e.alt
        BY <2>2, <3>1, <3>2 DEF HeaderFits, NewHeader
      <4>2. Header(fig, e) = [pd |-> FALSE, oe |-> e.alt]
        BY <1>1, <3>2 DEF Header
      <4> HIDE DEF e
      <4> QED BY <3>1, <4>1, <4>2 DEF e
    <3>3. CASE fig # "0/21"
      BY <3>1, <3>3 DEF HeaderFits
    <3> QED BY <3>2, <3>3
  <2> QED BY <2>1, <2>2
<1>3. fig = "0/21" => Header(fig, e) \in [pd : {FALSE}, oe : BOOLEAN]
    BY <1>1 DEF Header
<1>4. ASSUME fig \notin {"0/20", "0/21", "0/24"}, fig \notin OwnHeader, NEW i \in 1..N, Matches(list[i], half)
      PROVE  Header(fig, e) = Header(fig, list[i])
    BY <1>4, SameHeader
<1> HIDE DEF e
<1> QED BY <1>2, <1>3, <1>4 DEF HeaderFits, e

\* The length in front of an entry, and its format, are right but for the data services of
\* FIG 0/24, and for labels with another control field than the ensemble label.
LEMMA RightLength ==
    ASSUME ConfigOK, NEW j \in 1..N, NEW p, NEW k
    PROVE  \/ Advance(fig, list[j], p, k, textControl) = Announced(fig, list[j], p, k, textControl)
           \/ fig = "0/24" /\ ~list[j].programme
           \/ fig \in {"2/1", "2/5"} /\ list[j].alt # textControl
<1> DEFINE e == list[j]
<1>1. e \in Element /\ e.n \in Nat /\ e.programme \in BOOLEAN /\ j \in DOMAIN list
    BY DEF ConfigOK, Element
<1>2. CASE fig = "0/24" /\ e.programme
  <2>1. IdSize(e) = 2
    BY <1>2 DEF IdSize
  <2> QED BY <1>1, <1>2, <2>1 DEF Advance, Announced
<1>3. CASE fig \in {"2/1", "2/5"} /\ e.alt = textControl
  <2>1. Advance(fig, e, p, k, textControl) = EntrySize(fig, e, p, e.alt)
    BY <1>3 DEF Advance
  <2>2. Announced(fig, e, p, k, textControl) = EntrySize(fig, e, p, textControl)
    BY <1>3 DEF Announced
  <2> QED BY <1>3, <2>1, <2>2, Zenon
<1>4. CASE fig \notin {"0/24", "2/1", "2/5"}
    BY <1>4 DEF Announced
<1> QED BY <1>1, <1>2, <1>3, <1>4

\* In the lists of the mixed FIGs, what is misread is one of the entries of MayMisread, and
\* what shifts the receiver stands at or before the entry.
LEMMA WhatIsMisread ==
    ASSUME IInv, filling, pos \in 1..N, Takes(At), fig \in Mixed, NEW h, NEW k, NEW found, NEW fits,
           h = IF NewHeader(list[At]) THEN Header(fig, list[At]) ELSE header,
           found <=> (shifted => NewHeader(list[At]) /\ fig \notin OwnHeader),
           fits <=> Advance(fig, list[At], piece, k, textControl)
                      = Announced(fig, list[At], piece, k, textControl)
    PROVE  /\ (found /\ h = Header(fig, list[At]) /\ fits) \/ MayMisread(At)
           /\ (found /\ h.pd = Header(fig, list[At]).pd /\ fits) \/ ShiftedBy(At)
<1> DEFINE e == list[At]
<1>1. At = pos /\ pos \in wanted /\ pos \in 1..N /\ wanted \subseteq 1..N
  <2>1. ~reversed
    BY DEF IInv, PlaceOK, Mixed
  <2> QED BY <2>1 DEF At, Takes, IInv, BookOK
<1>2. \A i \in 1..N : list[i].programme \in BOOLEAN /\ list[i].alt \in BOOLEAN
    BY DEF IInv, ConfigOK, Element
<1>3. \/ fits
      \/ fig = "0/24" /\ ~e.programme
      \/ fig \in {"2/1", "2/5"} /\ e.alt # textControl
  <2>1. ConfigOK /\ At \in 1..N
    BY <1>1 DEF IInv
  <2>2. \/ Advance(fig, list[At], piece, k, textControl) = Announced(fig, list[At], piece, k, textControl)
        \/ fig = "0/24" /\ ~list[At].programme
        \/ fig \in {"2/1", "2/5"} /\ list[At].alt # textControl
    BY <2>1, RightLength
  <2> QED BY <2>2, Zenon
<1>4. NewHeader(e) \/ (HeaderFits(header) /\ h = header)
    BY DEF IInv, HeaderOK, NewHeader
<1>5. shifted => ShiftedBy(IF fig \in InPieces THEN pos ELSE pos - 1)
    BY DEF IInv, HeaderOK
<1>6. NewHeader(e) => h = Header(fig, e)
    OBVIOUS
<1>7. CASE fig = "0/20"
  <2>1. fits /\ fig \notin OwnHeader /\ fig \notin InPieces
    BY <1>3, <1>7 DEF OwnHeader, InPieces
  <2>2. CASE NewHeader(e)
    BY <1>6, <2>1, <2>2
  <2>3. CASE ~NewHeader(e)
    <3>1. PICK j \in wanted : j < pos /\ h = Header(fig, list[j])
      BY <1>4, <1>7, <2>3 DEF HeaderFits
    <3>2. list[j].programme = e.programme => h = Header(fig, e)
      BY <1>7, <3>1 DEF Header
    <3>3. shifted => \E a, b \in wanted : a <= pos - 1 /\ b <= pos - 1
                                         /\ list[a].programme # list[b].programme
      BY <1>5, <1>7, <2>1 DEF ShiftedBy
    <3>4. shifted => MayMisread(At) /\ ShiftedBy(At)
      <4> SUFFICES ASSUME shifted PROVE MayMisread(At) /\ ShiftedBy(At)
        OBVIOUS
      <4>1. PICK a \in wanted, b \in wanted : a <= pos - 1 /\ b <= pos - 1
                                            /\ list[a].programme # list[b].programme
        BY <3>3
      <4>2. a < pos /\ b < pos /\ a <= pos /\ b <= pos
        BY <1>1, <4>1
      <4>3. list[a].programme # e.programme \/ list[b].programme # e.programme
        BY <4>1
      <4>4. MayMisread(At)
        BY <1>1, <1>7, <4>2, <4>3 DEF MayMisread
      <4> QED BY <1>1, <1>7, <4>1, <4>2, <4>4 DEF ShiftedBy, Mixed
    <3>5. list[j].programme # e.programme => MayMisread(At) /\ ShiftedBy(At)
      <4>1. j <= pos /\ pos <= pos
        BY <1>1, <3>1
      <4> QED BY <1>1, <1>7, <3>1, <4>1 DEF MayMisread, ShiftedBy, Mixed
    <3> QED BY <2>1, <3>2, <3>4, <3>5
  <2> QED BY <2>2, <2>3
<1>8. CASE fig = "0/24"
  <2>1. fig \notin OwnHeader /\ fig \notin InPieces /\ (e.alt => NewHeader(e))
    BY <1>8 DEF OwnHeader, InPieces, NewHeader
  <2>2. CASE ~e.programme
    <3>1. pos <= pos
      BY <1>1
    <3> QED BY <1>1, <1>8, <2>2, <3>1 DEF MayMisread, ShiftedBy, Mixed
  <2>3. CASE e.programme /\ NewHeader(e)
    BY <1>3, <1>6, <1>8, <2>1, <2>3
  <2>4. CASE e.programme /\ ~NewHeader(e)
    <3>1. PICK j \in wanted : j < pos /\ h = Header(fig, list[j])
      BY <1>4, <1>8, <2>4 DEF HeaderFits
    <3>2. fits /\ ~e.alt
      BY <1>3, <1>8, <2>1, <2>4
    <3>3. list[j].programme = e.programme => h.pd = Header(fig, e).pd
      <4>1. \A a, b : a.programme = b.programme => Header("0/24", a).pd = Header("0/24", b).pd
        BY DEF Header
      <4> QED BY <1>8, <3>1, <4>1, Zenon
    <3>4. list[j].programme = e.programme /\ list[j].alt = e.alt => h = Header(fig, e)
      BY <1>8, <3>1 DEF Header
    <3>5. shifted => \E a \in wanted : a <= pos - 1 /\ ~list[a].programme
      BY <1>5, <1>8, <2>1 DEF ShiftedBy
    <3>6. shifted => MayMisread(At) /\ ShiftedBy(At)
      <4> SUFFICES ASSUME shifted PROVE MayMisread(At) /\ ShiftedBy(At)
        OBVIOUS
      <4>1. PICK a \in wanted : a <= pos - 1 /\ ~list[a].programme
        BY <3>5
      <4>2. a < pos /\ a <= pos
        BY <1>1, <4>1
      <4> QED BY <1>1, <1>8, <3>2, <4>1, <4>2 DEF MayMisread, ShiftedBy, Mixed
    <3>7. j \in 1..N /\ j <= pos /\ list[j].programme \in BOOLEAN /\ list[j].alt \in BOOLEAN
          /\ e.programme \in BOOLEAN /\ e.alt \in BOOLEAN
      BY <1>1, <1>2, <3>1
    <3>8. list[j].programme # e.programme => ~list[j].programme
      BY <2>4, <3>7
    <3>9. list[j].alt # e.alt => list[j].alt
      BY <3>2, <3>7
    <3>10. list[j].programme # e.programme => MayMisread(At) /\ ShiftedBy(At)
      BY <1>1, <1>8, <3>1, <3>2, <3>7, <3>8 DEF MayMisread, ShiftedBy, Mixed
    <3>11. list[j].alt # e.alt => MayMisread(At)
      BY <1>1, <1>8, <3>1, <3>2, <3>9 DEF MayMisread
    <3> QED BY <3>2, <3>3, <3>4, <3>6, <3>10, <3>11
  <2> QED BY <2>2, <2>3, <2>4
<1>9. CASE fig \in {"2/1", "2/5"}
  <2>1. h = Header(fig, e) /\ fig \in InPieces
    BY <1>9 DEF NewHeader, OwnHeader, InPieces
  <2>2. (shifted \/ ~fits) => \E j \in wanted : j <= pos /\ list[j].alt # textControl
    <3>1. shifted => \E j \in wanted : j <= pos /\ list[j].alt # textControl
      BY <1>5, <1>9, <2>1 DEF ShiftedBy
    <3>2. ~fits => e.alt # textControl
      BY <1>3, <1>9
    <3>3. pos <= pos
      BY <1>1
    <3> QED BY <1>1, <3>1, <3>2, <3>3
  <2>3. (shifted \/ ~fits) => MayMisread(At) /\ ShiftedBy(At)
    BY <1>1, <1>9, <2>2 DEF MayMisread, ShiftedBy, Mixed
  <2> QED BY <2>1, <2>3
<1> QED BY <1>7, <1>8, <1>9 DEF Mixed

LEMMA PutInv ==
    ASSUME IInv, Put
    PROVE  IInv'
<1> USE DEF IInv, config
<1> DEFINE e == list[At]
           new == NewHeader(e)
           room == remaining - (IF new THEN 2 ELSE 0)
           k == Batch(fig, e, piece, room)
           h == IF new THEN Header(fig, e) ELSE header
           last == piece + k = Pieces(fig, e)
           found == shifted => new /\ fig \notin OwnHeader
           fits == Advance(fig, e, piece, k, textControl) = Announced(fig, e, piece, k, textControl)
<1>1. ConfigOK' /\ N' = N /\ End' = End /\ N \in Nat /\ End = N + 1
    BY SameConfig DEF Put, ConfigOK, End
<1>2. /\ filling /\ pos < End /\ Takes(At) /\ HasRoom(e)
      /\ header' = h /\ remaining' = room - Advance(fig, e, piece, k, textControl)
      /\ piece' = (IF last THEN 0 ELSE piece + k)
      /\ pos' = (IF last THEN pos + 1 ELSE pos)
      /\ sent' = [sent EXCEPT ![At] = IF @ + k <= Pieces(fig, e) THEN @ + k ELSE TooOften]
      /\ shifted' = ~(found /\ h.pd = Header(fig, e).pd /\ fits)
      /\ malformed' = (IF found /\ h = Header(fig, e) /\ fits THEN malformed ELSE malformed \union {At})
      /\ UNCHANGED <<fig, list, textControl, wanted, reversed, half, filling, complete, cycles,
                     changed>>
    BY DEF Put
<1>3. /\ pos \in 1..N /\ reversed \in BOOLEAN /\ half \in BOOLEAN /\ At \in 1..N
      /\ piece \in Nat /\ ~complete
      /\ \A i \in 1..N : Rank(i) \in 1..N /\ (Rank(i) = pos <=> i = At)
  <2>1. pos \in 1..N /\ reversed \in BOOLEAN /\ half \in BOOLEAN /\ piece \in Nat /\ ~complete
    BY <1>1, <1>2 DEF PlaceOK, CycleOK
  <2> QED BY <2>1, RankOfAt
<1>4. k \in Nat /\ k >= 1 /\ piece + k <= Pieces(fig, e)
    BY <1>2, BatchFits
<1>5. fig \notin {"0/20", "0/24"} => h = Header(fig, e) /\ HeaderFits(h)
    BY <1>2, <1>3, RightHeader DEF Takes
<1>6. /\ (found /\ h = Header(fig, e) /\ fits) \/ (fig \in Mixed /\ MayMisread(At))
      /\ (found /\ h.pd = Header(fig, e).pd /\ fits) \/ (fig \in Mixed /\ ShiftedBy(At))
  <2>1. CASE fig \in Mixed
    <3> HIDE DEF k
    <3>1. fits <=> Advance(fig, list[At], piece, k, textControl)
                     = Announced(fig, list[At], piece, k, textControl)
      OBVIOUS
    <3> HIDE DEF fits
    <3>2. found <=> (shifted => NewHeader(list[At]) /\ fig \notin OwnHeader)
      OBVIOUS
    <3> HIDE DEF found
    <3>3. h = IF NewHeader(list[At]) THEN Header(fig, list[At]) ELSE header
      OBVIOUS
    <3> HIDE DEF h
    <3>4. \/ found /\ h = Header(fig, e) /\ fits
          \/ MayMisread(At)
      BY <1>2, <1>3, <2>1, <3>1, <3>2, <3>3, WhatIsMisread
    <3>5. \/ found /\ h.pd = Header(fig, e).pd /\ fits
          \/ ShiftedBy(At)
      BY <1>2, <1>3, <2>1, <3>1, <3>2, <3>3, WhatIsMisread
    <3> QED BY <2>1, <3>4, <3>5
  <2>2. CASE fig \notin Mixed
    <3>1. h = Header(fig, e)
      BY <1>5, <2>2 DEF Mixed
    <3>2. fits
      BY <1>3, <2>2, RightLength DEF Mixed
    <3>3. ~shifted
      BY <1>2, <2>2 DEF HeaderOK, ShiftedBy
    <3> QED BY <3>1, <3>2, <3>3
  <2> QED BY <2>1, <2>2
<1>7. e \in Element /\ Pieces(fig, e) \in Nat /\ (fig \in InPieces => Pieces(fig, e) = e.n)
      /\ (fig \notin InPieces => Pieces(fig, e) = 1)
    BY <1>3, PiecesPositive DEF ConfigOK, Pieces
<1>8. fig = "0/21" => remaining' \in Int
  <2> SUFFICES ASSUME fig = "0/21" PROVE remaining' \in Int
    OBVIOUS
  <2>1. remaining \in Int
    BY DEF CycleOK
  <2>2. room \in Int
    BY <2>1
  <2>3. ListHeader(e) \in Int /\ Frequency(e) \in {1, 2, 3}
    BY DEF ListHeader, Frequency
  <2>4. k * Frequency(e) \in Int
    <3> HIDE DEF k, e
    <3> QED BY <1>4, <2>3
  <2> HIDE DEF k, e, room
  <2>5. Advance(fig, e, piece, k, textControl) \in Int
    BY <2>3, <2>4 DEF Advance
  <2> QED BY <1>2, <2>2, <2>5
<1> HIDE DEF k, h, last, room, new, e, found, fits
<1>9. MisreadOK'
  <2>1. \A i \in 1..N : MayMisread(i) => MayMisread(i)'
    BY <1>2 DEF MayMisread
  <2>2. malformed' = malformed \/ (malformed' = malformed \union {At} /\ MayMisread(At))
    BY <1>2, <1>6
  <2> QED BY <1>1, <1>3, <2>1, <2>2 DEF MisreadOK
<1>15. ~Idle /\ ~Idle' /\ (Armed' <=> Armed)
    BY <1>1, <1>2 DEF PlaceOK, Idle, Armed
<1>10. PlaceOK'
  <2>1. CASE last
    BY <1>1, <1>2, <1>3, <1>15, <2>1 DEF PlaceOK
  <2>2. CASE ~last
    <3>1. piece' = piece + k /\ pos' = pos /\ piece' \in Nat /\ piece' < Pieces(fig, e)
      BY <1>2, <1>3, <1>4, <1>7, <2>2 DEF last
    <3>2. fig \in InPieces /\ piece' < e.n
      BY <1>3, <1>4, <1>7, <3>1
    <3>3. At' = At /\ list'[At'] = e /\ Takes(At)'
      BY <1>1, <1>2, <3>1 DEF At, Takes, Matches, e
    <3> QED BY <1>1, <1>2, <1>3, <1>15, <3>1, <3>2, <3>3 DEF PlaceOK
  <2> QED BY <2>1, <2>2
<1>11. CycleOK' /\ HeaderOK'
  <2>1. CycleOK'
    BY <1>2, <1>3, <1>8 DEF CycleOK
  <2>2. HeaderFits(header)'
    <3>1. CASE fig \in {"0/20", "0/24"}
      <4>1. last
        BY <1>3, <1>4, <1>7, <3>1 DEF last, InPieces, PlaceOK
      <4>2. At \in wanted /\ At = pos /\ pos' = pos + 1
        BY <1>2, <3>1, <4>1 DEF At, Takes, PlaceOK
      <4>3. \E j \in wanted : j < pos' /\ h = Header(fig, list[j])
        <5>1. CASE h = Header(fig, e)
          BY <1>3, <4>2, <5>1 DEF e
        <5>2. CASE h # Header(fig, e)
          <6>1. h = header /\ HeaderFits(header)
            BY <1>2, <5>2 DEF h, new, e, HeaderOK, NewHeader
          <6>2. PICK j \in wanted : j < pos /\ header = Header(fig, list[j])
            BY <3>1, <6>1 DEF HeaderFits
          <6>3. j \in Int /\ j < pos'
            BY <1>3, <4>2, <6>2 DEF BookOK
          <6> QED BY <6>1, <6>2, <6>3
        <5> QED BY <5>1, <5>2
      <4> QED BY <1>2, <3>1, <4>3 DEF HeaderFits, Header
    <3>2. CASE fig \notin {"0/20", "0/24"}
      <4>1. HeaderFits(h)
        BY <1>5, <3>2
      <4>2. \A i \in 1..N : Matches(list[i], half)' <=> Matches(list[i], half)
        BY <1>2 DEF Matches
      <4>3. \A i : Header(fig, list[i])' = Header(fig, list[i])
        BY <1>2 DEF Header
      <4>4. UNCHANGED <<N, fig>> /\ header' = h
        BY <1>1, <1>2
      <4> QED BY <3>2, <4>1, <4>2, <4>3, <4>4, Zenon DEF HeaderFits
    <3> QED BY <3>1, <3>2
  <2>3. ASSUME shifted' PROVE ShiftedBy(IF fig \in InPieces THEN pos ELSE pos - 1)'
    <3>1. fig \in Mixed /\ ShiftedBy(At) /\ At = pos
      BY <1>2, <1>6, <2>3 DEF At, PlaceOK, Mixed
    <3>2. fig \notin InPieces => pos' = pos + 1
      BY <1>2, <1>3, <1>4, <1>7 DEF last, PlaceOK
    <3>3. pos' = pos \/ pos' = pos + 1
      BY <1>2
    <3>4. ASSUME NEW a \in Int, NEW b \in Int, a <= b, ShiftedBy(a) PROVE ShiftedBy(b)
      BY <3>4 DEF ShiftedBy, BookOK
    <3>5. ShiftedBy(IF fig \in InPieces THEN pos' ELSE pos' - 1)
      BY <1>3, <3>1, <3>2, <3>3, <3>4
    <3> QED BY <1>2, <3>5 DEF ShiftedBy
  <2> QED BY <2>1, <2>2, <2>3 DEF HeaderOK
<1>12. BookOK'
  <2>1. sent \in [1..N -> Nat]
    BY DEF BookOK
  <2>2. sent' \in [1..N -> Nat]
    <3> DEFINE v == IF sent[At] + k <= Pieces(fig, e) THEN sent[At] + k ELSE TooOften
    <3>1. v \in Nat
      <4>1. sent[At] + k \in Nat /\ TooOften \in Nat
        BY <1>3, <1>4, <2>1 DEF TooOften
      <4> QED BY <4>1, Zenon
    <3>2. sent' = [sent EXCEPT ![At] = v]
      BY <1>2, Zenon
    <3> HIDE DEF v
    <3> QED BY <1>3, <2>1, <3>1, <3>2
  <2> QED BY <1>1, <1>2, <2>2 DEF BookOK
<1>13. SentOK'
  <2> SUFFICES ASSUME NEW i \in (1..N) \ changed
               PROVE  sent'[i] = SentSoFar(i)'
    BY <1>1, <1>2 DEF SentOK
  <2>1. sent[i] = SentSoFar(i) /\ sent \in [1..N -> Nat]
    BY <1>3 DEF SentOK, BookOK
  <2>2. Rank(i)' = Rank(i) /\ Rank(i) \in 1..N /\ (Rank(i) = pos <=> i = At)
    BY <1>1, <1>2, <1>3 DEF Rank
  <2>3. /\ Matches(list[i], half)' <=> Matches(list[i], half)
        /\ Matches(list[i], ~half)' <=> Matches(list[i], ~half)
    BY <1>2 DEF Matches
  <2>4. CASE i = At
    <3>1. i \in wanted /\ Matches(list[i], half) /\ list[i] = e
      BY <1>2, <2>4 DEF Takes, e
    <3>2. sent[i] = piece
      BY <1>3, <1>15, <2>1, <2>2, <2>4, <3>1 DEF SentSoFar
    <3>3. sent'[i] = piece + k
      BY <1>2, <1>3, <1>4, <2>1, <2>4, <3>2
    <3>4. SentSoFar(i)' = IF Rank(i) < pos' THEN Pieces(fig, e)
                          ELSE IF Rank(i) = pos' THEN piece' ELSE 0
      BY <1>2, <1>15, <2>2, <2>3, <3>1, Zenon DEF SentSoFar
    <3>5. CASE last
      BY <1>2, <1>3, <2>2, <2>4, <3>3, <3>4, <3>5 DEF last
    <3>6. CASE ~last
      BY <1>2, <1>3, <2>2, <2>4, <3>3, <3>4, <3>6
    <3> QED BY <3>5, <3>6
  <2>5. CASE i # At
    <3>1. sent'[i] = sent[i]
      BY <1>2, <2>1, <2>5
    <3>2. (Rank(i) < pos' <=> Rank(i) < pos) /\ (Rank(i) = pos' => piece' = 0) /\ Rank(i) # pos
      BY <1>2, <1>3, <2>2, <2>5
    <3> QED BY <1>2, <1>15, <2>1, <2>2, <2>3, <3>1, <3>2, Zenon DEF SentSoFar
  <2> QED BY <2>4, <2>5
<1>14. ExactOK'
    BY <1>2, <1>3 DEF ExactOK
<1> QED BY <1>1, <1>9, <1>10, <1>11, <1>12, <1>13, <1>14

LEMMA UnchangedInv ==
    ASSUME IInv, UNCHANGED vars
    PROVE  IInv'
<1> USE DEF IInv
<1>1. UNCHANGED <<fig, list, textControl, wanted, changes, reversed, pos, piece, half, filling,
                  remaining, header, shifted, complete, cycles, sent, malformed, changed>>
    BY DEF vars, config, place, block, history
<1>2. ConfigOK' /\ N' = N /\ End' = End
    BY <1>1, SameConfig DEF config
<1>3. PlaceOK' /\ CycleOK' /\ BookOK' /\ MisreadOK'
    BY <1>1, <1>2, SameMisread DEF PlaceOK, CycleOK, BookOK, At, Takes, Matches, Idle, Armed, config
<1>4. HeaderOK'
    BY <1>1, <1>2 DEF HeaderOK, HeaderFits, Matches, ShiftedBy
<1>5. SentOK' /\ ExactOK'
    BY <1>1, <1>2 DEF SentOK, ExactOK, Armed, Idle, SentSoFar, Rank, Matches, Carried
<1> QED BY <1>2, <1>3, <1>4, <1>5

LEMMA StepInv ==
    ASSUME IInv, [Next]_vars
    PROVE  IInv'
<1>1. ASSUME NEW space \in Spaces, Begin(space) PROVE IInv'
    BY <1>1, BeginInv
<1>2. CASE Skip
    BY <1>2, SkipInv
<1>3. CASE NoRoom
    BY <1>3, NoRoomInv
<1>4. CASE Put
    BY <1>4, PutInv
<1>5. CASE EndOfList
    BY <1>5, EndOfListInv
<1>6. ASSUME NEW i \in DOMAIN list, Change(i) PROVE IInv'
    BY <1>6, ChangeInv
<1>7. CASE UNCHANGED vars
    BY <1>7, UnchangedInv
<1> QED BY <1>1, <1>2, <1>3, <1>4, <1>5, <1>6, <1>7 DEF Next, Fill

\* The inductive invariant holds throughout, whatever the FIG, the list, the spaces
\* offered to fill and the changes of PTys and announcements meanwhile.
THEOREM InvariantCorrect ==
    Spec => []IInv
<1>1. Init => IInv
    BY InitInv
<1>2. IInv /\ [Next]_vars => IInv'
    BY StepInv
<1> QED BY <1>1, <1>2, PTL DEF Spec

\* A completed cycle has carried every entry once, in whole, and so that receivers read it
\* but for those of the mixed lists, and nothing else (fill of every FIG but 0/6 and 1/1).
THEOREM CycleIsExactCorrect ==
    Spec => []CycleIsExact
<1>1. IInv => CycleIsExact
    BY DEF IInv, ExactOK, CycleIsExact, ConfigOK, MisreadOK
<1> QED BY <1>1, InvariantCorrect, PTL

\* The same of the FIGs beside the ensemble: its steps leave them alone.
THEOREM CyclesAreExact ==
    EnsembleSpec => []CycleIsExact
<1>1. EnsembleInit => IInv
    BY InitInv DEF EnsembleInit, NoContents
<1>2. IInv /\ [EnsembleNext]_allVars => IInv'
  <2> SUFFICES ASSUME [EnsembleNext]_allVars PROVE [Next]_vars
    BY StepInv
  <2> QED BY DEF EnsembleNext, allVars
<1>3. IInv => CycleIsExact
    BY DEF IInv, ExactOK, CycleIsExact, ConfigOK, MisreadOK
<1> QED BY <1>1, <1>2, <1>3, PTL DEF EnsembleSpec
=============================================================================
