--------------------------- MODULE MainLoopProofs ---------------------------
(***************************************************************************)
(* Theorems about the main loop.  MuxTime: type correctness whatever the   *)
(* remote control does and, while it leaves tist_offset alone, the         *)
(* agreement of the three clocks for every startup time, every             *)
(* tist_at_fct0 and every offset.  ClockTAI: that the offset of TAI is     *)
(* found again, and put right, for any bulletins, hosts and overrides and  *)
(* any number of restarts.  Outputs: that the file reads back wherever the *)
(* process ends and whichever calls fail, and that the metadata of a       *)
(* ZeroMQ message are those of its frames.                                 *)
(***************************************************************************)
EXTENDS MCMainLoop, SequenceTheorems, TLAPS

(***************************************************************************)
(* Division: what the definitions need to know of \div, stated once.       *)
(***************************************************************************)
LEMMA DivBounds ==
    ASSUME NEW x \in Int
    PROVE  /\ x \div 1000 \in Int
           /\ 1000 * (x \div 1000) <= x
           /\ x < 1000 * (x \div 1000) + 1000
           /\ x % 1000 \in 0..999
           /\ x = 1000 * (x \div 1000) + (x % 1000)
  BY SMT

\* RoundToFrame moves a millisecond count by at most half a frame.
Millis == 0..999
Offsets == 0..1008

Rounded(r, x) == r \in 0..1008 /\ r - x \in -12..12 /\ (x < 996 => r < 1000)

LEMMA RoundToFrameBounds == ASSUME NEW x \in Millis PROVE Rounded(RoundToFrame(x), x)
  BY SMT DEF Millis, Rounded, RoundToFrame, FrameMs

LEMMA RoundToFrameIsFrames ==
    ASSUME NEW x \in Millis
    PROVE  \E b \in 0..42 : RoundToFrame(x) = 24 * b
<1> DEFINE b == (x + 12) \div 24
<1>1. b \in 0..42
  BY SMT DEF Millis
<1>2. RoundToFrame(x) = 24 * b
  BY DEF RoundToFrame, FrameMs
<1> QED BY <1>1, <1>2

\* The first frame number, as the number of frames from FCT 0 in its second.
CountsFromFct0(number, pps) ==
    /\ number \in Nat
    /\ \E j \in Int : number + (TistAtFct0 \div FrameMs) = (pps \div FrameMs) + 250 * j

LEMMA InitialCounterBounds ==
    ASSUME NEW pps \in Offsets
    PROVE  CountsFromFct0(InitialCounter(pps), pps)
<1>. DEFINE m == 250 - TistAtFct0 \div FrameMs + pps \div FrameMs
<1>1. TistAtFct0 \div FrameMs \in 0..41 /\ pps \div FrameMs \in 0..42
  <2>1. TistAtFct0 \div 24 \in 0..41
    BY TistAtFct0Assumption, SMTT(30)
  <2>2. pps \div 24 \in 0..42
    BY SMTT(30) DEF Offsets
  <2>. QED BY <2>1, <2>2 DEF FrameMs
<1>2. m \in Nat
  BY <1>1
<1>3. InitialCounter(pps) = m % 250
  BY DEF InitialCounter
<1>. HIDE DEF m
<1>4. PICK q \in Int, r \in Nat : q = m \div 250 /\ r = m % 250 /\ m = 250 * q + r
  BY <1>2
<1>5. PICK a \in Int, b \in Int : /\ a = TistAtFct0 \div FrameMs
                                  /\ b = pps \div FrameMs
  BY <1>1
<1>6. m = 250 - a + b
  BY <1>5 DEF m
<1>7. r + a = b + 250 * (1 - q) /\ 1 - q \in Int
  BY <1>4, <1>5, <1>6
<1>. QED
  <2>1. InitialCounter(pps) = r
    BY <1>3, <1>4
  <2>2. r + a = b + 250 * (1 - q) /\ 1 - q \in Int
    BY <1>7
  <2>3. \E j \in Int : InitialCounter(pps) + a = b + 250 * j
    BY <2>1, <2>2
  <2>. QED BY <1>4, <1>5, <2>1, <2>3 DEF CountsFromFct0

\* A carry leaves the millisecond part below one second.
Carried(c, n) == c \in Nat /\ pps_offset_ms + FrameMs * n - 1000 * c \in 0..1008

LEMMA CarriesBounds ==
    ASSUME pps_offset_ms \in Offsets, NEW n \in Nat
    PROVE  Carried(Carries(n), n)
<1>. USE DEF FrameMs, Offsets
<1>1. CASE n = 0
  BY <1>1 DEF Carries, Carried
<1>2. CASE n # 0
  <2>1. pps_offset_ms + FrameMs * n \in Nat
    OBVIOUS
  <2>2. Carries(n) = (pps_offset_ms + FrameMs * n) \div 1000
    BY <1>2 DEF Carries
  <2>. DEFINE t == pps_offset_ms + FrameMs * n
  <2>3. t \in Nat /\ Carries(n) = t \div 1000
    BY <2>1, <2>2
  <2>. HIDE DEF t
  <2>4. Carries(n) \in Nat /\ t - 1000 * Carries(n) \in 0..1008
    BY <2>3, DivBounds
  <2>. QED BY <2>4 DEF t, Carried
<1>. QED BY <1>1, <1>2

LEMMA CeilDivNat ==
    ASSUME NEW a \in Nat, NEW b \in {FrameMs, 1000}
    PROVE  CeilDiv(a, b) \in Nat /\ b * CeilDiv(a, b) >= a
  BY SMT DEF CeilDiv, FrameMs

(***************************************************************************)
(* Type correctness.                                                       *)
(***************************************************************************)
LEMMA AdvanceTypes ==
    ASSUME TypeOK, NEW seconds \in Int, NEW n \in Nat, Advance(seconds, n)
    PROVE  /\ edi_time' \in Int
           /\ pps_offset_ms' \in 0..1008
           /\ mnsc_increment_time' \in BOOLEAN
<1>1. /\ edi_time' = edi_time + seconds + Carries(n)
      /\ pps_offset_ms' = pps_offset_ms + FrameMs * n - 1000 * Carries(n)
  BY DEF Advance
<1>2. pps_offset_ms \in Offsets /\ edi_time \in Int
  BY DEF TypeOK, Offsets
<1>3. Carried(Carries(n), n)
  BY <1>2, CarriesBounds, Zenon
<1>4. pps_offset_ms' \in 0..1008 /\ edi_time' \in Int
  BY <1>1, <1>2, <1>3 DEF Carried
<1>5. mnsc_increment_time' \in BOOLEAN
  <2>1. mnsc_increment_time' = (mnsc_increment_time \/ Carries(n) > 0)
    BY SMT DEF Advance
  <2>. QED BY <2>1, Zenon
<1>. QED BY <1>4, <1>5

\* Every variable keeps its type: the millisecond part never reaches 1009,
\* whatever sequence of frames and tist_offset changes is applied.
THEOREM TypeCorrect == Spec => []TypeOK
<1>1. Init => TypeOK
  <2>. SUFFICES ASSUME Init PROVE TypeOK
    OBVIOUS
  <2>1. start \in Nat /\ start + TistOffset \in Nat
    BY StartTimesAssumption, TistOffsetAssumption DEF Init
  <2>2. edi_time \in Int /\ (start + TistOffset) % 1000 \in 0..999
    <3>. DEFINE s == start + TistOffset
    <3>1. s \in Int
      BY <2>1
    <3>2. edi_time = s \div 1000
      BY DEF Init
    <3>. HIDE DEF s
    <3>3. edi_time \in Int /\ s % 1000 \in 0..999
      BY <3>1, <3>2, DivBounds
    <3>. QED BY <3>3 DEF s
  <2>3. pps_offset_ms \in 0..1008
    <3>. DEFINE x == (start + TistOffset) % 1000
    <3>1. pps_offset_ms = RoundToFrame(x)
      BY DEF Init
    <3>2. x \in Millis
      BY <2>2 DEF Millis
    <3>. HIDE DEF x
    <3>3. Rounded(pps_offset_ms, x)
      BY <3>1, <3>2, RoundToFrameBounds, Zenon
    <3>. QED BY <3>3 DEF Rounded
  <2>4. currentFrame \in Nat
    <3>1. currentFrame = InitialCounter(pps_offset_ms)
      BY DEF Init
    <3>2. pps_offset_ms \in Offsets
      BY <2>3 DEF Offsets
    <3>3. CountsFromFct0(currentFrame, pps_offset_ms)
      BY <3>1, <3>2, InitialCounterBounds, Zenon
    <3>. QED BY <3>3 DEF CountsFromFct0
  <2>5. stamp \in [tist : 0..999, seconds : Int]
    <3>1. pps_offset_ms % 1000 \in 0..999
      BY <2>3, DivBounds
    <3>2. stamp = [tist |-> pps_offset_ms % 1000, seconds |-> edi_time]
      BY DEF Init, TistSeconds
    <3>. QED BY <2>2, <3>1, <3>2
  <2>6. /\ tist_offset_ms \in Int /\ mnsc_time \in Int
        /\ frames \in Nat /\ rcCommands \in 0..MaxRcCommands
        /\ pc \in {"top", "mnsc", "increment"}
    BY <2>2, TistOffsetAssumption, BoundsAssumption DEF Init
  <2>7. mnsc_increment_time \in BOOLEAN
    BY DEF Init
  <2>. QED BY <2>1, <2>2, <2>3, <2>4, <2>5, <2>6, <2>7 DEF TypeOK
<1>2. TypeOK /\ [Next]_vars => TypeOK'
  <2>. SUFFICES ASSUME TypeOK, [Next]_vars PROVE TypeOK'
    OBVIOUS
  <2>1. CASE SampleTist
    <3>1. stamp' \in [tist : 0..999, seconds : Int]
      BY <2>1, DivBounds DEF SampleTist, TypeOK, TistSeconds
    <3>. QED BY <2>1, <3>1 DEF SampleTist, TypeOK, muxTime
  <2>2. CASE EncodeMnsc
    <3>1. mnsc_increment_time' \in BOOLEAN
      <4>1. mnsc_increment_time \in BOOLEAN
        BY DEF TypeOK
      <4>. QED BY <2>2, <4>1, Zenon DEF EncodeMnsc
    <3>2. mnsc_time' \in Int
      <4>1. mnsc_time' = mnsc_time + 1 \/ mnsc_time' = mnsc_time
        BY <2>2, Zenon DEF EncodeMnsc
      <4>. QED BY <4>1 DEF TypeOK
    <3>3. /\ UNCHANGED <<edi_time, pps_offset_ms, tist_offset_ms, currentFrame,
                         stamp, start, frames, rcCommands>>
          /\ pc' = "increment"
      BY <2>2 DEF EncodeMnsc
    <3>. QED BY <3>1, <3>2, <3>3 DEF TypeOK
  <2>3. CASE FinishFrame
    <3>1. Advance(0, 1)
      BY <2>3 DEF FinishFrame
    <3>2. edi_time' \in Int /\ pps_offset_ms' \in 0..1008
            /\ mnsc_increment_time' \in BOOLEAN
      BY <3>1, AdvanceTypes
    <3>3. frames' \in Nat
      BY <2>3 DEF FinishFrame, TypeOK
    <3>. QED BY <2>3, <3>2, <3>3 DEF FinishFrame, TypeOK
  <2>4. CASE \E new \in RcOffsets : SetTistOffset(new)
    <3>1. PICK new \in RcOffsets : SetTistOffset(new)
      BY <2>4
    <3>. DEFINE delta == tist_offset_ms - new
                back  == IF delta < 0 THEN CeilDiv(-delta, 1000) ELSE 0
    <3>2. delta \in Int /\ new \in Int
      BY RcOffsetsAssumption DEF TypeOK
    <3>3. back \in Nat /\ delta + 1000 * back \in Nat
      BY <3>2, CeilDivNat
    <3>4. CeilDiv(delta + 1000 * back, FrameMs) \in Nat
      BY <3>3, CeilDivNat
    <3>5. Advance(-back, CeilDiv(delta + 1000 * back, FrameMs))
      BY <3>1 DEF SetTistOffset
    <3>6. edi_time' \in Int /\ pps_offset_ms' \in 0..1008
            /\ mnsc_increment_time' \in BOOLEAN
      <4>. HIDE DEF back
      <4>. QED BY <3>3, <3>4, <3>5, AdvanceTypes
    <3>7. /\ tist_offset_ms' = new
          /\ rcCommands' = rcCommands + 1 /\ rcCommands < MaxRcCommands
          /\ UNCHANGED <<mnsc_time, currentFrame, stamp, pc, start, frames>>
      BY <3>1 DEF SetTistOffset
    <3>8. rcCommands' \in 0..MaxRcCommands
      BY <3>7, BoundsAssumption DEF TypeOK
    <3>. QED BY <3>2, <3>6, <3>7, <3>8 DEF TypeOK
  <2>5. CASE Finished
    BY <2>5 DEF Finished, vars, TypeOK
  <2>6. CASE UNCHANGED vars
    BY <2>6 DEF vars, TypeOK
  <2>. QED BY <2>1, <2>2, <2>3, <2>4, <2>5, <2>6 DEF Next
<1>. QED BY <1>1, <1>2, PTL DEF Spec

-----------------------------------------------------------------------------
(***************************************************************************)
(* While the remote control leaves tist_offset alone, only three actions   *)
(* change the state.                                                       *)
(***************************************************************************)
LEMMA QuietSteps ==
    ASSUME TypeOK, [Next]_vars, Undisturbed'
    PROVE  Undisturbed /\ (SampleTist \/ EncodeMnsc \/ FinishFrame \/ UNCHANGED vars)
<1>1. rcCommands \in Nat /\ rcCommands' = 0
  BY BoundsAssumption DEF TypeOK, Undisturbed
<1>2. ASSUME NEW new \in RcOffsets, SetTistOffset(new) PROVE FALSE
  BY <1>1, <1>2 DEF SetTistOffset
<1>3. SampleTist \/ EncodeMnsc \/ FinishFrame \/ UNCHANGED vars
  BY <1>2 DEF Next, Finished
<1>4. rcCommands' = rcCommands
  BY <1>3 DEF SampleTist, EncodeMnsc, FinishFrame, vars
<1>. QED BY <1>1, <1>3, <1>4 DEF Undisturbed

\* One frame: at most one carry, and only from 976 ms on.
LEMMA OneFrame ==
    ASSUME TypeOK
    PROVE  \/ Carries(1) = 0 /\ pps_offset_ms < 976
           \/ Carries(1) = 1 /\ pps_offset_ms >= 976
<1>1. pps_offset_ms \in 0..1008
  BY DEF TypeOK
<1>2. Carries(1) = (pps_offset_ms + 24) \div 1000
  BY DEF Carries, FrameMs
<1>. QED BY <1>1, <1>2

(***************************************************************************)
(* The millisecond part and the frame counter are in step: TistAtFct0 and  *)
(* 24 ms per counted frame, modulo a second.                               *)
(***************************************************************************)
InStep ==
    /\ (FrameMs * (currentFrame + (TistAtFct0 \div FrameMs)) - pps_offset_ms)
         % 1000 = 0
    /\ pc # "top" => stamp.tist = pps_offset_ms % 1000

\* Every frame of FCT 0 carries the configured TIST, for every startup time.
THEOREM TistAtFct0Correct == Spec => []TistAtFct0Kept
<1>. DEFINE co == TistAtFct0 \div FrameMs
<1>0. co \in 0..41 /\ RoundDownToFrame(TistAtFct0) = 24 * co
  BY TistAtFct0Assumption DEF FrameMs, RoundDownToFrame
<1>a. InStep <=> /\ (24 * (currentFrame + co) - pps_offset_ms) % 1000 = 0
                 /\ pc # "top" => stamp.tist = pps_offset_ms % 1000
  BY DEF InStep, FrameMs
<1>b. InStep' <=> /\ (24 * (currentFrame' + co) - pps_offset_ms') % 1000 = 0
                  /\ pc' # "top" => stamp'.tist = pps_offset_ms' % 1000
  BY DEF InStep, FrameMs
<1>1. Init /\ TypeOK => InStep
  <2>. SUFFICES ASSUME Init, TypeOK PROVE InStep
    OBVIOUS
  <2>1. PICK x \in 0..999 : pps_offset_ms = RoundToFrame(x)
    <3>1. start + TistOffset \in Int
      BY TistOffsetAssumption DEF TypeOK
    <3>. QED BY <3>1, DivBounds DEF Init
  <2>2. PICK b \in Int : b = pps_offset_ms \div FrameMs /\ pps_offset_ms = 24 * b
    <3>1. PICK b \in 0..42 : RoundToFrame(x) = 24 * b
      <4>1. x \in Millis
        BY DEF Millis
      <4>. QED BY <4>1, RoundToFrameIsFrames, Zenon
    <3>2. pps_offset_ms = 24 * b /\ b \in Int
      BY <2>1, <3>1
    <3>3. (24 * b) \div 24 = b
      BY <3>1, SMTT(30)
    <3>. QED BY <3>2, <3>3 DEF FrameMs
  <2>3. PICK j \in Int : currentFrame + co = b + 250 * j
    <3>1. pps_offset_ms \in Offsets /\ currentFrame = InitialCounter(pps_offset_ms)
      BY DEF Init, TypeOK, Offsets
    <3>2. CountsFromFct0(currentFrame, pps_offset_ms)
      BY <3>1, InitialCounterBounds, Zenon
    <3>3. \E j \in Int : currentFrame + (TistAtFct0 \div FrameMs)
                           = (pps_offset_ms \div FrameMs) + 250 * j
      BY <3>2, Zenon DEF CountsFromFct0
    <3>. QED BY <2>2, <3>3
  <2>. HIDE DEF co
  <2>4. 24 * (currentFrame + co) - pps_offset_ms = 6000 * j
    <3>1. 24 * (currentFrame + co) = 24 * b + 6000 * j
      BY <1>0, <2>3 DEF TypeOK
    <3>. QED BY <2>2, <3>1
  <2>5. (6000 * j) % 1000 = 0
    OBVIOUS
  <2>. QED BY <1>a, <2>4, <2>5 DEF Init
<1>2. TypeOK /\ InStep /\ [Next]_vars /\ Undisturbed' => InStep'
  <2>. SUFFICES ASSUME TypeOK, InStep, [Next]_vars, Undisturbed' PROVE InStep'
    OBVIOUS
  <2>. HIDE DEF co
  <2>1. CASE SampleTist
    <3>1. stamp'.tist = pps_offset_ms % 1000
      BY <2>1 DEF SampleTist, TistSeconds
    <3>. QED BY <1>a, <1>b, <2>1, <3>1 DEF SampleTist, muxTime
  <2>2. CASE EncodeMnsc
    <3>1. /\ UNCHANGED <<pps_offset_ms, currentFrame, stamp>>
          /\ pc # "top"
      BY <2>2 DEF EncodeMnsc
    <3>. QED BY <1>a, <1>b, <3>1
  <2>3. CASE FinishFrame
    <3>1. /\ pps_offset_ms' = pps_offset_ms + 24 - 1000 * Carries(1)
          /\ currentFrame' = currentFrame + 1
          /\ pc' = "top"
      BY <2>3 DEF FinishFrame, Advance, FrameMs
    <3>. DEFINE d == 24 * (currentFrame + co) - pps_offset_ms
    <3>2. Carries(1) \in {0, 1}
      BY OneFrame
    <3>3. d \in Int /\ d % 1000 = 0
      BY <1>0, <1>a DEF TypeOK
    <3>4. 24 * (currentFrame' + co) - pps_offset_ms' = d + 1000 * Carries(1)
      BY <1>0, <3>1, <3>2 DEF TypeOK
    <3>. HIDE DEF d
    <3>5. (d + 1000 * Carries(1)) % 1000 = 0
      BY <3>2, <3>3
    <3>. QED BY <1>b, <3>1, <3>4, <3>5
  <2>4. CASE UNCHANGED vars
    BY <1>a, <1>b, <2>4 DEF vars
  <2>. QED BY <2>1, <2>2, <2>3, <2>4, QuietSteps
<1>. DEFINE InStepUndisturbed == Undisturbed => InStep
<1>3. TypeOK /\ InStepUndisturbed /\ [Next]_vars => InStepUndisturbed'
  BY <1>2, QuietSteps
<1>4. TypeOK /\ InStepUndisturbed => TistAtFct0Kept
  <2>. SUFFICES ASSUME TypeOK, InStep, pc # "top", FCT = 0
                PROVE  stamp.tist = RoundDownToFrame(TistAtFct0)
    BY DEF TistAtFct0Kept
  <2>. HIDE DEF co
  <2>1. PICK m \in Int : currentFrame = 250 * m
    BY DEF FCT, TypeOK
  <2>2. PICK k \in Int : 24 * (currentFrame + co) - pps_offset_ms = 1000 * k
    <3>. DEFINE d == 24 * (currentFrame + co) - pps_offset_ms
    <3>1. d \in Int /\ d % 1000 = 0
      BY <1>0, <1>a DEF TypeOK
    <3>. HIDE DEF d
    <3>2. \E k \in Int : d = 1000 * k
      BY <3>1, DivBounds
    <3>. QED BY <3>2 DEF d
  <2>3. pps_offset_ms = 24 * co + 1000 * (6 * m - k)
    BY <1>0, <2>1, <2>2 DEF TypeOK
  <2>4. pps_offset_ms % 1000 = 24 * co
    BY <1>0, <2>3 DEF TypeOK
  <2>. QED BY <1>0, <1>a, <2>4
<1>5. Init /\ TypeOK => InStepUndisturbed
  BY <1>1
<1>. HIDE DEF InStepUndisturbed
<1>. QED BY <1>3, <1>4, <1>5, TypeCorrect, PTL DEF Spec

-----------------------------------------------------------------------------
(***************************************************************************)
(* A pending second is applied before the next one can fall due: since the *)
(* carry the millisecond part has grown by at most three frames, and the   *)
(* frame of phase 0 has consumed the flag.                                 *)
(***************************************************************************)
PendingSecondIsRecent ==
    /\ mnsc_increment_time
         => pps_offset_ms <= 32 + FrameMs * ((currentFrame + 3) % 4)
    /\ (pc = "increment" /\ FP % 4 = 0) => ~mnsc_increment_time

LEMMA PhaseOfFour ==
    ASSUME NEW n \in Nat
    PROVE  /\ ((n % 8) % 4 = 0) <=> (n % 4 = 0)
           /\ (n + 3) % 4 \in 0..3
           /\ (n % 4 = 0) <=> ((n + 3) % 4 = 3)
           /\ (n % 4 # 0) => (n + 1 + 3) % 4 = ((n + 3) % 4) + 1
  BY SMT

SecondsAgree ==
    mnsc_time + (IF mnsc_increment_time THEN 1 ELSE 0) = edi_time

\* The one-bit flag loses no second: MNSC time and EDI time never part.
THEOREM MnscCorrect == Spec => []MnscFollowsEdi
<1>. USE DEF FrameMs
<1>1. Init => PendingSecondIsRecent /\ SecondsAgree
  <2>. SUFFICES ASSUME Init PROVE PendingSecondIsRecent /\ SecondsAgree
    OBVIOUS
  <2>1. edi_time \in Int
    <3>1. start + TistOffset \in Int
      BY StartTimesAssumption, TistOffsetAssumption DEF Init
    <3>. QED BY <3>1, DivBounds DEF Init
  <2>. QED BY <2>1 DEF Init, PendingSecondIsRecent, SecondsAgree
<1>2. TypeOK /\ PendingSecondIsRecent /\ SecondsAgree /\ [Next]_vars /\ Undisturbed'
        => PendingSecondIsRecent' /\ SecondsAgree'
  <2>. SUFFICES ASSUME TypeOK, PendingSecondIsRecent, SecondsAgree, [Next]_vars,
                       Undisturbed'
                PROVE  PendingSecondIsRecent' /\ SecondsAgree'
    OBVIOUS
  <2>0. currentFrame \in Nat /\ pps_offset_ms \in 0..1008
    BY DEF TypeOK
  <2>1. CASE SampleTist
    BY <2>1 DEF SampleTist, muxTime, PendingSecondIsRecent, SecondsAgree, FP
  <2>2. CASE EncodeMnsc
    <3>1. pc = "mnsc" /\ pc' = "increment"
            /\ UNCHANGED <<edi_time, pps_offset_ms, currentFrame>>
      BY <2>2 DEF EncodeMnsc
    <3>2. CASE FP % 4 = 0 /\ mnsc_increment_time
      <4>1. ~mnsc_increment_time' /\ mnsc_time' = mnsc_time + 1
        BY <2>2, <3>2 DEF EncodeMnsc
      <4>2. PendingSecondIsRecent'
        BY <4>1 DEF PendingSecondIsRecent
      <4>3. SecondsAgree'
        BY <3>1, <3>2, <4>1 DEF SecondsAgree, TypeOK
      <4>. QED BY <4>2, <4>3
    <3>3. CASE ~(FP % 4 = 0 /\ mnsc_increment_time)
      <4>1. UNCHANGED <<mnsc_increment_time, mnsc_time>>
        BY <2>2, <3>3 DEF EncodeMnsc
      <4>2. PendingSecondIsRecent'
        BY <3>1, <3>3, <4>1 DEF PendingSecondIsRecent, FP
      <4>3. SecondsAgree'
        BY <3>1, <4>1 DEF SecondsAgree
      <4>. QED BY <4>2, <4>3
    <3>. QED BY <3>2, <3>3
  <2>3. CASE FinishFrame
    <3>1. /\ pc = "increment" /\ pc' = "top"
          /\ currentFrame' = currentFrame + 1
          /\ mnsc_time' = mnsc_time
          /\ edi_time' = edi_time + 0 + Carries(1)
          /\ pps_offset_ms' = pps_offset_ms + FrameMs * 1 - 1000 * Carries(1)
          /\ mnsc_increment_time' = (mnsc_increment_time \/ Carries(1) > 0)
      BY <2>3 DEF FinishFrame, Advance
    <3>2. CASE mnsc_increment_time
      <4>1. currentFrame % 4 # 0
        BY <2>0, <3>1, <3>2, PhaseOfFour DEF PendingSecondIsRecent, FP
      <4>2. /\ (currentFrame + 3) % 4 \in 0..2
            /\ (currentFrame + 1 + 3) % 4 = ((currentFrame + 3) % 4) + 1
        BY <2>0, <4>1, PhaseOfFour
      <4>3. pps_offset_ms <= 32 + FrameMs * ((currentFrame + 3) % 4)
        BY <3>2 DEF PendingSecondIsRecent
      <4>4. Carries(1) = 0
        BY <2>0, <4>2, <4>3, OneFrame
      <4>5. mnsc_increment_time' /\ edi_time' = edi_time
        <5>1. mnsc_increment_time'
          BY <3>1, <3>2, Zenon
        <5>2. edi_time' = edi_time
          BY <3>1, <4>4 DEF TypeOK
        <5>. QED BY <5>1, <5>2
      <4>6. SecondsAgree'
        BY <3>1, <3>2, <4>5 DEF SecondsAgree
      <4>7. pps_offset_ms' = pps_offset_ms + 24
        BY <2>0, <3>1, <4>4
      <4>8. pps_offset_ms' <= 32 + FrameMs * ((currentFrame' + 3) % 4)
        BY <2>0, <3>1, <4>2, <4>3, <4>7
      <4>. QED BY <3>1, <4>6, <4>8 DEF PendingSecondIsRecent
    <3>3. CASE ~mnsc_increment_time /\ Carries(1) = 0
      <4>1. ~mnsc_increment_time' /\ edi_time' = edi_time
        BY <3>1, <3>3 DEF TypeOK
      <4>. QED BY <3>1, <3>3, <4>1 DEF PendingSecondIsRecent, SecondsAgree
    <3>4. CASE ~mnsc_increment_time /\ Carries(1) = 1
      <4>1. mnsc_increment_time' /\ edi_time' = edi_time + 1
        <5>1. Carries(1) > 0
          BY <3>4
        <5>2. mnsc_increment_time'
          BY <3>1, <5>1, Zenon
        <5>3. edi_time' = edi_time + 1
          BY <3>1, <3>4 DEF TypeOK
        <5>. QED BY <5>2, <5>3
      <4>2. SecondsAgree'
        BY <3>1, <3>4, <4>1 DEF SecondsAgree, TypeOK
      <4>3. pps_offset_ms' <= 32
        BY <2>0, <3>1, <3>4
      <4>4. (currentFrame' + 3) % 4 \in 0..3
        BY <2>0, <3>1, PhaseOfFour
      <4>5. pps_offset_ms' <= 32 + FrameMs * ((currentFrame' + 3) % 4)
        BY <2>0, <3>1, <3>4, <4>3, <4>4
      <4>. QED BY <3>1, <4>2, <4>5 DEF PendingSecondIsRecent
    <3>. QED BY <3>2, <3>3, <3>4, OneFrame
  <2>4. CASE UNCHANGED vars
    BY <2>4 DEF vars, PendingSecondIsRecent, SecondsAgree, FP
  <2>. QED
    <3>1. SampleTist \/ EncodeMnsc \/ FinishFrame \/ UNCHANGED vars
      BY QuietSteps
    <3>. QED BY <2>1, <2>2, <2>3, <2>4, <3>1
<1>. DEFINE Inv == Undisturbed => PendingSecondIsRecent /\ SecondsAgree
<1>3. Init => Inv
  BY <1>1
<1>4. TypeOK /\ Inv /\ [Next]_vars => Inv'
  BY <1>2, QuietSteps
<1>5. Inv => MnscFollowsEdi
  BY DEF MnscFollowsEdi, SecondsAgree
<1>. HIDE DEF Inv
<1>. QED BY <1>3, <1>4, <1>5, TypeCorrect, PTL DEF Spec

-----------------------------------------------------------------------------
(***************************************************************************)
(* Unless startup rounds up to the next second, the millisecond part is    *)
(* below 1000, so that the TIST together with the EDI seconds is the EDI   *)
(* time, and the EDI time stays within half a frame of the wall clock plus *)
(* the offset.                                                             *)
(***************************************************************************)
NoRoundingUp ==
    \A s \in StartTimes : (s + TistOffset) % 1000 < 996

StampsAreEdiTime ==
    /\ pps_offset_ms < 1000
    /\ tist_offset_ms = TistOffset
    /\ EdiMs - (Wall + TistOffset) \in -12..12
    /\ pc # "top" => StampMs(stamp) = EdiMs
    /\ (pc = "top" /\ frames > 0) => StampMs(stamp) + FrameMs = EdiMs

LEMMA StampsAreEdiTimeInductive ==
    ASSUME NoRoundingUp
    PROVE  /\ Init => StampsAreEdiTime
           /\ TypeOK /\ StampsAreEdiTime /\ [Next]_vars /\ Undisturbed'
                => StampsAreEdiTime'
<1>. USE DEF FrameMs
<1>1. ASSUME Init PROVE StampsAreEdiTime
  <2>. DEFINE t == start + TistOffset
              x == t % 1000
  <2>1. t \in Nat /\ start \in Nat /\ x < 996 /\ TistOffset \in Nat
    BY <1>1, StartTimesAssumption, TistOffsetAssumption DEF Init, NoRoundingUp
  <2>2. /\ edi_time = t \div 1000 /\ pps_offset_ms = RoundToFrame(x)
        /\ tist_offset_ms = TistOffset /\ pc = "top" /\ frames = 0
    BY <1>1 DEF Init
  <2>. HIDE DEF t
  <2>3. edi_time \in Int /\ x \in 0..999 /\ t = 1000 * edi_time + x
    BY <2>1, <2>2, DivBounds
  <2>. HIDE DEF x
  <2>4. /\ pps_offset_ms \in 0..1008 /\ pps_offset_ms < 1000
        /\ pps_offset_ms - x \in -12..12
    <3>1. x \in Millis
      BY <2>3 DEF Millis
    <3>2. Rounded(pps_offset_ms, x)
      BY <2>2, <3>1, RoundToFrameBounds, Zenon
    <3>. QED BY <2>1, <2>3, <3>2 DEF Rounded
  <2>5. EdiMs - t \in -12..12
    BY <2>3, <2>4 DEF EdiMs
  <2>6. Wall + TistOffset = t
    BY <2>1, <2>2 DEF Wall, t
  <2>. QED BY <2>2, <2>4, <2>5, <2>6 DEF StampsAreEdiTime
<1>2. ASSUME TypeOK, StampsAreEdiTime, [Next]_vars, Undisturbed'
      PROVE  StampsAreEdiTime'
  <2>0. /\ pps_offset_ms \in 0..999 /\ edi_time \in Int /\ frames \in Nat
        /\ start \in Nat /\ stamp.tist \in Int /\ stamp.seconds \in Int
    BY <1>2, SMTT(30) DEF TypeOK, StampsAreEdiTime
  <2>1. CASE SampleTist
    <3>1. /\ stamp' = TistSeconds /\ pc' = "mnsc"
          /\ UNCHANGED <<pps_offset_ms, edi_time, tist_offset_ms, start, frames>>
      BY <2>1 DEF SampleTist, muxTime
    <3>2. pps_offset_ms % 1000 = pps_offset_ms
      BY <2>0
    <3>3. StampMs(stamp)' = EdiMs'
      BY <3>1, <3>2 DEF TistSeconds, StampMs, EdiMs
    <3>. QED BY <1>2, <3>1, <3>3 DEF StampsAreEdiTime, EdiMs, Wall
  <2>2. CASE EncodeMnsc
    BY <1>2, <2>2 DEF EncodeMnsc, StampsAreEdiTime, EdiMs, Wall, StampMs
  <2>3. CASE FinishFrame
    <3>1. /\ pc = "increment" /\ pc' = "top" /\ frames' = frames + 1
          /\ edi_time' = edi_time + 0 + Carries(1)
          /\ pps_offset_ms' = pps_offset_ms + 24 * 1 - 1000 * Carries(1)
          /\ UNCHANGED <<tist_offset_ms, stamp, start>>
      BY <2>3 DEF FinishFrame, Advance
    <3>2. \/ Carries(1) = 0 /\ pps_offset_ms < 976
          \/ Carries(1) = 1 /\ pps_offset_ms >= 976
      BY <1>2, OneFrame
    <3>3. pps_offset_ms' < 1000 /\ EdiMs' = EdiMs + 24
      <4>1. CASE Carries(1) = 0 /\ pps_offset_ms < 976
        <5>1. edi_time' = edi_time /\ pps_offset_ms' = pps_offset_ms + 24
          BY <2>0, <3>1, <4>1
        <5>. QED BY <2>0, <4>1, <5>1 DEF EdiMs
      <4>2. CASE Carries(1) = 1 /\ pps_offset_ms >= 976
        <5>1. edi_time' = edi_time + 1 /\ pps_offset_ms' = pps_offset_ms - 976
          BY <2>0, <3>1, <4>2
        <5>. QED BY <2>0, <4>2, <5>1 DEF EdiMs
      <4>. QED BY <3>2, <4>1, <4>2
    <3>4. Wall' = Wall + 24
      BY <2>0, <3>1 DEF Wall
    <3>5. EdiMs \in Int /\ Wall \in Int
      BY <2>0 DEF EdiMs, Wall
    <3>6. EdiMs' - (Wall' + TistOffset) = EdiMs - (Wall + TistOffset)
      BY <3>3, <3>4, <3>5, TistOffsetAssumption
    <3>7. StampMs(stamp)' + 24 = EdiMs'
      BY <1>2, <3>1, <3>3 DEF StampsAreEdiTime, StampMs
    <3>. QED BY <1>2, <3>1, <3>3, <3>6, <3>7 DEF StampsAreEdiTime
  <2>4. CASE UNCHANGED vars
    BY <1>2, <2>4 DEF vars, StampsAreEdiTime, EdiMs, Wall, StampMs
  <2>. QED BY <1>2, <2>1, <2>2, <2>3, <2>4, QuietSteps
<1>. QED BY <1>1, <1>2

\* The stamp of every frame is the wall-clock time plus tist_offset.
THEOREM StampIsWallPlusOffsetCorrect ==
    ASSUME NoRoundingUp
    PROVE  Spec => []StampIsWallPlusOffset
<1>. DEFINE Inv == Undisturbed => StampsAreEdiTime
<1>1. TypeOK /\ Inv => StampIsWallPlusOffset
  <2>. SUFFICES ASSUME TypeOK, StampsAreEdiTime, pc = "mnsc"
                PROVE  /\ StampMs(stamp) - (Wall + tist_offset_ms) < FrameMs
                       /\ StampMs(stamp) - (Wall + tist_offset_ms) > -FrameMs
    BY DEF StampIsWallPlusOffset, StampNearWall
  <2>1. StampMs(stamp) - (Wall + tist_offset_ms) \in -12..12
    BY DEF StampsAreEdiTime
  <2>. HIDE DEF StampMs, Wall
  <2>. QED BY <2>1 DEF FrameMs
<1>2. (Init => Inv) /\ (TypeOK /\ Inv /\ [Next]_vars => Inv')
  BY StampsAreEdiTimeInductive, QuietSteps
<1>. HIDE DEF Inv
<1>. QED BY <1>1, <1>2, TypeCorrect, PTL DEF Spec

\* Consecutive stamps are one frame apart, across every second boundary.
THEOREM StampsAdvanceCorrect ==
    ASSUME NoRoundingUp
    PROVE  Spec => StampsAdvanceByOneFrame
<1>. DEFINE Inv == Undisturbed => StampsAreEdiTime
            Step == (Undisturbed /\ pc = "top" /\ pc' = "mnsc" /\ frames > 0)
                      => StampMs(stamp') = StampMs(stamp) + FrameMs
<1>1. TypeOK /\ Inv /\ Inv' /\ [Next]_vars => [Step]_vars
  <2>. SUFFICES ASSUME TypeOK, StampsAreEdiTime, Inv', [Next]_vars,
                       Undisturbed, pc = "top", pc' = "mnsc", frames > 0
                PROVE  StampMs(stamp') = StampMs(stamp) + FrameMs
    OBVIOUS
  <2>1. SampleTist
    BY DEF Next, EncodeMnsc, FinishFrame, SetTistOffset, Finished, vars
  <2>2. EdiMs' = EdiMs /\ Undisturbed'
    BY <2>1 DEF SampleTist, muxTime, EdiMs, Undisturbed
  <2>3. StampMs(stamp)' = EdiMs'
    BY <2>2 DEF StampsAreEdiTime
  <2>4. StampMs(stamp) + FrameMs = EdiMs
    BY DEF StampsAreEdiTime
  <2>. QED BY <2>2, <2>3, <2>4 DEF StampMs
<1>2. (Init => Inv) /\ (TypeOK /\ Inv /\ [Next]_vars => Inv')
  BY StampsAreEdiTimeInductive, QuietSteps
<1>. HIDE DEF Inv
<1>. QED BY <1>1, <1>2, TypeCorrect, PTL DEF Spec, StampsAdvanceByOneFrame

-----------------------------------------------------------------------------
(* The offset of TAI.                                                      *)

\* What a bulletin needs to be for its entries to be compared with the time.
Dated(b) ==
    /\ "entries" \in DOMAIN b
    /\ \A i \in DOMAIN b.entries : i \in Nat \ {0} /\ b.entries[i].from \in Int

(***************************************************************************)
(* A published bulletin begins with its oldest entry.  A file of which a   *)
(* part has been overwritten may not, but its first entry is of the past   *)
(* then.                                                                   *)
(***************************************************************************)
Begins(b) == \A i \in DOMAIN b.entries : 1 \in DOMAIN b.entries /\ b.entries[1].from <= b.entries[i].from
Firm(b) == 1 \in DOMAIN b.entries /\ b.entries[1].from < now

(***************************************************************************)
(* Whoever looks for an offset has the mutex; and while there is none the  *)
(* thread of the refresh does not run.                                     *)
(***************************************************************************)
ClockThreads ==
    /\ loader \in {"nobody", "main", "async"}
    /\ loader # "nobody" => m_bulletin \in bulletins /\ (cache \in bulletins \/ unread)
    /\ loader = "main" => main.at = "first"
    /\ loader = "async" => m_offset_future.at = "running"
    /\ \/ main = [at |-> "idle"] \/ main = [at |-> "first"] \/ main = [at |-> "ended"]
       \/ main = [at |-> "assign", answer |-> main.answer]
    /\ \/ m_offset_future = [at |-> "invalid"] \/ m_offset_future = [at |-> "running"]
       \/ m_offset_future = [at |-> "ready", answer |-> m_offset_future.answer]
    /\ main.at # "idle" \/ m_state = Clock!NoState => m_offset_future.at = "invalid"

(***************************************************************************)
(* A bulletin that was valid stays so, and is replaced by a valid one      *)
(* only; so the search that starts from it finds at least itself.          *)
(***************************************************************************)
ClockValid ==
    /\ Dated(m_bulletin) /\ Dated(cache) /\ \A b \in bulletins : Dated(b)
    /\ Begins(cache) \/ Firm(cache)
    /\ known => Clock!Valid(cache)
    /\ m_state # Clock!NoState => Clock!Valid(m_bulletin)
    /\ main.at = "assign" /\ main.answer # Clock!NoState => Clock!Valid(m_bulletin)
    /\ known /\ ~unread => main.at # "ended" /\ ~(main.at = "assign" /\ main.answer = Clock!NoState)
    /\ m_offset_future.at = "ready" => m_offset_future.answer # Clock!NoState

ClockOK == now \in Int /\ now >= 1 /\ ClockThreads /\ ClockValid

ClockHypotheses ==
    /\ MaxTime \in Nat
    /\ \A b \in Bulletins : b.entries \in Seq([from : Int, offset : Int]) /\ Dated(b) /\ Begins(b)

LEMMA AStateIsNotNone == \A b : Clock!State(b) # Clock!NoState
<1> SUFFICES ASSUME NEW b PROVE Clock!State(b) # Clock!NoState
    OBVIOUS
<1>1. Clock!State(b).valid = TRUE /\ Clock!NoState.valid = FALSE
    BY DEF Clock!State, Clock!NoState
<1> QED BY <1>1

\* An override is in force since ever.
LEMMA OverrideIsValid ==
    ASSUME MaxTime \in Nat, now \in Int, now >= 1, NEW o
    PROVE  Dated(Clock!FixedOffset(o)) /\ Clock!Valid(Clock!FixedOffset(o))
<1> DEFINE b == Clock!FixedOffset(o)
<1>1. b.entries = <<[from |-> -MaxTime - 2, offset |-> o]>>
    BY DEF Clock!FixedOffset, Clock!Never
<1>2. DOMAIN b.entries = {1} /\ b.entries[1].from = -MaxTime - 2 /\ "entries" \in DOMAIN b
  <2>1. "entries" \in DOMAIN b
    BY DEF Clock!FixedOffset
  <2> QED BY <1>1, <2>1
<1> HIDE DEF b
<1>3. Dated(b)
    BY <1>2 DEF Dated
<1>4. 1 \in Clock!Past(b)
    BY <1>2 DEF Clock!Past
<1> QED BY <1>3, <1>4 DEF b, Clock!Valid

\* What is valid stays so when time passes.
LEMMA StaysValid ==
    ASSUME now \in Int, now' \in {now, now + 1}, NEW b, Dated(b), Clock!Valid(b)
    PROVE  \E i \in DOMAIN b.entries : b.entries[i].from < now'
<1>1. PICK i \in DOMAIN b.entries : b.entries[i].from < now
    BY DEF Clock!Valid, Clock!Past
<1>2. b.entries[i].from \in Int
    BY DEF Dated
<1> QED BY <1>1, <1>2

LEMMA ValidKept ==
    ASSUME now \in Int, now' \in {now, now + 1}, Dated(m_bulletin), Dated(cache)
    PROVE  /\ m_bulletin' = m_bulletin /\ Clock!Valid(m_bulletin) => Clock!Valid(m_bulletin)'
           /\ cache' = cache /\ Clock!Valid(cache) => Clock!Valid(cache)'
           /\ cache' = cache /\ (Begins(cache) \/ Firm(cache)) => (Begins(cache) \/ Firm(cache))'
<1>1. ASSUME m_bulletin' = m_bulletin, Clock!Valid(m_bulletin) PROVE Clock!Valid(m_bulletin)'
  <2>1. \E i \in DOMAIN m_bulletin.entries : m_bulletin.entries[i].from < now'
    BY <1>1, StaysValid
  <2>2. \E i \in DOMAIN m_bulletin'.entries : m_bulletin'.entries[i].from < now'
    BY <1>1, <2>1
  <2> QED BY <2>2 DEF Clock!Valid, Clock!Past
<1>2. ASSUME cache' = cache, Clock!Valid(cache) PROVE Clock!Valid(cache)'
  <2>1. \E i \in DOMAIN cache.entries : cache.entries[i].from < now'
    BY <1>2, StaysValid
  <2>2. \E i \in DOMAIN cache'.entries : cache'.entries[i].from < now'
    BY <1>2, <2>1
  <2> QED BY <2>2 DEF Clock!Valid, Clock!Past
<1>3. ASSUME cache' = cache, Begins(cache) \/ Firm(cache) PROVE (Begins(cache) \/ Firm(cache))'
  BY <1>3 DEF Begins, Firm, Dated
<1> QED BY <1>1, <1>2, <1>3

\* The same, when the bulletin in use is replaced.
LEMMA ValidTaken ==
    ASSUME now' = now, NEW b, Clock!Valid(b), m_bulletin' = b
    PROVE  Clock!Valid(m_bulletin)'
<1>1. \E i \in DOMAIN b.entries : b.entries[i].from < now
    BY DEF Clock!Valid, Clock!Past
<1>2. \E i \in DOMAIN m_bulletin'.entries : m_bulletin'.entries[i].from < now'
    BY <1>1
<1> QED BY <1>2 DEF Clock!Valid, Clock!Past

LEMMA AnswerKept ==
    ASSUME ClockOK, NEW who \in {"main", "async"}, NEW a, Clock!Answer(who, a),
           who = "main" => main.at = "first",
           who = "async" => m_offset_future.at = "running",
           now' = now, m_state' = m_state, Dated(m_bulletin)', Dated(cache)',
           a # Clock!NoState \/ m_state # Clock!NoState => Clock!Valid(m_bulletin)',
           known' => Clock!Valid(cache)', known' /\ ~unread' => a # Clock!NoState,
           (Begins(cache) \/ Firm(cache))',
           a # Clock!NoState \/ m_state = Clock!NoState
    PROVE  ClockOK'
<1>1. /\ loader' = "nobody" /\ bulletins' = {}
      /\ \/ who = "main" /\ main' = [at |-> "assign", answer |-> a] /\ m_offset_future' = m_offset_future
         \/ who = "async" /\ m_offset_future' = [at |-> "ready", answer |-> a] /\ main' = main
    BY DEF Clock!Answer
<1>2. Clock!NoState' = Clock!NoState
    BY DEF Clock!NoState
<1>3. CASE who = "main"
  <2>1. /\ main.at = "first" /\ m_offset_future.at = "invalid" /\ m_offset_future' = m_offset_future
        /\ main' = [at |-> "assign", answer |-> a]
    BY <1>1, <1>3 DEF ClockOK, ClockThreads
  <2>2. ClockThreads'
    BY <1>1, <1>2, <2>1 DEF ClockOK, ClockThreads
  <2>3. ClockValid'
    BY <1>1, <1>2, <2>1 DEF ClockOK, ClockValid
  <2> QED BY <2>2, <2>3 DEF ClockOK
<1>4. CASE who = "async"
  <2>1. /\ main.at = "idle" /\ m_state # Clock!NoState /\ main' = main
        /\ m_offset_future' = [at |-> "ready", answer |-> a]
    BY <1>1, <1>4 DEF ClockOK, ClockThreads
  <2>2. ClockThreads'
    BY <1>1, <1>2, <2>1 DEF ClockOK, ClockThreads
  <2>3. ClockValid'
    BY <1>1, <1>2, <2>1 DEF ClockOK, ClockValid
  <2> QED BY <2>2, <2>3 DEF ClockOK
<1> QED BY <1>3, <1>4

LEMMA TakeExpiredKept ==
    ASSUME ClockOK, NEW who \in {"main", "async"}, NEW from, Clock!TakeExpired(who, from),
           who = "main" => main.at = "first",
           who = "async" => m_offset_future.at = "running",
           m_bulletin \in from, cache \in from \/ unread', \A b \in from : Dated(b),
           UNCHANGED <<now, m_state, cache, known>>
    PROVE  ClockOK'
<1>1. /\ now \in Int /\ Dated(m_bulletin) /\ Dated(cache)
      /\ m_state # Clock!NoState => Clock!Valid(m_bulletin)
      /\ known => Clock!Valid(cache)
    BY DEF ClockOK, ClockValid
<1>2. (Clock!Valid(cache) => Clock!Valid(cache)') /\ (Begins(cache) \/ Firm(cache))'
    BY <1>1, ValidKept DEF ClockOK, ClockValid
<1>3. Dated(cache)'
    BY <1>1 DEF Dated
<1>4. CASE \A b \in from : ~Clock!Valid(b)
  <2>1. {b \in from : Clock!Valid(b)} = {}
    BY <1>4
  <2>2. Clock!Answer(who, Clock!NoState) /\ m_bulletin' = m_bulletin
    BY <2>1 DEF Clock!TakeExpired, Clock!Failed
  <2>3. m_state = Clock!NoState /\ (known' => unread')
    BY <1>1, <1>4
  <2>4. Dated(m_bulletin)'
    BY <1>1, <2>2 DEF Dated
  <2> QED BY <1>1, <1>2, <1>3, <2>2, <2>3, <2>4, AnswerKept
<1>5. CASE ~\A b \in from : ~Clock!Valid(b)
  <2>1. {b \in from : Clock!Valid(b)} # {}
    BY <1>5
  <2>2. PICK b \in from : Clock!Valid(b) /\ m_bulletin' = b /\ Clock!Answer(who, Clock!State(b))
    BY <2>1 DEF Clock!TakeExpired
  <2>3. Clock!Valid(m_bulletin)'
    BY <2>2, ValidTaken
  <2>4. Dated(m_bulletin)'
    BY <2>2 DEF Dated
  <2> QED BY <1>1, <1>2, <1>3, <2>2, <2>3, <2>4, AStateIsNotNone, AnswerKept
<1> QED BY <1>4, <1>5

\* A file that cannot be read is as one without entries.
LEMMA NothingIsDated == Dated(Clock!NoBulletin)
BY DEF Dated, Clock!NoBulletin

LEMMA SearchKept ==
    ASSUME ClockOK, NEW who \in {"main", "async"}, NEW file \in {cache, Clock!NoBulletin},
           Clock!Search(who, file), file # cache => unread', unread => unread',
           loader = "nobody", UNCHANGED <<now, m_state, cache, known>>,
           who = "main" => main.at = "first",
           who = "async" => m_offset_future.at = "running"
    PROVE  ClockOK'
<1>1. /\ now \in Int /\ Dated(m_bulletin) /\ Dated(cache) /\ Dated(file)
      /\ m_state # Clock!NoState => Clock!Valid(m_bulletin)
      /\ known => Clock!Valid(cache)
    BY NothingIsDated DEF ClockOK, ClockValid
<1>2. (Clock!Valid(cache) => Clock!Valid(cache)') /\ (Begins(cache) \/ Firm(cache))'
    BY <1>1, ValidKept DEF ClockOK, ClockValid
<1>3. Dated(cache)'
    BY <1>1 DEF Dated
<1>4. CASE Clock!Usable(file)
  <2>1. m_bulletin' = file /\ Clock!Answer(who, Clock!State(file)) /\ Clock!Valid(file)
    BY <1>4 DEF Clock!Search, Clock!Usable
  <2>2. Clock!Valid(m_bulletin)'
    BY <2>1, ValidTaken
  <2>3. Dated(m_bulletin)'
    BY <1>1, <2>1 DEF Dated
  <2> QED BY <1>1, <1>2, <1>3, <2>1, <2>2, <2>3, AStateIsNotNone, AnswerKept
<1>5. CASE ~Clock!Usable(file) /\ m_bulletin_urls = 0
  <2>1. Clock!TakeExpired(who, {m_bulletin, file})
    BY <1>5 DEF Clock!Search
  <2> QED BY <1>1, <2>1, TakeExpiredKept
<1>6. CASE ~Clock!Usable(file) /\ m_bulletin_urls # 0
  <2>1. /\ loader' = who /\ bulletins' = {m_bulletin, file}
        /\ UNCHANGED <<m_bulletin, m_offset_future, main>>
    BY <1>6 DEF Clock!Search
  <2>2. Clock!NoState' = Clock!NoState /\ Dated(m_bulletin)' /\ \A b \in bulletins' : Dated(b)
    BY <1>1, <2>1 DEF Clock!NoState, Dated
  <2>3. Clock!Valid(m_bulletin) => Clock!Valid(m_bulletin)'
    BY <1>1, <2>1, ValidKept
  <2>4. ClockThreads'
    BY <1>1, <2>1, <2>2 DEF ClockOK, ClockThreads
  <2>5. ClockValid'
    BY <1>1, <1>2, <1>3, <2>1, <2>2, <2>3 DEF ClockOK, ClockValid
  <2> QED BY <1>1, <2>4, <2>5 DEF ClockOK
<1> QED BY <1>4, <1>5, <1>6

LEMMA GetValidOffsetKept ==
    ASSUME ClockOK, NEW who \in {"main", "async"}, Clock!GetValidOffset(who),
           who = "main" => main.at = "first",
           who = "async" => m_offset_future.at = "running"
    PROVE  ClockOK'
<1>1. /\ now \in Int /\ Dated(m_bulletin) /\ Dated(cache) /\ loader = "nobody"
      /\ known => Clock!Valid(cache)
      /\ UNCHANGED <<now, m_state, cache, known>>
    BY DEF ClockOK, ClockValid, Clock!GetValidOffset, Clock!Free
<1>2. (Clock!Valid(cache) => Clock!Valid(cache)') /\ (Begins(cache) \/ Firm(cache))'
    BY <1>1, ValidKept DEF ClockOK, ClockValid
<1>3. Dated(cache)'
    BY <1>1 DEF Dated
<1>4. CASE Clock!Usable(m_bulletin) /\ m_bulletin' = m_bulletin
           /\ Clock!Answer(who, Clock!State(m_bulletin))
  <2>1. Clock!Valid(m_bulletin)' /\ Dated(m_bulletin)'
    BY <1>1, <1>4, ValidTaken DEF Clock!Usable, Dated
  <2> QED BY <1>1, <1>2, <1>3, <1>4, <2>1, AStateIsNotNone, AnswerKept
<1>5. CASE \E file \in {cache, Clock!NoBulletin} :
             Clock!Search(who, file) /\ unread' = (unread \/ file # cache)
  <2>1. PICK file \in {cache, Clock!NoBulletin} :
             Clock!Search(who, file) /\ unread' = (unread \/ file # cache)
    BY <1>5
  <2>2. (file # cache => unread') /\ (unread => unread')
    BY <2>1, Zenon
  <2> QED BY <1>1, <2>1, <2>2, SearchKept
<1> QED BY <1>4, <1>5 DEF Clock!GetValidOffset

(***************************************************************************)
(* store_to_cache: wherever it is cut short, a file that was valid is, for *)
(* its first entry is an old one still, or the first of the new bulletin,  *)
(* which is of the past.                                                   *)
(***************************************************************************)
LEMMA OverwrittenKept ==
    ASSUME ClockHypotheses, now \in Int, NEW b \in Bulletins, Clock!Valid(b), Dated(cache),
           Begins(cache) \/ Firm(cache),
           NEW n \in 0..(Len(b.entries) + 1), NEW file, file = Clock!Overwritten(cache, b, n)
    PROVE  /\ Dated(file) /\ (Begins(file) \/ Firm(file))
           /\ Clock!Valid(cache) => Clock!Valid(file)
<1>1. CASE n = 0
  BY <1>1 DEF Clock!Overwritten
<1>2. CASE n = 1
  <2>1. /\ "entries" \in DOMAIN file
        /\ file.entries = [i \in 1..(n - 1) \union DOMAIN cache.entries |->
                             IF i < n THEN b.entries[i] ELSE cache.entries[i]]
    BY <1>2 DEF Clock!Overwritten
  <2>2. /\ DOMAIN file.entries = DOMAIN cache.entries
        /\ \A i \in DOMAIN cache.entries : file.entries[i] = cache.entries[i]
    <3>1. 1..(n - 1) \union DOMAIN cache.entries = DOMAIN cache.entries
      BY <1>2
    <3>2. \A i \in DOMAIN cache.entries : ~(i < n)
      BY <1>2 DEF Dated
    <3> QED BY <2>1, <3>1, <3>2
  <2>3. Dated(file)
    BY <2>1, <2>2 DEF Dated
  <2>4. Begins(file) \/ Firm(file)
    BY <2>2 DEF Begins, Firm
  <2>5. Clock!Valid(cache) => Clock!Valid(file)
    BY <2>2 DEF Clock!Valid, Clock!Past
  <2> QED BY <2>3, <2>4, <2>5
<1>3. CASE n > 1
  <2>1. /\ "entries" \in DOMAIN file
        /\ file.entries = [i \in 1..(n - 1) \union DOMAIN cache.entries |->
                             IF i < n THEN b.entries[i] ELSE cache.entries[i]]
    BY <1>3 DEF Clock!Overwritten
  <2>2. /\ DOMAIN file.entries = 1..(n - 1) \union DOMAIN cache.entries
        /\ \A i \in DOMAIN file.entries :
              file.entries[i] = IF i < n THEN b.entries[i] ELSE cache.entries[i]
    BY <2>1
  <2>3. DOMAIN b.entries = 1..Len(b.entries) /\ Len(b.entries) \in Nat /\ Dated(b) /\ Begins(b)
    BY DEF ClockHypotheses
  <2>4. 1 \in DOMAIN file.entries /\ file.entries[1] = b.entries[1] /\ 1 \in DOMAIN b.entries
    BY <1>3, <2>2, <2>3
  <2>5. b.entries[1].from < now
    <3>1. PICK i \in DOMAIN b.entries : b.entries[i].from < now
      BY DEF Clock!Valid, Clock!Past
    <3>2. b.entries[1].from <= b.entries[i].from /\ b.entries[i].from \in Int /\ b.entries[1].from \in Int
      BY <2>3, <2>4, <3>1 DEF Begins, Dated
    <3> QED BY <3>1, <3>2
  <2>6. Firm(file) /\ Clock!Valid(file)
    <3>1. file.entries[1].from < now
      BY <2>4, <2>5
    <3> QED BY <2>4, <3>1 DEF Firm, Clock!Valid, Clock!Past
  <2>7. Dated(file)
    <3>1. ASSUME NEW i \in DOMAIN file.entries
          PROVE  i \in Nat \ {0} /\ file.entries[i].from \in Int
      <4>1. i \in Nat \ {0} /\ (i < n \/ i \in DOMAIN cache.entries)
        BY <1>3, <2>2 DEF Dated
      <4>2. CASE i < n
        <5>1. file.entries[i] = b.entries[i] /\ i \in DOMAIN b.entries
          BY <2>2, <2>3, <4>1, <4>2
        <5> QED BY <2>3, <4>1, <5>1 DEF Dated
      <4>3. CASE ~(i < n)
        <5>1. file.entries[i] = cache.entries[i] /\ i \in DOMAIN cache.entries
          BY <2>2, <4>1, <4>3
        <5> QED BY <4>1, <5>1 DEF Dated
      <4> QED BY <4>2, <4>3
    <3> QED BY <2>1, <3>1 DEF Dated
  <2> QED BY <2>6, <2>7
<1> QED BY <1>1, <1>2, <1>3

\* ClockTAI::get_valid_offset, after one of the downloads.
LEMMA DownloadEndsKept == ASSUME ClockHypotheses, ClockOK, Clock!DownloadEnds PROVE ClockOK'
<1>1. /\ now \in Int /\ Dated(m_bulletin) /\ Dated(cache) /\ loader \in {"main", "async"}
      /\ loader = "main" => main.at = "first"
      /\ loader = "async" => m_offset_future.at = "running"
      /\ m_bulletin \in bulletins /\ (cache \in bulletins \/ unread') /\ \A b \in bulletins : Dated(b)
      /\ m_state # Clock!NoState => Clock!Valid(m_bulletin)
      /\ known => Clock!Valid(cache)
      /\ UNCHANGED <<now, m_state, unread>>
    BY DEF ClockOK, ClockThreads, ClockValid, Clock!DownloadEnds, Clock!Free
<1>2. ASSUME NEW b \in Bulletins, Clock!DownloadGives(b) PROVE ClockOK'
  <2>1. /\ Clock!Valid(b) /\ m_bulletin' = b /\ Dated(b)
        /\ Clock!Answer(loader, Clock!State(b))
        /\ known' = (known \/ Clock!Valid(cache'))
    BY <1>2 DEF ClockHypotheses, Clock!DownloadGives, Clock!Usable
  <2>2. Clock!Valid(m_bulletin)' /\ Dated(m_bulletin)'
    BY <1>1, <2>1, ValidTaken DEF Dated
  <2>3. PICK n \in 0..(Len(b.entries) + 1) : cache' = Clock!Overwritten(cache, b, n)
    BY <1>2 DEF Clock!DownloadGives
  <2>4. /\ Dated(cache') /\ (Begins(cache') \/ Firm(cache'))
        /\ Clock!Valid(cache) => Clock!Valid(cache')
    BY <1>1, <2>1, <2>3, OverwrittenKept DEF ClockOK, ClockValid
  <2>5. Dated(cache)' /\ (Begins(cache) \/ Firm(cache))' /\ (known' => Clock!Valid(cache)')
    <3>1. /\ Dated(cache') => Dated(cache)'
          /\ Begins(cache') => Begins(cache)'
          /\ Firm(cache') => Firm(cache)'
      BY <1>1 DEF Dated, Begins, Firm
    <3>2. Clock!Valid(cache') => Clock!Valid(cache)'
      BY <1>1 DEF Clock!Valid, Clock!Past
    <3> QED BY <1>1, <2>1, <2>4, <3>1, <3>2
  <2> QED BY <1>1, <2>1, <2>2, <2>5, AStateIsNotNone, AnswerKept
<1>3. ASSUME NEW got \in SUBSET Bulletins,
             Clock!DownloadDoesNotHelp(got) \/ Clock!NoDownloadHelped(got)
      PROVE  ClockOK'
  <2>1. \A b \in bulletins \union got : Dated(b)
    BY <1>1 DEF ClockHypotheses
  <2>2. CASE Clock!DownloadDoesNotHelp(got)
    <3>1. /\ bulletins' = bulletins \union got
          /\ UNCHANGED <<m_bulletin, m_offset_future, main, loader, cache, known>>
      BY <2>2 DEF Clock!DownloadDoesNotHelp
    <3>2. Clock!NoState' = Clock!NoState /\ Dated(m_bulletin)' /\ Dated(cache)'
          /\ \A b \in bulletins' : Dated(b)
      BY <1>1, <2>1, <3>1 DEF Clock!NoState, Dated
    <3>3. /\ Clock!Valid(m_bulletin) => Clock!Valid(m_bulletin)'
          /\ Clock!Valid(cache) => Clock!Valid(cache)'
          /\ (Begins(cache) \/ Firm(cache))'
      BY <1>1, <3>1, ValidKept DEF ClockOK, ClockValid
    <3>4. ClockThreads'
      BY <1>1, <3>1, <3>2 DEF ClockOK, ClockThreads
    <3>5. ClockValid'
      BY <1>1, <3>1, <3>2, <3>3 DEF ClockOK, ClockValid
    <3> QED BY <1>1, <3>4, <3>5 DEF ClockOK
  <2>3. CASE Clock!NoDownloadHelped(got)
    <3>1. Clock!TakeExpired(loader, bulletins \union got) /\ UNCHANGED <<cache, known>>
      BY <2>3 DEF Clock!NoDownloadHelped, Clock!Candidates
    <3> QED BY <1>1, <2>1, <3>1, TakeExpiredKept
  <2> QED BY <1>3, <2>2, <2>3
<1>4. \A got \in {{}} \union {{b} : b \in {x \in Bulletins : ~Clock!Usable(x)}} : got \in SUBSET Bulletins
    OBVIOUS
<1>5. \/ \E b \in Bulletins : Clock!DownloadGives(b)
      \/ \E got \in SUBSET Bulletins : Clock!DownloadDoesNotHelp(got) \/ Clock!NoDownloadHelped(got)
    BY <1>4, Zenon DEF Clock!DownloadEnds
<1> QED BY <1>2, <1>3, <1>5

\* The steps that change neither bulletins nor what is being looked for.
LEMMA ClockQuietKept ==
    ASSUME ClockOK, now' \in {now, now + 1},
           UNCHANGED <<m_bulletin, cache, known, unread, loader, bulletins>>,
           ClockThreads',
           m_state' # Clock!NoState => Clock!Valid(m_bulletin),
           main'.at = "assign" /\ main'.answer # Clock!NoState => Clock!Valid(m_bulletin),
           known /\ ~unread => main'.at # "ended" /\ ~(main'.at = "assign" /\ main'.answer = Clock!NoState),
           m_offset_future'.at = "ready" => m_offset_future'.answer # Clock!NoState
    PROVE  ClockOK'
<1>1. Dated(m_bulletin) /\ Dated(cache) /\ now \in Int /\ now >= 1
    BY DEF ClockOK, ClockValid
<1>2. Clock!NoState' = Clock!NoState /\ Dated(m_bulletin)' /\ Dated(cache)' /\ (\A b \in bulletins : Dated(b))'
    BY DEF ClockOK, ClockValid, Clock!NoState, Dated
<1>3. /\ Clock!Valid(m_bulletin) => Clock!Valid(m_bulletin)'
      /\ Clock!Valid(cache) => Clock!Valid(cache)'
      /\ (Begins(cache) \/ Firm(cache))'
    BY <1>1, ValidKept DEF ClockOK, ClockValid
<1>4. ClockValid'
    BY <1>2, <1>3 DEF ClockOK, ClockValid
<1> QED BY <1>1, <1>4 DEF ClockOK

LEMMA ClockMainKept ==
    ASSUME ClockOK, \/ Clock!GetOffsetFirst \/ Clock!AssignFirst \/ Clock!GetOffset
                    \/ UNCHANGED clockVars
    PROVE  ClockOK'
<1> USE DEF ClockOK, ClockThreads, ClockValid
<1>1. CASE Clock!GetOffsetFirst
  <2>1. /\ UNCHANGED <<now, m_bulletin, m_state, m_offset_future, cache, loader, bulletins, known, unread>>
        /\ main' = [at |-> "first"] /\ m_state = Clock!NoState
    BY <1>1 DEF Clock!GetOffsetFirst, Clock!ghosts
  <2>2. ClockThreads'
    BY <2>1 DEF Clock!NoState
  <2> QED BY <2>1, <2>2, ClockQuietKept
<1>2. CASE Clock!AssignFirst
  <2>1. /\ UNCHANGED <<now, m_bulletin, m_offset_future, cache, loader, bulletins, known, unread>>
        /\ main.at = "assign" /\ m_state' = main.answer
        /\ main' = IF main.answer = Clock!NoState THEN [at |-> "ended"] ELSE [at |-> "idle"]
    BY <1>2 DEF Clock!AssignFirst, Clock!ghosts, Clock!Failed, Clock!Idle
  <2>2. ClockThreads'
    BY <2>1 DEF Clock!NoState
  <2> QED BY <2>1, <2>2, ClockQuietKept
<1>3. CASE Clock!GetOffset
  <2>1. /\ UNCHANGED <<now, m_bulletin, cache, loader, bulletins, known, unread, main>>
        /\ main = [at |-> "idle"] /\ m_state # Clock!NoState /\ loader = "nobody"
        /\ Clock!Refresh
    BY <1>3 DEF Clock!GetOffset, Clock!loading, Clock!Idle, Clock!Free
  <2>2. /\ m_state' # Clock!NoState
        /\ m_offset_future' \in {[at |-> "invalid"], [at |-> "running"], m_offset_future}
    BY <2>1 DEF Clock!Refresh, Clock!TakeAnswer, Clock!Failed
  <2>3. ClockThreads'
    BY <2>1, <2>2 DEF Clock!NoState
  <2> QED BY <2>1, <2>2, <2>3, ClockQuietKept
<1>4. CASE UNCHANGED clockVars
  <2>1. UNCHANGED <<now, m_bulletin, m_state, m_offset_future, cache, loader, bulletins, known, unread, main>>
    BY <1>4 DEF clockVars
  <2>2. ClockThreads'
    BY <2>1 DEF Clock!NoState
  <2> QED BY <2>1, <2>2, ClockQuietKept
<1> QED BY <1>1, <1>2, <1>3, <1>4

LEMMA ClockTickKept == ASSUME ClockOK, Clock!Tick PROVE ClockOK'
<1>1. /\ now' = now + 1
      /\ UNCHANGED <<m_bulletin, m_state, m_offset_future, cache, loader, bulletins, known, unread, main>>
    BY DEF Clock!Tick, Clock!loading
<1>2. ClockThreads'
    BY <1>1 DEF ClockOK, ClockThreads, Clock!NoState
<1> QED BY <1>1, <1>2, ClockQuietKept DEF ClockOK, ClockValid

\* An override is valid, and an override that expires is valid still.
LEMMA ClockRemoteControlKept == ASSUME MaxTime \in Nat, ClockOK, Clock!RemoteControl PROVE ClockOK'
<1>1. /\ UNCHANGED <<now, m_offset_future, cache, loader, bulletins, known, unread, main>>
      /\ loader = "nobody" /\ now \in Int /\ now >= 1 /\ Dated(m_bulletin) /\ Dated(cache)
    BY DEF Clock!RemoteControl, Clock!loading, Clock!Free, ClockOK, ClockValid
<1>2. /\ Clock!NoState' = Clock!NoState /\ Dated(cache)' /\ (Clock!Valid(cache) => Clock!Valid(cache)')
      /\ (Begins(cache) \/ Firm(cache))'
    BY <1>1, ValidKept DEF Clock!NoState, Dated, ClockOK, ClockValid
<1>3. ASSUME NEW o, Clock!SetOffset(o) PROVE ClockOK'
  <2>1. m_bulletin' = Clock!FixedOffset(o) /\ m_state' # Clock!NoState
    BY <1>3, AStateIsNotNone DEF Clock!SetOffset
  <2>2. Clock!Valid(m_bulletin)' /\ Dated(m_bulletin)'
    <3>1. Dated(Clock!FixedOffset(o)) /\ Clock!Valid(Clock!FixedOffset(o))
      BY <1>1, OverrideIsValid
    <3>2. Clock!Valid(m_bulletin)'
      BY <1>1, <2>1, <3>1, ValidTaken
    <3> QED BY <2>1, <3>1, <3>2 DEF Dated
  <2>3. ClockThreads'
    BY <1>1, <1>2, <2>1 DEF ClockOK, ClockThreads
  <2>4. ClockValid'
    BY <1>1, <1>2, <2>1, <2>2 DEF ClockOK, ClockValid
  <2> QED BY <1>1, <2>3, <2>4 DEF ClockOK
<1>4. CASE Clock!SetUrl
  <2>1. /\ m_state' = m_state
        /\ m_bulletin' = m_bulletin \/ m_bulletin' = [m_bulletin EXCEPT !.expires_at = now]
    BY <1>4 DEF Clock!SetUrl
  <2>2. /\ Dated(m_bulletin)'
        /\ Clock!Valid(m_bulletin) => Clock!Valid(m_bulletin)'
    <3>1. m_bulletin'.entries = m_bulletin.entries /\ "entries" \in DOMAIN m_bulletin'
      BY <1>1, <2>1 DEF Dated
    <3>2. Dated(m_bulletin)'
      BY <1>1, <3>1 DEF Dated
    <3>3. Clock!Valid(m_bulletin) => Clock!Valid(m_bulletin)'
      BY <1>1, <3>1 DEF Clock!Valid, Clock!Past
    <3> QED BY <3>2, <3>3
  <2>3. ClockThreads'
    BY <1>1, <1>2, <2>1 DEF ClockOK, ClockThreads
  <2>4. ClockValid'
    BY <1>1, <1>2, <2>1, <2>2 DEF ClockOK, ClockValid
  <2> QED BY <1>1, <2>3, <2>4 DEF ClockOK
<1>5. (\E o \in Overrides : Clock!SetOffset(o)) \/ Clock!SetUrl
    BY DEF Clock!RemoteControl
<1> QED BY <1>3, <1>4, <1>5

\* A new process starts from the cache of the old one.
LEMMA ClockRestartKept == ASSUME MaxTime \in Nat, ClockOK, Clock!Restart PROVE ClockOK'
<1>1. /\ UNCHANGED <<now, cache, known>> /\ Clock!Start
      /\ m_offset_future' = [at |-> "invalid"] /\ main' = [at |-> "idle"]
      /\ loader' = "nobody" /\ bulletins' = {}
      /\ now \in Int /\ now >= 1 /\ Dated(m_bulletin) /\ Dated(cache)
    BY DEF Clock!Restart, Clock!Idle, ClockOK, ClockValid
<1>2. /\ Clock!NoState' = Clock!NoState /\ Dated(cache)' /\ (Clock!Valid(cache) => Clock!Valid(cache)')
      /\ (Begins(cache) \/ Firm(cache))'
    BY <1>1, ValidKept DEF Clock!NoState, Dated, ClockOK, ClockValid
<1>3. Dated(m_bulletin)' /\ (m_state' # Clock!NoState => Clock!Valid(m_bulletin)')
  <2>1. CASE tai_clock_offset = <<>>
    <3>1. m_bulletin' = [entries |-> <<>>, expires_at |-> 0] /\ m_state' = Clock!NoState
      BY <1>1, <2>1 DEF Clock!Start, Clock!NoBulletin
    <3> QED BY <3>1 DEF Dated
  <2>2. CASE tai_clock_offset # <<>>
    <3>1. m_bulletin' = Clock!FixedOffset(tai_clock_offset[1])
      BY <1>1, <2>2 DEF Clock!Start
    <3>2. /\ Dated(Clock!FixedOffset(tai_clock_offset[1]))
          /\ Clock!Valid(Clock!FixedOffset(tai_clock_offset[1]))
      BY <1>1, OverrideIsValid
    <3>3. Clock!Valid(m_bulletin)'
      BY <1>1, <3>1, <3>2, ValidTaken
    <3> QED BY <3>1, <3>2, <3>3 DEF Dated
  <2> QED BY <2>1, <2>2
<1>4. ClockThreads'
    BY <1>1, <1>2 DEF ClockOK, ClockThreads
<1>5. ClockValid'
    BY <1>1, <1>2, <1>3 DEF ClockOK, ClockValid
<1> QED BY <1>1, <1>4, <1>5 DEF ClockOK

LEMMA ClockOKHolds == ASSUME ClockHypotheses, Clock!Init PROVE ClockOK
<1>1. /\ now = 1 /\ now \in Int /\ now >= 1
      /\ m_offset_future = [at |-> "invalid"] /\ main = [at |-> "idle"]
      /\ loader = "nobody" /\ bulletins = {} /\ known = Clock!Valid(cache)
      /\ cache \in Bulletins \union {Clock!NoBulletin} /\ MaxTime \in Nat
    BY DEF Clock!Init, Clock!Idle, ClockHypotheses
<1>2. Dated(cache) /\ Begins(cache)
  <2>1. Dated(Clock!NoBulletin) /\ Begins(Clock!NoBulletin)
    BY DEF Dated, Begins, Clock!NoBulletin
  <2> QED BY <1>1, <2>1 DEF ClockHypotheses
<1>3. Dated(m_bulletin) /\ (m_state # Clock!NoState => Clock!Valid(m_bulletin))
  <2>1. CASE m_bulletin = Clock!NoBulletin /\ m_state = Clock!NoState
    BY <2>1 DEF Dated, Clock!NoBulletin
  <2>2. CASE \E o \in Overrides : m_bulletin = Clock!FixedOffset(o)
    BY <1>1, <2>2, OverrideIsValid
  <2> QED BY <2>1, <2>2 DEF Clock!Init
<1>4. ClockThreads
    BY <1>1 DEF ClockThreads
<1>5. ClockValid
    BY <1>1, <1>2, <1>3 DEF ClockValid
<1> QED BY <1>1, <1>4, <1>5 DEF ClockOK

LEMMA ClockOKKept == ASSUME ClockHypotheses, ClockOK, [Clock!Next]_clockVars PROVE ClockOK'
<1>1. CASE Clock!LoadFirst \/ Clock!AsyncLoads
    BY <1>1, GetValidOffsetKept DEF Clock!LoadFirst, Clock!AsyncLoads
<1> QED BY <1>1, DownloadEndsKept, ClockMainKept, ClockTickKept, ClockRemoteControlKept,
           ClockRestartKept DEF Clock!Next, ClockHypotheses

(***************************************************************************)
(* get_valid_offset, in whatever order the main loop, the thread of the    *)
(* refresh, the remote control and the end of a process come.              *)
(***************************************************************************)
THEOREM RefreshNeverFailsCorrect ==
    ASSUME ClockHypotheses PROVE MainSpec => []RefreshNeverFails
<1>1. MainInit => ClockOK
    BY ClockOKHolds DEF MainInit
<1>2. ClockOK /\ [MainNext]_mainVars => ClockOK'
  <2> SUFFICES ASSUME ClockOK, [MainNext]_mainVars PROVE ClockOK'
    OBVIOUS
  <2>1. [Clock!Next]_clockVars
    BY DEF MainNext, mainVars
  <2> QED BY <2>1, ClockOKKept
<1>3. ClockOK => RefreshNeverFails
    BY DEF ClockOK, ClockThreads, ClockValid, RefreshNeverFails, Clock!RefreshNeverFails,
           Clock!Failed
<1> QED BY <1>1, <1>2, <1>3, PTL DEF MainSpec

-----------------------------------------------------------------------------
(* How long the offset in use may be another than the bulletin's.          *)

\* Bulletin::state as a function of the entries and the time.
OffsetAt(entries, t) ==
    entries[CHOOSE i \in {k \in DOMAIN entries : entries[k].from < t} :
                \A j \in {k \in DOMAIN entries : entries[k].from < t} : j <= i].offset

OffsetNow == OffsetAt(m_bulletin.entries, now)
Agrees == m_state.offset = OffsetNow
Due == m_state_last_updated + 1 < now

(***************************************************************************)
(* An override is in force, and has been since it was set: neither a leap  *)
(* second nor a change of its expiry makes it another.                     *)
(***************************************************************************)
Overridden ==
    /\ m_state # Clock!NoState
    /\ m_bulletin.entries = <<[from |-> Clock!Never, offset |-> m_state.offset]>>
    /\ apart = 0

(***************************************************************************)
(* They come apart by a leap second, or when an answer comes that was      *)
(* found before an override: until the next refresh is due.                *)
(***************************************************************************)
ApartOK ==
    /\ m_state_last_updated \in Int /\ m_state_last_updated <= now
    /\ now <= MaxTime
    /\ apart \in Nat /\ apart <= 2
    /\ apart <= now - m_state_last_updated \/ Agrees
    /\ m_state = Clock!NoState \/ main.at # "idle" => apart = 0
    /\ m_offset_future.at = "ready" => m_offset_future.answer.offset = OffsetNow \/ Overridden
    /\ m_offset_future.at # "invalid" =>
          \/ Due
          \/ Overridden /\ m_bulletin.expires_at = m_state_last_updated + TenYears
    /\ loader = "async" => Due

ApartHypotheses ==
    /\ ClockHypotheses /\ MaxTime >= 1
    /\ TenYears \in Nat /\ TenYears >= 2 /\ IntMax \in Int /\ MaxTime + TenYears <= IntMax

LEMMA OffsetOfState == \A b : Clock!State(b).offset = OffsetAt(b.entries, now)
BY DEF Clock!State, Clock!LastEntry, Clock!Past, OffsetAt

LEMMA OffsetOfOverride ==
    ASSUME MaxTime \in Nat, NEW t \in Int, t >= 1, NEW o
    PROVE  OffsetAt(<<[from |-> Clock!Never, offset |-> o]>>, t) = o
<1> DEFINE e == <<[from |-> Clock!Never, offset |-> o]>>
<1>1. DOMAIN e = {1} /\ e[1].from = -MaxTime - 2 /\ e[1].offset = o
    BY DEF Clock!Never
<1> HIDE DEF e
<1>2. {k \in DOMAIN e : e[k].from < t} = {1}
    BY <1>1
<1>3. (CHOOSE i \in {1} : \A j \in {1} : j <= i) = 1
    OBVIOUS
<1>4. OffsetAt(e, t) = e[1].offset
    BY <1>2, <1>3, Zenon DEF OffsetAt
<1> QED BY <1>1, <1>4 DEF e

\* What an override found agrees with it, at any time.
LEMMA OverriddenAgrees ==
    ASSUME MaxTime \in Nat, ClockOK, Overridden PROVE m_state.offset = OffsetNow
BY OffsetOfOverride DEF ClockOK, Overridden, OffsetNow

\* A search of the main loop, before it has an offset.
LEMMA MainSearchKept ==
    ASSUME ClockOK, ApartOK, main.at = "first", main'.at # "idle",
           m_offset_future' = m_offset_future, loader' # "async",
           UNCHANGED <<now, m_state, m_state_last_updated, apart>>
    PROVE  ApartOK'
<1>1. apart = 0 /\ m_offset_future.at = "invalid" /\ now \in Int
    BY DEF ClockOK, ClockThreads, ApartOK
<1> QED BY <1>1 DEF ApartOK

\* A search of the other thread has an answer.
LEMMA AsyncAnswerKept ==
    ASSUME ClockOK, ApartOK, m_offset_future.at = "running", NEW b, m_bulletin' = b,
           Clock!Answer("async", Clock!State(b)),
           Due \/ m_bulletin' = m_bulletin,
           UNCHANGED <<now, m_state, m_state_last_updated, apart>>
    PROVE  ApartOK'
<1>1. /\ loader' = "nobody" /\ main' = main
      /\ m_offset_future' = [at |-> "ready", answer |-> Clock!State(b)]
    BY DEF Clock!Answer
<1>2. main.at = "idle" /\ m_state # Clock!NoState /\ now \in Int
    BY DEF ClockOK, ClockThreads
<1>3. Clock!State(b).offset = OffsetNow'
    BY OffsetOfState DEF OffsetNow
<1>4. m_offset_future'.answer.offset = OffsetNow'
    BY <1>1, <1>3
<1>5. (apart <= now - m_state_last_updated \/ Agrees)'
    BY <1>2 DEF ApartOK, Due, Agrees, OffsetNow
<1>6. Due' \/ (Overridden /\ m_bulletin.expires_at = m_state_last_updated + TenYears)'
    BY <1>2 DEF ApartOK, Due, Overridden, Clock!NoState, Clock!Never
<1>7. Clock!NoState' = Clock!NoState
    BY DEF Clock!NoState
<1> QED BY <1>1, <1>2, <1>4, <1>5, <1>6, <1>7 DEF ApartOK

\* A search goes on.
LEMMA SearchGoesOn ==
    ASSUME ClockOK, ApartOK, loader' = "async" => Due,
           UNCHANGED <<now, m_state, m_state_last_updated, apart, m_bulletin, m_offset_future, main>>
    PROVE  ApartOK'
<1>1. Clock!NoState' = Clock!NoState /\ OffsetNow' = OffsetNow /\ Overridden' = Overridden
    BY DEF Clock!NoState, OffsetNow, Overridden, Clock!Never
<1> QED BY <1>1 DEF ApartOK, Agrees, Due

LEMMA TakeExpiredApart ==
    ASSUME ClockOK, ApartOK, NEW who \in {"main", "async"}, NEW from,
           Clock!TakeExpired(who, from), m_bulletin \in from,
           who = "main" => main.at = "first",
           who = "async" => m_offset_future.at = "running" /\ Due,
           UNCHANGED <<now, m_state, m_state_last_updated, apart>>
    PROVE  ApartOK'
<1>1. CASE who = "main"
  <2>1. PICK a : Clock!Answer(who, a)
    BY DEF Clock!TakeExpired
  <2>2. main'.at = "assign" /\ m_offset_future' = m_offset_future /\ loader' = "nobody"
    BY <1>1, <2>1 DEF Clock!Answer
  <2> QED BY <1>1, <2>2, MainSearchKept
<1>2. CASE who = "async"
  <2>1. Clock!Valid(m_bulletin)
    BY <1>2 DEF ClockOK, ClockThreads, ClockValid
  <2>2. {b \in from : Clock!Valid(b)} # {}
    BY <2>1
  <2>3. PICK b \in from : m_bulletin' = b /\ Clock!Answer(who, Clock!State(b))
    BY <2>2 DEF Clock!TakeExpired
  <2> QED BY <1>2, <2>3, AsyncAnswerKept
<1> QED BY <1>1, <1>2

LEMMA GetValidOffsetApart ==
    ASSUME ApartHypotheses, ClockOK, ApartOK,
           NEW who \in {"main", "async"}, Clock!GetValidOffset(who),
           who = "main" => main.at = "first",
           who = "async" => m_offset_future.at = "running"
    PROVE  ApartOK'
<1>1. UNCHANGED <<now, m_state, m_state_last_updated, apart>> /\ now \in Int
    BY DEF Clock!GetValidOffset, Clock!ghosts, ClockOK
<1>2. ASSUME who = "async", ~Clock!Usable(m_bulletin) PROVE Due
  <2>1. Clock!Valid(m_bulletin)
    BY <1>2 DEF ClockOK, ClockThreads, ClockValid
  <2>2. ASSUME ~Due PROVE FALSE
    <3>1. /\ m_bulletin.expires_at = m_state_last_updated + TenYears
          /\ ~(m_bulletin.expires_at > now) /\ m_state_last_updated \in Int
      BY <1>2, <2>1, <2>2 DEF ApartOK, Clock!Usable
    <3> QED BY <1>1, <2>2, <3>1 DEF ApartHypotheses, Due
  <2> QED BY <2>2
<1>3. ASSUME NEW b, m_bulletin' = b, Clock!Answer(who, Clock!State(b)),
             Clock!Usable(m_bulletin) => b = m_bulletin
      PROVE  ApartOK'
  <2>1. CASE who = "main"
    <3>1. main'.at = "assign" /\ m_offset_future' = m_offset_future /\ loader' = "nobody"
      BY <1>3, <2>1 DEF Clock!Answer
    <3> QED BY <1>1, <2>1, <3>1, MainSearchKept
  <2>2. CASE who = "async"
    BY <1>1, <1>2, <1>3, <2>2, AsyncAnswerKept
  <2> QED BY <2>1, <2>2
<1>4. CASE Clock!Usable(m_bulletin)
  <2>1. m_bulletin' = m_bulletin /\ Clock!Answer(who, Clock!State(m_bulletin))
    BY <1>4 DEF Clock!GetValidOffset
  <2> QED BY <1>3, <2>1
<1>5. CASE ~Clock!Usable(m_bulletin)
  <2>1. PICK file : Clock!Search(who, file)
    BY <1>5 DEF Clock!GetValidOffset
  <2>2. CASE Clock!Usable(file)
    <3>1. m_bulletin' = file /\ Clock!Answer(who, Clock!State(file))
      BY <2>1, <2>2 DEF Clock!Search
    <3> QED BY <1>3, <1>5, <3>1
  <2>3. CASE ~Clock!Usable(file) /\ m_bulletin_urls = 0
    <3>1. Clock!TakeExpired(who, {m_bulletin, file})
      BY <2>1, <2>3 DEF Clock!Search
    <3> QED BY <1>1, <1>2, <1>5, <3>1, TakeExpiredApart
  <2>4. CASE ~Clock!Usable(file) /\ m_bulletin_urls # 0
    <3>1. loader' = who /\ UNCHANGED <<m_bulletin, m_offset_future, main>>
      BY <2>1, <2>4 DEF Clock!Search
    <3> QED BY <1>1, <1>2, <1>5, <3>1, SearchGoesOn
  <2> QED BY <2>2, <2>3, <2>4
<1> QED BY <1>4, <1>5

LEMMA DownloadEndsApart ==
    ASSUME ClockOK, ApartOK, Clock!DownloadEnds PROVE ApartOK'
<1>1. /\ loader \in {"main", "async"} /\ m_bulletin \in bulletins
      /\ loader = "main" => main.at = "first"
      /\ loader = "async" => m_offset_future.at = "running" /\ Due
      /\ UNCHANGED <<now, m_state, m_state_last_updated, apart>>
    BY DEF ClockOK, ClockThreads, ApartOK, Clock!DownloadEnds, Clock!Free
<1>2. ASSUME NEW b, Clock!DownloadGives(b) PROVE ApartOK'
  <2>1. m_bulletin' = b /\ Clock!Answer(loader, Clock!State(b))
    BY <1>2 DEF Clock!DownloadGives
  <2>2. CASE loader = "main"
    <3>1. main'.at = "assign" /\ m_offset_future' = m_offset_future /\ loader' = "nobody"
      BY <2>1, <2>2 DEF Clock!Answer
    <3> QED BY <1>1, <2>2, <3>1, MainSearchKept
  <2>3. CASE loader = "async"
    BY <1>1, <2>1, <2>3, AsyncAnswerKept
  <2> QED BY <1>1, <2>2, <2>3
<1>3. ASSUME NEW got, Clock!DownloadDoesNotHelp(got) PROVE ApartOK'
  <2>1. UNCHANGED <<m_bulletin, m_offset_future, main, loader>>
    BY <1>3 DEF Clock!DownloadDoesNotHelp
  <2> QED BY <1>1, <2>1, SearchGoesOn
<1>4. ASSUME NEW got, Clock!NoDownloadHelped(got) PROVE ApartOK'
  <2>1. Clock!TakeExpired(loader, bulletins \union got)
    BY <1>4 DEF Clock!NoDownloadHelped, Clock!Candidates
  <2> QED BY <1>1, <2>1, TakeExpiredApart
<1>5. \/ \E b : Clock!DownloadGives(b)
      \/ \E got : Clock!DownloadDoesNotHelp(got)
      \/ \E got : Clock!NoDownloadHelped(got)
    BY Zenon DEF Clock!DownloadEnds
<1> QED BY <1>2, <1>3, <1>4, <1>5

\* What the main loop takes agrees, or it comes after an override that has just been set.
LEMMA GetOffsetApart == ASSUME MaxTime \in Nat, ClockOK, ApartOK, Clock!GetOffset PROVE ApartOK'
<1>1. /\ UNCHANGED <<now, m_bulletin, loader, main, apart>> /\ now \in Int
      /\ main.at = "idle" /\ m_state # Clock!NoState /\ loader = "nobody"
      /\ Clock!Refresh /\ (Clock!RefreshIsDue <=> Due)
    BY DEF Clock!GetOffset, Clock!loading, Clock!Idle, Clock!Free, ClockOK, Clock!RefreshIsDue, Due
<1>2. /\ Clock!NoState' = Clock!NoState /\ OffsetNow' = OffsetNow
      /\ m_state' = m_state => Overridden' = Overridden
    BY <1>1 DEF Clock!NoState, OffsetNow, Overridden, Clock!Never
<1>3. CASE UNCHANGED <<m_state, m_state_last_updated, m_offset_future>>
    BY <1>1, <1>2, <1>3 DEF ApartOK, Agrees, Due
<1>4. CASE /\ Due /\ m_offset_future' = [at |-> "running"]
           /\ UNCHANGED <<m_state, m_state_last_updated>>
    BY <1>1, <1>2, <1>4 DEF ApartOK, Agrees, Due
<1>5. CASE m_offset_future.at = "ready" /\ Clock!TakeAnswer(m_offset_future.answer)
  <2>1. m_offset_future.answer # Clock!NoState
    BY <1>5 DEF ClockOK, ClockValid
  <2>2. /\ m_state' = m_offset_future.answer /\ m_state_last_updated' = now
        /\ m_offset_future' = [at |-> "invalid"]
    BY <1>5, <2>1 DEF Clock!TakeAnswer, Clock!Failed
  <2>3. m_state'.offset = OffsetNow' \/ apart = 0
    BY <1>2, <1>5, <2>2 DEF ApartOK, Overridden
  <2> QED BY <1>1, <1>2, <2>1, <2>2, <2>3 DEF ApartOK, Agrees
<1> QED
  <2>1. \/ m_offset_future = [at |-> "invalid"] \/ m_offset_future = [at |-> "running"]
        \/ m_offset_future.at = "ready"
    BY DEF ClockOK, ClockThreads
  <2> QED BY <1>1, <1>3, <1>4, <1>5, <2>1 DEF Clock!Refresh

LEMMA FirstOffsetApart ==
    ASSUME ClockOK, ApartOK,
           Clock!GetOffsetFirst \/ Clock!AssignFirst \/ UNCHANGED clockVars
    PROVE  ApartOK'
<1>1. CASE Clock!GetOffsetFirst
  <2>1. /\ UNCHANGED <<now, m_state, m_state_last_updated, apart, m_offset_future, loader>>
        /\ main = [at |-> "idle"] /\ main' = [at |-> "first"] /\ m_state = Clock!NoState
        /\ loader = "nobody" /\ now \in Int
    BY <1>1 DEF Clock!GetOffsetFirst, Clock!ghosts, Clock!Free, Clock!Idle, ClockOK
  <2>2. apart = 0 /\ m_offset_future.at = "invalid"
    BY <2>1 DEF ApartOK, ClockOK, ClockThreads
  <2> QED BY <2>1, <2>2 DEF ApartOK
<1>2. CASE Clock!AssignFirst
  <2>1. /\ UNCHANGED <<now, apart, m_offset_future, loader>>
        /\ main.at = "assign" /\ m_state_last_updated' = now /\ now \in Int
    BY <1>2 DEF Clock!AssignFirst, Clock!ghosts, ClockOK
  <2>2. apart = 0 /\ m_offset_future.at = "invalid" /\ loader # "async"
    BY <2>1 DEF ApartOK, ClockOK, ClockThreads
  <2> QED BY <2>1, <2>2 DEF ApartOK
<1>3. CASE UNCHANGED clockVars
  <2>1. UNCHANGED <<now, m_bulletin, m_state, m_state_last_updated, m_offset_future, loader, main, apart>>
    BY <1>3 DEF clockVars
  <2>2. loader' = "async" => Due
    BY <2>1 DEF ApartOK
  <2> QED BY <2>1, <2>2, SearchGoesOn
<1> QED BY <1>1, <1>2, <1>3

\* An hour in which the main loop runs ends before a refresh is due, or after it.
LEMMA TickApart == ASSUME MaxTime \in Nat, ClockOK, ApartOK, Clock!Tick PROVE ApartOK'
<1>1. /\ now' = now + 1 /\ now < MaxTime /\ now \in Int /\ now >= 1
      /\ UNCHANGED <<m_bulletin, m_state, m_state_last_updated, m_offset_future, loader, main>>
    BY DEF Clock!Tick, Clock!loading, ClockOK
<1>2. apart' = IF loader # "nobody" \/ m_state = Clock!NoState \/ m_state.offset = OffsetNow
               THEN 0 ELSE apart + 1
    BY OffsetOfState DEF Clock!Tick, Clock!Free, OffsetNow
<1>3. Overridden => apart' = 0 /\ Overridden'
  <2>1. Overridden => apart' = 0
    BY <1>2, OverriddenAgrees
  <2> QED BY <1>1, <2>1 DEF Overridden, Clock!NoState, Clock!Never
<1>4. Clock!NoState' = Clock!NoState /\ (Due => Due')
    BY <1>1 DEF Clock!NoState, ApartOK, Due
<1>5. CASE loader # "nobody"
  <2>1. apart' = 0 /\ m_offset_future.at # "ready"
    BY <1>2, <1>5 DEF ClockOK, ClockThreads
  <2> QED BY <1>1, <1>3, <1>4, <2>1 DEF ApartOK
<1>6. CASE loader = "nobody"
  <2>1. main = [at |-> "idle"] /\ ~Due /\ m_offset_future # [at |-> "running"]
    BY <1>6 DEF Clock!Tick, Clock!Free, Clock!Idle, Clock!RefreshIsDue, Due
  <2>2. apart' \in Nat /\ apart' <= 2 /\ apart' <= now' - m_state_last_updated
    BY <1>1, <1>2, <2>1 DEF ApartOK, Agrees, Due
  <2>3. CASE m_offset_future.at = "ready"
    <3>1. Overridden /\ m_bulletin.expires_at = m_state_last_updated + TenYears
      BY <2>1, <2>3 DEF ApartOK
    <3> QED BY <1>1, <1>3, <1>4, <1>6, <2>1, <2>2, <3>1 DEF ApartOK
  <2>4. CASE m_offset_future.at # "ready"
    <3>1. m_offset_future.at = "invalid"
      BY <2>1, <2>4 DEF ClockOK, ClockThreads
    <3> QED BY <1>1, <1>2, <1>4, <1>6, <2>1, <2>2, <3>1 DEF ApartOK
  <2> QED BY <2>3, <2>4
<1> QED BY <1>5, <1>6

\* The remote control: an override agrees with itself, and a URL makes a refresh due.
LEMMA RemoteControlApart ==
    ASSUME ApartHypotheses, ClockOK, ApartOK, Clock!RemoteControl PROVE ApartOK'
<1>1. /\ UNCHANGED <<now, m_offset_future, loader, main>> /\ now \in Int /\ now >= 1
      /\ loader = "nobody" /\ MaxTime \in Nat
    BY DEF Clock!RemoteControl, Clock!loading, Clock!Free, ClockOK, ApartHypotheses, ClockHypotheses
<1>2. Clock!NoState' = Clock!NoState /\ Clock!Never' = Clock!Never /\ Clock!Never = -MaxTime - 2
    BY DEF Clock!NoState, Clock!Never
<1>3. ASSUME NEW o, Clock!SetOffset(o) PROVE ApartOK'
  <2>1. /\ m_bulletin' = Clock!FixedOffset(o) /\ m_state' = Clock!State(Clock!FixedOffset(o))
        /\ m_state_last_updated' = now /\ apart' = 0
    BY <1>3 DEF Clock!SetOffset
  <2>2. /\ m_bulletin'.entries = <<[from |-> Clock!Never, offset |-> o]>>
        /\ m_bulletin'.expires_at = Clock!AsInt(now + TenYears)
    BY <2>1 DEF Clock!FixedOffset
  <2>3. m_bulletin'.expires_at = now + TenYears
    BY <1>1, <2>2 DEF ApartOK, ApartHypotheses, Clock!AsInt
  <2>4. m_state' # Clock!NoState /\ m_state'.offset = o
    <3>1. m_state'.offset = OffsetAt(Clock!FixedOffset(o).entries, now)
      BY <2>1, OffsetOfState
    <3>2. Clock!FixedOffset(o).entries = <<[from |-> Clock!Never, offset |-> o]>>
      BY <2>1, <2>2
    <3> QED BY <1>1, <2>1, <3>1, <3>2, OffsetOfOverride, AStateIsNotNone
  <2>5. Overridden'
    BY <1>2, <2>1, <2>2, <2>4 DEF Overridden
  <2> QED BY <1>1, <1>2, <2>1, <2>3, <2>5 DEF ApartOK
<1>4. CASE Clock!SetUrl
  <2>1. /\ m_state' = m_state /\ apart' = apart /\ m_state_last_updated' = -MaxTime - 2
        /\ m_bulletin' = m_bulletin \/ m_bulletin' = [m_bulletin EXCEPT !.expires_at = now]
    BY <1>2, <1>4 DEF Clock!SetUrl
  <2>2. m_bulletin'.entries = m_bulletin.entries
    BY <2>1 DEF ClockOK, ClockValid, Dated
  <2>3. /\ OffsetNow' = OffsetNow /\ (Overridden => Overridden')
        /\ Due' /\ apart <= now - m_state_last_updated'
    BY <1>1, <1>2, <2>1, <2>2 DEF OffsetNow, Overridden, Due, ApartOK
  <2> QED BY <1>1, <1>2, <2>1, <2>3 DEF ApartOK
<1>5. (\E o \in Overrides : Clock!SetOffset(o)) \/ Clock!SetUrl
    BY DEF Clock!RemoteControl
<1> QED BY <1>3, <1>4, <1>5

LEMMA ApartOKKept ==
    ASSUME ApartHypotheses, ClockOK, ApartOK, [Clock!Next]_clockVars PROVE ApartOK'
<1>1. CASE Clock!LoadFirst \/ Clock!AsyncLoads
    BY <1>1, GetValidOffsetApart DEF Clock!LoadFirst, Clock!AsyncLoads
<1>2. CASE Clock!Restart
  <2>1. /\ now' = now /\ now \in Int /\ m_state_last_updated' = now /\ apart' = 0
        /\ m_offset_future' = [at |-> "invalid"] /\ loader' = "nobody"
    BY <1>2 DEF Clock!Restart, ClockOK
  <2> QED BY <2>1 DEF ApartOK
<1> QED BY <1>1, <1>2, DownloadEndsApart, GetOffsetApart, FirstOffsetApart, TickApart,
           RemoteControlApart DEF Clock!Next, ApartHypotheses, ClockHypotheses

(***************************************************************************)
(* get_offset and the thread that it starts every hour; as long as the     *)
(* time ten years ahead fits the int of OverrideData::expires_at.          *)
(***************************************************************************)
THEOREM WrongForTwoHoursCorrect ==
    ASSUME ApartHypotheses PROVE MainSpec => []WrongForTwoHours
<1>1. MainInit => ClockOK /\ ApartOK
  <2> SUFFICES ASSUME MainInit PROVE ClockOK /\ ApartOK
    OBVIOUS
  <2>1. ClockOK
    BY ClockOKHolds DEF MainInit, ApartHypotheses
  <2>2. /\ now = 1 /\ m_state_last_updated = now /\ apart = 0 /\ loader = "nobody"
        /\ m_offset_future = [at |-> "invalid"]
    BY DEF MainInit, Clock!Init
  <2> QED BY <2>1, <2>2 DEF ApartOK, ApartHypotheses
<1>2. ClockOK /\ ApartOK /\ [MainNext]_mainVars => ClockOK' /\ ApartOK'
  <2> SUFFICES ASSUME ClockOK, ApartOK, [MainNext]_mainVars PROVE ClockOK' /\ ApartOK'
    OBVIOUS
  <2>1. [Clock!Next]_clockVars
    BY DEF MainNext, mainVars
  <2> QED BY <2>1, ClockOKKept, ApartOKKept DEF ApartHypotheses
<1>3. ApartOK => WrongForTwoHours
    BY DEF ApartOK, WrongForTwoHours, Clock!WrongForTwoHours
<1> QED BY <1>1, <1>2, <1>3, PTL DEF MainSpec

-----------------------------------------------------------------------------
(***************************************************************************)
(* The outputs (Outputs), of which each behaviour of kind "outputs" is one.*)
(***************************************************************************)
(***************************************************************************)
(* The cells of a file, the place of each, and the system calls that are   *)
(* left when j of the three cells of a frame are written.                  *)
(***************************************************************************)
Cells ==
    [data : Int, part : {1, 2}] \union [size : Int] \union [padding : Int] \union [count : Int]
        \union [seek : Int]

CellOf(type, f, j) ==
    IF type = "raw"
    THEN IF j = 3 THEN [padding |-> f] ELSE [data |-> f, part |-> j]
    ELSE IF j = 1 THEN [size |-> f] ELSE [data |-> f, part |-> j - 1]

Base(type) == IF type = "framed" THEN 1 ELSE 0

CellsFrom1(type, f) == <<CellOf(type, f, 1), CellOf(type, f, 2), CellOf(type, f, 3)>>
CellsFrom2(type, f) == <<CellOf(type, f, 2), CellOf(type, f, 3)>>
CellsFrom3(type, f) == <<CellOf(type, f, 3)>>

FromEnd(type, f) ==
    <<Out!At(Out!EndOfFile), CellOf(type, f, 1), CellOf(type, f, 2), CellOf(type, f, 3)>>
FromCount(type, f, n) ==
    <<[count |-> n], Out!At(Out!EndOfFile), CellOf(type, f, 1), CellOf(type, f, 2), CellOf(type, f, 3)>>
FromSeek(type, f, n) ==
    <<Out!At(Out!Beginning), [count |-> n], Out!At(Out!EndOfFile),
      CellOf(type, f, 1), CellOf(type, f, 2), CellOf(type, f, 3)>>

\* The first w cells of the frames from first on are where they belong.
HasCells(type, s, w, first) ==
    /\ w > 0 => Len(s) >= Base(type) + w
    /\ \A n \in Nat, j \in 1..3 : 3 * n + j <= w => s[Base(type) + 3 * n + j] = CellOf(type, first + n, j)

Put(s, p, cell) == IF p < Len(s) THEN [s EXCEPT ![p + 1] = cell] ELSE Append(s, cell)

\* The cells are those of W frames and j cells of the next.
Written(type, s, W, j, first) ==
    Len(s) = Base(type) + 3 * W + j /\ HasCells(type, s, 3 * W + j, first)

KeepsFirst(s, t) == Len(s) >= 1 => t[1] = s[1]

AddedTo(s, type, f, j) == Put(s, Len(s), CellOf(type, f, j))

LEMMA CellFacts ==
    ASSUME NEW type, NEW f \in Int, NEW j \in 1..3
    PROVE  CellOf(type, f, j) \in Cells /\ "seek" \notin DOMAIN CellOf(type, f, j)
<1>1. CASE type = "raw" /\ j = 3
    BY <1>1 DEF CellOf, Cells
<1>2. CASE type = "raw" /\ j # 3
    BY <1>2 DEF CellOf, Cells
<1>3. CASE type # "raw" /\ j = 1
    BY <1>3 DEF CellOf, Cells
<1>4. CASE type # "raw" /\ j # 1
    BY <1>4 DEF CellOf, Cells
<1> QED BY <1>1, <1>2, <1>3, <1>4

LEMMA ControlFacts ==
    ASSUME NEW n \in Int
    PROVE  /\ Out!At(n) \in Cells /\ "seek" \in DOMAIN Out!At(n) /\ Out!At(n).seek = n
           /\ [count |-> n] \in Cells /\ "seek" \notin DOMAIN [count |-> n]
BY DEF Out!At, Cells

LEMMA PutFacts ==
    ASSUME NEW s \in Seq(Cells), NEW p \in Nat, p <= Len(s), NEW cell \in Cells
    PROVE  /\ Put(s, p, cell) \in Seq(Cells)
           /\ Len(Put(s, p, cell)) = IF p < Len(s) THEN Len(s) ELSE Len(s) + 1
           /\ Put(s, p, cell)[p + 1] = cell
           /\ \A i \in 1..Len(s) : i # p + 1 => Put(s, p, cell)[i] = s[i]
BY DEF Put

LEMMA HasFewerCells ==
    ASSUME NEW type, NEW s, NEW w \in Nat, NEW v \in Nat, NEW first, v <= w, Len(s) \in Nat,
           HasCells(type, s, w, first)
    PROVE  HasCells(type, s, v, first)
<1>1. Base(type) \in Nat
    BY DEF Base
<1>2. v > 0 => Len(s) >= Base(type) + v
    BY <1>1 DEF HasCells
<1>3. \A n \in Nat, j \in 1..3 : 3 * n + j <= v => 3 * n + j <= w
    OBVIOUS
<1> QED BY <1>2, <1>3 DEF HasCells

\* Where cell i of frame n is in a file of len cells, W frames and j cells of one more.
LEMMA CellPlaces ==
    ASSUME NEW base \in 0..1, NEW len \in Nat, NEW W \in Nat, NEW j \in 0..2,
           len = base + 3 * W + j, NEW n \in Nat, NEW i \in 1..3
    PROVE  /\ 3 * n + i <= 3 * W + j => base + 3 * n + i \in 1..len
           /\ 3 * n + i = 3 * W + j + 1 => n = W /\ i = j + 1 /\ base + 3 * n + i = len + 1
BY SMTT(30)

\* One cell more, behind those that are there.
LEMMA CellIsAdded ==
    ASSUME NEW type, NEW s \in Seq(Cells), NEW W \in Nat, NEW j \in 0..2, NEW first \in Int,
           Written(type, s, W, j, first)
    PROVE  /\ Written(type, AddedTo(s, type, first + W, j + 1), W, j + 1, first)
           /\ KeepsFirst(s, AddedTo(s, type, first + W, j + 1))
<1> DEFINE c == CellOf(type, first + W, j + 1)
           t == Put(s, Len(s), c)
<1>1. c \in Cells
    BY CellFacts
<1>2. Base(type) \in 0..1 /\ Len(s) \in Nat
    BY DEF Base
<1>8. Len(s) = Base(type) + 3 * W + j /\ HasCells(type, s, 3 * W + j, first)
    BY DEF Written
<1> HIDE DEF c
<1>3. /\ t \in Seq(Cells) /\ Len(t) = Len(s) + 1 /\ t[Len(s) + 1] = c
      /\ \A i \in 1..Len(s) : t[i] = s[i]
  <2>1. t = Append(s, c)
    BY <1>2 DEF Put
  <2> HIDE DEF t
  <2> QED BY <1>1, <2>1
<1> USE DEF c
<1> HIDE DEF t
<1>4. ASSUME NEW n \in Nat, NEW i \in 1..3, 3 * n + i <= 3 * W + j + 1
      PROVE  t[Base(type) + 3 * n + i] = CellOf(type, first + n, i)
  <2>1. CASE 3 * n + i <= 3 * W + j
    <3>1. s[Base(type) + 3 * n + i] = CellOf(type, first + n, i)
      BY <1>8, <2>1 DEF HasCells
    <3>2. Base(type) + 3 * n + i \in 1..Len(s)
      BY <1>2, <1>8, <2>1, CellPlaces
    <3> QED BY <1>3, <3>1, <3>2
  <2>2. CASE 3 * n + i = 3 * W + j + 1
    <3>1. n = W /\ i = j + 1 /\ Base(type) + 3 * n + i = Len(s) + 1
      BY <1>2, <1>8, <2>2, CellPlaces
    <3>2. Base(type) + 3 * n + i = Len(s) + 1
      BY <3>1
    <3> QED BY <1>3, <3>1, <3>2
  <2> QED BY <1>4, <2>1, <2>2
<1>5. HasCells(type, t, 3 * W + j + 1, first)
    BY <1>2, <1>3, <1>4, <1>8 DEF HasCells
<1>6. KeepsFirst(s, t)
    BY <1>2, <1>3 DEF KeepsFirst
<1>7. Written(type, t, W, j + 1, first)
  <2>1. 3 * W + (j + 1) = 3 * W + j + 1
    OBVIOUS
  <2>2. PICK b \in 0..1 : b = Base(type) /\ Len(s) = b + 3 * W + j
    BY <1>2, <1>8
  <2>3. Len(t) = Len(s) + 1
    BY <1>3
  <2>4. Len(t) = b + 3 * W + (j + 1)
    BY <2>2, <2>3
  <2> QED BY <1>5, <2>1, <2>2, <2>4 DEF Written
<1>9. AddedTo(s, type, first + W, j + 1) = t
    BY DEF AddedTo, t
<1> QED BY <1>6, <1>7, <1>9

LEMMA CellsAreKept ==
    ASSUME NEW type, NEW s \in Seq(Cells), NEW w \in Nat, NEW first, NEW p \in Nat, p <= Len(s),
           NEW cell \in Cells, HasCells(type, s, w, first),
           p >= Base(type) + w \/ (p = 0 /\ type = "framed")
    PROVE  HasCells(type, Put(s, p, cell), w, first)
<1> DEFINE t == Put(s, p, cell)
<1>1. Base(type) \in 0..1 /\ (type = "framed" => Base(type) = 1) /\ Len(s) \in Nat
    BY DEF Base
<1>2. /\ Len(t) \in Nat /\ Len(t) >= Len(s)
      /\ \A i \in 1..Len(s) : i # p + 1 => t[i] = s[i]
  <2>1. Len(t) = IF p < Len(s) THEN Len(s) ELSE Len(s) + 1
    BY PutFacts
  <2>2. \A i \in 1..Len(s) : i # p + 1 => t[i] = s[i]
    BY PutFacts
  <2> HIDE DEF t
  <2> QED BY <1>1, <2>1, <2>2
<1> HIDE DEF t
<1>3. ASSUME NEW n \in Nat, NEW i \in 1..3, 3 * n + i <= w
      PROVE  t[Base(type) + 3 * n + i] = CellOf(type, first + n, i)
  <2>1. s[Base(type) + 3 * n + i] = CellOf(type, first + n, i)
    BY <1>3 DEF HasCells
  <2>2. w > 0
    BY <1>3
  <2>3. Len(s) >= Base(type) + w
    BY <2>2 DEF HasCells
  <2>4. Base(type) + 3 * n + i \in 1..Len(s) /\ Base(type) + 3 * n + i # p + 1
    BY <1>1, <1>3, <2>3
  <2> QED BY <1>2, <2>1, <2>4
<1>4. w > 0 => Len(t) >= Base(type) + w
    BY <1>1, <1>2 DEF HasCells
<1>5. HasCells(type, t, w, first)
    BY <1>3, <1>4 DEF HasCells
<1> QED BY <1>5 DEF t

-----------------------------------------------------------------------------
(***************************************************************************)
(* A file with W whole frames, the first of them first, while the frame f  *)
(* is written: c are the calls left, s the cells, p the position, nb the   *)
(* number of frames.                                                       *)
(***************************************************************************)
DataLeft(type, f, j, c) ==
    \/ j = 0 /\ c = CellsFrom1(type, f)
    \/ j = 1 /\ c = CellsFrom2(type, f)
    \/ j = 2 /\ c = CellsFrom3(type, f)

Plain(type, W, s) ==
    /\ Len(s) = IF W = 0 THEN 0 ELSE Base(type) + 3 * W
    /\ (type = "framed" /\ W > 0) => s[1] = [count |-> W]

Counted(type, n, s) == type = "framed" => s[1] = [count |-> n]

WholeStage(type, W, f, c, s, p, nb, first) ==
    \/ c = <<>> /\ p = Len(s) /\ Plain(type, W, s)
    \/ type = "framed" /\ c = FromSeek(type, f, nb) /\ Plain(type, W, s)
    \/ type = "framed" /\ c = FromCount(type, f, nb) /\ p = 0 /\ Plain(type, W, s)
    \/ type = "framed" /\ c = FromEnd(type, f) /\ Len(s) = 1 + 3 * W /\ Counted(type, W + 1, s)
    \/ \E j \in 0..2 :
          /\ DataLeft(type, f, j, c) /\ p = Len(s) /\ Written(type, s, W, j, first)
          /\ Counted(type, W + 1, s)

WholeFile(o, W, f, c, s, p, nb, first) ==
    /\ o.proto = "file" => nb = IF c = <<>> THEN W ELSE W + 1
    /\ HasCells(o.type, s, 3 * W, first)
    /\ WholeStage(o.type, W, f, c, s, p, nb, first)

\* After a call that failed: the first b frames are there, and are not written again.
LeftStage(type, b, f, c, p, nb) ==
    \/ c = <<>> /\ (type # "framed" => p >= 3 * b)
    \/ type = "framed" /\ c = FromSeek(type, f, nb)
    \/ type = "framed" /\ c = FromCount(type, f, nb) /\ p = 0
    \/ type = "framed" /\ c = FromEnd(type, f)
    \/ \E j \in 0..2 : DataLeft(type, f, j, c) /\ p >= Base(type) + 3 * b

LeftFile(o, b, f, c, s, p, nb, first) ==
    b > 0 => HasCells(o.type, s, 3 * b, first) /\ LeftStage(o.type, b, f, c, p, nb)

\* One system call.
Called(c, s, p, c2, s2, p2) ==
    /\ c2 = Tail(c)
    /\ IF "seek" \in DOMAIN Head(c)
       THEN s2 = s /\ p2 = IF Head(c).seek = Out!EndOfFile THEN Len(s) ELSE Head(c).seek
       ELSE s2 = Put(s, p, Head(c)) /\ p2 = p + 1

File == {o \in Out!Entries : /\ Out!IsOnDisk(o) /\ o.type \in {"framed", "streamed", "raw"}
                             /\ o.type = "framed" => o.proto = "file"}

LEMMA SeekIsCalled ==
    ASSUME NEW type, NEW f, NEW n, NEW s, NEW p, NEW c2, NEW s2, NEW p2,
           Called(FromSeek(type, f, n), s, p, c2, s2, p2)
    PROVE  c2 = FromCount(type, f, n) /\ s2 = s /\ p2 = 0
<1> DEFINE c == FromSeek(type, f, n)
<1>1. Head(c) = Out!At(Out!Beginning) /\ Tail(c) = FromCount(type, f, n)
    BY DEF FromSeek, FromCount
<1>2. "seek" \in DOMAIN Out!At(Out!Beginning) /\ Out!At(Out!Beginning).seek = 0 /\ 0 # Out!EndOfFile
    BY DEF Out!At, Out!Beginning, Out!EndOfFile
<1> QED BY <1>1, <1>2 DEF Called

LEMMA CountIsCalled ==
    ASSUME NEW type, NEW f, NEW n \in Int, NEW s, NEW p, NEW c2, NEW s2, NEW p2,
           Called(FromCount(type, f, n), s, p, c2, s2, p2)
    PROVE  c2 = FromEnd(type, f) /\ s2 = Put(s, p, [count |-> n]) /\ p2 = p + 1
<1> DEFINE c == FromCount(type, f, n)
<1>1. Head(c) = [count |-> n] /\ Tail(c) = FromEnd(type, f)
    BY DEF FromEnd, FromCount
<1> QED BY <1>1, ControlFacts DEF Called

LEMMA EndIsCalled ==
    ASSUME NEW type, NEW f, NEW s, NEW p, NEW c2, NEW s2, NEW p2,
           Called(FromEnd(type, f), s, p, c2, s2, p2)
    PROVE  c2 = CellsFrom1(type, f) /\ s2 = s /\ p2 = Len(s)
<1> DEFINE c == FromEnd(type, f)
<1>1. Head(c) = Out!At(Out!EndOfFile) /\ Tail(c) = CellsFrom1(type, f)
    BY DEF FromEnd, CellsFrom1
<1>2. "seek" \in DOMAIN Out!At(Out!EndOfFile) /\ Out!At(Out!EndOfFile).seek = Out!EndOfFile
    BY DEF Out!At
<1> QED BY <1>1, <1>2 DEF Called

LEMMA DataIsCalled ==
    ASSUME NEW type, NEW f \in Int, NEW j \in 0..2, NEW c, NEW s, NEW p, NEW c2, NEW s2, NEW p2,
           DataLeft(type, f, j, c), Called(c, s, p, c2, s2, p2)
    PROVE  /\ s2 = Put(s, p, CellOf(type, f, j + 1)) /\ p2 = p + 1
           /\ j < 2 => DataLeft(type, f, j + 1, c2)
           /\ j = 2 => c2 = <<>>
           /\ j < 2 => c2 # <<>>
<1>1. CASE j = 0
  <2>1. c = CellsFrom1(type, f)
    BY <1>1 DEF DataLeft
  <2>2. Head(c) = CellOf(type, f, 1) /\ Tail(c) = CellsFrom2(type, f) /\ Tail(c) # <<>>
    BY <2>1 DEF CellsFrom1, CellsFrom2
  <2> QED BY <1>1, <2>2, CellFacts DEF Called, DataLeft
<1>2. CASE j = 1
  <2>1. c = CellsFrom2(type, f)
    BY <1>2 DEF DataLeft
  <2>2. Head(c) = CellOf(type, f, 2) /\ Tail(c) = CellsFrom3(type, f) /\ Tail(c) # <<>>
    BY <2>1 DEF CellsFrom2, CellsFrom3
  <2> QED BY <1>2, <2>2, CellFacts DEF Called, DataLeft
<1>3. CASE j = 2
  <2>1. c = CellsFrom3(type, f)
    BY <1>3 DEF DataLeft
  <2>2. Head(c) = CellOf(type, f, 3) /\ Tail(c) = <<>>
    BY <2>1 DEF CellsFrom3
  <2> QED BY <1>3, <2>2, CellFacts DEF Called
<1> QED BY <1>1, <1>2, <1>3

LEMMA NothingIsEmpty ==
    ASSUME NEW type, NEW f, NEW n
    PROVE  /\ FromSeek(type, f, n) # <<>> /\ FromCount(type, f, n) # <<>> /\ FromEnd(type, f) # <<>>
           /\ \A j, c : DataLeft(type, f, j, c) => c # <<>>
BY DEF FromSeek, FromCount, FromEnd, DataLeft, CellsFrom1, CellsFrom2, CellsFrom3

LEMMA BaseValues ==
    ASSUME NEW type
    PROVE  Base(type) \in 0..1 /\ (type = "framed" => Base(type) = 1)
<1>1. CASE type = "framed"
    BY <1>1 DEF Base
<1>2. CASE type # "framed"
    BY <1>2 DEF Base
<1> QED BY <1>1, <1>2

FileState(c, s, p, nb) == s \in Seq(Cells) /\ p \in Nat /\ p <= Len(s) /\ nb \in Nat

LEMMA WholeCalled ==
    ASSUME NEW o \in File, NEW W \in Nat, NEW first \in Int, NEW c, NEW s, NEW p, NEW nb,
           NEW c2, NEW s2, NEW p2, FileState(c, s, p, nb), c # <<>>,
           WholeFile(o, W, first + W, c, s, p, nb, first), Called(c, s, p, c2, s2, p2)
    PROVE  /\ FileState(c2, s2, p2, nb)
           /\ WholeFile(o, IF c2 = <<>> THEN W + 1 ELSE W, first + W, c2, s2, p2, nb, first)
<1> DEFINE type == o.type  f == first + W
<1>1. /\ Base(type) \in 0..1 /\ (type = "framed" => Base(type) = 1 /\ o.proto = "file")
      /\ f \in Int /\ Len(s) \in Nat /\ s \in Seq(Cells) /\ p \in Nat /\ p <= Len(s) /\ nb \in Nat
  <2>1. type = "framed" => o.proto = "file"
    BY DEF File
  <2>2. s \in Seq(Cells) /\ p \in Nat /\ p <= Len(s) /\ nb \in Nat
    BY DEF FileState
  <2>3. f \in Int /\ Len(s) \in Nat
    BY <2>2
  <2>4. Base(type) \in 0..1 /\ (type = "framed" => Base(type) = 1)
    BY BaseValues
  <2> QED BY <2>1, <2>2, <2>3, <2>4, Zenon
<1>2. /\ o.proto = "file" => nb = W + 1
      /\ HasCells(type, s, 3 * W, first)
      /\ WholeStage(type, W, f, c, s, p, nb, first)
    BY DEF WholeFile
<1> HIDE DEF type, f
<1>3. CASE type = "framed" /\ c = FromSeek(type, f, nb) /\ Plain(type, W, s)
  <2>1. c2 = FromCount(type, f, nb) /\ s2 = s /\ p2 = 0
    BY <1>3, SeekIsCalled
  <2>2. c2 # <<>>
    BY <2>1, NothingIsEmpty
  <2>3. WholeStage(type, W, f, c2, s2, p2, nb, first)
    BY <1>3, <2>1 DEF WholeStage
  <2> QED BY <1>1, <1>2, <2>1, <2>2, <2>3 DEF WholeFile, FileState, type, f
<1>4. CASE type = "framed" /\ c = FromCount(type, f, nb) /\ p = 0 /\ Plain(type, W, s)
  <2>1. c2 = FromEnd(type, f) /\ s2 = Put(s, p, [count |-> nb]) /\ p2 = p + 1
    BY <1>1, <1>4, CountIsCalled
  <2>2. c2 # <<>>
    BY <2>1, NothingIsEmpty
  <2>3. [count |-> nb] \in Cells
    BY <1>1, ControlFacts
  <2>4. /\ s2 \in Seq(Cells) /\ Len(s2) = IF p < Len(s) THEN Len(s) ELSE Len(s) + 1
        /\ s2[p + 1] = [count |-> nb]
    BY <1>1, <2>1, <2>3, PutFacts
  <2>5. HasCells(type, s2, 3 * W, first)
    BY <1>1, <1>2, <1>4, <2>1, <2>3, CellsAreKept
  <2>6. Len(s2) = 1 + 3 * W /\ s2[1] = [count |-> W + 1]
    BY <1>1, <1>2, <1>4, <2>4 DEF Plain
  <2>7. WholeStage(type, W, f, c2, s2, p2, nb, first)
    BY <1>4, <2>1, <2>6 DEF WholeStage, Counted
  <2>8. FileState(c2, s2, p2, nb)
    BY <1>1, <1>4, <2>1, <2>4, <2>6 DEF FileState
  <2> QED BY <1>2, <2>2, <2>5, <2>7, <2>8 DEF WholeFile, type, f
<1>5. CASE type = "framed" /\ c = FromEnd(type, f) /\ Len(s) = 1 + 3 * W /\ Counted(type, W + 1, s)
  <2>1. c2 = CellsFrom1(type, f) /\ s2 = s /\ p2 = Len(s)
    BY <1>5, EndIsCalled
  <2>2. DataLeft(type, f, 0, c2)
    BY <2>1 DEF DataLeft
  <2>3. c2 # <<>>
    BY <2>2, NothingIsEmpty
  <2>4. Written(type, s2, W, 0, first)
    BY <1>1, <1>2, <1>5, <2>1 DEF Written
  <2>5. WholeStage(type, W, f, c2, s2, p2, nb, first)
    BY <1>5, <2>1, <2>2, <2>4 DEF WholeStage
  <2> QED BY <1>1, <1>2, <2>1, <2>3, <2>5 DEF WholeFile, FileState, type, f
<1>6. ASSUME NEW j \in 0..2, DataLeft(type, f, j, c), p = Len(s), Written(type, s, W, j, first),
             Counted(type, W + 1, s)
      PROVE  /\ FileState(c2, s2, p2, nb)
             /\ WholeFile(o, IF c2 = <<>> THEN W + 1 ELSE W, f, c2, s2, p2, nb, first)
  <2>1. /\ s2 = Put(s, p, CellOf(type, f, j + 1)) /\ p2 = p + 1
        /\ j < 2 => DataLeft(type, f, j + 1, c2)
        /\ j = 2 => c2 = <<>>
        /\ j < 2 => c2 # <<>>
    <3>1. f \in Int /\ DataLeft(type, f, j, c)
      BY <1>1, <1>6
    <3> QED BY <3>1, DataIsCalled
  <2>2. s2 = AddedTo(s, type, first + W, j + 1)
    BY <1>6, <2>1 DEF f, AddedTo
  <2>3. Written(type, s2, W, j + 1, first) /\ KeepsFirst(s, s2)
    <3>1. s \in Seq(Cells) /\ Written(type, s, W, j, first)
      BY <1>1, <1>6
    <3>2. /\ Written(type, AddedTo(s, type, first + W, j + 1), W, j + 1, first)
          /\ KeepsFirst(s, AddedTo(s, type, first + W, j + 1))
      BY <3>1, CellIsAdded
    <3> QED BY <2>2, <3>2
  <2>4. CellOf(type, f, j + 1) \in Cells
    BY <1>1, CellFacts
  <2>5. s2 \in Seq(Cells) /\ Len(s2) = Len(s) + 1
    <3>1. Len(s) \in Nat /\ s \in Seq(Cells) /\ p = Len(s) /\ ~(Len(s) < Len(s))
      BY <1>1, <1>6
    <3>2. s2 = Append(s, CellOf(type, f, j + 1))
      BY <2>1, <3>1 DEF Put
    <3> QED BY <2>4, <3>1, <3>2
  <2>6. FileState(c2, s2, p2, nb) /\ p2 = Len(s2)
    BY <1>1, <1>6, <2>1, <2>5 DEF FileState
  <2>7. Counted(type, W + 1, s2)
    <3>1. SUFFICES ASSUME type = "framed" PROVE s2[1] = [count |-> W + 1]
      BY DEF Counted
    <3>2. Len(s) = 1 + 3 * W + j /\ W \in Nat /\ j \in Nat
      BY <1>1, <1>6, <3>1 DEF Written, Base
    <3>3. Len(s) >= 1
      BY <3>2
    <3>4. s2[1] = s[1]
      BY <2>3, <3>3 DEF KeepsFirst
    <3>5. s[1] = [count |-> W + 1]
      BY <1>6, <3>1 DEF Counted
    <3> QED BY <3>4, <3>5
  <2>8. HasCells(type, s2, 3 * W, first)
    BY <2>3, <2>5, HasFewerCells DEF Written
  <2>9. CASE j = 2
    <3>1. Len(s2) = Base(type) + 3 * (W + 1) /\ HasCells(type, s2, 3 * (W + 1), first)
      <4>1. 3 * W + (j + 1) = 3 * (W + 1)
        BY <2>9
      <4>2. Len(s2) = Base(type) + 3 * W + (j + 1)
        BY <2>3 DEF Written
      <4> QED BY <1>1, <2>3, <2>9, <4>1, <4>2 DEF Written
    <3>2. Plain(type, W + 1, s2)
      BY <2>7, <3>1 DEF Plain, Counted
    <3>3. WholeStage(type, W + 1, f, c2, s2, p2, nb, first)
      BY <2>1, <2>6, <2>9, <3>2 DEF WholeStage
    <3> QED BY <1>2, <2>1, <2>6, <2>9, <3>1, <3>3 DEF WholeFile, type
  <2>10. CASE j < 2
    <3>1. j + 1 \in 0..2
      BY <2>10
    <3>2. WholeStage(type, W, f, c2, s2, p2, nb, first)
      BY <2>1, <2>3, <2>6, <2>7, <2>10, <3>1 DEF WholeStage
    <3> QED BY <1>2, <2>1, <2>6, <2>8, <2>10, <3>2 DEF WholeFile, type
  <2> QED BY <2>9, <2>10
<1> QED BY <1>2, <1>3, <1>4, <1>5, <1>6 DEF WholeStage, f

LEMMA LeftCalled ==
    ASSUME NEW o \in File, NEW b \in Nat, NEW f \in Int, NEW first \in Int, NEW c, NEW s, NEW p, NEW nb,
           NEW c2, NEW s2, NEW p2, FileState(c, s, p, nb), c # <<>>,
           LeftFile(o, b, f, c, s, p, nb, first), Called(c, s, p, c2, s2, p2), b > 0
    PROVE  LeftFile(o, b, f, c2, s2, p2, nb, first)
<1> DEFINE type == o.type
<1>1. /\ Base(type) \in 0..1 /\ (type = "framed" => Base(type) = 1)
      /\ Len(s) \in Nat /\ s \in Seq(Cells) /\ p \in Nat /\ p <= Len(s) /\ nb \in Nat
    BY DEF Base, FileState
<1>2. HasCells(type, s, 3 * b, first) /\ LeftStage(type, b, f, c, p, nb)
    BY DEF LeftFile
<1>3. SUFFICES HasCells(type, s2, 3 * b, first) /\ LeftStage(type, b, f, c2, p2, nb)
    BY DEF LeftFile
<1>4. Len(s) >= Base(type) + 3 * b
    BY <1>2 DEF HasCells
<1> HIDE DEF type
<1>5. CASE type = "framed" /\ c = FromSeek(type, f, nb)
  <2>1. c2 = FromCount(type, f, nb) /\ s2 = s /\ p2 = 0
    BY <1>5, SeekIsCalled
  <2> QED BY <1>2, <1>5, <2>1 DEF LeftStage
<1>6. CASE type = "framed" /\ c = FromCount(type, f, nb) /\ p = 0
  <2>1. c2 = FromEnd(type, f) /\ s2 = Put(s, p, [count |-> nb]) /\ p2 = p + 1
    BY <1>1, <1>6, CountIsCalled
  <2>2. HasCells(type, s2, 3 * b, first)
    BY <1>1, <1>2, <1>6, <2>1, ControlFacts, CellsAreKept
  <2> QED BY <1>6, <2>1, <2>2 DEF LeftStage
<1>7. CASE type = "framed" /\ c = FromEnd(type, f)
  <2>1. c2 = CellsFrom1(type, f) /\ s2 = s /\ p2 = Len(s)
    BY <1>7, EndIsCalled
  <2> QED BY <1>2, <1>4, <2>1 DEF LeftStage, DataLeft
<1>8. ASSUME NEW j \in 0..2, DataLeft(type, f, j, c), p >= Base(type) + 3 * b
      PROVE  HasCells(type, s2, 3 * b, first) /\ LeftStage(type, b, f, c2, p2, nb)
  <2>1. /\ s2 = Put(s, p, CellOf(type, f, j + 1)) /\ p2 = p + 1
        /\ j < 2 => DataLeft(type, f, j + 1, c2)
        /\ j = 2 => c2 = <<>>
    <3>1. f \in Int /\ DataLeft(type, f, j, c) /\ Called(c, s, p, c2, s2, p2)
      BY <1>8
    <3> QED BY <3>1, DataIsCalled
  <2>2. CellOf(type, f, j + 1) \in Cells
    BY CellFacts
  <2>3. HasCells(type, s2, 3 * b, first)
    BY <1>1, <1>2, <1>8, <2>1, <2>2, CellsAreKept
  <2>4. p2 >= Base(type) + 3 * b /\ p2 >= 3 * b
    BY <1>1, <1>8, <2>1
  <2>5. CASE j = 2
    BY <2>1, <2>3, <2>4, <2>5 DEF LeftStage
  <2>6. CASE j < 2
    <3>1. j + 1 \in 0..2
      BY <2>6
    <3> QED BY <2>1, <2>3, <2>4, <2>6, <3>1 DEF LeftStage
  <2> QED BY <2>5, <2>6
<1> QED BY <1>2, <1>5, <1>6, <1>7, <1>8 DEF LeftStage

\* The calls that DabOutputFile::Write begins with.
CallsAre(o, f, n, c) ==
    IF o.type = "framed" THEN c = FromSeek(o.type, f, n) ELSE c = CellsFrom1(o.type, f)

LEMMA WholeBegins ==
    ASSUME NEW o \in File, NEW W \in Nat, NEW f, NEW first, NEW s, NEW p, NEW nb, NEW c2, NEW nb2,
           WholeFile(o, W, f, <<>>, s, p, nb, first), CallsAre(o, f, nb2, c2), Len(s) \in Nat,
           nb2 = IF o.proto = "file" THEN nb + 1 ELSE nb
    PROVE  WholeFile(o, W, f, c2, s, p, nb2, first)
<1> DEFINE type == o.type
<1>1. /\ p = Len(s) /\ Plain(type, W, s) /\ HasCells(type, s, 3 * W, first)
      /\ o.proto = "file" => nb = W
    BY NothingIsEmpty DEF WholeFile, WholeStage
<1>2. CASE type = "framed"
  <2>1. c2 = FromSeek(type, f, nb2) /\ c2 # <<>>
    BY <1>2, NothingIsEmpty DEF CallsAre
  <2> QED BY <1>1, <1>2, <2>1 DEF WholeFile, WholeStage
<1>3. CASE type # "framed"
  <2>1. DataLeft(type, f, 0, c2)
    BY <1>3 DEF CallsAre, DataLeft
  <2>2. c2 # <<>>
    BY <2>1, NothingIsEmpty
  <2>3. Base(type) = 0 /\ Len(s) = 3 * W
    BY <1>1, <1>3 DEF Base, Plain
  <2>4. Written(type, s, W, 0, first)
    <3>1. 3 * W + 0 = 3 * W /\ 0 + 3 * W + 0 = 3 * W
      OBVIOUS
    <3> QED BY <1>1, <2>3, <3>1 DEF Written
  <2>5. WholeStage(type, W, f, c2, s, p, nb2, first)
    BY <1>1, <1>3, <2>1, <2>4 DEF WholeStage, Counted
  <2> QED BY <1>1, <2>2, <2>5 DEF WholeFile
<1> QED BY <1>2, <1>3

LEMMA LeftBegins ==
    ASSUME NEW o \in File, NEW b \in Nat, NEW f, NEW first, NEW s, NEW p, NEW nb, NEW c2, NEW nb2,
           LeftFile(o, b, f, <<>>, s, p, nb, first), CallsAre(o, f, nb2, c2)
    PROVE  LeftFile(o, b, f, c2, s, p, nb2, first)
<1> DEFINE type == o.type
<1>1. SUFFICES ASSUME b > 0 PROVE HasCells(type, s, 3 * b, first) /\ LeftStage(type, b, f, c2, p, nb2)
    BY DEF LeftFile
<1>2. HasCells(type, s, 3 * b, first) /\ (type # "framed" => p >= 3 * b)
    BY <1>1, NothingIsEmpty DEF LeftFile, LeftStage
<1>3. CASE type = "framed"
    BY <1>2, <1>3 DEF CallsAre, LeftStage
<1>4. CASE type # "framed"
  <2>1. DataLeft(type, f, 0, c2) /\ Base(type) = 0
    BY <1>4 DEF CallsAre, DataLeft, Base
  <2>2. p >= 0 + 3 * b
    BY <1>2, <1>4
  <2> QED BY <1>2, <2>1, <2>2 DEF LeftStage
<1> QED BY <1>3, <1>4

\* A call fails: what was whole until now stays.
LEMMA WholeIsLeft ==
    ASSUME NEW o \in File, NEW W \in Nat, NEW f, NEW g, NEW first, NEW c, NEW s, NEW p, NEW nb,
           WholeFile(o, W, f, c, s, p, nb, first), Len(s) \in Nat
    PROVE  LeftFile(o, W, g, <<>>, s, p, nb, first)
<1> DEFINE type == o.type
<1>1. SUFFICES ASSUME W > 0, type # "framed" PROVE p >= 3 * W
    BY DEF LeftFile, LeftStage, WholeFile
<1>2. Base(type) = 0
    BY <1>1 DEF Base
<1>3. CASE c = <<>>
  <2>1. p = Len(s) /\ Plain(type, W, s)
    BY <1>3, NothingIsEmpty DEF WholeFile, WholeStage
  <2> QED BY <1>1, <1>2, <2>1 DEF Plain
<1>4. CASE c # <<>>
  <2>1. PICK j \in 0..2 : p = Len(s) /\ Written(type, s, W, j, first)
    BY <1>1, <1>4 DEF WholeFile, WholeStage
  <2> QED BY <1>2, <2>1 DEF Written
<1> QED BY <1>3, <1>4

LEMMA LeftIsLeft ==
    ASSUME NEW o \in File, NEW b \in Nat, NEW f, NEW g, NEW first, NEW c, NEW s, NEW p \in Nat, NEW nb,
           LeftFile(o, b, f, c, s, p, nb, first)
    PROVE  LeftFile(o, b, g, <<>>, s, p, nb, first)
<1> DEFINE type == o.type
<1>1. SUFFICES ASSUME b > 0, type # "framed" PROVE p >= 3 * b
    BY DEF LeftFile, LeftStage
<1>2. Base(type) = 0
    BY <1>1 DEF Base
<1>3. p >= 3 * b \/ p >= 0 + 3 * b
    BY <1>1, <1>2 DEF LeftFile, LeftStage
<1> QED BY <1>3

\* Between two writes of the file its state does not depend on the frame.
LEMMA FileRests ==
    ASSUME NEW o \in File, NEW W, NEW b, NEW f, NEW g, NEW first, NEW s, NEW p, NEW nb
    PROVE  /\ WholeFile(o, W, f, <<>>, s, p, nb, first) => WholeFile(o, W, g, <<>>, s, p, nb, first)
           /\ LeftFile(o, b, f, <<>>, s, p, nb, first) => LeftFile(o, b, g, <<>>, s, p, nb, first)
<1> DEFINE type == o.type
<1>1. \A j, h : ~DataLeft(type, h, j, <<>>)
    BY DEF DataLeft, CellsFrom1, CellsFrom2, CellsFrom3
<1>2. \A h : /\ FromSeek(type, h, nb) # <<>> /\ FromCount(type, h, nb) # <<>>
             /\ FromEnd(type, h) # <<>>
    BY NothingIsEmpty
<1>3. WholeStage(type, W, f, <<>>, s, p, nb, first) => WholeStage(type, W, g, <<>>, s, p, nb, first)
    BY <1>1, <1>2 DEF WholeStage
<1>4. LeftStage(type, b, f, <<>>, p, nb) => LeftStage(type, b, g, <<>>, p, nb)
    BY <1>1, <1>2 DEF LeftStage
<1> QED BY <1>3, <1>4 DEF WholeFile, LeftFile

LEMMA NewFile ==
    ASSUME NEW o \in File, NEW f, NEW first PROVE WholeFile(o, 0, f, <<>>, <<>>, 0, 0, first)
<1>1. Plain(o.type, 0, <<>>)
    BY DEF Plain
<1>2. HasCells(o.type, <<>>, 0, first)
    BY DEF HasCells
<1>3. 3 * 0 = 0 /\ Len(<<>>) = 0
    OBVIOUS
<1>4. WholeStage(o.type, 0, f, <<>>, <<>>, 0, 0, first)
    BY <1>1, <1>3 DEF WholeStage
<1> QED BY <1>2, <1>3, <1>4 DEF WholeFile

-----------------------------------------------------------------------------
(***************************************************************************)
(* The invariant of the outputs on disk.  A FIFO in the format framed      *)
(* breaks it, as FifoReadsBack shows, and is left out.                     *)
(***************************************************************************)
CallsOK(c) ==
    /\ c \in Seq(Cells)
    /\ \A i \in DOMAIN c : "seek" \in DOMAIN c[i] => c[i].seek \in {Out!Beginning, Out!EndOfFile}

Types ==
    /\ config \in Configs /\ startCounter \in Int /\ counter \in Int /\ counter >= startCounter
    /\ outputs \in Seq(Out!Entries) /\ next \in Nat /\ next >= 1
    /\ FileState(call, content, position, nbFrames_) /\ CallsOK(call)
    /\ broken = <<>> \/ \E b \in Nat : broken = <<b>>

\* The outputs opened are some of those of the configuration: one at most is on disk.
Single ==
    /\ \A i, j \in DOMAIN outputs : (Out!IsOnDisk(outputs[i]) /\ Out!IsOnDisk(outputs[j])) => i = j
    /\ \A i, j \in DOMAIN outputs : (outputs[i].proto = "zmq" /\ outputs[j].proto = "zmq") => i = j
    /\ \A i \in DOMAIN outputs :
          Out!IsOnDisk(outputs[i]) => outputs[i].type \in {"framed", "streamed", "raw"}
    /\ phase = "config" => \A i \in DOMAIN outputs :
          \E k \in DOMAIN config.outputs : k < next /\ outputs[i] = config.outputs[k]

Calling ==
    /\ phase \in {"config", "frame"} => call = <<>>
    /\ call # <<>> => next \in DOMAIN outputs /\ Out!IsOnDisk(outputs[next])

NoDisk ==
    /\ content = <<>> /\ position = 0 /\ nbFrames_ = 0 /\ broken = <<>> /\ call = <<>>
    /\ counter = startCounter

OnFile(o) == Out!IsOnDisk(o) /\ ~(o.proto = "fifo" /\ o.type = "framed")

\* The frames of the file of output k are those of the frames done, and in the frame at
\* work the one of its turn.
TurnOf(k, W) ==
    /\ W \in {counter - startCounter, counter - startCounter + 1}
    /\ phase \in {"config", "frame"} => W = counter - startCounter
    /\ phase = "write" => W = IF next > k THEN counter - startCounter + 1 ELSE counter - startCounter
    /\ call # <<>> => W = counter - startCounter

WholeUntilBroken(k) ==
    broken = <<>> =>
        \E W \in Nat : /\ TurnOf(k, W)
                       /\ WholeFile(outputs[k], W, counter, call, content, position, nbFrames_, startCounter)
KeptOnceBroken(k) ==
    \A b \in Nat : broken = <<b>> =>
        LeftFile(outputs[k], b, counter, call, content, position, nbFrames_, startCounter)

FilesOK ==
    \A k \in DOMAIN outputs : OnFile(outputs[k]) => WholeUntilBroken(k) /\ KeptOnceBroken(k)

DiskInv == Types /\ Single /\ Calling /\ (phase = "config" => NoDisk) /\ FilesOK

LEMMA OnFileIsFile ==
    ASSUME NEW o \in Out!Entries, OnFile(o), o.type \in {"framed", "streamed", "raw"} PROVE o \in File
BY DEF OnFile, Out!IsOnDisk, Out!OnDiskProtocols, File

LEMMA FileOutput ==
    ASSUME Types, Single, NEW k \in DOMAIN outputs, OnFile(outputs[k])
    PROVE  outputs[k] \in File /\ k \in Nat /\ k >= 1 /\ k <= Len(outputs)
<1>1. outputs[k] \in Out!Entries /\ k \in Nat /\ k >= 1 /\ k <= Len(outputs)
    BY DEF Types
<1>2. outputs[k].type \in {"framed", "streamed", "raw"}
    BY DEF Single, OnFile
<1> QED BY <1>1, <1>2, OnFileIsFile

LEMMA NoDifference == ASSUME NEW n \in Int PROVE n - n = 0
OBVIOUS

\* Nothing is written before the outputs are opened.
LEMMA NewFiles ==
    ASSUME Types', Single', NoDisk', phase' # "write" PROVE FilesOK'
<1>1. SUFFICES ASSUME NEW k \in DOMAIN outputs', OnFile(outputs'[k])
               PROVE  (WholeUntilBroken(k) /\ KeptOnceBroken(k))'
    BY DEF FilesOK
<1>2. outputs'[k] \in File
  <2>1. outputs'[k] \in Out!Entries
    BY DEF Types
  <2>2. outputs'[k].type \in {"framed", "streamed", "raw"}
    BY <1>1 DEF Single, OnFile
  <2> QED BY <1>1, <2>1, <2>2, OnFileIsFile
<1>3. counter' - startCounter' = 0
  <2>1. counter' \in Int /\ counter' = startCounter'
    BY DEF NoDisk, Types
  <2>2. counter' - counter' = 0
    BY <2>1, NoDifference
  <2> QED BY <2>1, <2>2
<1>4. TurnOf(k, 0)'
    BY <1>3 DEF TurnOf, NoDisk
<1>5. WholeFile(outputs[k], 0, counter, call, content, position, nbFrames_, startCounter)'
    BY <1>2, NewFile DEF NoDisk
<1>6. KeptOnceBroken(k)'
    BY DEF KeptOnceBroken, NoDisk
<1> QED BY <1>4, <1>5, <1>6 DEF WholeUntilBroken

\* A step that leaves the file alone while no call is under way, and keeps its turn.
LEMMA QuietFiles ==
    ASSUME Types, Single, FilesOK, call = <<>>, outputs' = outputs, startCounter' = startCounter,
           UNCHANGED <<content, position, nbFrames_, broken, call>>,
           \A k \in DOMAIN outputs, W \in Nat :
               (OnFile(outputs[k]) /\ TurnOf(k, W)) => TurnOf(k, W)'
    PROVE  FilesOK'
<1>1. SUFFICES ASSUME NEW k \in DOMAIN outputs, OnFile(outputs[k])
               PROVE  (WholeUntilBroken(k) /\ KeptOnceBroken(k))'
    BY DEF FilesOK
<1>2. outputs[k] \in File
    BY <1>1, FileOutput
<1>3. WholeUntilBroken(k) /\ KeptOnceBroken(k)
    BY <1>1 DEF FilesOK
<1>4. WholeUntilBroken(k)'
  <2>1. SUFFICES ASSUME broken = <<>>
                 PROVE  \E W \in Nat :
                           /\ TurnOf(k, W)'
                           /\ WholeFile(outputs[k], W, counter', <<>>, content, position, nbFrames_, startCounter)
    BY DEF WholeUntilBroken
  <2>2. PICK W \in Nat : /\ TurnOf(k, W)
                         /\ WholeFile(outputs[k], W, counter, <<>>, content, position, nbFrames_, startCounter)
    BY <1>3, <2>1 DEF WholeUntilBroken
  <2>3. TurnOf(k, W)'
    BY <1>1, <2>2
  <2> QED BY <1>2, <2>2, <2>3, FileRests
<1>5. KeptOnceBroken(k)'
  <2>1. SUFFICES ASSUME NEW b \in Nat, broken = <<b>>
                 PROVE  LeftFile(outputs[k], b, counter', <<>>, content, position, nbFrames_, startCounter)
    BY DEF KeptOnceBroken
  <2> QED BY <1>2, <1>3, <2>1, FileRests DEF KeptOnceBroken
<1> QED BY <1>4, <1>5

LEMMA DiskStarts == ASSUME Counters \subseteq Int, Out!Init PROVE DiskInv
<1>1. CallsOK(<<>>) /\ FileState(<<>>, <<>>, 0, 0)
    BY DEF CallsOK, FileState
<1>2. Types /\ Single /\ Calling /\ NoDisk
    BY <1>1 DEF Out!Init, Types, Single, Calling, NoDisk
<1> QED BY <1>2 DEF DiskInv, FilesOK, Out!Init

LEMMA AfterReadEntry == ASSUME Out!ConfigsOK, DiskInv, Out!ReadEntry PROVE DiskInv'
<1>1. /\ Types /\ Single /\ Calling /\ NoDisk /\ phase = "config"
      /\ phase' \in {"config", "ended"} /\ next \in DOMAIN config.outputs
      /\ UNCHANGED <<config, startCounter, call, counter, Out!disk>>
  <2>1. Types /\ phase = "config" /\ next <= Len(config.outputs)
    BY DEF DiskInv, Out!ReadEntry
  <2>2. config.outputs \in Seq(Out!Entries) /\ next \in Nat /\ next >= 1
    BY <2>1 DEF Types, Out!ConfigsOK
  <2>3. next \in DOMAIN config.outputs
    BY <2>1, <2>2
  <2> QED BY <2>1, <2>3 DEF DiskInv, Out!ReadEntry, Out!End
<1>2. Out!Entry \in Out!Entries
    BY <1>1 DEF Types, Out!ConfigsOK, Out!Entry
<1>3. Types' /\ Single'
  <2>1. CASE outputs' = Append(outputs, Out!Entry) /\ next' = next + 1
    <3>1. Types'
      BY <1>1, <1>2, <2>1 DEF Types, Out!disk
    <3>2. ASSUME NEW i \in DOMAIN outputs'
          PROVE  /\ i < Len(outputs') => i \in DOMAIN outputs /\ outputs'[i] = outputs[i]
                 /\ i = Len(outputs') => outputs'[i] = config.outputs[next]
      BY <1>1, <1>2, <2>1 DEF Types, Out!Entry
    <3>3. ASSUME NEW i \in DOMAIN outputs'
          PROVE  \E k \in DOMAIN config.outputs :
                    /\ k < next' /\ outputs'[i] = config.outputs[k]
                    /\ k < next <=> i < Len(outputs')
      <4>1. i <= Len(outputs') /\ i \in Nat /\ Len(outputs') \in Nat /\ next \in Nat
        BY <3>1, <1>1 DEF Types
      <4>2. CASE i < Len(outputs')
        <5>1. PICK k \in DOMAIN config.outputs : k < next /\ outputs[i] = config.outputs[k]
          BY <1>1, <3>2, <4>2 DEF Single
        <5>2. k < next'
          BY <1>1, <2>1, <4>1, <5>1 DEF Types, Out!ConfigsOK
        <5> QED BY <3>2, <4>2, <5>1, <5>2
      <4>3. CASE i = Len(outputs')
        <5>1. next < next' /\ ~(next < next) /\ ~(i < Len(outputs'))
          BY <4>1, <4>3, <2>1
        <5> QED BY <1>1, <3>2, <4>3, <5>1
      <4> QED BY <4>1, <4>2, <4>3
    <3>4. ASSUME NEW i \in DOMAIN outputs', Out!IsOnDisk(outputs'[i])
          PROVE  outputs'[i].type \in {"framed", "streamed", "raw"}
      BY <1>1, <3>3, <3>4 DEF Types, Out!ConfigsOK, Out!IsOnDisk
    <3>5. ASSUME NEW i \in DOMAIN outputs', NEW j \in DOMAIN outputs',
                 \/ Out!IsOnDisk(outputs'[i]) /\ Out!IsOnDisk(outputs'[j])
                 \/ outputs'[i].proto = "zmq" /\ outputs'[j].proto = "zmq"
          PROVE  i = j
      <4>1. PICK k \in DOMAIN config.outputs :
               outputs'[i] = config.outputs[k] /\ (k < next <=> i < Len(outputs'))
        BY <3>3
      <4>2. PICK l \in DOMAIN config.outputs :
               outputs'[j] = config.outputs[l] /\ (l < next <=> j < Len(outputs'))
        BY <3>3
      <4>3. k = l
        BY <1>1, <3>5, <4>1, <4>2 DEF Types, Out!ConfigsOK, Out!IsOnDisk
      <4>4. i < Len(outputs') <=> j < Len(outputs')
        BY <4>1, <4>2, <4>3
      <4>5. i <= Len(outputs') /\ i \in Nat /\ j <= Len(outputs') /\ j \in Nat /\ Len(outputs') \in Nat
        BY <3>1 DEF Types
      <4>6. CASE i < Len(outputs')
        BY <1>1, <3>2, <3>5, <4>4, <4>6 DEF Single
      <4>7. CASE ~(i < Len(outputs'))
        BY <4>4, <4>5, <4>7
      <4> QED BY <4>6, <4>7
    <3> QED BY <1>1, <3>1, <3>3, <3>4, <3>5 DEF Single
  <2>2. CASE outputs' = outputs /\ (next' = next \/ next' = next + 1)
    <3>1. Types'
      BY <1>1, <2>2 DEF Types, Out!disk
    <3>2. ASSUME NEW i \in DOMAIN outputs
          PROVE  \E k \in DOMAIN config.outputs : k < next' /\ outputs[i] = config.outputs[k]
      <4>1. PICK k \in DOMAIN config.outputs : k < next /\ outputs[i] = config.outputs[k]
        BY <1>1 DEF Single
      <4> QED BY <1>1, <2>2, <4>1 DEF Types, Out!ConfigsOK
    <3> QED BY <1>1, <2>2, <3>1, <3>2 DEF Single
  <2> QED BY <2>1, <2>2 DEF Out!ReadEntry
<1>4. NoDisk' /\ Calling' /\ phase' # "write"
    BY <1>1 DEF NoDisk, Calling, Out!disk
<1> QED BY <1>3, <1>4, NewFiles DEF DiskInv

LEMMA AfterPrepare == ASSUME DiskInv, Out!Prepare PROVE DiskInv'
<1>1. /\ Types /\ Single /\ NoDisk /\ phase' \in {"frame", "ended"}
      /\ UNCHANGED <<config, startCounter, next, call, outputs, counter, Out!disk>>
    BY DEF DiskInv, Out!Prepare, Out!End
<1>2. Types' /\ Single' /\ NoDisk' /\ Calling' /\ phase' \notin {"config", "write"}
    BY <1>1 DEF Types, Single, NoDisk, Calling, Out!disk
<1> QED BY <1>2, NewFiles DEF DiskInv

LEMMA AfterMuxFrame == ASSUME DiskInv, Out!MuxFrame PROVE DiskInv'
<1>1. /\ Types /\ Single /\ FilesOK /\ call = <<>> /\ phase = "frame" /\ phase' = "write" /\ next' = 1
      /\ UNCHANGED <<config, startCounter, call, outputs, counter, Out!disk>>
    BY DEF DiskInv, Calling, Out!MuxFrame
<1>2. Types' /\ Single' /\ Calling'
    BY <1>1 DEF Types, Single, Calling, Out!disk
<1>3. ASSUME NEW k \in DOMAIN outputs, NEW W \in Nat, TurnOf(k, W) PROVE TurnOf(k, W)'
  <2>1. ~(1 > k)
    BY <1>1 DEF Types
  <2> QED BY <1>1, <1>3, <2>1 DEF TurnOf
<1>4. FilesOK'
    BY <1>1, <1>3, QuietFiles DEF Out!disk
<1> QED BY <1>1, <1>2, <1>4 DEF DiskInv

\* The turn of another output passes.
LEMMA AfterAnother ==
    ASSUME DiskInv, Out!Writing, ~Out!IsOnDisk(Out!Output),
           UNCHANGED <<config, startCounter, call, outputs, counter, Out!disk>>,
           (phase' = phase /\ next' = next + 1) \/ (phase' = "ended" /\ next' = next)
    PROVE  DiskInv'
<1>1. Types /\ Single /\ FilesOK /\ call = <<>> /\ phase = "write"
    BY DEF DiskInv, Calling, Out!Writing, Out!Output
<1>2. Types' /\ Single' /\ Calling'
    BY <1>1 DEF Types, Single, Calling, Out!disk
<1>3. ASSUME NEW k \in DOMAIN outputs, NEW W \in Nat, OnFile(outputs[k]), TurnOf(k, W)
      PROVE  TurnOf(k, W)'
  <2>1. k # next
    BY <1>3 DEF OnFile, Out!Output
  <2>2. k \in Nat /\ next \in Nat
    BY <1>1 DEF Types
  <2>3. next > k <=> next + 1 > k
    BY <2>1, <2>2
  <2> QED BY <1>1, <1>3, <2>3 DEF TurnOf
<1>4. FilesOK'
    BY <1>1, <1>3, QuietFiles DEF Out!disk
<1> QED BY <1>1, <1>2, <1>4 DEF DiskInv

LEMMA AfterWriteZmq == ASSUME DiskInv, Out!WriteZmq PROVE DiskInv'
<1>1. ~Out!IsOnDisk(Out!Output) /\ Out!Writing
    BY DEF Out!WriteZmq, Out!IsOnDisk, Out!OnDiskProtocols
<1> QED BY <1>1, AfterAnother DEF Out!WriteZmq

LEMMA AfterWriteSocket == ASSUME DiskInv, Out!WriteSocket PROVE DiskInv'
<1>1. ~Out!IsOnDisk(Out!Output) /\ Out!Writing
    BY DEF Out!WriteSocket, Out!IsOnDisk, Out!OnDiskProtocols
<1> QED BY <1>1, AfterAnother DEF Out!WriteSocket, Out!End

LEMMA AfterFinishFrame == ASSUME DiskInv, Out!FinishFrame PROVE DiskInv'
<1>1. /\ Types /\ Single /\ FilesOK /\ phase = "write" /\ next > Len(outputs) /\ counter' = counter + 1
      /\ phase' \in {"ended", "frame"} /\ UNCHANGED <<config, startCounter, next, call, outputs, Out!disk>>
    BY DEF DiskInv, Out!FinishFrame, Out!End
<1>2. call = <<>>
    BY <1>1 DEF DiskInv, Calling, Types
<1>3. Types' /\ Single' /\ Calling'
  <2>1. counter' \in Int /\ counter' >= startCounter
    BY <1>1 DEF Types
  <2> QED BY <1>1, <1>2, <2>1 DEF Types, Single, Calling, Out!disk
<1>4. ASSUME NEW k \in DOMAIN outputs, NEW W \in Nat, TurnOf(k, W) PROVE TurnOf(k, W)'
  <2>1. next > k
    BY <1>1 DEF Types
  <2>2. W = counter - startCounter + 1
    BY <1>1, <1>4, <2>1 DEF TurnOf
  <2>3. W = counter' - startCounter'
    BY <1>1, <2>2 DEF Types
  <2> QED BY <1>1, <1>2, <2>3 DEF TurnOf
<1>5. FilesOK'
    BY <1>1, <1>2, <1>4, QuietFiles DEF Out!disk
<1> QED BY <1>1, <1>3, <1>5 DEF DiskInv

LEMMA AfterKilled == ASSUME DiskInv, Out!Killed PROVE DiskInv'
<1>1. /\ Types /\ Single /\ Calling /\ FilesOK /\ phase' = "killed" /\ phase \in {"frame", "write"}
      /\ UNCHANGED <<config, startCounter, next, call, outputs, counter, Out!disk>>
    BY DEF DiskInv, Out!Killed
<1>2. Types' /\ Single' /\ Calling'
    BY <1>1 DEF Types, Single, Calling, Out!disk
<1>3. ASSUME NEW k \in DOMAIN outputs, OnFile(outputs[k]) PROVE (WholeUntilBroken(k) /\ KeptOnceBroken(k))'
  <2>1. WholeUntilBroken(k) /\ KeptOnceBroken(k)
    BY <1>1, <1>3 DEF FilesOK
  <2>2. \A W \in Nat : TurnOf(k, W) => TurnOf(k, W)'
    BY <1>1 DEF TurnOf
  <2> QED BY <1>1, <2>1, <2>2 DEF WholeUntilBroken, KeptOnceBroken, Out!disk
<1> QED BY <1>1, <1>2, <1>3 DEF DiskInv, FilesOK

\* The system calls of a Write are those of a file, or of the FIFO that is left out.
LEMMA CallsFacts ==
    ASSUME NEW o \in Out!Entries, counter \in Int, nbFrames_ \in Nat
    PROVE  /\ CallsOK(Out!Calls(o))
           /\ OnFile(o) /\ o.type \in {"framed", "streamed", "raw"} =>
                CallsAre(o, counter, IF o.proto = "file" THEN nbFrames_ + 1 ELSE nbFrames_, Out!Calls(o))
<1>1. /\ \A j \in {1, 2} : Out!Data(j) \in Cells /\ "seek" \notin DOMAIN Out!Data(j)
      /\ Out!Size \in Cells /\ "seek" \notin DOMAIN Out!Size
      /\ Out!Padding \in Cells /\ "seek" \notin DOMAIN Out!Padding
    BY DEF Out!Data, Out!Size, Out!Padding, Cells
<1>2. \A n \in Int : [count |-> n] \in Cells /\ "seek" \notin DOMAIN [count |-> n]
    BY DEF Cells
<1>3. /\ Out!At(Out!Beginning) \in Cells /\ Out!At(Out!EndOfFile) \in Cells
      /\ Out!At(Out!Beginning).seek = Out!Beginning /\ Out!At(Out!EndOfFile).seek = Out!EndOfFile
    BY DEF Out!At, Cells, Out!Beginning, Out!EndOfFile
<1>4. CASE o.type = "raw"
  <2>1. Out!Calls(o) = <<Out!Data(1), Out!Data(2), Out!Padding>>
    BY <1>4 DEF Out!Calls
  <2>2. CallsOK(<<Out!Data(1), Out!Data(2), Out!Padding>>)
    BY <1>1 DEF CallsOK
  <2>3. CellsFrom1(o.type, counter) = <<Out!Data(1), Out!Data(2), Out!Padding>>
    BY <1>4 DEF CellsFrom1, CellOf, Out!Data, Out!Padding
  <2> QED BY <1>4, <2>1, <2>2, <2>3 DEF CallsAre
<1>5. <<Out!Size, Out!Data(1), Out!Data(2)>> = CellsFrom1(o.type, counter) \/ o.type = "raw"
    BY DEF CellsFrom1, CellOf, Out!Data, Out!Size
<1>6. CASE o.type = "streamed"
  <2>1. Out!Calls(o) = <<Out!Size, Out!Data(1), Out!Data(2)>>
    BY <1>6 DEF Out!Calls
  <2>2. CallsOK(<<Out!Size, Out!Data(1), Out!Data(2)>>)
    BY <1>1 DEF CallsOK
  <2> QED BY <1>5, <1>6, <2>1, <2>2 DEF CallsAre
<1>7. CASE o.type \notin {"raw", "streamed"} /\ o.proto = "file"
  <2> DEFINE n == nbFrames_ + 1
  <2>1. Out!Calls(o) = <<Out!At(Out!Beginning), [count |-> n], Out!At(Out!EndOfFile), Out!Size, Out!Data(1), Out!Data(2)>>
    BY <1>7 DEF Out!Calls
  <2>2. n \in Int
    OBVIOUS
  <2> HIDE DEF n
  <2>3. CallsOK(<<Out!At(Out!Beginning), [count |-> n], Out!At(Out!EndOfFile), Out!Size, Out!Data(1), Out!Data(2)>>)
    BY <1>1, <1>2, <1>3, <2>2 DEF CallsOK
  <2>4. CellOf(o.type, counter, 1) = Out!Size /\ CellOf(o.type, counter, 2) = Out!Data(1)
        /\ CellOf(o.type, counter, 3) = Out!Data(2)
    BY <1>7 DEF CellOf, Out!Data, Out!Size
  <2>5. FromSeek(o.type, counter, n) =
          <<Out!At(Out!Beginning), [count |-> n], Out!At(Out!EndOfFile), Out!Size, Out!Data(1), Out!Data(2)>>
    BY <2>4 DEF FromSeek
  <2> QED BY <1>7, <2>1, <2>3, <2>5 DEF CallsAre, n
<1>8. CASE o.type \notin {"raw", "streamed"} /\ o.proto # "file"
  <2>1. Out!Calls(o) = <<[count |-> -1], Out!Size, Out!Data(1), Out!Data(2)>>
    BY <1>8 DEF Out!Calls
  <2>2. CallsOK(<<[count |-> -1], Out!Size, Out!Data(1), Out!Data(2)>>)
    BY <1>1, <1>2 DEF CallsOK
  <2> QED BY <1>8, <2>1, <2>2 DEF OnFile, Out!IsOnDisk, Out!OnDiskProtocols
<1> QED BY <1>4, <1>6, <1>7, <1>8

LEMMA AfterBeginWrite == ASSUME DiskInv, Out!BeginWrite PROVE DiskInv'
<1> DEFINE o == outputs[next]
<1>1. /\ Types /\ Single /\ FilesOK /\ phase = "write" /\ call = <<>> /\ next \in DOMAIN outputs
      /\ o \in Out!Entries /\ Out!IsOnDisk(o)
      /\ UNCHANGED <<config, startCounter, phase, next, outputs, counter, content, position, broken>>
    BY DEF DiskInv, Out!BeginWrite, Out!Writing, Out!Output, Types
<1>2. call' = Out!Calls(o) /\ nbFrames_' = IF o.proto = "file" THEN nbFrames_ + 1 ELSE nbFrames_
    BY DEF Out!BeginWrite, Out!Output
<1>3. /\ CallsOK(call')
      /\ OnFile(o) => CallsAre(o, counter, nbFrames_', call')
  <2>1. counter \in Int /\ nbFrames_ \in Nat /\ o.type \in {"framed", "streamed", "raw"}
    BY <1>1 DEF Types, FileState, Single
  <2> HIDE DEF o
  <2> QED BY <1>1, <1>2, <2>1, CallsFacts
<1>4. Types' /\ Single' /\ Calling'
  <2>1. FileState(call', content', position', nbFrames_')
    BY <1>1, <1>2 DEF Types, FileState
  <2> QED BY <1>1, <1>3, <2>1 DEF Types, Single, Calling
<1>5. ASSUME NEW k \in DOMAIN outputs, OnFile(outputs[k]) PROVE (WholeUntilBroken(k) /\ KeptOnceBroken(k))'
  <2>1. k = next /\ OnFile(o) /\ o \in File
    BY <1>1, <1>5, FileOutput DEF Single, OnFile
  <2>2. WholeUntilBroken(k) /\ KeptOnceBroken(k)
    BY <1>1, <1>5, <2>1 DEF FilesOK
  <2>3. WholeUntilBroken(k)'
    <3>1. SUFFICES ASSUME broken = <<>>
                   PROVE  \E W \in Nat :
                             /\ TurnOf(k, W)'
                             /\ WholeFile(o, W, counter, call', content, position, nbFrames_', startCounter)
      BY <1>1, <2>1 DEF WholeUntilBroken
    <3>2. PICK W \in Nat : /\ TurnOf(k, W)
                           /\ WholeFile(o, W, counter, <<>>, content, position, nbFrames_, startCounter)
      BY <1>1, <2>1, <2>2, <3>1 DEF WholeUntilBroken
    <3>3. W = counter - startCounter
      BY <1>1, <2>1, <3>2 DEF TurnOf, Types
    <3>4. TurnOf(k, W)'
      BY <1>1, <2>1, <3>2, <3>3 DEF TurnOf
    <3>5. Len(content) \in Nat
      BY <1>1 DEF Types, FileState
    <3>6. WholeFile(o, W, counter, call', content, position, nbFrames_', startCounter)
      <4> HIDE DEF o
      <4> QED BY <1>2, <1>3, <2>1, <3>2, <3>5, WholeBegins
    <3> QED BY <3>4, <3>6
  <2>4. KeptOnceBroken(k)'
    <3>1. SUFFICES ASSUME NEW b \in Nat, broken = <<b>>
                   PROVE  LeftFile(o, b, counter, call', content, position, nbFrames_', startCounter)
      BY <1>1, <2>1 DEF KeptOnceBroken
    <3>2. LeftFile(o, b, counter, <<>>, content, position, nbFrames_, startCounter)
      BY <1>1, <2>1, <2>2, <3>1 DEF KeptOnceBroken
    <3> HIDE DEF o
    <3> QED BY <1>2, <1>3, <2>1, <3>2, LeftBegins
  <2> QED BY <2>1, <2>3, <2>4
<1> QED BY <1>1, <1>4, <1>5 DEF DiskInv, FilesOK

LEMMA CalledFacts ==
    ASSUME NEW c, NEW s, NEW p, NEW nb, NEW c2, NEW s2, NEW p2, FileState(c, s, p, nb), CallsOK(c),
           c # <<>>, Called(c, s, p, c2, s2, p2)
    PROVE  FileState(c2, s2, p2, nb) /\ CallsOK(c2)
<1>1. /\ Head(c) = c[1] /\ Head(c) \in Cells
      /\ "seek" \in DOMAIN Head(c) => Head(c).seek \in {Out!Beginning, Out!EndOfFile}
    BY DEF CallsOK
<1>2. CallsOK(c2)
  <2>1. /\ Tail(c) \in Seq(Cells)
        /\ \A i \in DOMAIN Tail(c) : i + 1 \in DOMAIN c /\ Tail(c)[i] = c[i + 1]
    BY DEF CallsOK
  <2> QED BY <2>1 DEF CallsOK, Called
<1>3. CASE "seek" \in DOMAIN Head(c)
    BY <1>1, <1>2, <1>3 DEF Called, FileState, Out!Beginning, Out!EndOfFile
<1>4. CASE "seek" \notin DOMAIN Head(c)
  <2>1. s2 = Put(s, p, Head(c)) /\ p2 = p + 1 /\ s \in Seq(Cells) /\ p \in Nat /\ p <= Len(s) /\ nb \in Nat
    BY <1>4 DEF Called, FileState
  <2>2. s2 \in Seq(Cells) /\ Len(s2) = IF p < Len(s) THEN Len(s) ELSE Len(s) + 1
    BY <1>1, <2>1, PutFacts
  <2>3. p2 \in Nat /\ p2 <= Len(s2)
    BY <2>1, <2>2
  <2> QED BY <1>2, <2>1, <2>2, <2>3 DEF FileState
<1> QED BY <1>3, <1>4

LEMMA AfterSystemCall == ASSUME DiskInv, Out!SystemCall PROVE DiskInv'
<1> DEFINE o == outputs[next]
<1>1. /\ Types /\ Single /\ FilesOK /\ Calling /\ phase = "write" /\ call # <<>> /\ next \in DOMAIN outputs
      /\ o \in Out!Entries /\ Out!IsOnDisk(o)
      /\ UNCHANGED <<config, startCounter, phase, outputs, counter, nbFrames_, broken>>
    BY DEF DiskInv, Out!SystemCall, Calling, Out!Writing, Types
<1>2. Called(call, content, position, call', content', position')
    BY DEF Out!SystemCall, Called, Out!Overwritten, Put
<1>3. next' = IF call' = <<>> THEN next + 1 ELSE next
    BY DEF Out!SystemCall
<1>4. Types' /\ Single' /\ Calling'
  <2>1. FileState(call', content', position', nbFrames_') /\ CallsOK(call')
    BY <1>1, <1>2, CalledFacts DEF Types
  <2>2. next' \in Nat /\ next' >= 1
    BY <1>1, <1>3 DEF Types
  <2> QED BY <1>1, <1>3, <2>1, <2>2 DEF Types, Single, Calling
<1>5. ASSUME NEW k \in DOMAIN outputs, OnFile(outputs[k]) PROVE (WholeUntilBroken(k) /\ KeptOnceBroken(k))'
  <2>1. k = next /\ OnFile(o) /\ o \in File
    BY <1>1, <1>5, FileOutput DEF Single, OnFile
  <2>2. WholeUntilBroken(k) /\ KeptOnceBroken(k)
    BY <1>1, <1>5 DEF FilesOK
  <2>3. FileState(call, content, position, nbFrames_) /\ startCounter \in Int /\ counter \in Int /\ k \in Nat
    BY <1>1 DEF Types
  <2>4. WholeUntilBroken(k)'
    <3>1. SUFFICES ASSUME broken = <<>>
                   PROVE  \E W \in Nat :
                             /\ TurnOf(k, W)'
                             /\ WholeFile(o, W, counter, call', content', position', nbFrames_, startCounter)
      BY <1>1, <2>1 DEF WholeUntilBroken
    <3>2. PICK W \in Nat : /\ TurnOf(k, W)
                           /\ WholeFile(o, W, counter, call, content, position, nbFrames_, startCounter)
      BY <1>1, <2>1, <2>2, <3>1 DEF WholeUntilBroken
    <3>3. W = counter - startCounter /\ startCounter + W = counter /\ W + 1 \in Nat
      BY <1>1, <2>3, <3>2 DEF TurnOf
    <3>4. WholeFile(o, IF call' = <<>> THEN W + 1 ELSE W, counter, call', content', position', nbFrames_,
                    startCounter)
      <4> HIDE DEF o
      <4>1. WholeFile(o, W, startCounter + W, call, content, position, nbFrames_, startCounter)
        BY <3>2, <3>3
      <4>2. WholeFile(o, IF call' = <<>> THEN W + 1 ELSE W, startCounter + W, call', content', position',
                      nbFrames_, startCounter)
        BY <1>1, <1>2, <2>1, <2>3, <4>1, WholeCalled
      <4> QED BY <3>3, <4>2
    <3>5. CASE call' = <<>>
      <4>1. next' > k
        BY <1>3, <2>1, <2>3, <3>5
      <4>2. TurnOf(k, W + 1)'
        BY <1>1, <3>3, <3>5, <4>1 DEF TurnOf
      <4> QED BY <3>3, <3>4, <3>5, <4>2
    <3>6. CASE call' # <<>>
      <4>1. ~(next' > k)
        BY <1>3, <2>1, <2>3, <3>6
      <4>2. TurnOf(k, W)'
        BY <1>1, <3>3, <3>6, <4>1 DEF TurnOf
      <4> QED BY <3>4, <3>6, <4>2
    <3> QED BY <3>5, <3>6
  <2>5. KeptOnceBroken(k)'
    <3>1. SUFFICES ASSUME NEW b \in Nat, broken = <<b>>
                   PROVE  LeftFile(o, b, counter, call', content', position', nbFrames_, startCounter)
      BY <1>1, <2>1 DEF KeptOnceBroken
    <3>2. LeftFile(o, b, counter, call, content, position, nbFrames_, startCounter)
      BY <1>1, <2>1, <2>2, <3>1 DEF KeptOnceBroken
    <3> HIDE DEF o
    <3>3. CASE b > 0
      BY <1>1, <1>2, <2>1, <2>3, <3>2, <3>3, LeftCalled
    <3>4. CASE ~(b > 0)
      BY <3>4 DEF LeftFile
    <3> QED BY <3>3, <3>4
  <2> QED BY <2>4, <2>5
<1> QED BY <1>1, <1>4, <1>5 DEF DiskInv, FilesOK

LEMMA AfterSystemCallFails == ASSUME DiskInv, Out!SystemCallFails PROVE DiskInv'
<1> DEFINE o == outputs[next]
<1>1. /\ Types /\ Single /\ FilesOK /\ Calling /\ phase = "write" /\ call # <<>> /\ next \in DOMAIN outputs
      /\ o \in Out!Entries /\ Out!IsOnDisk(o) /\ call' = <<>> /\ next' = next + 1
      /\ broken' = IF broken = <<>> THEN <<counter - startCounter>> ELSE broken
      /\ UNCHANGED <<config, startCounter, phase, outputs, counter, content, position, nbFrames_>>
    BY DEF DiskInv, Out!SystemCallFails, Calling, Out!Writing, Types
<1>2. counter - startCounter \in Nat /\ broken' # <<>>
    BY <1>1 DEF Types
<1>3. Types' /\ Single' /\ Calling'
  <2>1. FileState(<<>>, content, position, nbFrames_) /\ CallsOK(<<>>)
    BY <1>1 DEF Types, FileState, CallsOK
  <2>2. next' \in Nat /\ next' >= 1 /\ (\E b \in Nat : broken' = <<b>>)
    BY <1>1, <1>2 DEF Types
  <2> QED BY <1>1, <2>1, <2>2 DEF Types, Single, Calling
<1>4. ASSUME NEW k \in DOMAIN outputs, OnFile(outputs[k]) PROVE (WholeUntilBroken(k) /\ KeptOnceBroken(k))'
  <2>1. k = next /\ OnFile(o) /\ o \in File
    BY <1>1, <1>4, FileOutput DEF Single, OnFile
  <2>2. WholeUntilBroken(k) /\ KeptOnceBroken(k)
    BY <1>1, <1>4 DEF FilesOK
  <2>3. Len(content) \in Nat /\ position \in Nat
    BY <1>1 DEF Types, FileState
  <2>4. WholeUntilBroken(k)'
    BY <1>2 DEF WholeUntilBroken
  <2>5. KeptOnceBroken(k)'
    <3>1. SUFFICES ASSUME NEW b \in Nat, broken' = <<b>>
                   PROVE  LeftFile(o, b, counter, <<>>, content, position, nbFrames_, startCounter)
      BY <1>1, <2>1 DEF KeptOnceBroken
    <3>2. CASE broken = <<>>
      <4>1. b = counter - startCounter
        BY <1>1, <3>1, <3>2
      <4>2. PICK W \in Nat : /\ TurnOf(k, W)
                             /\ WholeFile(o, W, counter, call, content, position, nbFrames_, startCounter)
        BY <2>1, <2>2, <3>2 DEF WholeUntilBroken
      <4>3. W = b
        BY <1>1, <4>1, <4>2 DEF TurnOf
      <4> HIDE DEF o
      <4> QED BY <2>1, <2>3, <4>2, <4>3, WholeIsLeft
    <3>3. CASE broken # <<>>
      <4>1. LeftFile(o, b, counter, call, content, position, nbFrames_, startCounter)
        BY <1>1, <2>1, <2>2, <3>1, <3>3 DEF KeptOnceBroken
      <4> HIDE DEF o
      <4> QED BY <2>1, <2>3, <4>1, LeftIsLeft
    <3> QED BY <3>2, <3>3
  <2> QED BY <2>4, <2>5
<1> QED BY <1>1, <1>3, <1>4 DEF DiskInv, FilesOK

LEMMA DiskInvIsKept == ASSUME Out!ConfigsOK, DiskInv, [Out!Next]_(Out!vars) PROVE DiskInv'
<1>1. CASE Out!Next
    BY <1>1, AfterReadEntry, AfterPrepare, AfterMuxFrame, AfterBeginWrite, AfterSystemCall,
       AfterSystemCallFails, AfterWriteZmq, AfterWriteSocket, AfterFinishFrame, AfterKilled DEF Out!Next
<1>2. CASE UNCHANGED Out!vars
  <2>1. UNCHANGED <<config, startCounter, phase, next, call, outputs, counter, content, position, nbFrames_, broken>>
    BY <1>2 DEF Out!vars, Out!disk
  <2>2. Types' /\ Single' /\ Calling' /\ (phase = "config" => NoDisk)'
    BY <2>1 DEF DiskInv, Types, Single, Calling, NoDisk
  <2>3. FilesOK'
    BY <2>1 DEF DiskInv, FilesOK, WholeUntilBroken, KeptOnceBroken, TurnOf
  <2> QED BY <2>2, <2>3 DEF DiskInv
<1> QED BY <1>1, <1>2

LEMMA Triple ==
    ASSUME NEW t \in Seq(Cells), Len(t) = 3 PROVE t = <<t[1], t[2], t[3]>>
<1> DEFINE u == <<t[1], t[2], t[3]>>
<1>0. t[1] \in Cells /\ t[2] \in Cells /\ t[3] \in Cells
  <2>1. 1 \in 1..Len(t) /\ 2 \in 1..Len(t) /\ 3 \in 1..Len(t)
    OBVIOUS
  <2> QED BY <2>1, ElementOfSeq
<1>1. u \in Seq(Cells) /\ Len(u) = 3 /\ u[1] = t[1] /\ u[2] = t[2] /\ u[3] = t[3]
    BY <1>0
<1> HIDE DEF u
<1>2. \A i \in 1..Len(t) : t[i] = u[i]
    BY <1>1
<1>3. t = u
    BY <1>1, <1>2, SeqEqual
<1> QED BY <1>3 DEF u

LEMMA ThreeOf ==
    ASSUME NEW s \in Seq(Cells), NEW m \in Nat, Len(s) >= m + 3
    PROVE  /\ SubSeq(s, m + 1, m + 3) \in Seq(Cells) /\ Len(SubSeq(s, m + 1, m + 3)) = 3
           /\ \A j \in 1..3 : SubSeq(s, m + 1, m + 3)[j] = s[m + j]
<1> DEFINE t == SubSeq(s, m + 1, m + 3)
<1>1. m + 1 \in Int /\ m + 3 \in Int /\ \A i \in (m + 1)..(m + 3) : s[i] \in Cells
  <2>1. \A i \in (m + 1)..(m + 3) : i \in 1..Len(s)
    OBVIOUS
  <2> QED BY <2>1, ElementOfSeq
<1>2. /\ t \in Seq(Cells)
      /\ Len(t) = (IF m + 1 <= m + 3 THEN (m + 3) - (m + 1) + 1 ELSE 0)
      /\ \A i \in 1..((m + 3) - (m + 1) + 1) : t[i] = s[(m + 1) + i - 1]
    BY <1>1, SubSeqProperties
<1> HIDE DEF t
<1>3. m + 1 <= m + 3 /\ (m + 3) - (m + 1) + 1 = 3 /\ \A j \in 1..3 : (m + 1) + j - 1 = m + j
    OBVIOUS
<1>4. t \in Seq(Cells) /\ Len(t) = 3 /\ \A j \in 1..3 : t[j] = s[m + j]
    BY <1>2, <1>3
<1> QED BY <1>4 DEF t

LEMMA RecordIsRead ==
    ASSUME NEW type, NEW s \in Seq(Cells), NEW w \in Nat, NEW n \in Nat, n < w, NEW first,
           HasCells(type, s, 3 * w, first)
    PROVE  SubSeq(s, Base(type) + 3 * n + 1, Base(type) + 3 * n + 3) = CellsFrom1(type, first + n)
<1> DEFINE m == Base(type) + 3 * n
<1>1. Base(type) \in 0..1 /\ m \in Nat
    BY DEF Base
<1>2. \A j \in 1..3 : s[m + j] = CellOf(type, first + n, j)
  <2>1. \A j \in 1..3 : 3 * n + j <= 3 * w
    OBVIOUS
  <2> QED BY <1>1, <2>1 DEF HasCells
<1>3. Len(s) >= m + 3
  <2>1. Len(s) >= Base(type) + 3 * w
    BY DEF HasCells
  <2> QED BY <1>1, <2>1
<1> HIDE DEF m
<1>4. /\ SubSeq(s, m + 1, m + 3) \in Seq(Cells)
      /\ Len(SubSeq(s, m + 1, m + 3)) = 3
      /\ \A j \in 1..3 : SubSeq(s, m + 1, m + 3)[j] = s[m + j]
    BY <1>1, <1>3, ThreeOf
<1>5. SubSeq(s, m + 1, m + 3) = <<s[m + 1], s[m + 2], s[m + 3]>>
  <2> DEFINE t == SubSeq(s, m + 1, m + 3)
  <2>1. t \in Seq(Cells) /\ Len(t) = 3 /\ t[1] = s[m + 1] /\ t[2] = s[m + 2] /\ t[3] = s[m + 3]
    <3>1. 1 \in 1..3 /\ 2 \in 1..3 /\ 3 \in 1..3
      OBVIOUS
    <3> HIDE DEF t
    <3> QED BY <1>4, <3>1 DEF t
  <2> HIDE DEF t
  <2>2. t = <<t[1], t[2], t[3]>>
    BY <2>1, Triple
  <2> QED BY <2>1, <2>2 DEF t
<1> QED BY <1>2, <1>5 DEF CellsFrom1, m

LEMMA FileIsReadBack == ASSUME DiskInv PROVE Out!FileReadsBack
<1>1. SUFFICES ASSUME NEW l \in DOMAIN outputs, Out!IsOnDisk(outputs[l]),
                      ~(Out!OnDisk.proto = "fifo" /\ Out!OnDisk.type = "framed")
               PROVE  Out!ReadsBack
    BY DEF Out!FileReadsBack
<1> DEFINE k == CHOOSE i \in DOMAIN outputs : Out!IsOnDisk(outputs[i])
           type == Out!OnDisk.type
<1>2. k \in DOMAIN outputs /\ Out!OnDisk = outputs[k] /\ OnFile(outputs[k])
    BY <1>1 DEF Out!OnDisk, OnFile
<1> HIDE DEF k
<1>3. /\ Types /\ Single /\ WholeUntilBroken(k) /\ KeptOnceBroken(k) /\ outputs[k] \in File
    BY <1>2, FileOutput DEF DiskInv, FilesOK
<1>4. content \in Seq(Cells) /\ Out!FramesDone \in Nat /\ Out!FramesInFile \in Nat
    BY <1>3 DEF Types, FileState, Out!FramesDone, Out!FramesInFile
<1>5. Out!FramesInFile > 0 => HasCells(type, content, 3 * Out!FramesInFile, startCounter)
  <2>1. CASE broken = <<>>
    <3>1. PICK W \in Nat : TurnOf(k, W) /\ HasCells(type, content, 3 * W, startCounter)
      BY <1>2, <1>3, <2>1 DEF WholeUntilBroken, WholeFile
    <3>2. Out!FramesInFile <= W
      BY <1>3, <2>1, <3>1 DEF TurnOf, Out!FramesInFile, Out!FramesDone, Types
    <3>3. 3 * Out!FramesInFile <= 3 * W /\ 3 * Out!FramesInFile \in Nat /\ 3 * W \in Nat /\ Len(content) \in Nat
      BY <1>4, <3>2
    <3> QED BY <3>1, <3>3, HasFewerCells
  <2>2. CASE broken # <<>>
    <3>1. PICK b \in Nat : broken = <<b>>
      BY <1>3, <2>2 DEF Types
    <3>2. Out!FramesInFile = b
      BY <3>1 DEF Out!FramesInFile
    <3> QED BY <1>2, <1>3, <3>1, <3>2 DEF KeptOnceBroken, LeftFile
  <2> QED BY <2>1, <2>2
<1>6. ASSUME NEW n \in 0..(Out!FramesInFile - 1) PROVE Out!RecordOf(n) = Out!FrameRecord(startCounter + n)
  <2>1. n \in Nat /\ n < Out!FramesInFile /\ Out!FramesInFile > 0
    BY <1>4
  <2>2. HasCells(type, content, 3 * Out!FramesInFile, startCounter)
    BY <1>5, <2>1
  <2> HIDE DEF type
  <2>3. SubSeq(content, Base(type) + 3 * n + 1, Base(type) + 3 * n + 3) = CellsFrom1(type, startCounter + n)
    BY <1>4, <2>1, <2>2, RecordIsRead
  <2>4. Out!FirstRecord = Base(type)
    BY DEF Out!FirstRecord, Base, type
  <2>5. Out!FrameRecord(startCounter + n) = CellsFrom1(type, startCounter + n)
    BY DEF Out!FrameRecord, CellsFrom1, CellOf, type
  <2> QED BY <2>3, <2>4, <2>5 DEF Out!RecordOf
<1>7. ASSUME type = "framed", broken = <<>>, content # <<>>
      PROVE  content[1].count \in {Out!FramesDone, Out!FramesDone + 1}
  <2>1. PICK W \in Nat : /\ TurnOf(k, W)
                         /\ WholeFile(outputs[k], W, counter, call, content, position, nbFrames_, startCounter)
    BY <1>3, <1>7 DEF WholeUntilBroken
  <2>2. W \in {Out!FramesDone, Out!FramesDone + 1} /\ (call # <<>> => W = Out!FramesDone)
    BY <2>1 DEF TurnOf, Out!FramesDone
  <2>3. \/ Plain(type, W, content)
        \/ call # <<>> /\ Counted(type, W + 1, content)
    BY <1>2, <2>1, NothingIsEmpty DEF WholeFile, WholeStage
  <2>4. CASE Plain(type, W, content)
    <3>1. W > 0
      BY <1>4, <1>7, <2>4 DEF Plain
    <3>2. content[1] = [count |-> W]
      BY <1>7, <2>4, <3>1 DEF Plain
    <3> QED BY <2>2, <3>2
  <2>5. CASE call # <<>> /\ Counted(type, W + 1, content)
    <3>1. content[1] = [count |-> W + 1] /\ W = Out!FramesDone
      BY <1>7, <2>2, <2>5 DEF Counted
    <3> QED BY <3>1
  <2> QED BY <2>3, <2>4, <2>5
<1> QED BY <1>6, <1>7 DEF Out!ReadsBack

-----------------------------------------------------------------------------
(***************************************************************************)
(* The ZeroMQ output.  As long as the main loop runs, the frames of the    *)
(* messages and of the one that is collected are those written, and the    *)
(* metadata collected has a group for each frame that is not published,    *)
(* that of the frame at work included from mux_frame on.                   *)
(***************************************************************************)
Items == [id : {"UTCO", "EDITime", "DLFC", "separation"}, value : Int]
Messages == [frames : Seq(Int), meta : Seq(Items)]
Dlfc(f) == Out!Item("DLFC", f % 5000)

TimedGroups(m, n, first) ==
    /\ Len(m) = 4 * n
    /\ \A k \in 1..n : m[4 * k].id = "separation" /\ m[4 * k - 1] = Dlfc(first + k - 1)
PlainGroups(m, n) == Len(m) = n /\ \A k \in 1..n : m[k].id = "separation"

Timed == config.tist /\ Out!NeedsTai
Groups(m, n, first) == IF Timed THEN TimedGroups(m, n, first) ELSE PlainGroups(m, n)

Follows(sofar, first) == \A k \in 1..Len(sofar) : sofar[k] = first + k - 1

Unpublished == zmq_message = <<>> /\ meta_ = <<>> /\ published = <<>>

FramesSent(z) == IF phase = "write" /\ next > z THEN counter - startCounter + 1 ELSE counter - startCounter
FramesMuxed == IF phase = "write" THEN counter - startCounter + 1 ELSE counter - startCounter
FramesPublished == 4 * Len(published)

Collected(z) ==
    /\ Len(zmq_message) < 4
    /\ FramesPublished + Len(zmq_message) = FramesSent(z)
    /\ Follows(zmq_message, startCounter + FramesPublished)
    /\ Out!WantsMetadata => Groups(meta_, FramesMuxed - FramesPublished, startCounter + FramesPublished)

IsZmq(z) == z \in DOMAIN outputs /\ outputs[z].proto = "zmq"

ZmqTypes == zmq_message \in Seq(Int) /\ meta_ \in Seq(Items) /\ published \in Seq(Messages)

MessageOK(i) ==
    /\ \A k \in DOMAIN published[i].frames : published[i].frames[k] = startCounter + 4 * (i - 1) + k - 1
    /\ Out!WantsMetadata => Groups(published[i].meta, Len(published[i].frames), startCounter + 4 * (i - 1))

ZmqInv ==
    /\ ZmqTypes
    /\ phase = "config" => Unpublished
    /\ phase \in {"config", "frame", "write"} => \A z \in DOMAIN outputs : IsZmq(z) => Collected(z)
    /\ \A i \in DOMAIN published : MessageOK(i)

LEMMA TimedGroupIsAdded ==
    ASSUME NEW m \in Seq(Items), NEW n \in Nat, NEW first \in Int, TimedGroups(m, n, first),
           NEW a \in Items, NEW b \in Items, NEW c \in Items, NEW d \in Items,
           c = Dlfc(first + n), d.id = "separation"
    PROVE  TimedGroups(m \o <<a, b, c, d>>, n + 1, first)
<1> DEFINE g == <<a, b, c, d>>
           t == m \o g
<1>1. g \in Seq(Items) /\ Len(g) = 4 /\ g[3] = c /\ g[4] = d
    OBVIOUS
<1> HIDE DEF g
<1>2. Len(m) = 4 * n /\ Len(m) \in Nat
    BY DEF TimedGroups
<1>3. /\ Len(t) = Len(m) + 4
      /\ \A i \in 1..Len(m) : t[i] = m[i]
      /\ t[Len(m) + 3] = c /\ t[Len(m) + 4] = d
  <2>1. /\ Len(t) = Len(m) + Len(g)
        /\ \A i \in 1..(Len(m) + Len(g)) : t[i] = IF i <= Len(m) THEN m[i] ELSE g[i - Len(m)]
    BY <1>1, ConcatProperties
  <2> HIDE DEF t
  <2>2. \A i \in 1..Len(m) : t[i] = m[i]
    BY <1>1, <1>2, <2>1
  <2>3. Len(m) + 3 - Len(m) = 3 /\ Len(m) + 4 - Len(m) = 4
    BY <1>2
  <2>4. t[Len(m) + 3] = g[3] /\ t[Len(m) + 4] = g[4]
    BY <1>1, <1>2, <2>1, <2>3
  <2> QED BY <1>1, <2>1, <2>2, <2>4
<1> HIDE DEF t
<1>4. ASSUME NEW k \in 1..(n + 1)
      PROVE  t[4 * k].id = "separation" /\ t[4 * k - 1] = Dlfc(first + k - 1)
  <2>1. CASE k <= n
    <3>1. k \in 1..n /\ 4 * k \in 1..Len(m) /\ 4 * k - 1 \in 1..Len(m)
      BY <1>2, <2>1
    <3>2. m[4 * k].id = "separation" /\ m[4 * k - 1] = Dlfc(first + k - 1)
      BY <3>1 DEF TimedGroups
    <3> QED BY <1>3, <3>1, <3>2
  <2>2. CASE k = n + 1
    <3>1. 4 * k = Len(m) + 4 /\ 4 * k - 1 = Len(m) + 3 /\ first + k - 1 = first + n
      BY <1>2, <2>2
    <3> QED BY <1>3, <3>1
  <2> QED BY <2>1, <2>2
<1>5. Len(t) = 4 * (n + 1)
    BY <1>2, <1>3
<1>6. TimedGroups(t, n + 1, first)
    BY <1>4, <1>5 DEF TimedGroups
<1> QED BY <1>6 DEF t, g

LEMMA PlainGroupIsAdded ==
    ASSUME NEW m \in Seq(Items), NEW n \in Nat, PlainGroups(m, n), NEW d \in Items, d.id = "separation"
    PROVE  PlainGroups(m \o <<d>>, n + 1)
<1> DEFINE t == m \o <<d>>
<1>1. /\ Len(t) = n + 1 /\ t[n + 1] = d
      /\ \A i \in 1..n : t[i] = m[i]
    BY DEF PlainGroups
<1> HIDE DEF t
<1>2. ASSUME NEW k \in 1..(n + 1) PROVE t[k].id = "separation"
  <2>1. CASE k \in 1..n
    BY <1>1, <2>1 DEF PlainGroups
  <2>2. CASE k = n + 1
    BY <1>1, <2>2
  <2> QED BY <2>1, <2>2
<1>3. PlainGroups(t, n + 1)
    BY <1>1, <1>2 DEF PlainGroups
<1> QED BY <1>3 DEF t

LEMMA FrameFollows ==
    ASSUME NEW sofar \in Seq(Int), NEW first \in Int, Follows(sofar, first), NEW f \in Int,
           f = first + Len(sofar)
    PROVE  Follows(Append(sofar, f), first)
<1> DEFINE t == Append(sofar, f)
<1>1. /\ Len(t) = Len(sofar) + 1 /\ Len(sofar) \in Nat /\ t[Len(sofar) + 1] = f
      /\ \A k \in 1..Len(sofar) : t[k] = sofar[k]
    OBVIOUS
<1> HIDE DEF t
<1>2. ASSUME NEW k \in 1..Len(t) PROVE t[k] = first + k - 1
  <2>1. CASE k \in 1..Len(sofar)
    BY <1>1, <2>1 DEF Follows
  <2>2. CASE k = Len(sofar) + 1
    BY <1>1, <2>2
  <2> QED BY <1>1, <2>1, <2>2
<1>3. Follows(t, first)
    BY <1>2 DEF Follows
<1> QED BY <1>3 DEF t

LEMMA NoGroups ==
    ASSUME NEW first PROVE Groups(<<>>, 0, first)
BY DEF Groups, TimedGroups, PlainGroups

LEMMA OneTimes == ASSUME NEW n \in Nat PROVE 1 * n = n
OBVIOUS

\* What the messages promise, in the words of MetadataOfItsFrame.
LEMMA GroupsAreRead ==
    ASSUME NEW sofar \in Seq(Int), NEW meta, NEW first \in Int,
           \A k \in DOMAIN sofar : sofar[k] = first + k - 1,
           Groups(meta, Len(sofar), first)
    PROVE  Out!IsOfItsFrames(meta, sofar)
<1>1. DOMAIN sofar = 1..Len(sofar) /\ Len(sofar) \in Nat
    OBVIOUS
<1>2. CASE Timed
  <2>1. TimedGroups(meta, Len(sofar), first)
    BY <1>2 DEF Groups
  <2>2. Len(meta) = 4 * Len(sofar)
    BY <2>1 DEF TimedGroups
  <2>3. ASSUME NEW k \in DOMAIN sofar
        PROVE  meta[4 * k].id = "separation" /\ meta[4 * k - 1] = Out!Item("DLFC", sofar[k] % 5000)
    <3>1. sofar[k] = first + k - 1
      OBVIOUS
    <3>2. meta[4 * k].id = "separation" /\ meta[4 * k - 1] = Dlfc(first + k - 1)
      BY <1>1, <2>1 DEF TimedGroups
    <3> QED BY <3>1, <3>2 DEF Dlfc
  <2>4. Out!GroupSize = 4
    BY <1>2 DEF Out!GroupSize, Timed
  <2> QED BY <2>2, <2>3, <2>4 DEF Out!IsOfItsFrames
<1>3. CASE ~Timed
  <2>1. PlainGroups(meta, Len(sofar))
    BY <1>3 DEF Groups
  <2>2. Len(meta) = Len(sofar)
    BY <2>1 DEF PlainGroups
  <2>3. ASSUME NEW k \in DOMAIN sofar PROVE meta[1 * k].id = "separation"
    <3>1. k \in 1..Len(sofar) /\ k \in Nat
      BY <1>1
    <3>2. 1 * k = k
      BY <3>1, OneTimes
    <3> QED BY <2>1, <3>1, <3>2 DEF PlainGroups
  <2>4. Out!GroupSize = 1 /\ Out!GroupSize # 4
    BY <1>3 DEF Out!GroupSize, Timed
  <2>5. Len(meta) = 1 * Len(sofar)
    BY <1>1, <2>2, OneTimes, Zenon
  <2> QED BY <2>3, <2>4, <2>5 DEF Out!IsOfItsFrames
<1> QED BY <1>2, <1>3

LEMMA MetadataIsOfItsFrame ==
    ASSUME ZmqInv, startCounter \in Int PROVE Out!MetadataOfItsFrame
<1>1. ASSUME NEW i \in DOMAIN published, Out!WantsMetadata
      PROVE  Out!IsOfItsFrames(published[i].meta, published[i].frames)
  <2> DEFINE first == startCounter + 4 * (i - 1)
  <2>1. published[i] \in Messages /\ i \in Nat
    BY DEF ZmqInv, ZmqTypes
  <2>2. /\ published[i].frames \in Seq(Int) /\ first \in Int
        /\ Groups(published[i].meta, Len(published[i].frames), first)
        /\ \A k \in DOMAIN published[i].frames : published[i].frames[k] = first + k - 1
    BY <1>1, <2>1 DEF ZmqInv, MessageOK, Messages
  <2> HIDE DEF first
  <2> QED BY <2>2, GroupsAreRead
<1> QED BY <1>1 DEF Out!MetadataOfItsFrame, ZmqInv, MessageOK

\* A step that leaves the messages alone, and the frames each output has done.
LEMMA QuietZmq ==
    ASSUME Types, ZmqInv, UNCHANGED <<config, startCounter, outputs, edi, Out!zmq>>, phase' # "config",
           phase' \in {"frame", "write"} =>
               /\ phase \in {"config", "frame", "write"}
               /\ FramesMuxed' = FramesMuxed
               /\ \A z \in DOMAIN outputs : IsZmq(z) => FramesSent(z)' = FramesSent(z)
    PROVE  ZmqInv'
<1>1. UNCHANGED <<zmq_message, meta_, published, Out!WantsMetadata, FramesPublished>>
    BY DEF Out!zmq, Out!WantsMetadata, FramesPublished
<1>2. /\ \A z : IsZmq(z)' = IsZmq(z)
      /\ \A m, n, first : Groups(m, n, first)' = Groups(m, n, first)
  <2>1. UNCHANGED Timed
    BY <1>1 DEF Timed, Out!NeedsTai, Out!WantsMetadata
  <2> QED BY <2>1 DEF IsZmq, Groups, TimedGroups, PlainGroups
<1>3. ZmqTypes' /\ \A i \in DOMAIN published' : MessageOK(i)'
    BY <1>1, <1>2 DEF ZmqInv, ZmqTypes, MessageOK
<1>4. ASSUME phase' \in {"config", "frame", "write"}, NEW z \in DOMAIN outputs, IsZmq(z)
      PROVE  Collected(z)'
  <2>1. FramesMuxed' = FramesMuxed /\ FramesSent(z)' = FramesSent(z) /\ Collected(z)
    BY <1>4 DEF ZmqInv
  <2>2. startCounter' = startCounter
    OBVIOUS
  <2> QED BY <1>1, <1>2, <2>1, <2>2 DEF Collected
<1> QED BY <1>2, <1>3, <1>4 DEF ZmqInv

LEMMA ZmqStarts == ASSUME Out!Init PROVE ZmqInv
<1>1. outputs = <<>> /\ published = <<>> /\ zmq_message = <<>> /\ meta_ = <<>>
    BY DEF Out!Init
<1>2. ZmqTypes /\ Unpublished
    BY <1>1 DEF ZmqTypes, Unpublished
<1> QED BY <1>1, <1>2 DEF ZmqInv

LEMMA ZmqAfterReadEntry == ASSUME DiskInv, DiskInv', ZmqInv, Out!ReadEntry PROVE ZmqInv'
<1>1. /\ NoDisk' /\ Unpublished' /\ phase' \in {"config", "ended"} /\ Types'
  <2>1. phase = "config" /\ NoDisk /\ Unpublished /\ UNCHANGED <<Out!zmq, Out!disk, call, counter, startCounter>>
    BY DEF Out!ReadEntry, DiskInv, ZmqInv
  <2> QED BY <2>1 DEF Out!ReadEntry, Out!End, Unpublished, NoDisk, Out!zmq, Out!disk, DiskInv
<1>2. ZmqTypes'
    BY <1>1 DEF ZmqTypes, Unpublished
<1>3. ASSUME phase' = "config", NEW z \in DOMAIN outputs' PROVE Collected(z)'
  <2>1. /\ FramesPublished' = 0 /\ Len(zmq_message') = 0 /\ zmq_message' = <<>> /\ meta_' = <<>>
    BY <1>1 DEF FramesPublished, Unpublished
  <2>2. FramesSent(z)' = 0 /\ FramesMuxed' = 0
    <3>1. counter' \in Int /\ counter' = startCounter'
      BY <1>1 DEF NoDisk, Types
    <3>2. counter' - counter' = 0
      BY <3>1, NoDifference
    <3> QED BY <1>3, <3>1, <3>2 DEF FramesSent, FramesMuxed
  <2>3. Follows(<<>>, startCounter' + FramesPublished')
    BY DEF Follows
  <2>4. Groups(<<>>, 0, startCounter + FramesPublished)'
    BY DEF Groups, TimedGroups, PlainGroups
  <2>5. 0 + 0 = 0 /\ 0 - 0 = 0 /\ 0 < 4
    OBVIOUS
  <2> QED BY <2>1, <2>2, <2>3, <2>4, <2>5 DEF Collected
<1> QED BY <1>1, <1>2, <1>3 DEF ZmqInv, Unpublished

LEMMA ZmqAfterPrepare == ASSUME DiskInv, ZmqInv, Out!Prepare PROVE ZmqInv'
<1>1. /\ Types /\ phase = "config" /\ phase' \in {"frame", "ended"}
      /\ UNCHANGED <<config, startCounter, counter, outputs, edi, Out!zmq>>
    BY DEF Out!Prepare, Out!End, DiskInv
<1>2. phase' = "frame" => FramesMuxed' = FramesMuxed /\ \A z \in DOMAIN outputs : FramesSent(z)' = FramesSent(z)
    BY <1>1 DEF FramesMuxed, FramesSent
<1> QED BY <1>1, <1>2, QuietZmq

LEMMA ThreeAndOne ==
    ASSUME NEW a \in Items, NEW b \in Items, NEW c \in Items, NEW d \in Items
    PROVE  <<a, b, c>> \o <<d>> = <<a, b, c, d>>
<1> DEFINE g == <<a, b, c>>
           h == <<d>>
           u == <<a, b, c, d>>
           t == g \o h
<1>1. g \in Seq(Items) /\ Len(g) = 3 /\ h \in Seq(Items) /\ Len(h) = 1
    OBVIOUS
<1>2. g[1] = a /\ g[2] = b /\ g[3] = c /\ h[1] = d
    OBVIOUS
<1>3. u \in Seq(Items) /\ Len(u) = 4 /\ u[1] = a /\ u[2] = b /\ u[3] = c /\ u[4] = d
    OBVIOUS
<1> HIDE DEF g, h, u
<1>4. /\ t \in Seq(Items) /\ Len(t) = Len(g) + Len(h)
      /\ \A i \in 1..(Len(g) + Len(h)) : t[i] = IF i <= Len(g) THEN g[i] ELSE h[i - Len(g)]
    BY <1>1, ConcatProperties
<1> HIDE DEF t
<1>5. Len(t) = 4 /\ t[1] = a /\ t[2] = b /\ t[3] = c /\ t[4] = d
    BY <1>1, <1>2, <1>4
<1>6. \A i \in 1..Len(t) : t[i] = u[i]
    BY <1>3, <1>5
<1>7. t = u
    BY <1>3, <1>4, <1>5, <1>6, SeqEqual
<1> QED BY <1>7 DEF t, g, h, u

LEMMA MetadataFacts ==
    ASSUME counter \in Int
    PROVE  IF Timed
           THEN \E a, b, c, d \in Items :
                    Out!Metadata = <<a, b, c, d>> /\ c = Dlfc(counter) /\ d.id = "separation"
           ELSE \E d \in Items : Out!Metadata = <<d>> /\ d.id = "separation"
<1>1. Out!Item("separation", 0).id = "separation"
    BY DEF Out!Item
<1>2. counter % 5000 \in Int
    OBVIOUS
<1>3. Out!Item("UTCO", 0) \in Items /\ Out!Item("EDITime", 0) \in Items /\ Dlfc(counter) \in Items
      /\ Out!Item("separation", 0) \in Items
  <2>1. Out!Item("UTCO", 0) \in Items
    BY DEF Out!Item, Items
  <2>2. Out!Item("EDITime", 0) \in Items
    BY DEF Out!Item, Items
  <2>3. Dlfc(counter) \in Items
    BY <1>2 DEF Dlfc, Out!Item, Items
  <2>4. Out!Item("separation", 0) \in Items
    BY DEF Out!Item, Items
  <2> QED BY <2>1, <2>2, <2>3, <2>4
<1>4. CASE Timed
  <2> DEFINE a == Out!Item("UTCO", 0)  b == Out!Item("EDITime", 0)  c == Dlfc(counter)  d == Out!Item("separation", 0)
  <2>1. Out!Metadata = <<a, b, c>> \o <<d>>
    BY <1>4 DEF Out!Metadata, Timed, Dlfc
  <2>2. a \in Items /\ b \in Items /\ c \in Items /\ d \in Items /\ d.id = "separation"
    BY <1>1, <1>3
  <2>3. c = Dlfc(counter)
    OBVIOUS
  <2> HIDE DEF a, b, c, d
  <2>4. <<a, b, c>> \o <<d>> = <<a, b, c, d>>
    BY <2>2, ThreeAndOne
  <2> QED BY <1>4, <2>1, <2>2, <2>3, <2>4
<1>5. CASE ~Timed
  <2> DEFINE d == Out!Item("separation", 0)
  <2>1. Out!Metadata = <<>> \o <<d>>
    <3> DEFINE t == IF config.tist /\ Out!NeedsTai
                    THEN <<Out!Item("UTCO", 0), Out!Item("EDITime", 0), Out!Item("DLFC", counter % 5000)>> ELSE <<>>
    <3>1. t = <<>>
      BY <1>5 DEF Timed
    <3>2. Out!Metadata = t \o <<d>>
      BY DEF Out!Metadata
    <3> HIDE DEF t
    <3> QED BY <3>1, <3>2
  <2>2. d \in Items /\ d.id = "separation"
    BY <1>1, <1>3
  <2> HIDE DEF d
  <2>3. <<>> \o <<d>> = <<d>>
    BY <2>2
  <2> QED BY <1>5, <2>1, <2>2, <2>3
<1> QED BY <1>4, <1>5

\* The metadata of the frame that mux_frame is at are one group more.
LEMMA GroupIsAdded ==
    ASSUME counter \in Int, NEW m \in Seq(Items), NEW n \in Nat, NEW first \in Int,
           first + n = counter, Groups(m, n, first)
    PROVE  m \o Out!Metadata \in Seq(Items) /\ Groups(m \o Out!Metadata, n + 1, first)
<1>1. CASE Timed
  <2>1. PICK a \in Items, b \in Items, c \in Items, d \in Items :
           Out!Metadata = <<a, b, c, d>> /\ c = Dlfc(counter) /\ d.id = "separation"
    BY <1>1, MetadataFacts
  <2>2. TimedGroups(m, n, first) /\ c = Dlfc(first + n)
    BY <1>1, <2>1 DEF Groups
  <2>3. TimedGroups(m \o <<a, b, c, d>>, n + 1, first)
    BY <2>1, <2>2, TimedGroupIsAdded
  <2>4. m \o <<a, b, c, d>> \in Seq(Items)
    BY ConcatProperties
  <2> QED BY <1>1, <2>1, <2>3, <2>4 DEF Groups
<1>2. CASE ~Timed
  <2>1. PICK d \in Items : Out!Metadata = <<d>> /\ d.id = "separation"
    BY <1>2, MetadataFacts
  <2>2. PlainGroups(m \o <<d>>, n + 1)
    BY <1>2, <2>1, PlainGroupIsAdded DEF Groups
  <2>3. m \o <<d>> \in Seq(Items)
    BY ConcatProperties
  <2> QED BY <1>2, <2>1, <2>2, <2>3 DEF Groups
<1> QED BY <1>1, <1>2

LEMMA ZmqAfterMuxFrame == ASSUME DiskInv, ZmqInv, Out!MuxFrame PROVE ZmqInv'
<1>1. /\ Types /\ phase = "frame" /\ phase' = "write" /\ next' = 1
      /\ UNCHANGED <<config, startCounter, counter, outputs, edi, zmq_message, published>>
      /\ meta_' = IF Out!WantsMetadata THEN meta_ \o Out!Metadata ELSE meta_
    BY DEF Out!MuxFrame, DiskInv
<1> DEFINE F == counter - startCounter  P == FramesPublished
<1>2. UNCHANGED <<Out!WantsMetadata, FramesPublished>>
    BY <1>1 DEF Out!WantsMetadata, FramesPublished
<1>3. /\ \A z : IsZmq(z)' = IsZmq(z)
      /\ \A m, n, first : Groups(m, n, first)' = Groups(m, n, first)
  <2>1. UNCHANGED Timed
    BY <1>1, <1>2 DEF Timed, Out!NeedsTai
  <2> QED BY <1>1, <2>1 DEF IsZmq, Groups, TimedGroups, PlainGroups
<1>4. startCounter \in Int /\ counter \in Int /\ F \in Int /\ P \in Nat /\ Len(zmq_message) \in Nat
      /\ meta_ \in Seq(Items)
    BY <1>1 DEF Types, FramesPublished, ZmqInv, ZmqTypes
<1>5. FramesMuxed = F /\ FramesMuxed' = F + 1
    BY <1>1 DEF FramesMuxed
<1>6. ASSUME NEW z \in DOMAIN outputs, IsZmq(z)
      PROVE  /\ Collected(z) /\ P + Len(zmq_message) = F /\ FramesSent(z)' = F
  <2>1. Collected(z) /\ FramesSent(z) = F
    BY <1>1, <1>6 DEF ZmqInv, FramesSent
  <2>2. ~(1 > z)
    BY <1>1 DEF Types
  <2> QED BY <1>1, <2>1, <2>2 DEF Collected, FramesSent
<1>7. ASSUME NEW z \in DOMAIN outputs, IsZmq(z), Out!WantsMetadata
      PROVE  meta_' \in Seq(Items) /\ Groups(meta_', FramesMuxed' - P, startCounter + P)
  <2> DEFINE n == F - P  first == startCounter + P
  <2>1. Collected(z) /\ P + Len(zmq_message) = F
    BY <1>6, <1>7
  <2>2. Groups(meta_, n, first)
    BY <1>5, <1>7, <2>1 DEF Collected
  <2>3. n \in Nat /\ first \in Int /\ first + n = counter /\ FramesMuxed' - P = n + 1
    BY <1>4, <1>5, <2>1
  <2> HIDE DEF n, first, P, F
  <2>4. meta_ \o Out!Metadata \in Seq(Items) /\ Groups(meta_ \o Out!Metadata, n + 1, first)
    BY <1>4, <2>2, <2>3, GroupIsAdded
  <2> QED BY <1>1, <1>7, <2>3, <2>4 DEF first
<1>8. meta_' \in Seq(Items)
  <2>1. CASE Out!WantsMetadata
    <3>1. PICK z \in DOMAIN outputs : IsZmq(z)
      BY <2>1 DEF Out!WantsMetadata, IsZmq
    <3> QED BY <1>7, <2>1, <3>1
  <2>2. CASE ~Out!WantsMetadata
    BY <1>1, <1>4, <2>2
  <2> QED BY <2>1, <2>2
<1>9. ZmqTypes' /\ \A i \in DOMAIN published' : MessageOK(i)'
    BY <1>1, <1>2, <1>3, <1>8 DEF ZmqInv, ZmqTypes, MessageOK
<1>10. ASSUME NEW z \in DOMAIN outputs, IsZmq(z) PROVE Collected(z)'
  <2>1. Collected(z) /\ P + Len(zmq_message) = F /\ FramesSent(z)' = F
    BY <1>6, <1>10
  <2>2. Out!WantsMetadata => Groups(meta_', FramesMuxed' - P, startCounter + P)
    BY <1>7, <1>10
  <2> QED BY <1>1, <1>2, <1>3, <2>1, <2>2 DEF Collected
<1> QED BY <1>1, <1>3, <1>9, <1>10 DEF ZmqInv

LEMMA MessageFills ==
    ASSUME NEW P \in Nat, NEW l \in Nat, NEW F \in Int, P + l = F, l < 4
    PROVE  /\ l + 1 = 4 => (F + 1) - P = 4
           /\ l + 1 # 4 => P + (l + 1) = F + 1 /\ l + 1 < 4
OBVIOUS

\* What Collected says, of values in the place of the variables.
CollectedAre(message, meta, wants, P, sent_, muxed, first) ==
    /\ Len(message) < 4
    /\ P + Len(message) = sent_
    /\ Follows(message, first)
    /\ wants => Groups(meta, muxed - P, first)

LEMMA ZmqAfterWriteZmq == ASSUME DiskInv, ZmqInv, Out!WriteZmq PROVE ZmqInv'
<1> DEFINE sofar == Append(zmq_message, counter)
           F == counter - startCounter
           P == FramesPublished
<1>1. /\ Types /\ Single /\ phase = "write" /\ phase' = "write" /\ IsZmq(next) /\ next' = next + 1
      /\ UNCHANGED <<config, startCounter, counter, outputs, edi>>
    BY DEF Out!WriteZmq, DiskInv, Out!Writing, Types, Out!Output, IsZmq
<1>2. UNCHANGED Out!WantsMetadata
    BY <1>1 DEF Out!WantsMetadata
<1>3. /\ \A z : IsZmq(z)' = IsZmq(z)
      /\ \A m, n, first : Groups(m, n, first)' = Groups(m, n, first)
  <2>1. UNCHANGED Timed
    BY <1>1, <1>2 DEF Timed, Out!NeedsTai
  <2> QED BY <1>1, <2>1 DEF IsZmq, Groups, TimedGroups, PlainGroups
<1>4. /\ startCounter \in Int /\ counter \in Int /\ F \in Int /\ P \in Nat /\ next \in Nat
      /\ zmq_message \in Seq(Int) /\ Len(zmq_message) \in Nat
      /\ meta_ \in Seq(Items) /\ published \in Seq(Messages) /\ P = 4 * Len(published)
      /\ Len(published) \in Nat
    BY <1>1 DEF Types, FramesPublished, ZmqInv, ZmqTypes
<1>5. ASSUME NEW z \in DOMAIN outputs, IsZmq(z) PROVE z = next
    BY <1>1, <1>5 DEF Single, IsZmq
<1>6. /\ FramesSent(next) = F /\ FramesMuxed = F + 1 /\ Collected(next)
      /\ \A z : z = next => FramesSent(z)' = F + 1
      /\ FramesMuxed' = F + 1
  <2>1. ~(next > next) /\ next + 1 > next
    BY <1>4
  <2>2. Collected(next)
    BY <1>1 DEF ZmqInv, IsZmq
  <2>3. FramesSent(next) = F /\ FramesMuxed = F + 1 /\ FramesMuxed' = F + 1
    BY <1>1, <2>1 DEF FramesSent, FramesMuxed
  <2>4. \A z : z = next => FramesSent(z)' = F + 1
    BY <1>1, <2>1 DEF FramesSent
  <2> QED BY <1>1, <2>2, <2>3, <2>4
<1>7. /\ P + Len(zmq_message) = F /\ Len(zmq_message) < 4
      /\ Follows(zmq_message, startCounter + P)
      /\ Out!WantsMetadata => Groups(meta_, (F + 1) - P, startCounter + P)
  <2> DEFINE first == startCounter + P
  <2>1. CollectedAre(zmq_message, meta_, Out!WantsMetadata, P, FramesSent(next), FramesMuxed, first)
    BY <1>6 DEF Collected, CollectedAre
  <2>2. FramesSent(next) = F /\ FramesMuxed = F + 1
    BY <1>6
  <2> HIDE DEF F, P, first
  <2>3. CollectedAre(zmq_message, meta_, Out!WantsMetadata, P, F, F + 1, first)
    BY <2>1, <2>2, Zenon
  <2> QED BY <2>3 DEF CollectedAre, first
<1>8. /\ sofar \in Seq(Int) /\ Len(sofar) = Len(zmq_message) + 1
      /\ Follows(sofar, startCounter + P)
  <2>1. startCounter + P \in Int /\ counter = startCounter + P + Len(zmq_message)
    BY <1>4, <1>7
  <2>2. Follows(sofar, startCounter + P)
    BY <1>4, <1>7, <2>1, FrameFollows
  <2> QED BY <1>4, <2>2
<1> HIDE DEF sofar, F, P
<1>9. CASE Len(sofar) = 4
  <2> DEFINE message == [frames |-> sofar, meta |-> meta_]
  <2>1. published' = Append(published, message) /\ zmq_message' = <<>> /\ meta_' = <<>>
    BY <1>9 DEF Out!WriteZmq, Out!Publish, Out!FramesPerMessage, sofar
  <2>2. message \in Messages
    BY <1>4, <1>8 DEF Messages
  <2>3. message.frames = sofar /\ message.meta = meta_
    OBVIOUS
  <2> HIDE DEF message
  <2>4. /\ published' \in Seq(Messages) /\ Len(published') = Len(published) + 1
        /\ published'[Len(published) + 1] = message
        /\ \A i \in 1..Len(published) : published'[i] = published[i]
    BY <1>4, <2>1, <2>2
  <2>5. ZmqTypes'
    BY <2>1, <2>4 DEF ZmqTypes
  <2>6. (F + 1) - P = 4
    <3> DEFINE l == Len(zmq_message)
    <3>1. P \in Nat /\ l \in Nat /\ F \in Int /\ P + l = F /\ l < 4
      BY <1>4, <1>7
    <3>2. l + 1 = 4
      BY <1>8, <1>9, Zenon
    <3> HIDE DEF l
    <3> QED BY <3>1, <3>2, MessageFills
  <2>7. ASSUME NEW i \in 1..Len(published) PROVE MessageOK(i)'
    <3>1. MessageOK(i) /\ published'[i] = published[i]
      BY <1>4, <2>4 DEF ZmqInv
    <3> QED BY <1>1, <1>2, <1>3, <3>1 DEF MessageOK
  <2>8. ASSUME NEW i, i = Len(published) + 1 PROVE MessageOK(i)'
    <3>1. published'[i] = message /\ startCounter + 4 * (i - 1) = startCounter + P
      BY <1>4, <2>4, <2>8
    <3>2. ASSUME NEW k \in DOMAIN sofar PROVE sofar[k] = startCounter + P + k - 1
      BY <1>8 DEF Follows
    <3>3. Out!WantsMetadata => Groups(meta_, Len(sofar), startCounter + P)
      BY <1>7, <1>9, <2>6
    <3> QED BY <1>1, <1>2, <1>3, <2>3, <3>1, <3>2, <3>3 DEF MessageOK
  <2>9. \A i \in DOMAIN published' : MessageOK(i)'
    <3>1. DOMAIN published' = 1..(Len(published) + 1)
      BY <2>4
    <3>2. \A i \in 1..(Len(published) + 1) : i \in 1..Len(published) \/ i = Len(published) + 1
      BY <1>4
    <3> QED BY <2>7, <2>8, <3>1, <3>2
  <2>10. ASSUME NEW z \in DOMAIN outputs, IsZmq(z) PROVE Collected(z)'
    <3>1. z = next /\ FramesSent(z)' = F + 1 /\ FramesMuxed' = F + 1
      BY <1>5, <1>6, <2>10
    <3>2. FramesPublished' = P + 4
      BY <1>4, <2>4 DEF FramesPublished
    <3>3. Len(zmq_message') = 0 /\ Follows(<<>>, startCounter' + FramesPublished')
      BY <2>1 DEF Follows
    <3>4. FramesPublished' + Len(zmq_message') = F + 1 /\ FramesMuxed' - FramesPublished' = 0
          /\ Len(zmq_message') < 4
      BY <1>4, <2>6, <3>1, <3>2, <3>3
    <3>5. Groups(<<>>, 0, startCounter + FramesPublished)'
      BY DEF Groups, TimedGroups, PlainGroups
    <3> QED BY <2>1, <3>1, <3>3, <3>4, <3>5 DEF Collected
  <2> QED BY <1>1, <1>3, <2>5, <2>9, <2>10 DEF ZmqInv
<1>10. CASE Len(sofar) # 4
  <2>1. zmq_message' = sofar /\ UNCHANGED <<meta_, published>>
    BY <1>10 DEF Out!WriteZmq, Out!FramesPerMessage, sofar
  <2>2. ZmqTypes' /\ UNCHANGED FramesPublished
    BY <1>4, <1>8, <2>1 DEF ZmqTypes, FramesPublished
  <2>3. \A i \in DOMAIN published' : MessageOK(i)'
    BY <1>1, <1>2, <1>3, <2>1 DEF ZmqInv, MessageOK
  <2>4. ASSUME NEW z \in DOMAIN outputs, IsZmq(z) PROVE Collected(z)'
    <3>1. z = next /\ FramesSent(z)' = F + 1 /\ FramesMuxed' = F + 1
      BY <1>5, <1>6, <2>4
    <3>2. P + Len(sofar) = F + 1 /\ Len(sofar) < 4
      <4> DEFINE l == Len(zmq_message)
      <4>1. P \in Nat /\ l \in Nat /\ F \in Int /\ P + l = F /\ l < 4
        BY <1>4, <1>7
      <4>2. Len(sofar) = l + 1 /\ l + 1 # 4
        BY <1>8, <1>10, Zenon
      <4> HIDE DEF l
      <4>3. P + (l + 1) = F + 1 /\ l + 1 < 4
        BY <4>1, <4>2, MessageFills
      <4> QED BY <4>2, <4>3, Zenon
    <3> DEFINE first == startCounter + P
    <3>3. Follows(sofar, first) /\ (Out!WantsMetadata => Groups(meta_, (F + 1) - P, first))
      BY <1>7, <1>8, Zenon
    <3> HIDE DEF first
    <3>4. CollectedAre(sofar, meta_, Out!WantsMetadata, P, F + 1, F + 1, first)
      BY <3>2, <3>3, Zenon DEF CollectedAre
    <3>5. /\ startCounter' + FramesPublished' = first /\ FramesPublished' = P /\ zmq_message' = sofar
          /\ meta_' = meta_ /\ Out!WantsMetadata' = Out!WantsMetadata
      BY <1>1, <1>2, <2>1, <2>2 DEF first, P
    <3>6. CollectedAre(zmq_message', meta_', Out!WantsMetadata', FramesPublished', FramesSent(z)', FramesMuxed',
                       startCounter' + FramesPublished')
      BY <3>1, <3>4, <3>5, Zenon
    <3> QED BY <1>3, <3>6 DEF Collected, CollectedAre
  <2> QED BY <1>1, <1>3, <2>2, <2>3, <2>4 DEF ZmqInv
<1> QED BY <1>9, <1>10

\* The turn of another output.
LEMMA ZmqAfterAnother ==
    ASSUME Types, ZmqInv, phase = "write", next \in DOMAIN outputs, ~IsZmq(next),
           UNCHANGED <<config, startCounter, counter, outputs, edi, Out!zmq>>,
           (phase' = "write" /\ next' \in {next, next + 1}) \/ phase' = "ended"
    PROVE  ZmqInv'
<1>1. ASSUME phase' = "write" PROVE FramesMuxed' = FramesMuxed
    BY <1>1 DEF FramesMuxed
<1>2. ASSUME phase' = "write", NEW z \in DOMAIN outputs, IsZmq(z) PROVE FramesSent(z)' = FramesSent(z)
  <2>1. z # next
    BY <1>2
  <2>2. z \in Nat /\ next \in Nat
    BY DEF Types
  <2>3. next' > z <=> next > z
    BY <1>2, <2>1, <2>2
  <2> QED BY <1>2, <2>3 DEF FramesSent
<1> QED BY <1>1, <1>2, QuietZmq

LEMMA ZmqAfterBeginWrite == ASSUME DiskInv, ZmqInv, Out!BeginWrite PROVE ZmqInv'
<1>1. Types /\ next \in DOMAIN outputs /\ phase = "write" /\ phase' = "write" /\ next' = next /\ ~IsZmq(next)
    BY DEF Out!BeginWrite, DiskInv, Out!Writing, Types, Out!Output, Out!IsOnDisk, Out!OnDiskProtocols, IsZmq
<1> QED BY <1>1, ZmqAfterAnother DEF Out!BeginWrite

LEMMA ZmqAfterCall == ASSUME DiskInv, ZmqInv, Out!SystemCall \/ Out!SystemCallFails PROVE ZmqInv'
<1>1. Types /\ phase = "write" /\ phase' = "write" /\ call # <<>> /\ next' \in {next, next + 1}
    BY DEF Out!SystemCall, Out!SystemCallFails, DiskInv, Out!Writing
<1>2. next \in DOMAIN outputs /\ ~IsZmq(next)
    BY <1>1 DEF DiskInv, Calling, Out!IsOnDisk, Out!OnDiskProtocols, IsZmq
<1>3. UNCHANGED <<config, startCounter, counter, outputs, edi, Out!zmq>>
    BY DEF Out!SystemCall, Out!SystemCallFails
<1> QED BY <1>1, <1>2, <1>3, ZmqAfterAnother

LEMMA ZmqAfterWriteSocket == ASSUME DiskInv, ZmqInv, Out!WriteSocket PROVE ZmqInv'
<1>1. /\ Types /\ next \in DOMAIN outputs /\ phase = "write" /\ ~IsZmq(next)
      /\ (phase' = "write" /\ next' \in {next, next + 1}) \/ phase' = "ended"
    BY DEF Out!WriteSocket, DiskInv, Out!Writing, Types, Out!Output, Out!End, IsZmq
<1> QED BY <1>1, ZmqAfterAnother DEF Out!WriteSocket

LEMMA ZmqAfterFinishFrame == ASSUME DiskInv, ZmqInv, Out!FinishFrame PROVE ZmqInv'
<1>1. /\ Types /\ phase = "write" /\ phase' \in {"frame", "ended"} /\ next > Len(outputs) /\ counter' = counter + 1
      /\ UNCHANGED <<config, startCounter, outputs, edi, Out!zmq>>
    BY DEF Out!FinishFrame, Out!End, DiskInv
<1>2. counter' - startCounter' = counter - startCounter + 1
    BY <1>1 DEF Types
<1>3. FramesMuxed = counter - startCounter + 1 /\ (phase' = "frame" => FramesMuxed' = counter' - startCounter')
    BY <1>1 DEF FramesMuxed
<1>4. ASSUME NEW z \in DOMAIN outputs
      PROVE  FramesSent(z) = counter - startCounter + 1 /\ (phase' = "frame" => FramesSent(z)' = counter' - startCounter')
  <2>1. next > z
    BY <1>1 DEF Types
  <2> QED BY <1>1, <2>1 DEF FramesSent
<1> QED BY <1>1, <1>2, <1>3, <1>4, QuietZmq

LEMMA ZmqInvIsKept == ASSUME DiskInv, DiskInv', ZmqInv, [Out!Next]_(Out!vars) PROVE ZmqInv'
<1>1. CASE Out!Killed
  <2>1. Types /\ phase' = "killed" /\ UNCHANGED <<config, startCounter, outputs, edi, Out!zmq>>
    BY <1>1 DEF Out!Killed, DiskInv
  <2> QED BY <2>1, QuietZmq
<1>2. CASE UNCHANGED Out!vars
  <2>1. UNCHANGED <<config, startCounter, phase, next, outputs, edi, counter, zmq_message, meta_, published>>
    BY <1>2 DEF Out!vars, Out!zmq
  <2>2. /\ UNCHANGED <<Out!WantsMetadata, FramesPublished, FramesMuxed, Timed>>
        /\ \A z : IsZmq(z)' = IsZmq(z) /\ FramesSent(z)' = FramesSent(z)
    BY <2>1 DEF Out!WantsMetadata, FramesPublished, FramesMuxed, Timed, Out!NeedsTai, IsZmq, FramesSent
  <2>3. \A m, n, first : Groups(m, n, first)' = Groups(m, n, first)
    BY <2>2 DEF Groups, TimedGroups, PlainGroups
  <2>4. ZmqTypes' /\ Unpublished' = Unpublished /\ \A i \in DOMAIN published : MessageOK(i)'
    BY <2>1, <2>2, <2>3 DEF ZmqInv, ZmqTypes, Unpublished, MessageOK
  <2>5. \A z : Collected(z)' = Collected(z)
    BY <2>1, <2>2, <2>3 DEF Collected
  <2> QED BY <2>1, <2>2, <2>4, <2>5 DEF ZmqInv
<1>3. CASE Out!Next /\ ~Out!Killed
    BY <1>3, ZmqAfterReadEntry, ZmqAfterPrepare, ZmqAfterMuxFrame, ZmqAfterBeginWrite, ZmqAfterCall,
       ZmqAfterWriteZmq, ZmqAfterWriteSocket, ZmqAfterFinishFrame DEF Out!Next
<1> QED BY <1>1, <1>2, <1>3

-----------------------------------------------------------------------------
(***************************************************************************)
(* DabOutputFile::Write, DabOutputFifo::Write and DabOutputZMQ::Write, for *)
(* any configurations with at most one output on disk and one to ZeroMQ,   *)
(* any counter at startup, any number of frames and of failures: wherever  *)
(* the process ends, the file reads back as the frames so far up to the    *)
(* first call that failed, with its number of frames right or one too      *)
(* high; and each ZeroMQ message has four frames that follow those of the  *)
(* one before, each with its own metadata.                                 *)
(***************************************************************************)
THEOREM OutputsReadBackCorrect ==
    ASSUME Counters \subseteq Int PROVE MainSpec => []OutputsReadBack
<1>1. MainInit => DiskInv /\ ZmqInv
    BY DiskStarts, ZmqStarts, ConfigsAssumption DEF MainInit
<1>2. (DiskInv /\ ZmqInv) /\ [MainNext]_mainVars => (DiskInv /\ ZmqInv)'
  <2>1. [MainNext]_mainVars => [Out!Next]_(Out!vars)
    BY DEF MainNext, mainVars, outVars, Out!vars, Out!disk, Out!zmq
  <2> QED BY <2>1, ConfigsAssumption, DiskInvIsKept, ZmqInvIsKept
<1>3. DiskInv /\ ZmqInv => OutputsReadBack
  <2>1. DiskInv => startCounter \in Int
    BY DEF DiskInv, Types
  <2> QED BY <2>1, FileIsReadBack, MetadataIsOfItsFrame DEF OutputsReadBack, Out!OutputsReadBack
<1> QED BY <1>1, <1>2, <1>3, PTL DEF MainSpec
=============================================================================
