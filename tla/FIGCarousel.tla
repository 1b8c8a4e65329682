----------------------------- MODULE FIGCarousel -----------------------------
(***************************************************************************)
(* The classic scheduler of the fast information channel: class            *)
(* FIGCarousel.  Every FIG has a deadline; each FIB is offered to the FIGs *)
(* once each, the earliest deadline first, and a FIG that completes its    *)
(* cycle gets a new deadline.  FIG 0/0 and 0/7 have their place in the     *)
(* first FIB of every fourth frame and are sent nowhere else.              *)
(*                                                                         *)
(* Times are in frames of 24 ms, of which all deadlines are multiples.     *)
(* std::sort leaves the order of equal deadlines open.                     *)
(***************************************************************************)
EXTENDS FIGBlocks

CONSTANTS
    FIGs,            \* the FIGs that go into any FIB
    FIG0_0, FIG0_7,
    Rate,            \* rate_increment_ms of the rates of each FIG, in frames
    Changing,        \* FIGs whose repetition_rate changes (FIG 0/19)
    FigCorrection,   \* fig_correction_factor of each FIG, in tenths
    Contents,        \* the contents each FIG may have
    FibSize,         \* bytes in a FIB (30)
    FibCount         \* FIBs in a frame (3)

AllFIGs == FIGs \union {FIG0_0, FIG0_7}

VARIABLES
    tuning,        \* with_fig_correction_factor
    deadline,
    rate,          \* repetition_rate of each FIG: usual, or quick while something changes
    m_last_rate,
    framephase,
    fib,           \* next FIB, FibCount between the frames
    filling,       \* inside the loop of carousel
    sorted_figs,   \* FIGs this FIB was not offered to yet
    available_size,
    completed      \* FIGs that completed a cycle in the last step

vars == <<content, pos, tuning, deadline, rate, m_last_rate, framephase, fib, filling,
          sorted_figs, available_size, completed>>

Increased(f) ==
    IF tuning THEN (FigCorrection[f] * Rate[f][rate[f]]) \div 10 ELSE Rate[f][rate[f]]

\* m_last_rate starts as rate A, which is none of the two of FIG 0/19.
Init ==
    /\ content \in [AllFIGs -> UNION {Contents[f] : f \in AllFIGs}]
    /\ \A f \in AllFIGs : content[f] \in Contents[f]
    /\ pos = [f \in AllFIGs |-> 0]
    /\ tuning \in BOOLEAN
    /\ rate = [f \in AllFIGs |-> "usual"]
    /\ m_last_rate = [f \in AllFIGs |-> "A"]
    /\ deadline = [f \in AllFIGs |-> Increased(f)]
    /\ framephase = 0
    /\ fib = FibCount /\ filling = FALSE
    /\ sorted_figs = {} /\ available_size = 0
    /\ completed = {}

\* write_fibs: reduce_deadline of all, then one FIB after the other.
StartFrame ==
    /\ fib = FibCount
    /\ deadline' = [f \in AllFIGs |-> deadline[f] - 1]
    /\ fib' = 0
    /\ completed' = {}
    /\ UNCHANGED <<content, pos, tuning, rate, m_last_rate, framephase, filling,
                   sorted_figs, available_size>>

\* A service or its linkage changes, or is stable again, at any moment.
ChangeRate(f) ==
    /\ rate' = [rate EXCEPT ![f] = IF @ = "usual" THEN "quick" ELSE "usual"]
    /\ completed' = {}
    /\ UNCHANGED <<content, pos, tuning, deadline, m_last_rate, framephase, fib, filling,
                   sorted_figs, available_size>>

Lesser(a, b) == IF a <= b THEN a ELSE b

\* check_deadline: the deadline of a FIG whose rate has changed comes nearer.
Checked(f) ==
    IF rate[f] # m_last_rate[f] THEN Lesser(deadline[f], Rate[f][rate[f]]) ELSE deadline[f]

\* carousel up to its loop.  FIG 0/0 completes always, FIG 0/7 if it fits.
StartFib ==
    /\ fib < FibCount /\ ~filling
    /\ filling' = TRUE
    /\ m_last_rate' = rate
    /\ sorted_figs' = FIGs
    /\ LET special == fib = 0 /\ framephase = 0
           n7 == Greedy(FIG0_7, FibSize - SumTo(FIG0_0, 1))
           done == IF ~special THEN {}
                   ELSE IF n7 = Left(FIG0_7) THEN {FIG0_0, FIG0_7} ELSE {FIG0_0}
       IN  /\ available_size' = IF special
                  THEN FibSize - SumTo(FIG0_0, 1) - SumTo(FIG0_7, n7) ELSE FibSize
           /\ deadline' = [f \in AllFIGs |-> IF f \in done THEN Increased(f) ELSE Checked(f)]
           /\ completed' = done
    /\ UNCHANGED <<content, pos, tuning, rate, framephase, fib>>

\* Mutant: the order of the list, not of the deadlines.
FirstInList == {f \in sorted_figs : f = CHOOSE g \in sorted_figs : TRUE}

Earliest == {f \in sorted_figs : \A g \in sorted_figs : deadline[f] <= deadline[g]}

Offer(f) ==
    LET n == Greedy(f, available_size) IN
    /\ filling /\ f \in Earliest /\ available_size > 0
    /\ pos' = [pos EXCEPT ![f] = IF n = Left(f) THEN 0 ELSE @ + n]
    /\ deadline' = [deadline EXCEPT ![f] = IF n = Left(f) THEN Increased(f) ELSE @]
    /\ completed' = IF n = Left(f) THEN {f} ELSE {}
    /\ available_size' = available_size - SumTo(f, n)
    /\ sorted_figs' = sorted_figs \ {f}
    /\ UNCHANGED <<content, tuning, rate, m_last_rate, framephase, fib, filling>>

EndFib ==
    /\ filling /\ (sorted_figs = {} \/ available_size = 0)
    /\ filling' = FALSE
    /\ fib' = fib + 1
    /\ framephase' = IF fib + 1 = FibCount THEN (framephase + 1) % 4 ELSE framephase
    /\ completed' = {}
    /\ UNCHANGED <<content, pos, tuning, deadline, rate, m_last_rate, sorted_figs, available_size>>

WriteFibs == StartFrame \/ StartFib \/ EndFib \/ \E f \in FIGs : Offer(f)

Next == WriteFibs \/ \E f \in Changing : ChangeRate(f)
=============================================================================
