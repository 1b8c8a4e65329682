------------------------ MODULE FIGCarouselPriority ------------------------
(***************************************************************************)
(* The priority scheduler of the fast information channel: class           *)
(* FIGCarouselPriority.  Every ETI frame carries a few FIBs of FibSize     *)
(* bytes, and the scheduler decides which FIGs go into each.               *)
(*                                                                         *)
(* A FIG is abstracted to the sizes of the blocks it cycles through.  One  *)
(* fill writes consecutive blocks while they fit and tells whether the end *)
(* of the cycle was reached.  Every decision of the scheduler is a step: a *)
(* FIB begins with priority 0, goes through the must-send pass and the two *)
(* can-send passes, one FIG at a time.                                     *)
(*                                                                         *)
(* Times are in frames of 24 ms.  Statistics and logging are left out.     *)
(***************************************************************************)
EXTENDS FIGBlocks, FiniteSets

CONSTANTS
    FIGs,           \* the FIGs of priorities 1 and above
    FIG0_0, FIG0_7, \* the FIGs of priority 0
    Prio,           \* priority of each FIG
    Rate,           \* repetition rate of each FIG, in frames
    SingleFill,     \* FIGs that write one block per fill
    Contents,       \* the contents each FIG may have: sequences of block sizes
    FibSize,        \* bytes in a FIB (30)
    FibCount,       \* FIBs in a frame (3, or 4 in transmission mode III)
    NumPriorities,  \* NUM_PRIORITIES (10)
    PollReset,      \* poll_reset_value of each priority
    MaxLate         \* bound: how late a deadline is counted, in frames

Priorities == 1..(NumPriorities - 1)
AllFIGs == FIGs \union {FIG0_0, FIG0_7}

ASSUME FIGsAssumption ==
    /\ IsFiniteSet(FIGs)
    /\ FIG0_0 \notin FIGs /\ FIG0_7 \notin FIGs /\ FIG0_0 # FIG0_7
    /\ Prio \in [FIGs -> Priorities]
    /\ Rate \in [AllFIGs -> Nat]
    /\ SingleFill \subseteq FIGs
ASSUME SizesAssumption ==
    /\ FibSize \in Nat /\ FibCount \in Nat /\ MaxLate \in Nat
    /\ NumPriorities \in Nat /\ NumPriorities >= 2  \* priority 0 and one for FIGs
    /\ PollReset \in [Priorities -> Nat]

VARIABLES
    deadline,     \* deadline_ms, in frames
    must_send,    \* FIGs whose cycle is due
    poll_counter,
    carousel,     \* carousel of each priority, front first
    m_priority_stack,
    framephase,
    fib,          \* FIB being filled
    remaining,    \* bytes left in it
    pc,           \* stage of fill_fib
    tried,        \* tried_this_fib
    tried_pass1,
    made_progress,
    start_prio,   \* where the must-send pass started to look
    prio,         \* priority looked at; in the must-send pass, its offset
    attempt,      \* fig_attempt
    completed,    \* FIGs that completed a cycle in the last step
    offered       \* FIGs offered space by the can-send passes of this FIB

figVars == <<pos, deadline, must_send>>
fibVars == <<framephase, fib>>
loopVars == <<tried, tried_pass1, made_progress, start_prio, prio, attempt>>
vars == <<content, figVars, poll_counter, carousel, m_priority_stack, fibVars,
          remaining, pc, loopVars, completed, offered>>

-----------------------------------------------------------------------------
FillBlocks(f, space) ==
    IF f \in SingleFill /\ Greedy(f, space) > 1 THEN 1 ELSE Greedy(f, space)

\* Mutant: a FIG that completed its cycle stays due.
WriteStaysDue(f, n) ==
    LET done == n = Left(f)
    IN  /\ pos' = [pos EXCEPT ![f] = IF done THEN 0 ELSE @ + n]
        /\ deadline' = [deadline EXCEPT ![f] =
             IF ~done THEN @ ELSE IF f = FIG0_7 THEN Rate[f] + 1 ELSE Rate[f]]
        /\ completed' = IF done THEN {f} ELSE {}
        /\ UNCHANGED must_send

Write(f, n) ==
    LET done == n = Left(f)
    IN  /\ pos' = [pos EXCEPT ![f] = IF done THEN 0 ELSE @ + n]
        /\ IF done
           THEN /\ deadline' = [deadline EXCEPT ![f] =
                     IF f = FIG0_7 THEN Rate[f] + 1 ELSE Rate[f]]
                /\ must_send' = must_send \ {f}
                /\ completed' = {f}
           ELSE /\ UNCHANGED <<deadline, must_send>>
                /\ completed' = {}

\* The first of some places; and a list whose element at a place goes to the back.
First(places) == CHOOSE i \in places : \A j \in places : i <= j
ToBack(s, i) == Append(RemoveAt(s, i), s[i])

MoveToBack(p, i) == carousel' = [carousel EXCEPT ![p] = ToBack(@, i)]

\* No FIG is offered the last two bytes.
SpaceLeft == remaining > 2

PastHalf(f) == deadline[f] < Rate[f] \div 2

-----------------------------------------------------------------------------
InPriority(p) == {f \in FIGs : Prio[f] = p}

Init ==
    /\ content \in [AllFIGs -> UNION {Contents[f] : f \in AllFIGs}]
    /\ \A f \in AllFIGs : content[f] \in Contents[f]
    /\ pos = [f \in AllFIGs |-> 0]
    /\ deadline = [f \in AllFIGs |-> IF f = FIG0_7 THEN Rate[f] + 1 ELSE Rate[f]]
    /\ must_send = AllFIGs
    /\ poll_counter = PollReset
    /\ carousel = [p \in Priorities |-> SetToSeq(InPriority(p))]
    /\ m_priority_stack = [i \in Priorities |-> i]
    /\ framephase = 0
    /\ fib = 0
    /\ remaining = FibSize
    /\ pc = "frame"
    /\ tried = {} /\ tried_pass1 = {} /\ made_progress = FALSE
    /\ start_prio = 1 /\ prio = 1 /\ attempt = 0
    /\ completed = {}
    /\ offered = {}

\* write_fibs: tick_all_deadlines, then the FIBs one after the other.
StartFrame ==
    /\ pc = "frame"
    /\ deadline' = [f \in AllFIGs |->
         IF deadline[f] > -MaxLate THEN deadline[f] - 1 ELSE deadline[f]]
    /\ must_send' = must_send \union {f \in AllFIGs : deadline'[f] <= 0}
    /\ fib' = 0
    /\ pc' = "fib"
    /\ completed' = {}
    /\ UNCHANGED <<content, pos, poll_counter, carousel, m_priority_stack,
                   framephase, remaining, loopVars, offered>>

\* fill_fib up to its first loop: FIG 0/0 and then FIG 0/7, in FIB 0 of
\* phase 0 only.
StartFib ==
    /\ pc = "fib" /\ fib < FibCount
    /\ IF fib = 0 /\ framephase = 0
       THEN LET n0 == Greedy(FIG0_0, FibSize)
                rest == FibSize - SumTo(FIG0_0, n0)
                n7 == Greedy(FIG0_7, rest)
                done == {f \in {FIG0_0, FIG0_7} :
                           (f = FIG0_0 /\ n0 = Left(f)) \/ (f = FIG0_7 /\ n7 = Left(f))}
            IN  /\ remaining' = rest - SumTo(FIG0_7, n7)
                /\ pos' = [pos EXCEPT
                     ![FIG0_0] = IF FIG0_0 \in done THEN 0 ELSE @ + n0,
                     ![FIG0_7] = IF FIG0_7 \in done THEN 0 ELSE @ + n7]
                /\ deadline' = [f \in AllFIGs |->
                     IF f \notin done THEN deadline[f]
                     ELSE IF f = FIG0_7 THEN Rate[f] + 1 ELSE Rate[f]]
                /\ must_send' = must_send \ done
                /\ completed' = done
       ELSE /\ remaining' = FibSize
            /\ completed' = {}
            /\ UNCHANGED figVars
    /\ tried' = {}
    /\ made_progress' = TRUE
    /\ offered' = {}
    /\ pc' = "must"
    /\ UNCHANGED <<content, poll_counter, carousel, m_priority_stack, fibVars,
                   tried_pass1, start_prio, prio, attempt>>

-----------------------------------------------------------------------------
(* Step 2 of fill_fib: the must-send pass.                                 *)

\* select_priority(): the first in the stack whose counter is 0, or else the
\* first with the lowest product of counter and position.
Score(i) == poll_counter[m_priority_stack[i]] * i
SelectPriority ==
    LET due == {i \in Priorities : poll_counter[m_priority_stack[i]] = 0}
        best == {i \in Priorities : \A j \in Priorities : Score(i) <= Score(j)}
    IN  m_priority_stack[First(IF due # {} THEN due ELSE best)]

\* The priority at an offset from start_prio, wrapping around past priority 0.
AtOffset(o) ==
    IF start_prio + o < NumPriorities THEN start_prio + o
    ELSE 1 + start_prio + o - NumPriorities

\* The head of the while loop: select where to start, or go on to step 3.
MustSelect ==
    /\ pc = "must"
    /\ IF SpaceLeft /\ made_progress
       THEN /\ start_prio' = SelectPriority
            /\ prio' = 0
            /\ made_progress' = FALSE
            /\ pc' = "mustPrio"
            /\ UNCHANGED <<tried, tried_pass1>>
       ELSE /\ pc' = "pass1"
            /\ prio' = 1
            /\ tried' = {}
            /\ UNCHANGED <<start_prio, made_progress, tried_pass1>>
    /\ attempt' = 0
    /\ completed' = {}
    /\ UNCHANGED <<content, figVars, poll_counter, carousel, m_priority_stack,
                   fibVars, remaining, offered>>

\* Where the carousel has the FIGs that are due.
DueIn(p) == {i \in DOMAIN carousel[p] : carousel[p][i] \in must_send}

\* Mutant: the loop over priorities ends one early.
MustNextPrioOneShort ==
    /\ pc = "mustPrio"
    /\ LET p == AtOffset(prio)
           over == prio >= NumPriorities - 2 \/ ~SpaceLeft
       IN  /\ over \/ DueIn(p) = {} \/ attempt >= Len(carousel[p])
           /\ IF over THEN pc' = "must" /\ UNCHANGED prio
              ELSE prio' = prio + 1 /\ UNCHANGED pc
    /\ attempt' = 0
    /\ completed' = {}
    /\ UNCHANGED <<content, figVars, poll_counter, carousel, m_priority_stack,
                   fibVars, remaining, tried, tried_pass1, made_progress,
                   start_prio, offered>>

\* The loop over priorities is over, or this priority has nothing (more) due.
MustNextPrio ==
    /\ pc = "mustPrio"
    /\ LET p == AtOffset(prio)
           over == prio >= NumPriorities - 1 \/ ~SpaceLeft
       IN  /\ over \/ DueIn(p) = {} \/ attempt >= Len(carousel[p])
           /\ IF over THEN pc' = "must" /\ UNCHANGED prio
              ELSE prio' = prio + 1 /\ UNCHANGED pc
    /\ attempt' = 0
    /\ completed' = {}
    /\ UNCHANGED <<content, figVars, poll_counter, carousel, m_priority_stack,
                   fibVars, remaining, tried, tried_pass1, made_progress,
                   start_prio, offered>>

\* on_fig_sent(): all counters go down, the one that sent starts again and
\* goes to the bottom of the stack.
OnFigSent(p) ==
    /\ poll_counter' = [q \in Priorities |->
         IF q = p THEN PollReset[q]
         ELSE IF poll_counter[q] > 0 THEN poll_counter[q] - 1 ELSE 0]
    /\ m_priority_stack' = ToBack(m_priority_stack,
                               First({i \in DOMAIN m_priority_stack : m_priority_stack[i] = p}))

\* One attempt: the first FIG due in the carousel is filled until it completes
\* its cycle, does not fit, or the FIB is full, and goes to the back.
MustAttempt ==
    /\ pc = "mustPrio" /\ prio < NumPriorities - 1 /\ SpaceLeft
    /\ LET p == AtOffset(prio)
       IN  /\ DueIn(p) # {} /\ attempt < Len(carousel[p])
           /\ LET i == First(DueIn(p))
                  f == carousel[p][i]
                  n == Greedy(f, remaining)
                  bytes == SumTo(f, n)
              IN  /\ MoveToBack(p, i)
                  /\ tried' = tried \union {f}
                  /\ IF f \in tried
                     THEN /\ completed' = {}
                          /\ UNCHANGED <<figVars, remaining, poll_counter,
                                         m_priority_stack, made_progress>>
                     ELSE /\ Write(f, n)
                          /\ remaining' = remaining - bytes
                          /\ IF bytes > 0
                             THEN OnFigSent(p) /\ made_progress' = TRUE
                             ELSE UNCHANGED <<poll_counter, m_priority_stack, made_progress>>
    /\ attempt' = attempt + 1
    /\ UNCHANGED <<content, fibVars, pc, tried_pass1, start_prio, prio, offered>>

-----------------------------------------------------------------------------
(* Step 3: the can-send passes.                                            *)

FibIsFull == ~SpaceLeft \/ prio >= NumPriorities
AttemptsLeft == ~FibIsFull /\ attempt < Len(carousel[prio])

\* Leave a pass, or go on to the next priority.
CanNextPrio ==
    /\ pc \in {"pass1", "pass2"}
    /\ ~AttemptsLeft
    /\ IF ~FibIsFull
       THEN prio' = prio + 1 /\ UNCHANGED <<pc, fib, framephase, tried_pass1>>
       ELSE IF pc = "pass1"
       THEN /\ pc' = "pass2" /\ prio' = 1
            /\ tried_pass1' = tried
            /\ UNCHANGED <<fib, framephase>>
       ELSE /\ pc' = IF fib + 1 < FibCount THEN "fib" ELSE "frame"
            /\ fib' = fib + 1
            /\ framephase' = IF fib + 1 < FibCount THEN framephase
                             ELSE (framephase + 1) % 4
            /\ UNCHANGED <<prio, tried_pass1>>
    /\ attempt' = 0
    /\ completed' = {}
    /\ UNCHANGED <<content, figVars, poll_counter, carousel, m_priority_stack,
                   remaining, tried, made_progress, start_prio, offered>>

Offer(f) ==
    LET n == FillBlocks(f, remaining)
        bytes == SumTo(f, n)
    IN  /\ Write(f, n)
        /\ remaining' = remaining - bytes
        /\ offered' = offered \union {f}

Skip ==
    /\ completed' = {}
    /\ UNCHANGED <<figVars, remaining, offered>>

\* Mutant: the second pass skips what the first one skipped.
CanAttemptSkipsSkipped ==
    /\ pc \in {"pass1", "pass2"}
    /\ AttemptsLeft
    /\ LET f == Head(carousel[prio])
       IN  /\ IF pc = "pass1"
              THEN IF f \in tried \/ ~PastHalf(f) THEN Skip ELSE Offer(f)
              ELSE IF f \in tried_pass1 THEN Skip ELSE Offer(f)
           /\ tried' = tried \union {f}
           /\ MoveToBack(prio, 1)
    /\ attempt' = attempt + 1
    /\ UNCHANGED <<content, poll_counter, m_priority_stack, fibVars, pc,
                   tried_pass1, made_progress, start_prio, prio>>

\* One attempt: pass 1 offers the space to the FIGs past half their deadline,
\* pass 2 to the others.
CanAttempt ==
    /\ pc \in {"pass1", "pass2"}
    /\ AttemptsLeft
    /\ LET f == Head(carousel[prio])
       IN  /\ IF pc = "pass1"
              THEN IF f \in tried \/ ~PastHalf(f) THEN Skip ELSE Offer(f)
              ELSE IF f \in tried_pass1 /\ f \in tried /\ PastHalf(f) THEN Skip ELSE Offer(f)
           /\ tried' = tried \union {f}
           /\ MoveToBack(prio, 1)
    /\ attempt' = attempt + 1
    /\ UNCHANGED <<content, poll_counter, m_priority_stack, fibVars, pc,
                   tried_pass1, made_progress, start_prio, prio>>

Next ==
    \/ StartFrame \/ StartFib
    \/ MustSelect \/ MustNextPrio \/ MustAttempt
    \/ CanNextPrio \/ CanAttempt

\* The main loop generates frames for ever.
Spec == Init /\ [][Next]_vars /\ WF_vars(Next)

-----------------------------------------------------------------------------
(***************************************************************************)
(* "We iterate through priorities and try each must_send FIG": when the    *)
(* must-send pass ends with space left, every FIG still due has been tried *)
(* in this FIB (fill_fib, step 2), wherever the wrap-around started and    *)
(* however the attempts rotated the carousels.                             *)
(***************************************************************************)
MustSendTriesAllDue ==
    [][(pc = "must" /\ pc' = "pass1" /\ SpaceLeft)
         => (must_send \ {FIG0_0, FIG0_7}) \subseteq tried]_vars

(***************************************************************************)
(* "If still space, try any FIG that can_send (avoid wasting FIB space)":  *)
(* a FIB is not closed with space left that the can-send passes did not    *)
(* offer to every FIG (fill_fib, step 3).                                  *)
(***************************************************************************)
EveryFigOffered ==
    [][(pc = "pass2" /\ pc' # "pass2" /\ SpaceLeft) => offered = FIGs]_vars
=============================================================================
