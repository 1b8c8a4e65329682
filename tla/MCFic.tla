-------------------------------- MODULE MCFic --------------------------------
(* Small instances of both schedulers of the fast information channel, one *)
(* of which fic_scheduler chooses: FIBs of eight bytes, blocks of three to *)
(* eight, and rates that make more due than the FIBs carry.  The variables *)
(* of the other scheduler stay at none.                                    *)
EXTENDS MCFIGCarouselPriority

CONSTANTS Bound  \* how late a FIG of the classic scheduler may get, in frames

VARIABLES m_scheduler_type, tuning, rate, m_last_rate, filling, sorted_figs, available_size

MCRates ==
    a :> [usual |-> 1] @@ b :> [usual |-> 2]
        @@ c :> [usual |-> 4, quick |-> 1] @@ d :> [usual |-> 4]
        @@ FIG0_0 :> [usual |-> 4] @@ FIG0_7 :> [usual |-> 4]
MCCorrection == a :> 10 @@ b :> 5 @@ c :> 20 @@ d :> 10 @@ FIG0_0 :> 10 @@ FIG0_7 :> 10
MCClassicContents ==
    a :> {<<8, 8>>} @@ b :> {<<4, 4>>} @@ c :> {<<3, 5>>} @@ d :> {<<>>, <<4>>}
        @@ FIG0_0 :> {<<3>>} @@ FIG0_7 :> {<<3>>}

Classic == INSTANCE FIGCarousel
    WITH Contents <- MCClassicContents, Rate <- MCRates, FigCorrection <- MCCorrection, Changing <- {c}

none == "none"
priorityVars == <<must_send, poll_counter, carousel, m_priority_stack, remaining, pc,
                  loopVars, offered>>
classicVars == <<tuning, rate, m_last_rate, filling, sorted_figs, available_size>>
ficVars == <<vars, classicVars, m_scheduler_type>>

FicInit ==
    \/ /\ m_scheduler_type = "priority" /\ Init
       /\ tuning = none /\ rate = none /\ m_last_rate = none /\ filling = none
       /\ sorted_figs = none /\ available_size = none
    \/ /\ Classic!Init
       /\ m_scheduler_type = IF tuning THEN "classic-rate-tuning" ELSE "classic"
       /\ must_send = none /\ poll_counter = none /\ carousel = none
       /\ m_priority_stack = none /\ remaining = none /\ pc = none
       /\ tried = none /\ tried_pass1 = none /\ made_progress = none
       /\ start_prio = none /\ prio = none /\ attempt = none /\ offered = none

PriorityNext == m_scheduler_type = "priority" /\ Next /\ UNCHANGED <<classicVars, m_scheduler_type>>
ClassicNext == m_scheduler_type # "priority" /\ Classic!Next /\ UNCHANGED <<priorityVars, m_scheduler_type>>
ClassicWrites ==
    m_scheduler_type # "priority" /\ Classic!WriteFibs /\ UNCHANGED <<priorityVars, m_scheduler_type>>

FicNext == PriorityNext \/ ClassicNext

\* The main loop generates frames for ever.
FicSpec == FicInit /\ [][FicNext]_ficVars /\ WF_ficVars(PriorityNext) /\ WF_ficVars(ClassicWrites)

-----------------------------------------------------------------------------
\* "Fill the FIB with the FIGs, taking the earliest deadline first" (carousel): even when
\* more is due than the FIBs carry, no FIG gets later than Bound, though a FIG of several
\* blocks keeps its deadline until the last one, a large one finds no room behind others,
\* and the changes of a rate pull its deadline nearer.
LatenessBounded == m_scheduler_type # "priority" => \A f \in AllFIGs : deadline[f] >= -Bound

\* No FIG is passed over: none that is due, and none that might fill what is left of a FIB.
NoFigPassedOver == MustSendTriesAllDue /\ EveryFigOffered

\* f has room: always under the classic scheduler and for the FIGs of priority 0; else if,
\* within the four phases of a frame, the other FIGs of its priority and of those above have
\* fewer blocks to send than there are FIBs without FIG 0/0 and 0/7.
PhaseFrames == 4
Blocks(g) == {g} \X (1..Len(content[g])) \X (1..(PhaseFrames \div Rate[g]))
HasRoom(f) ==
    m_scheduler_type = "priority" /\ f \in FIGs =>
        Cardinality(UNION {Blocks(g) : g \in {h \in FIGs \ {f} : Prio[h] <= Prio[f]}})
            < PhaseFrames * FibCount - 1

\* A FIG that has room completes its cycle again and again (its contents do not change): the
\* empty priority keeps its counter at 0, so that the cascade begins there for ever and the
\* priorities are in effect served in their order.
EveryFigCompletes == \A f \in AllFIGs : []<>(f \in completed \/ ~HasRoom(f))

\* What FIGCarouselPriority.h says of the weighted priorities, that they "prevent
\* starvation".  With a priority that never sends the code does not keep it, even where all
\* that is due fits the FIBs.
NothingStarves == \A f \in AllFIGs : []<>(f \in completed)
=============================================================================
