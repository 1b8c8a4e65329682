--------------------------- MODULE Announcements ---------------------------
(***************************************************************************)
(* Announcement switching: the AnnouncementClusters of the ensemble, which *)
(* the remote control switches on and off, at once or after a delay; the   *)
(* TransitionHandler, which keeps a cluster on the air for a while after   *)
(* it has been switched off; and FIG 0/19, which signals them.             *)
(*                                                                         *)
(* The remote control runs in a thread of its own and takes the mutex of a *)
(* cluster for one access: it may act between the update of the states at  *)
(* the start of FIG0_19::fill and the reading of each cluster.             *)
(***************************************************************************)
EXTENDS Integers, Sequences, FiniteSets

CONSTANTS
    Clusters,     \* the clusters, a sequence in the order of their addresses
    Known,        \* those whose subchannel exists
    Delays,       \* delays the remote control may give to start_in and stop_in
    Rooms,        \* sizes of the space that the carousel may offer
    Timeout,      \* time that a change is signalled at the fast rate
    MaxTime, MaxRcCommands   \* bounds

Never == -1
All == {Clusters[i] : i \in DOMAIN Clusters}
LENGTH_0_19 == 4

VARIABLES
    now,
    m_active, m_deferred_start_time, m_deferred_stop_time,   \* of each cluster
    new_entries, disabled_entries,   \* the time until which a cluster is one, or Never
    repeated_entries,
    todo,         \* the clusters that the fill in progress still has to write, in order
    remaining,    \* its space, or Never when no fill is in progress
    written,      \* bytes it has written
    heard,        \* what receivers have last been told of a cluster
    offered,      \* all clusters had room in a fill of this unit of time
    flipped,      \* clusters that came on between the update and their writing
    rcCommands

vars == <<now, m_active, m_deferred_start_time, m_deferred_stop_time, new_entries,
          disabled_entries, repeated_entries, todo, remaining, written, heard, offered, flipped, rcCommands>>

cluster == <<m_active, m_deferred_start_time, m_deferred_stop_time>>
transition == <<new_entries, disabled_entries, repeated_entries>>
filling == <<todo, remaining, written, heard, offered>>

(***************************************************************************)
(* is_active looks at the delayed start first and at the delayed stop next *)
(* and forgets those that are due.                                         *)
(***************************************************************************)
Due(t) == t # Never /\ t <= now

IsActive(c) ==
    /\ m_active[c] \/ Due(m_deferred_start_time[c])
    /\ ~Due(m_deferred_stop_time[c])

Evaluated(S) ==
    /\ m_active' = [c \in All |-> IF c \in S THEN IsActive(c) ELSE m_active[c]]
    /\ m_deferred_start_time' =
         [c \in All |-> IF c \in S /\ Due(m_deferred_start_time[c]) THEN Never
                        ELSE m_deferred_start_time[c]]
    /\ m_deferred_stop_time' =
         [c \in All |-> IF c \in S /\ Due(m_deferred_stop_time[c]) THEN Never
                        ELSE m_deferred_stop_time[c]]

(***************************************************************************)
(* The states of a cluster: new for a while, then repeated; disabled for a *)
(* while when it stops.                                                    *)
(***************************************************************************)
IsNew(c) == new_entries[c] # Never
IsDisabled(c) == disabled_entries[c] # Never
Listed == {c \in All : IsNew(c) \/ IsDisabled(c) \/ c \in repeated_entries}

BecomesRepeated(c) == IsActive(c) /\ c \notin repeated_entries /\ IsNew(c) /\ new_entries[c] <= now

BecomesNewIfDisabled(c) == IsActive(c) /\ IsDisabled(c)
BecomesNew(c) == IsActive(c) /\ c \notin repeated_entries /\ ~IsNew(c)
BecomesDisabled(c) == ~IsActive(c) /\ ~IsDisabled(c) /\ (c \in repeated_entries \/ IsNew(c))


ExpiresAtOnce(c) == ~IsActive(c) /\ IsDisabled(c)
Expires(c) == ~IsActive(c) /\ IsDisabled(c) /\ disabled_entries[c] <= now

UpdateState ==
    /\ Evaluated(All)
    /\ new_entries' =
         [c \in All |-> IF BecomesNew(c) THEN now + Timeout
                        ELSE IF BecomesRepeated(c) \/ (BecomesDisabled(c) /\ c \notin repeated_entries)
                        THEN Never ELSE new_entries[c]]
    /\ disabled_entries' =
         [c \in All |-> IF BecomesDisabled(c) THEN now + Timeout
                        ELSE IF Expires(c) \/ BecomesNew(c) THEN Never ELSE disabled_entries[c]]
    /\ repeated_entries' =
         (repeated_entries \union {c \in All : BecomesRepeated(c)})
             \ {c \in All : BecomesDisabled(c)}

StartFill ==
    /\ remaining = Never
    /\ \E room \in Rooms : remaining' = room
    /\ UpdateState
    /\ todo' = SelectSeq(Clusters, LAMBDA c :
                 \/ new_entries'[c] # Never \/ disabled_entries'[c] # Never
                 \/ c \in repeated_entries')
    /\ written' = 0
    /\ UNCHANGED <<now, heard, offered, flipped, rcCommands>>

(***************************************************************************)
(* One cluster is written.  The header goes in front of the first one; a   *)
(* cluster whose subchannel does not exist is skipped after that.          *)
(***************************************************************************)
Needed == IF written = 0 THEN 2 + LENGTH_0_19 ELSE LENGTH_0_19

WriteCluster ==
    /\ remaining # Never /\ todo # <<>>
    /\ remaining >= Needed
    /\ LET c    == Head(todo)
           size == (Needed - LENGTH_0_19) + (IF c \in Known THEN LENGTH_0_19 ELSE 0)
       IN /\ Evaluated({c})
          /\ heard' = IF c \in Known
                      THEN [heard EXCEPT ![c] = IF IsActive(c) THEN "on" ELSE "off"] ELSE heard
          /\ remaining' = remaining - size
          /\ written' = written + size
    /\ todo' = Tail(todo)
    /\ UNCHANGED <<now, transition, offered, flipped, rcCommands>>

\* The fill ends; what did not fit is left out, and the next one starts anew.
EndFill ==
    /\ remaining # Never
    /\ todo = <<>> \/ remaining < Needed
    /\ remaining' = Never
    /\ offered' = (offered \/ todo = <<>>)
    /\ UNCHANGED <<now, cluster, transition, todo, written, heard, flipped, rcCommands>>

(***************************************************************************)
(* The remote control and the time.                                        *)
(***************************************************************************)
SetActive(c) ==
    /\ \E b \in BOOLEAN : m_active' = [m_active EXCEPT ![c] = b]
    /\ UNCHANGED <<m_deferred_start_time, m_deferred_stop_time>>

SetStartIn(c) ==
    /\ \E d \in Delays : m_deferred_start_time' = [m_deferred_start_time EXCEPT ![c] = now + d]
    /\ UNCHANGED <<m_active, m_deferred_stop_time>>

SetStopIn(c) ==
    /\ \E d \in Delays : m_deferred_stop_time' = [m_deferred_stop_time EXCEPT ![c] = now + d]
    /\ UNCHANGED <<m_active, m_deferred_start_time>>

\* A cluster comes on after the update of the states, before it is written.
FlipsOn == {c \in All : remaining # Never /\ IsDisabled(c) /\ ~IsActive(c) /\ IsActive(c)'}

RemoteControl ==
    /\ rcCommands < MaxRcCommands
    /\ rcCommands' = rcCommands + 1
    /\ \E c \in All : SetActive(c) \/ SetStartIn(c) \/ SetStopIn(c)
    /\ UNCHANGED <<now, transition, filling>>
    /\ flipped' = flipped \union FlipsOn

\* The carousel offers enough space at least once in every unit of time.
Tick ==
    /\ now < MaxTime /\ offered
    /\ now' = now + 1 /\ offered' = FALSE
    /\ UNCHANGED <<cluster, transition, todo, remaining, written, heard, rcCommands>>
    /\ flipped' = flipped \union FlipsOn

Init ==
    /\ now = 0
    /\ m_active = [c \in All |-> FALSE]
    /\ m_deferred_start_time = [c \in All |-> Never]
    /\ m_deferred_stop_time = [c \in All |-> Never]
    /\ new_entries = [c \in All |-> Never]
    /\ disabled_entries = [c \in All |-> Never]
    /\ repeated_entries = {}
    /\ todo = <<>> /\ remaining = Never /\ written = 0
    /\ heard = [c \in All |-> "nothing"]
    /\ offered = FALSE /\ flipped = {}
    /\ rcCommands = 0

Next == StartFill \/ WriteCluster \/ EndFill \/ RemoteControl \/ Tick

(***************************************************************************)
(* The carousel offers FIG 0/19 the space of an empty FIB again and again; *)
(* a fill that has begun is finished.                                      *)
(***************************************************************************)
Roomy == StartFill /\ \A room \in Rooms : room <= remaining'
Fairness == SF_vars(Roomy) /\ WF_vars(WriteCluster) /\ WF_vars(EndFill)

Spec == Init /\ [][Next]_vars /\ Fairness

-----------------------------------------------------------------------------
(***************************************************************************)
(* A cluster that stays switched on is signalled as active in the end, and *)
(* receivers are not told anything else any more.                          *)
(* (AnnouncementCluster, TransitionHandler::update_state, FIG0_19::fill)   *)
(***************************************************************************)
ActiveIsHeard == \A c \in All : <>[]IsActive(c) => <>[](heard[c] = "on")

(***************************************************************************)
(* A cluster that stays switched off is not left as active in receivers,   *)
(* unless it came on for a moment in the middle of a fill: then it may be  *)
(* written as active although its end has already been signalled.          *)
(***************************************************************************)
EndIsHeard ==
    \A c \in All : (<>[](~IsActive(c)) /\ [](c \notin flipped)) => <>[](heard[c] # "on")

(***************************************************************************)
(* A fill writes nothing or at least one cluster: the carousel asserts     *)
(* that a FIG never writes its header only (FIGCarousel.cpp).              *)
(***************************************************************************)
NoHeaderAlone == remaining = Never => written # 2
=============================================================================
