------------------------------ MODULE Control ------------------------------
(***************************************************************************)
(* The control servers of the multiplexer, the telnet and the ZeroMQ       *)
(* remote control and the management server, each with a thread that       *)
(* serves (process, serverThread), and the main loop that looks at their   *)
(* fault flags between two frames, restarts the faulty ones through a      *)
(* thread of its own (restart_thread) and destroys them all at the end.    *)
(*                                                                         *)
(* What a client asks is left out, except that a telnet client may stop    *)
(* reading and that an error may end a serving thread.                     *)
(***************************************************************************)
EXTENDS Integers

CONSTANTS
    Servers,     \* the servers configured
    Failing,     \* the servers that may meet an error
    RcPeriod,    \* frames between two looks at the remote controls, 250 in the code
    MgmtPeriod,  \* frames between two looks at the management server, 10 in the code
    InTime       \* whether a period is longer than what a thread does without waiting

ASSUME ControlAssumption ==
    /\ Servers \subseteq {"mgmt", "telnet", "zmq"} /\ Failing \subseteq Servers
    /\ RcPeriod \in Nat \ {0} /\ MgmtPeriod \in Nat \ {0}
    /\ InTime \in BOOLEAN

VARIABLES
    frame,      \* currentFrame modulo RcPeriod
    main,       \* where the main thread is
    todo,       \* the servers it has still to look at, or to destroy
    active,     \* m_active, m_running
    fault,      \* m_fault
    child,      \* the serving thread, "none" when there is nothing to join
    restarter,  \* m_restarter_thread, likewise
    bound,      \* the socket the server keeps as a member is bound
    terminated  \* std::terminate was called

loop == <<frame, main, todo>>
vars == <<loop, active, fault, child, restarter, bound, terminated>>

\* The remote controls are kept in the order of their creation, and destroyed
\* after the management server, which is a static of a function called later.
First(S) == IF "mgmt" \in S THEN "mgmt"
            ELSE IF "telnet" \in S THEN "telnet" ELSE "zmq"
Controllers == Servers \ {"mgmt"}
KeepsSocket == {"mgmt", "telnet"}   \* the others have a local socket in their thread
FaultAtEnd == {"mgmt", "telnet"}    \* m_fault is set however the thread ends

Init ==
    /\ frame = 0 /\ main = "mux" /\ todo = {}
    /\ active = [s \in Servers |-> s # "mgmt"]
    /\ fault = [s \in Servers |-> FALSE]
    /\ child = [s \in Servers |-> IF s = "telnet" THEN "none" ELSE "new"]
    /\ restarter = [s \in Servers |-> IF s = "telnet" THEN "flag" ELSE "none"]
    /\ bound = [s \in Servers |-> FALSE]
    /\ terminated = FALSE

-----------------------------------------------------------------------------
(* Main thread *)

\* What a thread of s does next does not wait for anything.
Settled(s) ==
    /\ restarter[s] # "flag"
    /\ restarter[s] = "join" => child[s] \notin {"none", "done"}
    /\ child[s] \notin {"new", "starting", "bind"}
    /\ child[s] \in {"loop", "accept"} => active[s]

Due == IF frame = RcPeriod - 1 THEN Controllers
       ELSE IF (frame % MgmtPeriod) = 0 THEN Servers \cap {"mgmt"}
       ELSE {}

\* One frame, and the looks at the servers that are due after it.
MuxFrame ==
    /\ main = "mux"
    /\ InTime => \A s \in Due : Settled(s)
    /\ frame' = (frame + 1) % RcPeriod
    /\ todo' = Due
    /\ main' = IF Due = {} THEN "mux" ELSE "check"
    /\ UNCHANGED <<active, fault, child, restarter, bound, terminated>>

Rest == todo \ {First(todo)}
LookAtOne == todo' = {} /\ main' = "mux"
LookAtNext ==
    /\ todo' = Rest
    /\ main' = IF Rest = {} THEN "mux" ELSE "check"

NeverSatisfied(s) == FALSE
SeesNoFault(s) == ~fault[s]

CheckFault ==
    /\ main = "check"
    /\ IF SeesNoFault(First(todo)) THEN LookAtNext
       ELSE main' = "restart" /\ UNCHANGED todo
    /\ UNCHANGED <<frame, active, fault, child, restarter, bound, terminated>>

\* The remote controls join the restarter of the last time before they start
\* another; the management server assigns to it as it is.
JoinsNobody(s) == FALSE
JoinsRestarter(s) == s # "mgmt"
CanRestart(s) == JoinsRestarter(s) => restarter[s] \in {"none", "ended"}

\* Assigning to a std::thread that has not been joined ends the program.
Restart ==
    LET s == First(todo) IN
    /\ main = "restart" /\ CanRestart(s)
    /\ IF ~JoinsRestarter(s) /\ restarter[s] # "none"
       THEN terminated' = TRUE /\ UNCHANGED <<loop, restarter>>
       ELSE /\ restarter' = [restarter EXCEPT ![s] = "flag"]
            /\ LookAtNext
            /\ UNCHANGED <<frame, terminated>>
    /\ UNCHANGED <<active, fault, child, bound>>

\* The last frame that was asked for, or a signal that lowers running.
Stop ==
    /\ main = "mux"
    /\ todo' = Servers
    /\ main' = IF Servers = {} THEN "gone" ELSE "destroy"
    /\ UNCHANGED <<frame, active, fault, child, restarter, bound, terminated>>

DestroyBegins ==
    LET s == First(todo) IN
    /\ main = "destroy"
    /\ active' = [active EXCEPT ![s] = FALSE]
    /\ fault' = IF s = "zmq" THEN [fault EXCEPT ![s] = FALSE] ELSE fault
    /\ main' = IF JoinsRestarter(s) THEN "joinRestarter" ELSE "joinChild"
    /\ UNCHANGED <<frame, todo, child, restarter, bound, terminated>>

JoinRestarter ==
    LET s == First(todo) IN
    /\ main = "joinRestarter" /\ restarter[s] \in {"none", "ended"}
    /\ restarter' = [restarter EXCEPT ![s] = "none"]
    /\ main' = "joinChild"
    /\ UNCHANGED <<frame, todo, active, fault, child, bound, terminated>>

\* The last member to be destroyed may be a restarter that nobody joined.
JoinChild ==
    LET s == First(todo) IN
    /\ main = "joinChild" /\ child[s] \in {"none", "done"}
    /\ child' = [child EXCEPT ![s] = "none"]
    /\ fault' = IF s = "mgmt" /\ child[s] = "done"
                THEN [fault EXCEPT ![s] = FALSE] ELSE fault
    /\ todo' = Rest
    /\ main' = IF Rest = {} THEN "gone" ELSE "destroy"
    /\ terminated' = (restarter[s] # "none")
    /\ UNCHANGED <<frame, active, restarter, bound>>

-----------------------------------------------------------------------------
(* The restarter of s *)

LowerFlag(s) ==
    /\ restarter[s] = "flag"
    /\ active' = [active EXCEPT ![s] = FALSE]
    /\ restarter' = [restarter EXCEPT ![s] = "join"]
    /\ UNCHANGED <<loop, fault, child, bound, terminated>>

StartChild(s) ==
    /\ restarter[s] = "join" /\ child[s] \in {"none", "done"}
    /\ fault' = IF s = "mgmt" /\ child[s] = "done"
                THEN [fault EXCEPT ![s] = FALSE] ELSE fault
    /\ child' = [child EXCEPT ![s] = "new"]
    /\ restarter' = [restarter EXCEPT ![s] = "ended"]
    /\ UNCHANGED <<loop, active, bound, terminated>>

-----------------------------------------------------------------------------
(* The serving thread of s *)

\* The first assignment: to m_fault in the ZeroMQ remote control, to the
\* active flag in the others.
BeginFaulty(s) ==
    /\ child[s] = "new"
    /\ active' = [active EXCEPT ![s] = TRUE]
    /\ child' = [child EXCEPT ![s] = "bind"]
    /\ UNCHANGED <<loop, fault, restarter, bound, terminated>>

Begin(s) ==
    /\ child[s] = "new"
    /\ IF s = "zmq"
       THEN fault' = [fault EXCEPT ![s] = FALSE] /\ UNCHANGED active
       ELSE active' = [active EXCEPT ![s] = TRUE] /\ UNCHANGED fault
    /\ child' = [child EXCEPT ![s] = IF s = "telnet" THEN "bind" ELSE "starting"]
    /\ UNCHANGED <<loop, restarter, bound, terminated>>

\* The second assignment, of those that make two.
Begun(s) ==
    /\ child[s] = "starting"
    /\ IF s = "zmq"
       THEN active' = [active EXCEPT ![s] = TRUE] /\ UNCHANGED fault
       ELSE fault' = [fault EXCEPT ![s] = FALSE] /\ UNCHANGED active
    /\ child' = [child EXCEPT ![s] = "bind"]
    /\ UNCHANGED <<loop, restarter, bound, terminated>>

\* The thread ends on an error, or because it is no longer active.  The
\* ZeroMQ remote control flags every exception but those of ZeroMQ itself.
End(s, flags) ==
    /\ child' = [child EXCEPT ![s] = "done"]
    /\ fault' = [fault EXCEPT ![s] = @ \/ flags]
    /\ UNCHANGED <<loop, active, restarter, bound, terminated>>

BindFails(s) ==
    /\ s \in Failing /\ child[s] = "bind" /\ ~bound[s]
    /\ End(s, s \in FaultAtEnd)

\* A TCPSocket that is already open throws a logic_error, which nobody
\* catches; a ZeroMQ socket an error like any other.
BindAgain(s) ==
    IF s = "telnet"
    THEN terminated' = TRUE /\ UNCHANGED <<loop, active, fault, child, restarter, bound>>
    ELSE End(s, TRUE)

Bind(s) ==
    /\ child[s] = "bind"
    /\ IF bound[s] THEN BindAgain(s)
       ELSE /\ bound' = [bound EXCEPT ![s] = s \in KeepsSocket]
            /\ child' = [child EXCEPT ![s] = "loop"]
            /\ UNCHANGED <<loop, active, fault, restarter, terminated>>

ServeFails(s) ==
    /\ s \in Failing /\ child[s] = "accept"
    /\ \/ End(s, TRUE)
       \/ s \notin FaultAtEnd /\ End(s, FALSE)

EndOfLoop(s) ==
    /\ child[s] = "loop" /\ ~active[s]
    /\ End(s, s \in FaultAtEnd)

Moves(s, from, to) ==
    /\ child[s] = from
    /\ child' = [child EXCEPT ![s] = to]
    /\ UNCHANGED <<loop, active, fault, restarter, bound, terminated>>

\* Wait for a client; nobody comes, or its request is answered.
Wait(s) == active[s] /\ Moves(s, "loop", "accept")
Served(s) == Moves(s, "accept", "loop")

\* A session of a telnet client: what is sent to it waits for as long as the
\* client does not read.
Accepted(s) == s = "telnet" /\ Moves(s, "accept", "sending")
StaysUntilQuit(s) == TRUE
StaysActive(s) == active[s]
Sent(s) == Moves(s, "sending", IF StaysActive(s) THEN "client" ELSE "loop")
Command(s) == Moves(s, "client", "sending")
EndOfSession(s) == Moves(s, "client", "loop")

-----------------------------------------------------------------------------
MainStep ==
    ~terminated /\ (MuxFrame \/ CheckFault \/ Restart
                      \/ DestroyBegins \/ JoinRestarter \/ JoinChild)

RestarterStep(s) == ~terminated /\ (LowerFlag(s) \/ StartChild(s))

\* What the serving thread does without anybody's help; it leaves a session
\* by itself, within a second, when it is no longer active.
ChildStep(s) ==
    ~terminated /\ (Begin(s) \/ Begun(s) \/ Bind(s)
                      \/ Wait(s) \/ Served(s) \/ EndOfLoop(s)
                      \/ (~active[s] /\ EndOfSession(s)))

Environment(s) ==
    ~terminated /\ (BindFails(s) \/ ServeFails(s) \/ Accepted(s) \/ Sent(s)
                      \/ Command(s) \/ (active[s] /\ EndOfSession(s)))

\* The program is over.
Over == (main = "gone" \/ terminated) /\ UNCHANGED vars

Next ==
    \/ MainStep
    \/ ~terminated /\ Stop
    \/ \E s \in Servers : RestarterStep(s) \/ ChildStep(s) \/ Environment(s)
    \/ Over

Spec == Init /\ [][Next]_vars

FairSpec ==
    /\ Spec
    /\ WF_vars(MainStep)
    /\ \A s \in Servers : WF_vars(RestarterStep(s)) /\ WF_vars(ChildStep(s))

-----------------------------------------------------------------------------
(* Properties *)

TypeOK ==
    /\ frame \in 0..(RcPeriod - 1)
    /\ main \in {"mux", "check", "restart", "destroy", "joinRestarter", "joinChild", "gone"}
    /\ todo \subseteq Servers
    /\ main \notin {"mux", "gone"} => todo # {}
    /\ active \in [Servers -> BOOLEAN]
    /\ fault \in [Servers -> BOOLEAN]
    /\ child \in [Servers -> {"none", "new", "starting", "bind", "loop", "accept",
                              "sending", "client", "done"}]
    /\ restarter \in [Servers -> {"none", "flag", "join", "ended"}]
    /\ bound \in [Servers -> BOOLEAN]
    /\ terminated \in BOOLEAN

(* "In case of a fault, the remote controller can be restarted"            *)
(* (RemoteControl.h:85): no sequence of faults, restarts and a shutdown    *)
(* ends the whole program with std::terminate.                             *)
NeverTerminates == ~terminated

(* A restart is for a server that has stopped serving: when the main loop  *)
(* restarts a remote control, its thread has ended, so that no client of a *)
(* healthy server is thrown out.                                           *)
OnlyTheDeadAreRestarted ==
    main = "restart" /\ First(todo) # "mgmt" => child[First(todo)] = "done"

(* Restarting "would take too long to be done in the main loop thread"     *)
(* (RemoteControl.cpp:165): looking after the servers never keeps the main *)
(* loop from the next frame, whatever their threads and clients do.        *)
MuxGoesOn == main \in {"check", "restart"} ~> main = "mux"

(* A flagged fault of a remote control leads to a new serving thread,      *)
(* unless the program stops.                                               *)
FaultIsRepaired ==
    \A s \in Controllers :
        fault[s] ~> (child[s] = "bind"
                       \/ main \in {"destroy", "joinRestarter", "joinChild", "gone"})

(* A shutdown comes to its end if it begins when no server is about to     *)
(* raise its own active flag, and if no client stops reading for ever.     *)
StopsQuietly ==
    /\ main = "destroy" /\ todo = Servers
    /\ \A s \in Servers : /\ restarter[s] \notin {"flag", "join"}
                          /\ child[s] \notin {"new", "starting"}
StopCompletes ==
    (\A s \in Servers : []<>(child[s] # "sending")) => (StopsQuietly ~> main = "gone")

\* Neither the main loop nor the destructors wait for ever for a thread of a server.
NobodyWaitsForEver == MuxGoesOn /\ StopCompletes
=============================================================================
