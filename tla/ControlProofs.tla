--------------------------- MODULE ControlProofs ---------------------------
(***************************************************************************)
(* Control is well typed, and when no server that keeps its socket may     *)
(* fail, no sequence of faults, restarts and a shutdown ends the program   *)
(* with std::terminate, whatever the periods and the speed of the threads. *)
(***************************************************************************)
EXTENDS Control, TLAPS

Sockets == Servers \ {"zmq"}   \* the servers that keep their socket
Looping == main \in {"mux", "check", "restart"}

\* While the main loop runs, a server that keeps its socket has no fault, and
\* is active from the first thing its thread does.
Sound ==
    Looping => \A s \in Sockets :
        ~fault[s] /\ child[s] # "done"
          /\ (child[s] \notin {"none", "new"} => active[s])

\* Only the ZeroMQ remote control is restarted.
RestartsZmq == main = "restart" => First(todo) = "zmq"

\* Nobody restarts the management server.
Unrestarted == \A s \in Servers \cap {"mgmt"} : restarter[s] = "none"

\* The restarter of the telnet remote control runs once, before its thread.
RestartedOnce ==
    \A s \in Sockets : restarter[s] \in {"flag", "join"} => child[s] = "none" /\ ~bound[s]

\* A socket is bound once.
BoundOnce ==
    \A s \in Servers : bound[s] => s # "zmq" /\ child[s] \notin {"new", "starting", "bind"}

\* When the thread is joined, the restarter has been.
JoinedBefore == main = "joinChild" => restarter[First(todo)] = "none"

IInv ==
    /\ NeverTerminates
    /\ Sound
    /\ RestartsZmq
    /\ Unrestarted
    /\ RestartedOnce
    /\ BoundOnce
    /\ JoinedBefore

\* First chooses a member.
LEMMA FirstIsMember ==
    ASSUME NEW S \in SUBSET Servers, S # {}
    PROVE  First(S) \in S
BY ControlAssumption DEF First

-----------------------------------------------------------------------------
\* Every variable keeps its type.
LEMMA TypeInit == Init => TypeOK
<1> SUFFICES ASSUME Init PROVE TypeOK
    OBVIOUS
<1> USE DEF Init
<1>1. frame \in 0..(RcPeriod - 1)
    BY ControlAssumption
<1>2. active \in [Servers -> BOOLEAN]
  <2>1. \A s \in Servers : (s # "mgmt") \in BOOLEAN
    OBVIOUS
  <2> QED BY <2>1, Zenon
<1>3. fault \in [Servers -> BOOLEAN] /\ bound \in [Servers -> BOOLEAN]
    OBVIOUS
<1>4. /\ child \in [Servers -> {"none", "new", "starting", "bind", "loop", "accept",
                                "sending", "client", "done"}]
      /\ restarter \in [Servers -> {"none", "flag", "join", "ended"}]
    OBVIOUS
<1> QED BY <1>1, <1>2, <1>3, <1>4 DEF TypeOK

LEMMA TypeOfEnd ==
    ASSUME TypeOK, NEW s \in Servers, NEW flags \in BOOLEAN, End(s, flags)
    PROVE  TypeOK'
<1>1. (fault[s] \/ flags) \in BOOLEAN
    OBVIOUS
<1>2. fault' \in [Servers -> BOOLEAN]
  <2>1. fault' = [fault EXCEPT ![s] = fault[s] \/ flags] /\ fault \in [Servers -> BOOLEAN]
    BY DEF End, TypeOK
  <2> QED BY <1>1, <2>1, Zenon
<1>3. child' \in [Servers -> {"none", "new", "starting", "bind", "loop", "accept",
                              "sending", "client", "done"}]
    BY DEF End, TypeOK
<1> QED BY <1>2, <1>3 DEF End, TypeOK, loop

LEMMA TypeStep == TypeOK /\ [Next]_vars => TypeOK'
<1> SUFFICES ASSUME TypeOK, [Next]_vars PROVE TypeOK'
    OBVIOUS
<1> USE DEF TypeOK
<1>1. CASE MuxFrame
  <2>1. frame' \in 0..(RcPeriod - 1)
    BY <1>1, ControlAssumption DEF MuxFrame
  <2>2. Due \subseteq Servers
    BY DEF Due, Controllers
  <2> QED BY <1>1, <2>1, <2>2 DEF MuxFrame
<1>2. CASE CheckFault
    BY <1>2 DEF CheckFault, LookAtNext, Rest
<1>3. CASE Restart
  <2>1. First(todo) \in Servers
    BY <1>3, FirstIsMember DEF Restart
  <2> QED BY <1>3, <2>1 DEF Restart, LookAtNext, Rest, loop
<1>4. CASE Stop
    BY <1>4 DEF Stop
<1>5. CASE DestroyBegins
    BY <1>5 DEF DestroyBegins
<1>6. CASE JoinRestarter
    BY <1>6 DEF JoinRestarter
<1>7. CASE JoinChild
    BY <1>7 DEF JoinChild, Rest
<1>8. ASSUME NEW s \in Servers, RestarterStep(s) PROVE TypeOK'
    BY <1>8 DEF RestarterStep, LowerFlag, StartChild, loop
<1>9. ASSUME NEW s \in Servers, ChildStep(s) PROVE TypeOK'
  <2>1. CASE Begin(s) \/ Begun(s)
    BY <2>1 DEF Begin, Begun, loop
  <2>2. CASE Bind(s)
    <3>1. CASE bound[s] /\ s # "telnet"
      <4>1. End(s, TRUE)
        BY <2>2, <3>1 DEF Bind, BindAgain
      <4> QED BY <4>1, TypeOfEnd
    <3>2. CASE bound[s] /\ s = "telnet"
      BY <2>2, <3>2 DEF Bind, BindAgain, loop
    <3>3. CASE ~bound[s]
      <4>1. bound' \in [Servers -> BOOLEAN]
        <5>1. /\ bound' = [bound EXCEPT ![s] = s \in KeepsSocket]
              /\ bound \in [Servers -> BOOLEAN] /\ (s \in KeepsSocket) \in BOOLEAN
          BY <2>2, <3>3 DEF Bind
        <5> QED BY <5>1, Zenon
      <4> QED BY <2>2, <3>3, <4>1 DEF Bind, loop
    <3> QED BY <3>1, <3>2, <3>3
  <2>3. CASE Wait(s) \/ Served(s) \/ EndOfSession(s)
    BY <2>3 DEF Wait, Served, EndOfSession, Moves, loop
  <2>4. CASE EndOfLoop(s)
    BY <2>4 DEF EndOfLoop, End, loop
  <2> QED BY <1>9, <2>1, <2>2, <2>3, <2>4 DEF ChildStep
<1>10. ASSUME NEW s \in Servers, Environment(s) PROVE TypeOK'
  <2>1. CASE BindFails(s) \/ ServeFails(s)
    BY <2>1 DEF BindFails, ServeFails, End, loop
  <2>2. CASE Accepted(s) \/ Sent(s) \/ Command(s) \/ EndOfSession(s)
    BY <2>2 DEF Accepted, Sent, Command, EndOfSession, Moves, loop
  <2> QED BY <1>10, <2>1, <2>2 DEF Environment
<1>11. CASE UNCHANGED vars
    BY <1>11 DEF vars, loop
<1> QED
    BY <1>1, <1>2, <1>3, <1>4, <1>5, <1>6, <1>7, <1>8, <1>9, <1>10, <1>11
    DEF Next, MainStep, Over

(* Control keeps its types whatever its servers and periods are.           *)
THEOREM TypeCorrect == Spec => []TypeOK
BY TypeInit, TypeStep, PTL DEF Spec

-----------------------------------------------------------------------------
LEMMA IInvInit == Init => IInv
BY DEF Init, IInv, NeverTerminates, Sound, Looping, Sockets, RestartsZmq,
       Unrestarted, RestartedOnce, BoundOnce, JoinedBefore

\* What the main thread does.
LEMMA MainPreserves ==
    ASSUME TypeOK, IInv, MainStep \/ Stop
    PROVE  IInv'
<1> DEFINE first == First(todo)
<1> USE DEF TypeOK
<1>1. main \notin {"mux", "gone"} => first \in Servers
    BY FirstIsMember
<1> HIDE DEF first
<1> USE DEF IInv, NeverTerminates, Sound, Looping, Sockets, RestartsZmq,
            Unrestarted, RestartedOnce, BoundOnce, JoinedBefore
<1>2. CASE MuxFrame \/ Stop
    BY <1>2 DEF MuxFrame, Stop
<1>3. CASE CheckFault
  <2>1. RestartsZmq'
    BY <1>1, <1>3 DEF CheckFault, SeesNoFault, LookAtNext, first
  <2> QED BY <1>3, <2>1 DEF CheckFault, LookAtNext
<1>4. CASE Restart
  <2>1. first = "zmq" /\ first \in Servers
    BY <1>1, <1>4 DEF Restart, first
  <2> QED BY <1>4, <2>1 DEF Restart, JoinsRestarter, LookAtNext, first, loop
<1>5. CASE DestroyBegins
  <2>1. first \in Servers
    BY <1>1, <1>5 DEF DestroyBegins
  <2>2. JoinedBefore'
    BY <1>5, <2>1 DEF DestroyBegins, JoinsRestarter, first
  <2> QED BY <1>5, <2>1, <2>2 DEF DestroyBegins
<1>6. CASE JoinRestarter
  <2>1. first \in Servers
    BY <1>1, <1>6 DEF JoinRestarter
  <2> QED BY <1>6, <2>1 DEF JoinRestarter, first
<1>7. CASE JoinChild
  <2>1. first \in Servers /\ restarter[first] = "none"
    BY <1>1, <1>7 DEF JoinChild, first
  <2> QED BY <1>7, <2>1 DEF JoinChild, first
<1> QED BY <1>2, <1>3, <1>4, <1>5, <1>6, <1>7 DEF MainStep

\* What the threads of a server do.
LEMMA ThreadsPreserve ==
    ASSUME TypeOK, IInv, Failing \subseteq {"zmq"}, NEW s \in Servers,
           RestarterStep(s) \/ ChildStep(s) \/ Environment(s)
    PROVE  IInv'
<1> USE DEF TypeOK, IInv, NeverTerminates, Sound, Looping, Sockets, RestartsZmq,
            Unrestarted, RestartedOnce, BoundOnce, JoinedBefore
<1>1. CASE LowerFlag(s)
    BY <1>1 DEF LowerFlag, loop
<1>2. CASE StartChild(s)
    BY <1>2 DEF StartChild, loop
<1>3. CASE Begin(s)
    BY <1>3 DEF Begin, loop
<1>4. CASE Begun(s)
    BY <1>4 DEF Begun, loop
<1>5. CASE Bind(s)
    BY <1>5 DEF Bind, KeepsSocket, loop
<1>6. CASE BindFails(s) \/ ServeFails(s)
  <2>1. child' = [child EXCEPT ![s] = "done"] /\ fault' = [fault EXCEPT ![s] = fault'[s]]
    BY <1>6 DEF BindFails, ServeFails, End
  <2>3. UNCHANGED <<loop, active, restarter, bound, terminated>>
    BY <1>6 DEF BindFails, ServeFails, End
  <2>2. s = "zmq"
    BY <1>6 DEF BindFails, ServeFails
  <2> QED BY <2>1, <2>2, <2>3 DEF loop
<1>7. CASE EndOfLoop(s)
    BY <1>7 DEF EndOfLoop, End, loop
<1>8. CASE Wait(s) \/ Served(s) \/ Accepted(s) \/ Sent(s) \/ Command(s) \/ EndOfSession(s)
    BY <1>8 DEF Wait, Served, Accepted, Sent, Command, EndOfSession, Moves, loop
<1> QED
    BY <1>1, <1>2, <1>3, <1>4, <1>5, <1>6, <1>7, <1>8
    DEF RestarterStep, ChildStep, Environment

(* IInv holds, at any speed of the threads, if the servers that keep their *)
(* socket meet no error (RemoteControl.cpp, ManagementServer.cpp).         *)
THEOREM Invariant == Failing \subseteq {"zmq"} => (Spec => []IInv)
<1> SUFFICES ASSUME Failing \subseteq {"zmq"} PROVE Spec => []IInv
    OBVIOUS
<1>1. TypeOK /\ IInv /\ [Next]_vars => IInv'
  <2>1. IInv /\ UNCHANGED vars => IInv'
    BY DEF IInv, NeverTerminates, Sound, Looping, Sockets, RestartsZmq,
           Unrestarted, RestartedOnce, BoundOnce, JoinedBefore, vars, loop
  <2> QED BY <2>1, MainPreserves, ThreadsPreserve DEF Next, Over
<1> QED BY IInvInit, <1>1, TypeCorrect, PTL DEF Spec

(* When only the ZeroMQ remote control may fail, the program never calls   *)
(* std::terminate: its restarter joins whatever it replaces, its socket is *)
(* a local of its thread, and the other servers are never restarted.       *)
THEOREM SafeRestarts == Failing \subseteq {"zmq"} => (Spec => []NeverTerminates)
<1>1. IInv => NeverTerminates
    BY DEF IInv
<1> QED BY <1>1, Invariant, PTL

-----------------------------------------------------------------------------
(***************************************************************************)
(* Why only a dead ZeroMQ remote control is restarted: a fault is raised   *)
(* by a thread that ends and lowered by one that begins, and while the     *)
(* main loop looks, no restart of the last time is still under way.        *)
(***************************************************************************)
FaultMeansEnded ==
    Looping => \A s \in Servers \cap {"zmq"} : fault[s] => child[s] \in {"done", "new"}

RestartsTheDead ==
    \A s \in Servers \cap {"zmq"} : restarter[s] \in {"flag", "join"} => child[s] = "done"

LooksWhenSettled ==
    main \in {"check", "restart"} => \A s \in todo \cap {"zmq"} :
        restarter[s] \notin {"flag", "join"} /\ child[s] # "new"

SawTheFault == main = "restart" => \A s \in todo \cap {"zmq"} : s = First(todo) => fault[s]

DInv == FaultMeansEnded /\ RestartsTheDead /\ LooksWhenSettled /\ SawTheFault

LEMMA DeadAreRestarted ==
    ASSUME TypeOK, RestartsZmq, DInv
    PROVE  OnlyTheDeadAreRestarted
<1> SUFFICES ASSUME main = "restart" PROVE child[First(todo)] = "done"
    BY DEF OnlyTheDeadAreRestarted
<1>1. First(todo) = "zmq" /\ "zmq" \in todo /\ "zmq" \in Servers
    BY FirstIsMember DEF RestartsZmq, TypeOK
<1>2. fault["zmq"]
    BY <1>1 DEF DInv, SawTheFault
<1> QED BY <1>1, <1>2 DEF DInv, FaultMeansEnded, LooksWhenSettled, Looping

LEMMA DInvInit == Init => DInv
BY DEF Init, DInv, FaultMeansEnded, RestartsTheDead, LooksWhenSettled, SawTheFault

LEMMA MainKeepsDead ==
    ASSUME TypeOK, IInv, DInv, InTime, MainStep \/ Stop
    PROVE  DInv'
<1> DEFINE first == First(todo)
<1> USE DEF TypeOK, DInv, FaultMeansEnded, RestartsTheDead, LooksWhenSettled, SawTheFault, Looping
<1>1. main \notin {"mux", "gone"} => first \in todo /\ first \in Servers
    BY FirstIsMember
<1> HIDE DEF first
<1>2. CASE MuxFrame
  <2>1. \A s \in Due \cap {"zmq"} : Settled(s) /\ s \in Servers
    BY <1>2 DEF MuxFrame, Due, Controllers
  <2> QED BY <1>2, <2>1 DEF MuxFrame, Settled
<1>3. CASE CheckFault
    BY <1>1, <1>3 DEF CheckFault, SeesNoFault, LookAtNext, Rest, first
<1>4. CASE Restart
  <2>1. first = "zmq"
    BY <1>4 DEF Restart, IInv, RestartsZmq, first
  <2>2. child[first] = "done"
    BY <1>4, <2>1, DeadAreRestarted DEF Restart, IInv, OnlyTheDeadAreRestarted, first
  <2>3. /\ restarter' = [restarter EXCEPT !["zmq"] = "flag"]
        /\ todo' = todo \ {"zmq"} /\ main' \in {"mux", "check"}
        /\ UNCHANGED <<fault, child>>
    BY <1>4, <2>1 DEF Restart, JoinsRestarter, LookAtNext, Rest, first
  <2> QED BY <1>4, <2>1, <2>2, <2>3 DEF Restart
<1>5. CASE Stop
    BY <1>5 DEF Stop
<1>6. CASE DestroyBegins
    BY <1>6 DEF DestroyBegins
<1>7. CASE JoinRestarter
    BY <1>1, <1>7 DEF JoinRestarter, first
<1>8. CASE JoinChild
  <2>1. first \in Servers /\ restarter[first] = "none"
    BY <1>1, <1>8 DEF JoinChild, IInv, JoinedBefore, first
  <2> QED BY <1>8, <2>1 DEF JoinChild, first
<1> QED BY <1>2, <1>3, <1>4, <1>5, <1>6, <1>7, <1>8 DEF MainStep

LEMMA ThreadsKeepDead ==
    ASSUME TypeOK, IInv, DInv, NEW s \in Servers,
           RestarterStep(s) \/ ChildStep(s) \/ Environment(s)
    PROVE  DInv'
<1> USE DEF TypeOK, DInv, FaultMeansEnded, RestartsTheDead, LooksWhenSettled, SawTheFault, Looping
<1>1. CASE LowerFlag(s)
    BY <1>1 DEF LowerFlag, loop
<1>2. CASE StartChild(s)
    BY <1>2 DEF StartChild, loop
<1>3. CASE Begin(s)
    BY <1>3 DEF Begin, loop
<1>4. CASE Begun(s)
    BY <1>4 DEF Begun, loop
<1>5. ASSUME NEW flags \in BOOLEAN, End(s, flags), child[s] # "new" PROVE DInv'
  <2>1. /\ child' = [child EXCEPT ![s] = "done"]
        /\ fault' = [fault EXCEPT ![s] = fault[s] \/ flags]
        /\ UNCHANGED <<main, todo, restarter>>
    BY <1>5 DEF End, loop
  <2>2. \A x \in Servers : fault[x] => fault'[x]
    BY <2>1
  <2>3. \A x \in Servers : x # s => fault'[x] = fault[x] /\ child'[x] = child[x]
    BY <2>1
  <2>4. child'[s] = "done"
    BY <2>1
  <2> HIDE DEF TypeOK
  <2>5. todo \subseteq Servers
    BY DEF TypeOK
  <2> QED BY <2>1, <2>2, <2>3, <2>4, <2>5
<1>6. CASE Bind(s)
  <2>1. CASE bound[s]
    BY <1>5, <1>6, <2>1 DEF Bind, BindAgain, loop
  <2>2. CASE ~bound[s]
    BY <1>6, <2>2 DEF Bind, loop
  <2> QED BY <2>1, <2>2
<1>7. CASE BindFails(s) \/ ServeFails(s) \/ EndOfLoop(s)
  <2>1. child[s] # "new" /\ (End(s, s \in FaultAtEnd) \/ End(s, TRUE) \/ End(s, FALSE))
    BY <1>7 DEF BindFails, ServeFails, EndOfLoop
  <2>2. (s \in FaultAtEnd) \in BOOLEAN
    OBVIOUS
  <2> HIDE DEF TypeOK, DInv
  <2> QED BY <1>5, <2>1, <2>2, Zenon
<1>8. CASE Wait(s) \/ Served(s) \/ Accepted(s) \/ Sent(s) \/ Command(s) \/ EndOfSession(s)
    BY <1>8 DEF Wait, Served, Accepted, Sent, Command, EndOfSession, Moves, loop
<1> QED BY <1>1, <1>2, <1>3, <1>4, <1>6, <1>7, <1>8 DEF RestarterStep, ChildStep, Environment

(***************************************************************************)
(* If only the ZeroMQ remote control may fail, and a thread gets through   *)
(* what it does without waiting between two looks of the main loop, a      *)
(* server that still serves is never restarted, so that the main loop      *)
(* never waits in a join for a healthy one (BaseRemoteController::restart).*)
(***************************************************************************)
THEOREM OnlyTheDeadCorrect ==
    Failing \subseteq {"zmq"} /\ InTime => (Spec => []OnlyTheDeadAreRestarted)
<1> SUFFICES ASSUME Failing \subseteq {"zmq"}, InTime
             PROVE  Spec => []OnlyTheDeadAreRestarted
    OBVIOUS
<1>1. TypeOK /\ IInv /\ DInv /\ [Next]_vars => DInv'
  <2>1. DInv /\ UNCHANGED vars => DInv'
    BY DEF DInv, FaultMeansEnded, RestartsTheDead, LooksWhenSettled, SawTheFault, Looping,
           vars, loop
  <2> QED BY <2>1, MainKeepsDead, ThreadsKeepDead DEF Next, Over
<1>2. TypeOK /\ IInv /\ DInv => OnlyTheDeadAreRestarted
    BY DeadAreRestarted DEF IInv
<1> QED BY DInvInit, <1>1, <1>2, Invariant, TypeCorrect, PTL DEF Spec
=============================================================================
