---------------------------- MODULE TcpSendClient ----------------------------
(***************************************************************************)
(* The EDI output with a TCP client: the sender thread leaves packets in   *)
(* the queue of Socket::TCPSendClient, whose own thread connects to the    *)
(* remote, sends them, and connects again when that fails.  Packets are    *)
(* numbered in the order of the writes.                                    *)
(***************************************************************************)
EXTENDS Integers, Sequences

CONSTANTS
    MaxQueue,    \* MAX_QUEUE_SIZE
    MaxWrites    \* bound on the packets written

VARIABLES
    writer,      \* sendall of the sender thread, and then the destructor
    written,     \* packets written so far
    m_queue, wakeup_requested,   \* the ThreadsafeQueue
    m_running,
    thread,      \* TCPSendClient::process
    item,        \* the packet it is sending, or 0
    m_is_connected,
    alive,       \* whether what is sent over the connection arrives
    got          \* the last packet the remote received

queue == <<m_queue, wakeup_requested>>
connection == <<m_is_connected, alive, got>>
vars == <<writer, written, queue, m_running, thread, item, connection>>

Init ==
    /\ writer = "write" /\ written = 0
    /\ m_queue = <<>> /\ wakeup_requested = FALSE
    /\ m_running = TRUE /\ thread = "loop" /\ item = 0
    /\ m_is_connected = FALSE /\ alive = FALSE /\ got = 0

-----------------------------------------------------------------------------
(* The sender thread; its exceptions are for an error of the other thread  *)
(* that cannot happen, since connect handles its own.                      *)

Push ==
    /\ writer = "write" /\ written < MaxWrites
    /\ written' = written + 1
    /\ m_queue' = Append(m_queue, written')
    /\ writer' = "discard"
    /\ UNCHANGED <<wakeup_requested, m_running, thread, item, connection>>

\* Mutant: the newest packet is discarded.
DiscardNewest ==
    /\ writer = "discard" /\ writer' = "write"
    /\ m_queue' = IF Len(m_queue) > MaxQueue THEN SubSeq(m_queue, 1, Len(m_queue) - 1) ELSE m_queue
    /\ UNCHANGED <<written, wakeup_requested, m_running, thread, item, connection>>

\* The mutex is free in between: the thread may have taken a packet.
Discard ==
    /\ writer = "discard" /\ writer' = "write"
    /\ m_queue' = IF Len(m_queue) > MaxQueue THEN Tail(m_queue) ELSE m_queue
    /\ UNCHANGED <<written, wakeup_requested, m_running, thread, item, connection>>

Destroy ==
    /\ writer = "write" /\ writer' = "wake"
    /\ m_running' = FALSE
    /\ UNCHANGED <<written, queue, thread, item, connection>>

TriggerWakeup ==
    /\ writer = "wake" /\ writer' = "join"
    /\ wakeup_requested' = TRUE
    /\ UNCHANGED <<written, m_queue, m_running, thread, item, connection>>

Join ==
    /\ writer = "join" /\ thread = "ended"
    /\ writer' = "ended"
    /\ UNCHANGED <<written, queue, m_running, thread, item, connection>>

-----------------------------------------------------------------------------
(* The thread of the client *)

Loop ==
    /\ thread = "loop"
    /\ thread' = IF ~m_running THEN "ended" ELSE IF m_is_connected THEN "wait" ELSE "connect"
    /\ UNCHANGED <<writer, written, queue, m_running, item, connection>>

\* A wakeup comes before the packets that are left.
WaitAndPop ==
    /\ thread = "wait"
    /\ IF wakeup_requested
       THEN wakeup_requested' = FALSE /\ thread' = "ended" /\ UNCHANGED <<m_queue, item>>
       ELSE /\ m_queue # <<>>
            /\ item' = Head(m_queue) /\ m_queue' = Tail(m_queue) /\ thread' = "send"
            /\ UNCHANGED wakeup_requested
    /\ UNCHANGED <<writer, written, m_running, connection>>

\* send() accepts the packet: of a connection that is dead it is lost.
Sent ==
    /\ thread = "send" /\ thread' = "loop"
    /\ got' = IF alive THEN item ELSE got
    /\ item' = 0
    /\ UNCHANGED <<writer, written, queue, m_running, m_is_connected, alive>>

\* The packet is not sent again.
SendFails ==
    /\ thread = "send" /\ ~alive
    /\ thread' = "loop"
    /\ item' = 0 /\ m_is_connected' = FALSE
    /\ UNCHANGED <<writer, written, queue, m_running, alive, got>>

ConnectSucceeds ==
    /\ thread = "connect" /\ thread' = "loop"
    /\ m_is_connected' = TRUE /\ alive' = TRUE
    /\ UNCHANGED <<writer, written, queue, m_running, item, got>>

ConnectFails ==
    /\ thread = "connect" /\ thread' = "sleep"
    /\ UNCHANGED <<writer, written, queue, m_running, item, connection>>

EndSleep ==
    /\ thread = "sleep" /\ thread' = "loop"
    /\ UNCHANGED <<writer, written, queue, m_running, item, connection>>

Thread ==
    \/ Loop \/ WaitAndPop \/ Sent \/ SendFails
    \/ ConnectSucceeds \/ ConnectFails \/ EndSleep

-----------------------------------------------------------------------------
\* The remote, or the network in front of it, goes away.
Break ==
    /\ alive /\ alive' = FALSE
    /\ UNCHANGED <<writer, written, queue, m_running, thread, item, m_is_connected, got>>

Stopping == TriggerWakeup \/ Join
Next == Push \/ Discard \/ Destroy \/ Stopping \/ Thread \/ Break
Spec == Init /\ [][Next]_vars

\* The threads go on, but a remote need not take what is sent to it.
Fairness ==
    /\ WF_vars(Discard \/ Stopping)
    /\ WF_vars(Thread /\ thread # "send")
FairSpec == Spec /\ Fairness

-----------------------------------------------------------------------------
QueueBounded == Len(m_queue) <= MaxQueue + 1

\* What waits is the newest there is, without a gap: after an outage the remote gets the last
\* MaxQueue packets, not the first ones of the outage.  And what the remote has is older, so
\* that it gets no packet twice or out of order, over however many connections.
NewestWait ==
    /\ \A i \in 1..(Len(m_queue) - 1) : m_queue[i + 1] = m_queue[i] + 1
    /\ m_queue # <<>> => m_queue[Len(m_queue)] = written
    /\ item # 0 => got < item /\ (m_queue # <<>> => item < m_queue[1])
    /\ m_queue # <<>> => got < m_queue[1]

\* The destructor comes to an end, unless the thread hangs for good in a send to a remote that
\* takes nothing.
StopCompletes == []<>(writer \notin {"wake", "join"}) \/ <>[](thread = "send")
=============================================================================
