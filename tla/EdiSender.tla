----------------------------- MODULE EdiSender -----------------------------
(***************************************************************************)
(* The EDI output with a TCP server: the main loop leaves the fragments of *)
(* a frame in the PFT spreader, the sender thread transmits the ones that  *)
(* are due through the dispatcher, the listener accepts clients, and each  *)
(* connection has a queue and a thread of its own.                         *)
(*                                                                         *)
(* m_pending_frames is an ordered map of times; all that matters is how    *)
(* many fragments it holds and how many of them are due.  Transmitted      *)
(* packets are numbered modulo WireMod.                                    *)
(***************************************************************************)
EXTENDS Integers, Sequences

CONSTANTS
    Clients,      \* that connect, one connection each at a time
    Fcount,       \* fragments per frame, 1 without PFT
    MaxPending,   \* bound on m_pending_frames
    MaxQueue,     \* m_max_queue_size
    Preroll,      \* m_buffers_to_preroll
    WireMod,      \* packets are told apart modulo this number
    ListenerFails \* whether the listener may meet an error

ASSUME SenderAssumption ==
    /\ Fcount \in Nat \ {0} /\ MaxPending \in Nat
    /\ MaxQueue \in Nat \ {0} /\ Preroll \in Nat
    /\ MaxQueue + Preroll + 2 < WireMod /\ WireMod \in Nat
    /\ ListenerFails \in BOOLEAN

\* What the places of the threads are called besides the clients.
ASSUME NamesAssumption == Clients \intersect {"nobody", "accept", "ended"} = {}

Marker == -1   \* the empty vector that terminates a connection
Nothing == -2

VARIABLES
    main,        \* the main loop, and then the destructors
    senderRunning, sender, burst,   \* Sender::m_running, Sender::run, packets left in this tick
    pending, due,                   \* m_pending_frames
    spreaderLock, dispatcherLock,   \* the thread that holds the mutex
    running, listener,              \* TCPDataDispatcher::m_running, ::process
    wire,        \* number of the last packet transmitted
    preroll,     \* m_preroll_queue
    thread,      \* TCPConnection::process of a client, "none" without a connection
    connRunning, \* TCPConnection::m_running
    queue,       \* TCPConnection::queue
    item,        \* the packet a connection is sending
    got,         \* the last packet the client received whole
    victim       \* the connection being destroyed

spreader == <<pending, due, spreaderLock>>
dispatcher == <<running, wire, preroll, dispatcherLock>>
connections == <<thread, connRunning, queue, item, got>>
vars == <<main, senderRunning, sender, burst, spreader, dispatcher, listener,
          connections, victim>>

Init ==
    /\ main = "write" /\ senderRunning = TRUE /\ sender = "sleep" /\ burst = 0
    /\ pending = 0 /\ due = 0
    /\ spreaderLock = "free" /\ dispatcherLock = "free"
    /\ running = TRUE /\ listener = "accept"
    /\ wire = 0 /\ preroll = <<>>
    /\ thread = [c \in Clients |-> "none"]
    /\ connRunning = [c \in Clients |-> FALSE]
    /\ queue = [c \in Clients |-> <<>>]
    /\ item = [c \in Clients |-> Nothing]
    /\ got = [c \in Clients |-> Nothing]
    /\ victim = "nobody"

Open == {c \in Clients : thread[c] # "none"}
After(n) == (n + 1) % WireMod

-----------------------------------------------------------------------------
(* A connection is pushed to, loses its thread, and is destroyed. *)

\* Mutant: the marker alone tells the thread to end.
CloseByMarker(c) ==
    /\ victim' = c
    /\ queue' = [queue EXCEPT ![c] = Append(@, Marker)]
    /\ UNCHANGED <<thread, connRunning, item, got>>

\* ~TCPConnection begins: the flag, and the marker behind what is queued.
Close(c) ==
    /\ victim' = c
    /\ connRunning' = [connRunning EXCEPT ![c] = FALSE]
    /\ queue' = [queue EXCEPT ![c] = Append(@, Marker)]
    /\ UNCHANGED <<thread, item, got>>

\* ~TCPConnection ends when the thread has.
Joined ==
    /\ thread[victim] = "ended"
    /\ thread' = [thread EXCEPT ![victim] = "none"]
    /\ queue' = [queue EXCEPT ![victim] = <<>>]
    /\ item' = [item EXCEPT ![victim] = Nothing]
    /\ got' = [got EXCEPT ![victim] = Nothing]
    /\ victim' = "nobody"
    /\ UNCHANGED connRunning

-----------------------------------------------------------------------------
(* Main loop: one frame, then the statistics; and shutdown. *)

\* The first fragment is due at once, the others later.
SendAfPacket ==
    /\ main = "write" /\ spreaderLock = "free"
    /\ pending + Fcount <= MaxPending
    /\ pending' = pending + Fcount /\ due' = due + 1
    /\ main' = "stats"
    /\ UNCHANGED <<senderRunning, sender, burst, spreaderLock, dispatcher, listener,
                   connections, victim>>

GetStats ==
    /\ main = "stats" /\ dispatcherLock = "free"
    /\ main' = "write"
    /\ UNCHANGED <<senderRunning, sender, burst, spreader, dispatcher, listener,
                   connections, victim>>

StopSender ==
    /\ main = "write"
    /\ main' = "joinSender" /\ senderRunning' = FALSE
    /\ UNCHANGED <<sender, burst, spreader, dispatcher, listener, connections, victim>>

StopDispatcher ==
    /\ main = "joinSender" /\ sender = "ended"
    /\ main' = "joinListener" /\ running' = FALSE
    /\ UNCHANGED <<senderRunning, sender, burst, spreader, wire, preroll, dispatcherLock,
                   listener, connections, victim>>

JoinListener ==
    /\ main = "joinListener" /\ listener = "ended"
    /\ main' = "close"
    /\ UNCHANGED <<senderRunning, sender, burst, spreader, dispatcher, listener,
                   connections, victim>>

\* m_connections.clear()
CloseNext ==
    /\ main = "close" /\ victim = "nobody"
    /\ \E c \in Open : Close(c)
    /\ UNCHANGED <<main, senderRunning, sender, burst, spreader, dispatcher, listener>>

JoinNext ==
    /\ main = "close" /\ victim # "nobody" /\ Joined
    /\ UNCHANGED <<main, senderRunning, sender, burst, spreader, dispatcher, listener>>

Destroyed ==
    /\ main = "close" /\ Open = {}
    /\ main' = "ended"
    /\ UNCHANGED <<senderRunning, sender, burst, spreader, dispatcher, listener,
                   connections, victim>>

Stopping == StopDispatcher \/ JoinListener \/ CloseNext \/ JoinNext \/ Destroyed
Main == SendAfPacket \/ GetStats \/ StopSender \/ Stopping

-----------------------------------------------------------------------------
(* The sender thread *)

TimePasses ==
    /\ due < pending /\ due' = due + 1
    /\ UNCHANGED <<main, senderRunning, sender, burst, pending, spreaderLock, dispatcher,
                   listener, connections, victim>>

\* The time is read before the mutex is taken: what becomes due in between
\* waits for the next tick.
ReadTime ==
    /\ sender = "sleep" /\ senderRunning
    /\ burst' = due /\ sender' = "lock"
    /\ UNCHANGED <<main, senderRunning, spreader, dispatcher, listener, connections, victim>>

BeginTick ==
    /\ sender = "lock" /\ spreaderLock = "free"
    /\ sender' = "tick" /\ spreaderLock' = "sender"
    /\ UNCHANGED <<main, senderRunning, burst, pending, due, dispatcher, listener,
                   connections, victim>>

EndTick ==
    /\ sender = "tick" /\ burst = 0
    /\ sender' = "sleep" /\ spreaderLock' = "free"
    /\ UNCHANGED <<main, senderRunning, burst, pending, due, dispatcher, listener,
                   connections, victim>>

EndSender ==
    /\ sender = "sleep" /\ ~senderRunning
    /\ sender' = "ended"
    /\ UNCHANGED <<main, senderRunning, burst, spreader, dispatcher, listener,
                   connections, victim>>

\* TCPDataDispatcher::write begins: the packet joins the preroll.
BeginWrite ==
    /\ sender = "tick" /\ burst > 0
    /\ running /\ dispatcherLock = "free"
    /\ dispatcherLock' = "sender" /\ sender' = "push"
    /\ wire' = After(wire)
    /\ preroll' = IF Len(preroll) < Preroll THEN Append(preroll, wire')
                  ELSE IF Preroll = 0 THEN <<>> ELSE Append(Tail(preroll), wire')
    /\ UNCHANGED <<main, senderRunning, burst, spreader, running, listener, connections, victim>>

\* Nobody catches the exception of write(), and the program ends.
WriteThrows ==
    /\ sender = "tick" /\ burst > 0 /\ ~running
    /\ sender' = "terminated" /\ main' = "terminated"
    /\ UNCHANGED <<senderRunning, burst, spreader, dispatcher, listener, connections, victim>>

PushToAll ==
    /\ sender = "push"
    /\ sender' = "remove"
    /\ queue' = [c \in Clients |-> IF c \in Open THEN Append(queue[c], wire) ELSE queue[c]]
    /\ UNCHANGED <<main, senderRunning, burst, spreader, dispatcher, listener,
                   thread, connRunning, item, got, victim>>

\* Mutant: connections whose thread has ended are left alone.
OverfullAndRunning(c) == c \in Open /\ connRunning[c] /\ Len(queue[c]) > MaxQueue

Overfull(c) == c \in Open /\ Len(queue[c]) > MaxQueue

\* remove_if destroys the connections whose client does not keep up.
RemoveOverfull ==
    /\ sender = "remove" /\ victim = "nobody"
    /\ \E c \in Clients : Overfull(c) /\ Close(c)
    /\ UNCHANGED <<main, senderRunning, sender, burst, spreader, dispatcher, listener>>

JoinOverfull ==
    /\ sender = "remove" /\ victim # "nobody" /\ Joined
    /\ UNCHANGED <<main, senderRunning, sender, burst, spreader, dispatcher, listener>>

EndWrite ==
    /\ sender = "remove" /\ victim = "nobody" /\ \A c \in Clients : ~Overfull(c)
    /\ sender' = "tick" /\ dispatcherLock' = "free"
    /\ burst' = burst - 1 /\ pending' = pending - 1 /\ due' = due - 1
    /\ UNCHANGED <<main, senderRunning, spreaderLock, running, wire, preroll, listener,
                   connections, victim>>

Sender ==
    \/ ReadTime \/ BeginTick \/ EndTick \/ EndSender
    \/ BeginWrite \/ WriteThrows \/ PushToAll
    \/ RemoveOverfull \/ JoinOverfull \/ EndWrite

-----------------------------------------------------------------------------
(* The listener *)

\* Mutant: the connection joins the list before the mutex is taken.
AcceptUnlocked(c) ==
    /\ listener = "accept" /\ running /\ thread[c] = "none"
    /\ listener' = c /\ UNCHANGED dispatcherLock
    /\ thread' = [thread EXCEPT ![c] = "wait"]
    /\ connRunning' = [connRunning EXCEPT ![c] = TRUE]
    /\ UNCHANGED <<main, senderRunning, sender, burst, spreader, running, wire, preroll,
                   queue, item, got, victim>>

Accept(c) ==
    /\ listener = "accept" /\ running /\ thread[c] = "none" /\ dispatcherLock = "free"
    /\ listener' = c /\ dispatcherLock' = "listener"
    /\ thread' = [thread EXCEPT ![c] = "wait"]
    /\ connRunning' = [connRunning EXCEPT ![c] = TRUE]
    /\ UNCHANGED <<main, senderRunning, sender, burst, spreader, running, wire, preroll,
                   queue, item, got, victim>>

PushPreroll ==
    /\ listener \in Clients
    /\ queue' = [queue EXCEPT ![listener] = @ \o preroll]
    /\ listener' = "accept" /\ dispatcherLock' = "free"
    /\ UNCHANGED <<main, senderRunning, sender, burst, spreader, running, wire, preroll,
                   thread, connRunning, item, got, victim>>

AcceptFails ==
    /\ ListenerFails /\ listener = "accept" /\ running
    /\ listener' = "ended" /\ running' = FALSE
    /\ UNCHANGED <<main, senderRunning, sender, burst, spreader, wire, preroll, dispatcherLock,
                   connections, victim>>

EndListener ==
    /\ listener = "accept" /\ ~running
    /\ listener' = "ended"
    /\ UNCHANGED <<main, senderRunning, sender, burst, spreader, dispatcher,
                   connections, victim>>

-----------------------------------------------------------------------------
(* The thread of a connection *)

NotOthers == UNCHANGED <<main, senderRunning, sender, burst, spreader, dispatcher, listener, victim>>

WaitAndPop(c) ==
    /\ thread[c] = "wait" /\ queue[c] # <<>>
    /\ queue' = [queue EXCEPT ![c] = Tail(@)]
    /\ IF Head(queue[c]) = Marker
       THEN /\ thread' = [thread EXCEPT ![c] = "ended"]
            /\ connRunning' = [connRunning EXCEPT ![c] = FALSE]
            /\ UNCHANGED item
       ELSE /\ thread' = [thread EXCEPT ![c] = IF connRunning[c] THEN "poll" ELSE "ended"]
            /\ item' = [item EXCEPT ![c] = Head(queue[c])]
            /\ UNCHANGED connRunning
    /\ UNCHANGED got /\ NotOthers

\* poll() reports room: ::send on the blocking socket begins.
PollReady(c) ==
    /\ thread[c] = "poll"
    /\ thread' = [thread EXCEPT ![c] = "send"]
    /\ UNCHANGED <<connRunning, queue, item, got>> /\ NotOthers

\* ::send returns when there was room for the whole packet: it may take its time, as long as
\* the client takes nothing.
Sent(c) ==
    /\ thread[c] = "send"
    /\ thread' = [thread EXCEPT ![c] = IF connRunning[c] THEN "wait" ELSE "ended"]
    /\ got' = [got EXCEPT ![c] = item[c]]
    /\ item' = [item EXCEPT ![c] = Nothing]
    /\ UNCHANGED <<connRunning, queue>> /\ NotOthers

\* When poll() times out, after ten milliseconds, the thread looks at m_running.
GiveUp(c) ==
    /\ thread[c] = "poll" /\ ~connRunning[c]
    /\ thread' = [thread EXCEPT ![c] = "ended"]
    /\ UNCHANGED <<connRunning, queue, item, got>> /\ NotOthers

SendFails(c) ==
    /\ thread[c] \in {"poll", "send"}
    /\ thread' = [thread EXCEPT ![c] = "ended"]
    /\ connRunning' = [connRunning EXCEPT ![c] = FALSE]
    /\ UNCHANGED <<queue, item, got>> /\ NotOthers

-----------------------------------------------------------------------------
Terminated == main = "terminated"

Next ==
    /\ ~Terminated
    /\ \/ Main \/ Sender \/ TimePasses
       \/ PushPreroll \/ AcceptFails \/ EndListener
       \/ \E c \in Clients :
            \/ Accept(c) \/ WaitAndPop(c)
            \/ PollReady(c) \/ Sent(c) \/ GiveUp(c) \/ SendFails(c)

Spec == Init /\ [][Next]_vars

\* Every thread goes on.  The sender sleeps between two ticks with both
\* mutexes free, so that the main loop gets them (strong fairness); clients
\* need not connect, take their packets or stay.
Threads ==
    /\ SF_vars(~Terminated /\ SendAfPacket) /\ SF_vars(~Terminated /\ GetStats)
    /\ WF_vars(~Terminated /\ Stopping)
    /\ SF_vars(~Terminated /\ Sender) /\ WF_vars(~Terminated /\ TimePasses)
    /\ WF_vars(~Terminated /\ (PushPreroll \/ EndListener))
    /\ \A c \in Clients : WF_vars(~Terminated /\ (WaitAndPop(c) \/ GiveUp(c)))

FairSpec == Spec /\ Threads
-----------------------------------------------------------------------------
\* What a connection has sent, is sending and has queued.
Optional(n) == IF n = Nothing THEN <<>> ELSE <<n>>
Packets(q) == IF q # <<>> /\ q[Len(q)] = Marker THEN SubSeq(q, 1, Len(q) - 1) ELSE q
Stream(c) == Optional(got[c]) \o Optional(item[c]) \o Packets(queue[c])

\* A client receives a piece of the sequence of transmitted packets without a
\* hole or a repetition, up to the last one: the preroll that
\* TCPDataDispatcher::process gives a new connection and the packets that
\* write() pushes fit together, and no packet is skipped for a slow client.
StreamContiguous ==
    \A c \in Open :
        /\ \A i \in 1..(Len(Stream(c)) - 1) : Stream(c)[i + 1] = After(Stream(c)[i])
        /\ Stream(c) # <<>> /\ sender # "push" => Stream(c)[Len(Stream(c))] = wire

\* A client that does not keep up, or whose thread has ended without anybody
\* looking, is removed when its queue overflows: no queue holds more than one
\* packet more than allowed, and the marker.
QueuesBounded ==
    \A c \in Clients : Len(queue[c]) <= (IF Preroll > MaxQueue THEN Preroll ELSE MaxQueue) + 2

\* The thread that is being joined is in a ::send that does not return.
Stalled == \E c \in Clients : victim = c /\ thread[c] = "send"

\* The main loop leaves these places again and again, unless a client stalls for good in the
\* middle of a packet.
Leaves(places) == []<>(main \notin places) \/ <>[]Stalled

\* The destructors of Sender, TCPDataDispatcher and TCPConnection come to an end, whatever the
\* threads they join are doing, unless one is in a ::send to a client that takes nothing and
\* stays: a packet larger than what is free in the buffers of the connection.
StopCompletes == Leaves({"joinSender", "joinListener", "close"})

\* Without that exception they do not: between poll() and the return of ::send m_running is
\* not looked at.
StopAlwaysCompletes == main = "joinSender" ~> main = "ended" \/ Terminated
=============================================================================
