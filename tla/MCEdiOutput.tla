---------------------------- MODULE MCEdiOutput ----------------------------
(***************************************************************************)
(* The two EDI outputs with threads of their own: the TCP server           *)
(* (EdiSender) and the TCP client (TcpSendClient).  They have nothing in   *)
(* common but the sender thread, so each behaviour is one of them alone    *)
(* (kind), the variables of the other staying as they start.               *)
(***************************************************************************)
EXTENDS EdiSender

CONSTANTS MaxClientQueue, MaxWrites   \* of TcpSendClient

VARIABLES
    kind,
    writer, written, m_queue, wakeup_requested, m_running, clientThread, clientItem,
    m_is_connected, alive, clientGot

clientVars == <<writer, written, m_queue, wakeup_requested, m_running, clientThread, clientItem,
                m_is_connected, alive, clientGot>>
allVars == <<kind, vars, clientVars>>

Client == INSTANCE TcpSendClient WITH
    MaxQueue <- MaxClientQueue, thread <- clientThread, item <- clientItem, got <- clientGot

OutputInit == kind \in {"server", "client"} /\ Init /\ Client!Init

NotServer == UNCHANGED <<kind, clientVars>>
NotClient == UNCHANGED <<kind, vars>>
OutputNext ==
    \/ kind = "server" /\ Next /\ NotServer
    \/ kind = "client" /\ Client!Next /\ NotClient

Alone(A) == kind = "server" /\ ~Terminated /\ A /\ NotServer

\* The fairness of EdiSender and TcpSendClient.
OutputFairness ==
    /\ SF_allVars(Alone(SendAfPacket)) /\ SF_allVars(Alone(GetStats))
    /\ WF_allVars(Alone(Stopping))
    /\ SF_allVars(Alone(Sender)) /\ WF_allVars(Alone(TimePasses))
    /\ WF_allVars(Alone(PushPreroll \/ EndListener))
    /\ \A c \in Clients : WF_allVars(Alone(WaitAndPop(c) \/ GiveUp(c)))
    /\ WF_allVars(kind = "client" /\ (Client!Discard \/ Client!Stopping) /\ NotClient)
    /\ WF_allVars(kind = "client" /\ Client!Thread /\ clientThread # "send" /\ NotClient)

OutputSpec == OutputInit /\ [][OutputNext]_allVars /\ OutputFairness

-----------------------------------------------------------------------------
\* No queue grows without limit because nobody takes from it.
AllQueuesBounded == QueuesBounded /\ Client!QueueBounded

\* What waits to be sent is what was transmitted last, without a hole, and comes behind
\* what was received.
AllContiguous == (kind = "server" => StreamContiguous) /\ Client!NewestWait

\* Neither the mutex of the spreader, which the sender holds while it waits for the threads of
\* the connections it destroys, nor that of the dispatcher stops the main loop for ever, and
\* the destructors of server and client come to an end: however slow the clients are, and
\* unless one takes nothing for good of a packet that is being sent.
NothingHangs ==
    /\ kind = "server" => Leaves({"write"}) /\ Leaves({"stats"})
    /\ StopCompletes /\ Client!StopCompletes
=============================================================================
