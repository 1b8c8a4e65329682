------------------------------ MODULE EdiInput ------------------------------
(***************************************************************************)
(* The network input of one subchannel: class Inputs::Edi.                 *)
(*                                                                         *)
(* Three threads meet here.  The receiver thread decodes STI frames and    *)
(* puts them into m_frames, blocking while the queue is full.  The main    *)
(* loop calls readFrame once per 24 ms and always gets an answer, a frame  *)
(* or silence, under one of two buffer managements: prebuffering, which    *)
(* ignores timestamps, or timestamped.  The remote control changes the     *)
(* buffer management and the levels at any moment.                         *)
(*                                                                         *)
(* Every operation on the queue is one step, since the queue takes its     *)
(* mutex in each of them; other threads run between two such operations of *)
(* the same readFrame.                                                     *)
(*                                                                         *)
(* Times are in ticks of half a frame.  The timestamp requested by the     *)
(* main loop advances by one frame per call.  Once every frame of the      *)
(* source is in the past the clock stops, because nothing distinguishes    *)
(* late from later.                                                        *)
(***************************************************************************)
EXTENDS Integers, Sequences

CONSTANTS
    SourceFrames,   \* bound: number of frames the source sends
    Kinds,          \* what each frame of the source may be, see Frame
    Phase,          \* timestamp of frame 0, in ticks
    TistDelays,     \* values of the parameter tistdelay, in ticks
    Buffers,        \* values of the parameter buffer
    Prebufferings,  \* values of the parameter prebuffering
    Managements,    \* values of the parameter buffermanagement
    Configurations, \* what the configuration may say of these four
    MaxRcCommands,  \* bound: number of parameter changes
    SizeModulus     \* 2^64, the number of values of a size_t

ConstantsOK ==
    /\ SourceFrames \in Nat /\ Phase \in Nat /\ TistDelays \subseteq Int
    /\ Kinds \in [0..(SourceFrames - 1) -> SUBSET [right : BOOLEAN, valid : BOOLEAN]]
    /\ Buffers \subseteq Nat /\ Prebufferings \subseteq Nat
    /\ SizeModulus \in Nat
    /\ \A b \in Buffers : 2 * b < SizeModulus \div 2
    /\ \A p \in Prebufferings : p <= SizeModulus \div 2
    /\ Managements \subseteq {"prebuffering", "timestamped"}
    /\ Configurations \subseteq [buffer : Buffers, prebuffering : Prebufferings,
                                 management : Managements, delay : TistDelays]
    /\ MaxRcCommands \in Nat

FrameTicks == 2

(***************************************************************************)
(* An STI frame: its number in the source, whether it has the size of the  *)
(* subchannel, and whether its timestamp is valid.                         *)
(***************************************************************************)
Frame == [id : 0..(SourceFrames - 1), right : BOOLEAN, valid : BOOLEAN]
NoFrame == [id |-> -1, right |-> FALSE, valid |-> FALSE]

VARIABLES
    m_frames,                   \* the queue
    m_max_frames_overrun,       \* parameter buffer
    m_num_frames_prebuffering,  \* parameter prebuffering
    m_bufferManagement,         \* parameter buffermanagement
    m_tist_delay,               \* parameter tistdelay
    m_is_prebuffering,
    m_pending_sti_frame,        \* NoFrame when its data is empty
    m_running,
    sent,          \* frames of the source sent so far
    receiver,      \* where the receiver thread is
    incoming,      \* the frame being pushed
    threshold,     \* the threshold given to push_wait_if_full
    reader,        \* where the main loop is inside readFrame
    management,    \* the buffer management this readFrame was called for
    sti,           \* the frame popped by this readFrame
    over_max,      \* loop counter of the overrun
    levels,        \* the levels that the overrun of this readFrame has read
    clock,         \* calls of readFrame so far; stops at ClockEnd
    result,        \* what the last completed readFrame returned
    played,        \* the last frame that was not silence, its call and its delay
    rcCommands     \* parameter changes so far

parameters == <<m_max_frames_overrun, m_num_frames_prebuffering, m_bufferManagement,
                m_tist_delay>>
receiverVars == <<sent, receiver, incoming, threshold>>
vars == <<m_frames, parameters, m_is_prebuffering, m_pending_sti_frame,
          m_running, receiverVars, reader, management, sti, over_max, levels, clock,
          result, played, rcCommands>>

(***************************************************************************)
(* Timestamps.  Offset is ts_req.diff_s(timestamp), with the tist delay    *)
(* added to the request: positive when the frame is late.                  *)
(***************************************************************************)
Timestamp(f) == FrameTicks * f.id + Phase
Requested == FrameTicks * clock
Offset(f) == Requested + m_tist_delay - Timestamp(f)

\* The least delay, when it is negative, is what a frame may be the latest by.
LeastDelay == CHOOSE d \in TistDelays : \A e \in TistDelays : d <= e
ClockEnd == SourceFrames + Phase + (IF LeastDelay < 0 THEN -LeastDelay ELSE 0) + 2

NoLevels == [limit |-> 0, low |-> 0]

Init ==
    /\ m_frames = <<>>
    /\ \E c \in Configurations :
         /\ m_max_frames_overrun = c.buffer
         /\ m_num_frames_prebuffering = c.prebuffering
         /\ m_bufferManagement = c.management
         /\ m_tist_delay = c.delay
    /\ m_is_prebuffering = TRUE
    /\ m_pending_sti_frame = NoFrame
    /\ m_running = TRUE
    /\ sent = 0
    /\ receiver = "receiving"
    /\ incoming = NoFrame
    /\ threshold = 0
    /\ reader = "idle"
    /\ management = m_bufferManagement
    /\ sti = NoFrame
    /\ over_max = 0
    /\ levels = NoLevels
    /\ clock = 0
    /\ result = NoFrame
    /\ played = [frame |-> NoFrame, at |-> 0, by |-> "nobody", delay |-> 0]
    /\ rcCommands = 0

-----------------------------------------------------------------------------
(* The receiver thread: m_run, the decoder callback, push_wait_if_full.    *)

\* A frame of the source arrives, decodes and is handed to the callback.
Receive ==
    /\ receiver = "receiving" /\ m_running
    /\ sent < SourceFrames
    /\ \E k \in Kinds[sent] :
         incoming' = [id |-> sent, right |-> k.right, valid |-> k.valid]
    /\ sent' = sent + 1
    /\ threshold' = 2 * m_max_frames_overrun
    /\ receiver' = "pushing"
    /\ UNCHANGED <<m_frames, parameters, m_is_prebuffering, m_pending_sti_frame,
                   m_running, reader, management, sti, over_max, levels, clock, result,
                   played, rcCommands>>

\* A frame of the source is lost on the way.
Lose ==
    /\ receiver = "receiving" /\ m_running
    /\ sent < SourceFrames
    /\ sent' = sent + 1
    /\ UNCHANGED <<m_frames, parameters, m_is_prebuffering, m_pending_sti_frame,
                   m_running, receiver, incoming, threshold, reader, management,
                   sti, over_max, levels, clock, result, played, rcCommands>>

\* push_wait_if_full: append below the threshold, else wait for a pop.
Push ==
    /\ receiver = "pushing"
    /\ IF Len(m_frames) < threshold
       THEN /\ m_frames' = Append(m_frames, incoming)
            /\ receiver' = "receiving"
            /\ incoming' = NoFrame
       ELSE /\ receiver' = "waiting"
            /\ UNCHANGED <<m_frames, incoming>>
    /\ UNCHANGED <<parameters, m_is_prebuffering, m_pending_sti_frame, m_running,
                   sent, threshold, reader, management, sti, over_max, levels, clock,
                   result, played, rcCommands>>

\* The loop of m_run ends once it is back at its condition.
ReceiverExits ==
    /\ receiver = "receiving" /\ ~m_running
    /\ receiver' = "exited"
    /\ UNCHANGED <<m_frames, parameters, m_is_prebuffering, m_pending_sti_frame,
                   m_running, sent, incoming, threshold, reader, management, sti,
                   over_max, levels, clock, result, played, rcCommands>>

-----------------------------------------------------------------------------
(***************************************************************************)
(* The queue, as the main loop uses it.  A successful try_pop notifies the *)
(* receiver thread, which looks at the length again.                       *)
(***************************************************************************)

TryPop(f) ==
    IF m_frames = <<>> THEN /\ f' = f /\ UNCHANGED <<m_frames, receiver>>
    ELSE /\ f' = Head(m_frames)
         /\ m_frames' = Tail(m_frames)
         /\ receiver' = IF receiver = "waiting" THEN "pushing" ELSE receiver

Silence ==
    /\ result' = NoFrame
    /\ reader' = "idle"
    /\ UNCHANGED played

Play(f) ==
    /\ result' = f
    /\ reader' = "idle"
    /\ played' = [frame |-> f, at |-> clock', by |-> management', delay |-> m_tist_delay]

unread == <<parameters, m_running, sent, incoming, threshold, rcCommands>>

\* The main loop is about to generate its next frame.
NextCall ==
    /\ reader = "idle" /\ m_running
    /\ clock' = IF clock < ClockEnd THEN clock + 1 ELSE clock
    /\ management' = m_bufferManagement

-----------------------------------------------------------------------------
(* readFrame(buffer, size): prebuffering.                                  *)

\* Mutant: the level must be exceeded, not reached.
ReadPrebufferingAbove ==
    /\ NextCall /\ m_bufferManagement = "prebuffering"
    /\ m_is_prebuffering
    /\ m_is_prebuffering' = (Len(m_frames) <= m_num_frames_prebuffering)
    /\ Silence
    /\ UNCHANGED <<m_frames, receiver, m_pending_sti_frame, sti, over_max, levels, unread>>

\* Filling: silence, until a call finds the prebuffering level reached.
ReadPrebuffering ==
    /\ NextCall /\ m_bufferManagement = "prebuffering"
    /\ m_is_prebuffering
    /\ m_is_prebuffering' = (Len(m_frames) < m_num_frames_prebuffering)
    /\ Silence
    /\ UNCHANGED <<m_frames, receiver, m_pending_sti_frame, sti, over_max, levels, unread>>

\* A frame is left over from timestamped buffer management.
ReadPending ==
    /\ NextCall /\ m_bufferManagement = "prebuffering"
    /\ ~m_is_prebuffering /\ m_pending_sti_frame # NoFrame
    /\ IF m_pending_sti_frame.right
       THEN /\ Play(m_pending_sti_frame)
            /\ m_pending_sti_frame' = NoFrame
       ELSE /\ Silence
            /\ UNCHANGED m_pending_sti_frame
    /\ UNCHANGED <<m_frames, receiver, m_is_prebuffering, sti, over_max, levels, unread>>

ReadQueue ==
    /\ NextCall /\ m_bufferManagement = "prebuffering"
    /\ ~m_is_prebuffering /\ m_pending_sti_frame = NoFrame
    /\ m_frames # <<>>
    /\ TryPop(sti)
    /\ IF sti'.right
       THEN reader' = "popped" /\ UNCHANGED <<result, played>>
       ELSE Silence
    /\ UNCHANGED <<m_is_prebuffering, m_pending_sti_frame, over_max, levels, unread>>

\* Underrun: start filling again.
ReadEmpty ==
    /\ NextCall /\ m_bufferManagement = "prebuffering"
    /\ ~m_is_prebuffering /\ m_pending_sti_frame = NoFrame
    /\ m_frames = <<>>
    /\ m_is_prebuffering' = TRUE
    /\ Silence
    /\ UNCHANGED <<m_frames, receiver, m_pending_sti_frame, sti, over_max, levels, unread>>

readVars == <<m_is_prebuffering, m_pending_sti_frame, management, clock, unread>>

\* After a frame of the right size: is the queue above the overrun level?
CheckOverrun ==
    /\ reader = "popped"
    /\ UNCHANGED <<m_frames, receiver, over_max, readVars>>
    /\ IF Len(m_frames) > m_max_frames_overrun
       THEN /\ reader' = "overrun" /\ levels' = [levels EXCEPT !.limit = m_max_frames_overrun]
            /\ UNCHANGED <<result, played, sti>>
       ELSE Play(sti) /\ sti' = NoFrame /\ UNCHANGED levels

\* Mutant: one frame too many is dropped.
MeasureOverrunPlusOne ==
    /\ reader = "overrun"
    /\ over_max' = (Len(m_frames) - m_num_frames_prebuffering + 1) % SizeModulus
    /\ levels' = [levels EXCEPT !.low = m_num_frames_prebuffering]
    /\ reader' = "dropping"
    /\ UNCHANGED <<m_frames, receiver, result, played, sti, readVars>>

\* size_t over_max = m_frames.size() - m_num_frames_prebuffering;
MeasureOverrun ==
    /\ reader = "overrun"
    /\ over_max' = (Len(m_frames) - m_num_frames_prebuffering) % SizeModulus
    /\ levels' = [levels EXCEPT !.low = m_num_frames_prebuffering]
    /\ reader' = "dropping"
    /\ UNCHANGED <<m_frames, receiver, result, played, sti, readVars>>

\* The unsigned difference was negative: some 2^64 turns, which no program ends.
Wrapped == over_max >= SizeModulus \div 2

\* One turn of while (over_max--): drop a frame, or finish.
DropOne ==
    /\ reader = "dropping" /\ over_max > 0
    /\ over_max' = IF Wrapped THEN over_max ELSE over_max - 1
    /\ m_frames' = IF m_frames = <<>> THEN <<>> ELSE Tail(m_frames)
    /\ receiver' = IF receiver = "waiting" /\ m_frames # <<>> THEN "pushing"
                   ELSE receiver
    /\ UNCHANGED <<reader, result, played, sti, levels, readVars>>

DropDone ==
    /\ reader = "dropping" /\ over_max = 0
    /\ UNCHANGED <<m_frames, receiver, over_max, readVars>>
    /\ levels' = NoLevels
    /\ Play(sti) /\ sti' = NoFrame

-----------------------------------------------------------------------------
(* readFrame(buffer, size, seconds, utco, tsta): timestamped.              *)

\* Make sure that there is a pending frame, if the queue has one.
ReadTimestamped ==
    /\ NextCall /\ m_bufferManagement = "timestamped"
    /\ IF m_pending_sti_frame = NoFrame THEN TryPop(m_pending_sti_frame)
       ELSE UNCHANGED <<m_frames, receiver, m_pending_sti_frame>>
    /\ reader' = "judging"
    /\ UNCHANGED <<m_is_prebuffering, result, played, sti, over_max, levels, unread>>

judgeVars == <<sti, over_max, levels, management, clock, unread>>

OnTime(f) == 0 <= Offset(f) /\ Offset(f) < FrameTicks
Playable(f) == f.right /\ f.valid

\* Locking: wait for a frame in the future, discard what is useless.
LockWaits ==
    /\ reader = "judging" /\ m_is_prebuffering
    /\ LET f == m_pending_sti_frame
       IN  f = NoFrame \/ (Playable(f) /\ Offset(f) < 0)
    /\ Silence
    /\ UNCHANGED <<m_frames, receiver, m_is_prebuffering, m_pending_sti_frame, judgeVars>>

LockDiscards ==
    /\ reader = "judging" /\ m_is_prebuffering
    /\ m_pending_sti_frame # NoFrame
    /\ ~Playable(m_pending_sti_frame) \/ Offset(m_pending_sti_frame) >= FrameTicks
    /\ IF m_frames = <<>>
       THEN m_pending_sti_frame' = NoFrame /\ UNCHANGED <<m_frames, receiver>>
       ELSE TryPop(m_pending_sti_frame)
    /\ UNCHANGED <<reader, m_is_prebuffering, result, played, judgeVars>>

Lock ==
    /\ reader = "judging" /\ m_is_prebuffering
    /\ UNCHANGED <<m_frames, receiver, judgeVars>>
    /\ Playable(m_pending_sti_frame) /\ OnTime(m_pending_sti_frame)
    /\ Play(m_pending_sti_frame)
    /\ m_is_prebuffering' = FALSE
    /\ m_pending_sti_frame' = NoFrame

\* Mutant: the window of a locked input excludes an exact match.
StreamTooStrict ==
    /\ reader = "judging" /\ ~m_is_prebuffering
    /\ UNCHANGED <<m_frames, receiver, judgeVars>>
    /\ LET f == m_pending_sti_frame
       IN  IF f # NoFrame /\ f.valid /\ 0 < Offset(f) /\ Offset(f) < FrameTicks
           THEN Play(f) /\ UNCHANGED m_is_prebuffering
           ELSE /\ Silence
                /\ m_is_prebuffering' = (m_is_prebuffering \/ f = NoFrame \/ f.valid)
    /\ m_pending_sti_frame' = NoFrame

\* Locked: play a frame on time; an empty queue or a frame out of bounds
\* loses the lock, an invalid timestamp does not.  The size is not looked at.
Stream ==
    /\ reader = "judging" /\ ~m_is_prebuffering
    /\ UNCHANGED <<m_frames, receiver, judgeVars>>
    /\ LET f == m_pending_sti_frame
       IN  IF f # NoFrame /\ f.valid /\ OnTime(f)
           THEN Play(f) /\ UNCHANGED m_is_prebuffering
           ELSE /\ Silence
                /\ m_is_prebuffering' = (f = NoFrame \/ f.valid)
    /\ m_pending_sti_frame' = NoFrame

-----------------------------------------------------------------------------
(* The remote control, and the end of the program.                         *)

SetParameter ==
    /\ rcCommands < MaxRcCommands
    /\ rcCommands' = rcCommands + 1
    /\ \/ /\ \E b \in Buffers : m_max_frames_overrun' = b
          /\ UNCHANGED <<m_num_frames_prebuffering, m_bufferManagement, m_tist_delay>>
       \/ /\ \E p \in Prebufferings : m_num_frames_prebuffering' = p
          /\ UNCHANGED <<m_max_frames_overrun, m_bufferManagement, m_tist_delay>>
       \/ /\ \E bm \in Managements : m_bufferManagement' = bm
          /\ UNCHANGED <<m_max_frames_overrun, m_num_frames_prebuffering, m_tist_delay>>
       \/ /\ \E d \in TistDelays : m_tist_delay' = d
          /\ UNCHANGED <<m_max_frames_overrun, m_num_frames_prebuffering, m_bufferManagement>>
    /\ UNCHANGED <<m_frames, m_is_prebuffering, m_pending_sti_frame, m_running,
                   receiverVars, reader, management, sti, over_max, levels, clock,
                   result, played>>

\* ~Edi, called once the main loop has ended: stop the receiver and join it.
Stop ==
    /\ reader = "idle" /\ m_running
    /\ m_running' = FALSE
    /\ UNCHANGED <<m_frames, parameters, m_is_prebuffering, m_pending_sti_frame,
                   receiverVars, reader, management, sti, over_max, levels, clock,
                   result, played, rcCommands>>

Join ==
    /\ reader = "idle" /\ ~m_running /\ receiver = "exited"
    /\ reader' = "joined"
    /\ UNCHANGED <<m_frames, parameters, m_is_prebuffering, m_pending_sti_frame,
                   m_running, receiverVars, management, sti, over_max, levels, clock,
                   result, played, rcCommands>>

\* One call of readFrame is a Read and the steps that Continue it.
Read ==
    \/ ReadPrebuffering \/ ReadPending \/ ReadQueue \/ ReadEmpty
    \/ ReadTimestamped
Continue ==
    \/ CheckOverrun \/ MeasureOverrun \/ DropOne \/ DropDone
    \/ LockWaits \/ LockDiscards \/ Lock \/ Stream
Receiver == Receive \/ Lose \/ Push \/ ReceiverExits

Next == Read \/ Continue \/ Receiver \/ SetParameter \/ Stop \/ Join

Spec == Init /\ [][Next]_vars

(***************************************************************************)
(* Fairness: both threads are scheduled.  Nothing makes the source send,   *)
(* the operator type, or the program stop.                                 *)
(***************************************************************************)
FairSpec ==
    /\ Spec
    /\ WF_vars(Read) /\ WF_vars(Continue) /\ WF_vars(Join)
    /\ WF_vars(Push) /\ WF_vars(ReceiverExits)

-----------------------------------------------------------------------------
(***************************************************************************)
(* The abstract source of frames that this input implements: what is held  *)
(* is in the queue, on its way into it, pending, or in hand.               *)
(***************************************************************************)
InHand == reader \in {"popped", "overrun", "dropping"}
HeldFrames ==
    {m_frames[i] : i \in DOMAIN m_frames} \union {incoming, m_pending_sti_frame}
        \union (IF InHand THEN {sti} ELSE {})
Held == {f.id : f \in HeldFrames \ {NoFrame}}

(***************************************************************************)
(* "If the buffer is too full, we drop as many frames as needed to get     *)
(* down to the prebuffering size": the loop never drops below the          *)
(* prebuffering size it has read, whatever the receiver pushes and the     *)
(* remote control changes meanwhile, unless that size is more than one     *)
(* frame above the overrun level that the same call has read: nothing      *)
(* compares the two, and the loop may then throw away all there is and all *)
(* that comes, without end.                                                *)
(***************************************************************************)
OverrunKeepsPrebuffering ==
    reader = "dropping" =>
        IF Wrapped THEN levels.low > levels.limit + 1
        ELSE Len(m_frames) - over_max >= levels.low

(***************************************************************************)
(* "A protection against runaway memory usage": the queue never holds more *)
(* than twice the largest buffer size that was ever set.                   *)
(***************************************************************************)
QueueBounded ==
    \E b \in Buffers : Len(m_frames) <= 2 * b

\* The queue stays between the levels of both comments.
QueueLevels == OverrunKeepsPrebuffering /\ QueueBounded

(***************************************************************************)
(* A locked input plays without gaps: when the frame after the one just    *)
(* played is pending at the next call, that call plays it.  The window     *)
(* that locks and the window that keeps the lock agree, however the frames *)
(* of the source lie with respect to those of the multiplexer.  A delay    *)
(* that is another one than when the last frame was played moves the       *)
(* window, and may lose the lock.                                          *)
(***************************************************************************)
Locked ==
    /\ played.by = "timestamped" /\ ~m_is_prebuffering
    /\ result = played.frame /\ clock = played.at + 1
    /\ m_tist_delay = played.delay
NextIsPending ==
    /\ reader = "judging" /\ m_pending_sti_frame.valid
    /\ m_pending_sti_frame.id = played.frame.id + 1
NoGapWhileLocked ==
    [][Locked /\ NextIsPending /\ reader' = "idle"
         => played'.frame = m_pending_sti_frame]_vars

(***************************************************************************)
(* "We should not wait here": while the main loop reads, a receiver that   *)
(* waits for room gets it.                                                 *)
(***************************************************************************)
ReceiverNotStuck == (receiver = "waiting" /\ m_running) ~> (receiver # "waiting" \/ ~m_running)

(***************************************************************************)
(* "May clear the buffer if no data bytes available": silence is for want  *)
(* of data.  When prebuffering is over and good frames are in the queue,   *)
(* one of them is played or the parameters change.                         *)
(***************************************************************************)
GoodFramesWaiting ==
    /\ m_running /\ m_bufferManagement = "prebuffering"
    /\ Len(m_frames) >= m_num_frames_prebuffering /\ Len(m_frames) > 0
    /\ \A i \in DOMAIN m_frames : m_frames[i].right
DataGetsPlayed ==
    \A i \in 0..(SourceFrames - 1) :
      (GoodFramesWaiting /\ Head(m_frames).id = i)
        ~> (played.frame.id >= i \/ ~GoodFramesWaiting)
=============================================================================
