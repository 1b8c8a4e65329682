------------------------------ MODULE MuxTime ------------------------------
(***************************************************************************)
(* Timekeeping of the multiplexer: class MuxTime and the places in         *)
(* DabMultiplexer::mux_frame that read and advance it.                     *)
(*                                                                         *)
(* The multiplexer never looks at the clock again after startup: it adds   *)
(* 24 ms per ETI frame.  Three clocks must agree for ever after:           *)
(*   - the EDI time, edi_time seconds plus pps_offset_ms milliseconds;     *)
(*   - the frame counter, whose value modulo 250 is the FCT field;         *)
(*   - the MNSC time, advanced one second at a time on frames whose phase  *)
(*     is a multiple of four.                                              *)
(*                                                                         *)
(* Two threads are modelled: the main loop, which samples the timestamp at *)
(* the start of a frame, encodes the MNSC in the middle and increments the *)
(* timestamp at the end, and the remote control, which may set tist_offset *)
(* between any two of these steps.  Each call into MuxTime is one step.    *)
(***************************************************************************)
EXTENDS Integers

CONSTANTS
    StartTimes,   \* wall-clock times, in ms, at which prepare() may run
    TistAtFct0,   \* general.tist_at_fct0 of the configuration, in ms
    TistOffset,   \* general.tist_offset of the configuration, in ms
    RcOffsets,    \* values the remote control may set tist_offset to, in ms
    MaxFrames,    \* bound: number of ETI frames generated
    MaxRcCommands, \* bound: number of times tist_offset is set
    RcFrames       \* bound: tist_offset is set within this many frames

ASSUME StartTimesAssumption == StartTimes \subseteq Nat
ASSUME TistAtFct0Assumption == TistAtFct0 \in 0..999
ASSUME TistOffsetAssumption == TistOffset \in Nat
ASSUME RcOffsetsAssumption  == RcOffsets \subseteq Int
ASSUME BoundsAssumption     ==
    MaxFrames \in Nat /\ MaxRcCommands \in Nat /\ RcFrames \in Nat

FrameMs == 24     \* duration of one ETI frame

VARIABLES
    edi_time,             \* m_edi_time, seconds
    pps_offset_ms,        \* m_pps_offset_ms
    tist_offset_ms,       \* m_tist_offset_ms
    mnsc_increment_time,  \* a second has passed since the MNSC time advanced
    mnsc_time,            \* mnsc_time, seconds
    currentFrame,         \* DabMultiplexer::currentFrame
    stamp,                \* timestamp and edi_time sampled for this frame
    pc,                   \* where the main loop is inside mux_frame
    start,                \* wall-clock time of startup, in ms
    frames,               \* frames completed since startup
    rcCommands            \* times tist_offset has been set

vars == <<edi_time, pps_offset_ms, tist_offset_ms, mnsc_increment_time,
          mnsc_time, currentFrame, stamp, pc, start, frames, rcCommands>>

muxTime == <<edi_time, pps_offset_ms, mnsc_increment_time>>

(***************************************************************************)
(* The EDI time as one number, and the frame header fields that derive     *)
(* from the counter.                                                       *)
(***************************************************************************)
EdiMs == 1000 * edi_time + pps_offset_ms
StampMs(s) == 1000 * s.seconds + s.tist
FCT == currentFrame % 250
FP  == currentFrame % 8

\* std::lround(ms / 24.0) * 24 for a non-negative ms.
RoundToFrame(ms) == FrameMs * ((ms + 12) \div FrameMs)
RoundDownToFrame(ms) == FrameMs * (ms \div FrameMs)

\* get_tist_seconds(): the TIST, in ms, and the EDI seconds.
TistSeconds == [tist |-> pps_offset_ms % 1000, seconds |-> edi_time]

-----------------------------------------------------------------------------
(* Startup: MuxTime::init and the lines of prepare() around it.            *)

\* Mutant: the counter ignores where in the second the program starts.
InitialCounterNoPhase(pps) == (250 - TistAtFct0 \div FrameMs) % 250

InitialCounter(pps) == (250 - TistAtFct0 \div FrameMs + pps \div FrameMs) % 250

Init ==
    /\ start \in StartTimes
    /\ tist_offset_ms = TistOffset
    /\ edi_time = (start + TistOffset) \div 1000
    /\ pps_offset_ms = RoundToFrame((start + TistOffset) % 1000)
    /\ currentFrame = InitialCounter(pps_offset_ms)
    /\ mnsc_increment_time = FALSE
    /\ mnsc_time = edi_time
    /\ stamp = TistSeconds
    /\ pc = "top"
    /\ frames = 0
    /\ rcCommands = 0

-----------------------------------------------------------------------------
(***************************************************************************)
(* Advance by some whole seconds and n calls of increment_timestamp(): n   *)
(* times 24 ms, and one second, flagged for the MNSC, each time the        *)
(* millisecond part reaches 1000.                                          *)
(***************************************************************************)
Carries(n) == IF n = 0 THEN 0 ELSE (pps_offset_ms + FrameMs * n) \div 1000

\* Mutant: the millisecond part is reset instead of reduced by 1000.
AdvanceResets(seconds, n) ==
    /\ edi_time' = edi_time + seconds + Carries(n)
    /\ pps_offset_ms' = IF Carries(n) > 0 THEN 0
                        ELSE pps_offset_ms + FrameMs * n
    /\ mnsc_increment_time' = (mnsc_increment_time \/ Carries(n) > 0)

Advance(seconds, n) ==
    /\ edi_time' = edi_time + seconds + Carries(n)
    /\ pps_offset_ms' = pps_offset_ms + FrameMs * n - 1000 * Carries(n)
    /\ mnsc_increment_time' = (mnsc_increment_time \/ Carries(n) > 0)

\* mux_frame samples the timestamp once, before anything else.
SampleTist ==
    /\ pc = "top"
    /\ frames < MaxFrames
    /\ stamp' = TistSeconds
    /\ pc' = "mnsc"
    /\ UNCHANGED <<muxTime, tist_offset_ms, mnsc_time, currentFrame, start,
                   frames, rcCommands>>

\* Mutant: the pending second is consumed but not applied.
EncodeMnscDrops ==
    /\ pc = "mnsc"
    /\ mnsc_increment_time' = IF FP % 4 = 0 THEN FALSE ELSE mnsc_increment_time
    /\ pc' = "increment"
    /\ UNCHANGED <<mnsc_time, edi_time, pps_offset_ms, tist_offset_ms,
                   currentFrame, stamp, start, frames, rcCommands>>

\* The MNSC time moves only on frames that carry no time, FP & 3 = 0.
EncodeMnsc ==
    /\ pc = "mnsc"
    /\ IF FP % 4 = 0 /\ mnsc_increment_time
       THEN /\ mnsc_increment_time' = FALSE
            /\ mnsc_time' = mnsc_time + 1
       ELSE UNCHANGED <<mnsc_increment_time, mnsc_time>>
    /\ pc' = "increment"
    /\ UNCHANGED <<edi_time, pps_offset_ms, tist_offset_ms, currentFrame,
                   stamp, start, frames, rcCommands>>

\* The end of mux_frame: increment_timestamp() and currentFrame++.
FinishFrame ==
    /\ pc = "increment"
    /\ Advance(0, 1)
    /\ currentFrame' = currentFrame + 1
    /\ frames' = frames + 1
    /\ pc' = "top"
    /\ UNCHANGED <<tist_offset_ms, mnsc_time, stamp, start, rcCommands>>

-----------------------------------------------------------------------------
(***************************************************************************)
(* set_tist_offset(), called by the remote control thread.  The code       *)
(* computes delta = old - new, then advances by frames until delta is used *)
(* up, after going back whole seconds if delta is negative.                *)
(***************************************************************************)
CeilDiv(a, b) == (a + b - 1) \div b

SetTistOffset(new) ==
    LET delta == tist_offset_ms - new
        back  == IF delta < 0 THEN CeilDiv(-delta, 1000) ELSE 0
    IN  /\ rcCommands < MaxRcCommands /\ frames < RcFrames
        /\ rcCommands' = rcCommands + 1
        /\ Advance(-back, CeilDiv(delta + 1000 * back, FrameMs))
        /\ tist_offset_ms' = new
        /\ UNCHANGED <<mnsc_time, currentFrame, stamp, pc, start, frames>>

\* The program may be stopped, or reach general.nbframes, after any frame.
Finished ==
    /\ pc = "top"
    /\ frames = MaxFrames
    /\ UNCHANGED vars

Next ==
    \/ SampleTist
    \/ EncodeMnsc
    \/ FinishFrame
    \/ \E new \in RcOffsets : SetTistOffset(new)
    \/ Finished

Spec == Init /\ [][Next]_vars

-----------------------------------------------------------------------------
(* Type correctness.  A startup in the last four milliseconds of a second  *)
(* rounds to 1008, so the millisecond part may be 1000 or more until the   *)
(* first increment.                                                        *)

TypeOK ==
    /\ edi_time \in Int
    /\ pps_offset_ms \in 0..1008
    /\ tist_offset_ms \in Int
    /\ mnsc_increment_time \in BOOLEAN
    /\ mnsc_time \in Int
    /\ currentFrame \in Nat
    /\ stamp \in [tist : 0..999, seconds : Int]
    /\ pc \in {"top", "mnsc", "increment"}
    /\ start \in Nat
    /\ frames \in Nat
    /\ rcCommands \in 0..MaxRcCommands

\* The remote control has left tist_offset alone.
Undisturbed == rcCommands = 0

(***************************************************************************)
(* "TIST of frame 0 = tist_at_fct0_ms", to the frame: every frame with FCT *)
(* 0 carries the configured TIST, for ever, as long as the remote control  *)
(* leaves tist_offset alone.  The comment in init() promises no more.      *)
(***************************************************************************)
TistAtFct0Kept ==
    (Undisturbed /\ pc # "top" /\ FCT = 0) => stamp.tist = RoundDownToFrame(TistAtFct0)

(***************************************************************************)
(* Consecutive frames are stamped 24 ms apart, second boundaries included: *)
(* the TIST and the EDI seconds wrap together.                             *)
(***************************************************************************)
StampsAdvanceByOneFrame ==
    [][(Undisturbed /\ pc = "top" /\ pc' = "mnsc" /\ frames > 0)
         => StampMs(stamp') = StampMs(stamp) + FrameMs]_vars

(***************************************************************************)
(* The MNSC time is the EDI seconds, late by the second that waits for the *)
(* next frame of phase 0: no second is lost or counted twice although the  *)
(* pending second is only a flag.                                          *)
(***************************************************************************)
MnscFollowsEdi ==
    Undisturbed => mnsc_time + (IF mnsc_increment_time THEN 1 ELSE 0) = edi_time

(***************************************************************************)
(* "Difference between current time and EDI time = tist_offset", up to the *)
(* granularity of a frame: what a receiver decodes from a frame is the     *)
(* wall-clock time of that frame plus the offset.  The code establishes    *)
(* this at startup; the first formula asks it of every frame, also after a *)
(* change of tist_offset.                                                  *)
(***************************************************************************)
Wall == start + FrameMs * frames
StampNearWall ==
    pc = "mnsc" => /\ StampMs(stamp) - (Wall + tist_offset_ms) < FrameMs
                   /\ StampMs(stamp) - (Wall + tist_offset_ms) > -FrameMs
StampIsWallPlusOffset == Undisturbed => StampNearWall
=============================================================================
