----------------------------- MODULE InputStat -----------------------------
(***************************************************************************)
(* The statistics of one input (InputStat of src/src/ManagementServer.cpp) *)
(* and the state that the management server derives from them when it is   *)
(* asked: NoData, Unstable, Silence or Streaming.                          *)
(*                                                                         *)
(* A tick is one frame of the multiplexer, in which the input reports its  *)
(* buffer once.  Instants are kept as ages in ticks, capped where nothing  *)
(* tells them apart any more; a buffer is empty or not, an audio level     *)
(* above the threshold of silence or not.  The counts since startup, the   *)
(* timestamp offset and the version of the encoder are left out, since     *)
(* they are only shown.                                                    *)
(***************************************************************************)
EXTENDS Integers, FiniteSets

CONSTANTS
    Threshold,      \* INPUT_UNSTABLE_THRESHOLD
    ResetTime,      \* INPUT_COUNTER_RESET_TIME, in ticks as the next three
    BufferKeep,     \* BUFFER_STATS_KEEP_DURATION
    PeakKeep,       \* PEAK_STATS_KEEP_DURATION
    ShortWindow,    \* PEAK_STATS_SHORT_WINDOW
    SilenceCount,   \* INPUT_AUDIO_LEVEL_SILENCE_COUNT
    Saturation,     \* INPUT_AUDIO_LEVEL_COUNT_SATURATION
    PollPeriod,     \* bound: the management server is asked at least this often
    MaxBad          \* bound: empty buffers, quiet levels, overruns and underruns

VARIABLES
    m_buffer_fill_stats,    \* {[age, full]}
    m_peak_stats,           \* {[age, left, right]}: whether each channel is loud
    m_glitch_counter,
    m_silence_counter,
    m_time_last_event,      \* its age
    state,                  \* the last answer of determineState
    bad, sincePoll,         \* of the environment
    fed,        \* history: the age of the last buffer that was not empty
    calm,       \* history: the age of the last overrun or underrun
    chain,      \* history: how many came one within ResetTime of the other
    linked,     \* history: the same with what a poll may come late added
    loudRun, quietRun       \* history: levels in a row with both channels loud, left quiet

statVars == <<m_buffer_fill_stats, m_peak_stats, m_glitch_counter, m_silence_counter,
              m_time_last_event, state, bad, sincePoll, fed, calm, chain, linked, loudRun, quietRun>>

StatsOK ==
    /\ {Threshold, ResetTime, BufferKeep, PeakKeep, ShortWindow, SilenceCount, Saturation,
        PollPeriod, MaxBad} \subseteq Nat
    /\ ShortWindow <= PeakKeep /\ SilenceCount < Saturation

UpTo(bound, n) == IF n < bound THEN n ELSE bound
Late == ResetTime + PollPeriod

Init ==
    /\ m_buffer_fill_stats = {} /\ m_peak_stats = {}
    /\ m_glitch_counter = 0 /\ m_silence_counter = 0
    /\ m_time_last_event = 0 /\ state = "NoData"
    /\ bad = 0 /\ sincePoll = 0
    /\ fed = BufferKeep + 1 /\ calm = Late + 1
    /\ chain = 0 /\ linked = 0 /\ loudRun = 0 /\ quietRun = 0

Spend(isBad) == isBad => bad < MaxBad
Count(isBad) == bad' = IF isBad THEN bad + 1 ELSE bad

\* prune_statistics.
Recent(stats, keep) == {s \in stats : s.age <= keep}
PrunedBuffers(stats) == Recent(stats, BufferKeep)

\* notifyBuffer.
Reported == \E s \in m_buffer_fill_stats : s.age = 0
NotifyBuffer(full) ==
    /\ ~Reported /\ Spend(~full) /\ Count(~full)
    /\ m_buffer_fill_stats' = PrunedBuffers(m_buffer_fill_stats \union {[age |-> 0, full |-> full]})
    /\ m_peak_stats' = Recent(m_peak_stats, PeakKeep)
    /\ fed' = IF full THEN 0 ELSE fed
    /\ UNCHANGED <<m_glitch_counter, m_silence_counter, m_time_last_event, state, sincePoll,
                   calm, chain, linked, loudRun, quietRun>>

\* The peak over the short window of each channel; the lower one counts.
LowerPeakIsLoud(stats) ==
    LET short == Recent(stats, ShortWindow)
    IN  (\E s \in short : s.left) /\ (\E s \in short : s.right)

OneStepUp(counter) == UpTo(Saturation, counter + 1)
OneStepDown(counter) == IF counter > 0 THEN counter - 1 ELSE 0

\* notifyPeakLevels; the first level since the list was emptied is not counted.
NotifyPeakLevels(left, right) ==
    LET stats == Recent(m_peak_stats \union {[age |-> 0, left |-> left, right |-> right]}, PeakKeep)
        counted == Cardinality(stats) >= 2
    IN  /\ \A s \in m_peak_stats : s.age > 0
        /\ Spend(~(left /\ right)) /\ Count(~(left /\ right))
        /\ m_peak_stats' = stats
        /\ m_buffer_fill_stats' = PrunedBuffers(m_buffer_fill_stats)
        /\ m_silence_counter' = IF ~counted THEN m_silence_counter
                                ELSE IF LowerPeakIsLoud(stats) THEN OneStepDown(m_silence_counter)
                                ELSE OneStepUp(m_silence_counter)
        /\ loudRun' = IF counted /\ left /\ right THEN UpTo(Saturation, loudRun + 1) ELSE 0
        /\ quietRun' = IF counted /\ ~left THEN UpTo(MaxBad, quietRun + 1) ELSE 0
        /\ UNCHANGED <<m_glitch_counter, m_time_last_event, state, sincePoll, fed, calm, chain, linked>>

\* What notifyUnderrun and notifyOverrun have in common.
Glitch ==
    /\ Spend(TRUE) /\ Count(TRUE)
    /\ m_time_last_event' = 0
    /\ m_glitch_counter' = UpTo(Threshold, m_glitch_counter + 1)
    /\ calm' = 0
    /\ chain' = IF calm > ResetTime THEN 1 ELSE UpTo(Threshold, chain + 1)
    /\ linked' = IF calm > Late THEN 1 ELSE UpTo(Threshold, linked + 1)
    /\ UNCHANGED <<m_buffer_fill_stats, m_silence_counter, state, sincePoll, fed>>

\* notifyUnderrun: with the counter full the levels are cleared, for none come any more.
NotifyUnderrun ==
    /\ Glitch
    /\ IF m_glitch_counter < Threshold
       THEN UNCHANGED <<m_peak_stats, loudRun, quietRun>>
       ELSE m_peak_stats' = {} /\ loudRun' = 0 /\ quietRun' = 0

\* notifyOverrun.
NotifyOverrun == Glitch /\ UNCHANGED <<m_peak_stats, loudRun, quietRun>>

\* Mutant: the timeout is never looked at.
GlitchesKept == m_glitch_counter

\* The counter at the time of a poll: it is reset here and nowhere else.
GlitchesNow == IF m_time_last_event > ResetTime THEN 0 ELSE m_glitch_counter

\* determineState, called by encodeValues when the management server is asked for values.
DetermineState ==
    LET buffers == PrunedBuffers(m_buffer_fill_stats)
    IN  /\ m_buffer_fill_stats' = buffers
        /\ m_peak_stats' = Recent(m_peak_stats, PeakKeep)
        /\ m_glitch_counter' = GlitchesNow
        /\ state' = IF \A s \in buffers : ~s.full THEN "NoData"
                    ELSE IF GlitchesNow >= Threshold THEN "Unstable"
                    ELSE IF m_silence_counter > SilenceCount THEN "Silence"
                    ELSE "Streaming"
        /\ sincePoll' = 0
        /\ UNCHANGED <<m_silence_counter, m_time_last_event, bad, fed, calm, chain, linked,
                       loudRun, quietRun>>

\* The next frame.
Older(stats) == {[s EXCEPT !.age = @ + 1] : s \in stats}
TimePasses ==
    /\ Reported /\ sincePoll < PollPeriod
    /\ m_buffer_fill_stats' = Older(m_buffer_fill_stats)
    /\ m_peak_stats' = Older(m_peak_stats)
    /\ m_time_last_event' = UpTo(ResetTime + 1, m_time_last_event + 1)
    /\ sincePoll' = sincePoll + 1
    /\ fed' = UpTo(BufferKeep + 1, fed + 1)
    /\ calm' = UpTo(Late + 1, calm + 1)
    /\ UNCHANGED <<m_glitch_counter, m_silence_counter, state, bad, chain, linked, loudRun, quietRun>>

Next ==
    \/ \E full \in BOOLEAN : NotifyBuffer(full)
    \/ \E left, right \in BOOLEAN : NotifyPeakLevels(left, right)
    \/ NotifyUnderrun
    \/ NotifyOverrun
    \/ DetermineState
    \/ TimePasses

-----------------------------------------------------------------------------
(* What the answer to a poll is worth.                                     *)

\* ManagementServer.cpp:677: NoData exactly if every buffer was empty for BufferKeep.
NoDataIsTrue == (state' = "NoData") <=> fed > BufferKeep

\* ManagementServer.cpp:56: an input whose glitches come one within ResetTime of the other is
\* reported, and one reported had glitches so close that a poll could not tell them apart
\* from such ones, the last of them within ResetTime.
UnstableIsTrue ==
    /\ fed <= BufferKeep /\ chain = Threshold /\ calm <= ResetTime => state' = "Unstable"
    /\ state' = "Unstable" => linked = Threshold /\ calm <= ResetTime

\* ManagementServer.cpp:44: silence in one channel is reported once it has lasted, and is no
\* longer reported when the saturated counter has had the time to come down again.
SilenceIsTrue ==
    /\ loudRun >= Saturation - SilenceCount => state' # "Silence"
    /\ quietRun > ShortWindow + SilenceCount => state' # "Streaming"

StateIsTrue == NoDataIsTrue /\ UnstableIsTrue /\ SilenceIsTrue

\* Each answer of determineState agrees with the events of the input.
AnswersAreTrue == [][DetermineState => StateIsTrue]_statVars
=============================================================================
