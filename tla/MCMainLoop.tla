----------------------------- MODULE MCMainLoop -----------------------------
(***************************************************************************)
(* What DabMultiplexer::mux_frame does in every frame besides its data:    *)
(* the timestamps (MuxTime), the offset of TAI from UTC (ClockTAI), and    *)
(* the outputs (Outputs).  They share nothing but the frame they are in,   *)
(* so each behaviour is one of them alone (kind).                          *)
(***************************************************************************)
EXTENDS MuxTime, Sequences, FiniteSets

CONSTANTS Bulletins, Overrides, Hosts, TenYears, IntMax, MaxTime, MaxRestarts,     \* of ClockTAI
          Configs, Counters, MaxEtiFrames, MaxFailures,                 \* of Outputs
          Kinds

VARIABLES
    kind,
    now, tai_clock_offset, m_bulletin_urls, m_bulletin, m_state, m_state_last_updated,
    m_offset_future, cache, main, loader, bulletins, urls, looked, known, unread, ruled, apart,
    taiCommands, restarts,
    config, startCounter, phase, next, call, outputs, edi, counter, loopCounter, returnCode,
    content, position, nbFrames_, broken, zmq_message, meta_, published, sent, failures

Entry(from, offset) == [from |-> from, offset |-> offset]
MCBulletins ==
    {[entries |-> <<Entry(-1, 37)>>, expires_at |-> 3],
     [entries |-> <<Entry(-1, 37), Entry(4, 38)>>, expires_at |-> 8],
     [entries |-> <<>>, expires_at |-> 8]}

Clock == INSTANCE ClockTAI WITH MaxRcCommands <- 2, rcCommands <- taiCommands

Disk(proto, type) == [uid |-> proto, proto |-> proto, type |-> type, metadata |-> FALSE]
Zmq(metadata) == [uid |-> "zeromq", proto |-> "zmq", type |-> "none", metadata |-> metadata]
Udp == Disk("udp", "none")
Edi == Disk("edi", "none")
Config(list, nbframes, tist) == [outputs |-> list, nbframes |-> nbframes, tist |-> tist]
MCConfigs ==
    {Config(<<Disk(proto, type), zmq>>, 0, tist) :
        proto \in {"file", "fifo"}, type \in {"framed", "streamed", "raw"},
        zmq \in {Zmq(TRUE), Zmq(FALSE)}, tist \in BOOLEAN}
    \union {Config(<<Zmq(TRUE), Edi, Disk("file", "framed")>>, 2, TRUE),
            Config(<<Udp, Disk("file", "framed")>>, 0, TRUE),
            Config(<<Udp, Disk("file", "framed"), Udp>>, 0, TRUE),
            Config(<<Edi>>, 0, TRUE), Config(<<Disk("unknown", "none")>>, 0, FALSE)}

Out == INSTANCE Outputs WITH MaxFrames <- MaxEtiFrames, start <- startCounter, pc <- phase,
                             currentFrame <- loopCounter

ASSUME ConfigsAssumption == Out!ConfigsOK

clockVars == <<now, tai_clock_offset, m_bulletin_urls, m_bulletin, m_state, m_state_last_updated,
               m_offset_future, cache, main, loader, bulletins, urls, looked, known, unread, ruled, apart,
               taiCommands, restarts>>
outVars == <<config, startCounter, phase, next, call, outputs, edi, counter, loopCounter, returnCode,
             content, position, nbFrames_, broken, zmq_message, meta_, published, sent, failures>>
mainVars == <<kind, vars, clockVars, outVars>>

MainInit ==
    /\ kind \in Kinds
    /\ Init /\ (kind # "timestamps" => start = CHOOSE t \in StartTimes : TRUE)
    /\ Clock!Init /\ (kind # "clock" => tai_clock_offset = <<>> /\ cache = Clock!NoBulletin)
    /\ Out!Init /\ (kind # "outputs" => startCounter = 0 /\ config = CHOOSE c \in Configs : TRUE)

MainNext ==
    \/ kind = "timestamps" /\ Next /\ UNCHANGED <<kind, clockVars, outVars>>
    \/ kind = "clock" /\ Clock!Next /\ UNCHANGED <<kind, vars, outVars>>
    \/ kind = "outputs" /\ Out!Next /\ UNCHANGED <<kind, vars, clockVars>>

MainSpec == MainInit /\ [][MainNext]_mainVars

-----------------------------------------------------------------------------
\* No search for an offset fails once the cache has held a valid bulletin.
RefreshNeverFails == Clock!RefreshNeverFails

\* Frames do not go on with an offset that the bulletin no longer gives.
WrongForTwoHours == Clock!WrongForTwoHours

\* A file reads back as the frames so far, and the metadata behind the frames of a ZeroMQ
\* message is theirs.
OutputsReadBack == Out!OutputsReadBack
=============================================================================
