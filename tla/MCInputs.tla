------------------------------ MODULE MCInputs ------------------------------
(***************************************************************************)
(* The inputs of which a subchannel of the configuration may have one, and *)
(* the statistics of an input, of which nothing comes back to it: the      *)
(* variables of the others stay at "none", or as they start.               *)
(***************************************************************************)
EXTENDS Integers, Sequences, FiniteSets

CONSTANTS Kinds, Formats, Messages, HighWater, Buffers, Prebufferings, MaxRcCommands,
          SizeModulus, Protocols, Datagrams, MaxArrivals, SocketSize,
          RawLengths, Packets, MpegLength, FrameSize, PipeSize,
          SourceFrames, FrameKinds, Phase, TistDelays, EdiBuffers, EdiPrebufferings, Managements,
          Configurations,
          MaxEdiCommands,         \* of EdiInput
          Threshold, ResetTime, BufferKeep, PeakKeep, ShortWindow, SilenceCount, Saturation,
          PollPeriod, MaxBad      \* of InputStat

VARIABLES
    kind, given,
    format, encoded, socket, m_frame_buffer, m_prebuf_current, buffer_size, prebuffering,
    m_enable_input, enable_encryption, keysValid, bound, reader, readsize, levels, rcCommands,
    protocol, launched, deliveries, socketIn, m_queue, sourceGiven,
    file, length, pos, ahead, m_nonblock_buffer, present, loaded, m_packet,
    m_enhancedPacketLength, m_enhancedPacketWaiting, sinceFec, m_parity, reading, written,
    before, out,
    m_frames, m_max_frames_overrun, m_num_frames_prebuffering, m_bufferManagement,
    m_tist_delay, m_is_prebuffering, m_pending_sti_frame, m_running, sent, receiver, incoming, threshold,
    ediReader, management, sti, over_max, ediLevels, clock, result, played, ediCommands,
    m_buffer_fill_stats, m_peak_stats, m_glitch_counter, m_silence_counter, m_time_last_event,
    state, bad, sincePoll, fed, calm, chain, linked, loudRun, quietRun

MCFiles ==
    [format : {"raw", "packet"}, mode : {"block", "nonblock", "whole"}]
        \union [format : {"enhanced"}, mode : {"block", "whole"}]
        \union [format : {"mpeg24", "mpeg48"}, mode : {"block"}]
MCPackets == <<1, 3, 2, 4>>

Zmq == INSTANCE ZmqInput
Datagram == INSTANCE DatagramInput
InFile == INSTANCE FileInput WITH Files <- MCFiles

\* Any frame of the source may be good; some may instead be of another size, some without a
\* timestamp, and so two that follow each other.
Good == [right |-> TRUE, valid |-> TRUE]
WrongSize == [right |-> FALSE, valid |-> TRUE]
NoTimestamp == [right |-> TRUE, valid |-> FALSE]
GoodFrames == [i \in 0..(SourceFrames - 1) |-> {Good}]
MostFrames ==
    [i \in 0..(SourceFrames - 1) |->
        CASE i = 0 -> {Good}
          [] i = 1 -> {Good, WrongSize, NoTimestamp}
          [] i = 2 -> {Good, WrongSize}
          [] OTHER -> {Good}]

\* Each buffer management, a prebuffering that ends in an overrun without end.
MCTistDelays == {-1, 0}
MCConfigurations ==
    {[buffer |-> 2, prebuffering |-> 1, management |-> "prebuffering", delay |-> 0],
     [buffer |-> 2, prebuffering |-> 4, management |-> "prebuffering", delay |-> 0],
     [buffer |-> 2, prebuffering |-> 1, management |-> "timestamped", delay |-> 0]}
\* Low levels, both of which are raised.
RaisedConfigurations ==
    {[buffer |-> 1, prebuffering |-> 1, management |-> "prebuffering", delay |-> 0]}

Edi == INSTANCE EdiInput
    WITH Kinds <- FrameKinds, Buffers <- EdiBuffers, Prebufferings <- EdiPrebufferings,
         MaxRcCommands <- MaxEdiCommands, reader <- ediReader, levels <- ediLevels, rcCommands <- ediCommands

Stats == INSTANCE InputStat

ASSUME StatsAssumption == Stats!StatsOK
ASSUME EdiAssumption == Edi!ConstantsOK
ASSUME LevelsAssumption == Zmq!LevelsOK
ASSUME FilesAssumption == InFile!FilesOK

none == "none"
zmqVars == <<format, encoded, socket, m_frame_buffer, m_prebuf_current, buffer_size,
             prebuffering, m_enable_input, enable_encryption, keysValid, bound, reader,
             readsize, levels, rcCommands>>
datagramVars == <<protocol, launched, deliveries, socketIn, m_queue, sourceGiven>>
fileVars == <<file, length, pos, ahead, m_nonblock_buffer, present, loaded, m_packet,
              m_enhancedPacketLength, m_enhancedPacketWaiting, sinceFec, m_parity, reading,
              written, before, out>>
ediVars == <<m_frames, m_max_frames_overrun, m_num_frames_prebuffering, m_bufferManagement,
             m_tist_delay, m_is_prebuffering, m_pending_sti_frame, m_running, sent, receiver, incoming,
             threshold, ediReader, management, sti, over_max, ediLevels, clock, result, played, ediCommands>>
statVars == <<m_buffer_fill_stats, m_peak_stats, m_glitch_counter, m_silence_counter,
              m_time_last_event, state, bad, sincePoll, fed, calm, chain, linked, loudRun, quietRun>>
others == <<kind, given, zmqVars, datagramVars, fileVars, statVars>>
vars == <<others, ediVars>>

NoZmq ==
    /\ format = none /\ encoded = none /\ socket = none /\ m_frame_buffer = none
    /\ m_prebuf_current = none /\ buffer_size = none /\ prebuffering = none
    /\ m_enable_input = none /\ enable_encryption = none /\ keysValid = none /\ bound = none
    /\ reader = none /\ readsize = none /\ levels = none /\ rcCommands = none
NoDatagram ==
    /\ protocol = none /\ launched = none /\ deliveries = none /\ socketIn = none
    /\ m_queue = none /\ sourceGiven = none
NoFile ==
    /\ file = none /\ length = none /\ pos = none /\ ahead = none /\ m_nonblock_buffer = none
    /\ present = none /\ loaded = none /\ m_packet = none /\ m_enhancedPacketLength = none
    /\ m_enhancedPacketWaiting = none /\ sinceFec = none /\ m_parity = none
    /\ reading = none /\ written = none /\ before = none /\ out = none

FirstOf(S) == CHOOSE x \in S : TRUE
NoEdi ==
    /\ Edi!Init
    /\ LET c == FirstOf(Configurations) IN
         /\ m_max_frames_overrun = c.buffer
         /\ m_num_frames_prebuffering = c.prebuffering
         /\ m_bufferManagement = c.management
         /\ m_tist_delay = c.delay

Init ==
    /\ kind \in Kinds
    /\ \/ kind = "zmq" /\ Zmq!Init /\ NoDatagram /\ NoFile /\ NoEdi
       \/ kind = "datagram" /\ Datagram!Init /\ NoZmq /\ NoFile /\ NoEdi
       \/ kind = "file" /\ InFile!Init /\ given = -1 /\ NoZmq /\ NoDatagram /\ NoEdi
       \/ kind = "edi" /\ Edi!Init /\ given = -1 /\ NoZmq /\ NoDatagram /\ NoFile
       \/ kind = "stat" /\ given = -1 /\ NoZmq /\ NoDatagram /\ NoFile /\ NoEdi
    /\ Stats!Init

Next ==
    \/ kind = "zmq" /\ Zmq!Next /\ UNCHANGED <<kind, datagramVars, fileVars, ediVars, statVars>>
    \/ kind = "datagram" /\ Datagram!Next /\ UNCHANGED <<kind, zmqVars, fileVars, ediVars, statVars>>
    \/ kind = "file" /\ InFile!Next /\ UNCHANGED <<kind, given, zmqVars, datagramVars, ediVars, statVars>>
    \/ kind = "edi" /\ Edi!Next /\ UNCHANGED others
    \/ kind = "stat" /\ Stats!Next /\ UNCHANGED <<kind, given, zmqVars, datagramVars, fileVars, ediVars>>

\* The fairness of EdiInput: both threads are scheduled.
Fairness ==
    /\ WF_vars(kind = "edi" /\ Edi!Read /\ UNCHANGED others)
    /\ WF_vars(kind = "edi" /\ Edi!Continue /\ UNCHANGED others)
    /\ WF_vars(kind = "edi" /\ Edi!Join /\ UNCHANGED others)
    /\ WF_vars(kind = "edi" /\ Edi!Push /\ UNCHANGED others)
    /\ WF_vars(kind = "edi" /\ Edi!ReceiverExits /\ UNCHANGED others)

Spec == Init /\ [][Next]_vars
FairSpec == Spec /\ Fairness

-----------------------------------------------------------------------------
(* The network inputs implement FrameSource.                               *)
Range(s) == {s[i] : i \in DOMAIN s}

\* The raw UDP input gives the front of its buffer again and again: it is left out here.
RawUdp == kind = "datagram" /\ protocol = "udp"
Arrived ==
    IF kind = "zmq" THEN encoded * Zmq!PerMessage - 1
    ELSE IF kind = "datagram" /\ ~RawUdp THEN deliveries - 1
    ELSE sent - 1
Held ==
    IF kind = "zmq"
    THEN Range(m_frame_buffer) \union UNION {Range(Zmq!FramesOf(m)) : m \in Range(socket)}
    ELSE IF kind = "datagram" /\ ~RawUdp THEN {d.id : d \in Range(m_queue \o socketIn)}
    ELSE Edi!Held
Given == IF kind = "edi" THEN played.frame.id ELSE IF RawUdp THEN -1 ELSE given

Source == INSTANCE FrameSource
    WITH LastFrame <- Messages * Zmq!SuperFrame + MaxArrivals + SourceFrames,
         arrived <- Arrived, held <- Held, given <- Given

\* What the ZeroMQ and the EDI input give is in the order of the source and never twice,
\* whatever is lost, refused, late, dropped by an overrun or of the wrong size, and however
\* the EDI input is switched between its buffer managements.  What the RTP input gives is in
\* the order of arrival, each arrival at most once, and no better than that: see SourceOrder
\* of DatagramInput.
ImplementsFrameSource == Source!Spec

\* ZmqBase::readFrame never removes more than there is, unless the levels it has read are
\* those of RemovesWhatIsThere, and the buffer stays bounded by the limit and one message.
ZmqBufferInRange ==
    kind = "zmq" =>
        /\ Zmq!RemovesWhatIsThere
        /\ \E b \in Buffers : Len(m_frame_buffer) <= b + Zmq!PerMessage

\* A file input goes on where it stopped, whatever was missing or came late, but for the
\* frame at the end of a raw file that is loaded whole and ends within a frame; and the
\* parity of an enhanced packet file is that of the packets sent before it.
FileContinues == kind = "file" => InFile!FileContinues /\ InFile!FecCoversWhatWasSent

\* The state of an input that the management server reports agrees with the glitches, the
\* levels and the buffers it was told of, whenever it is asked.
AnswersAreTrue == Stats!AnswersAreTrue

\* The levels that the ZeroMQ and the EDI input read their buffers by stay in their ranges.
BuffersInRange == ZmqBufferInRange /\ Edi!QueueLevels

\* A timestamped EDI input that is locked leaves out no frame.
NoGapWhileLocked == Edi!NoGapWhileLocked

\* The receiver of the EDI input does not wait for ever ("we should not wait here").
ReceiverNotStuck == Edi!ReceiverNotStuck

\* The same where the prebuffering level is within the queue that the parameters allow.
RoomIsSeen ==
    (receiver = "waiting" /\ m_running)
        ~> \/ receiver # "waiting" \/ ~m_running
           \/ m_num_frames_prebuffering > 2 * m_max_frames_overrun

\* Neither does the receiver of the EDI input wait for ever, nor does what arrives stay unplayed.
InputGoesOn == ReceiverNotStuck /\ Edi!DataGetsPlayed
=============================================================================
