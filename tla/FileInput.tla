------------------------------ MODULE FileInput ------------------------------
(***************************************************************************)
(* The inputs that read a file or a pipe in the call of readFrame itself:  *)
(* classes Inputs::RawFile, PacketFile and MPEGFile over FileBase.         *)
(*                                                                         *)
(* A file is counted in units, numbered from 0 and read over and over: of  *)
(* a raw file an equal part of a frame, of a packet file a packet, of an   *)
(* MPEG file half a frame of 48 kHz, which is a DAB frame at 24 kHz.  The  *)
(* writer of a pipe goes on with the same numbers, and writes packets      *)
(* whole.  Packets are measured in 24 bytes, the smallest one.             *)
(***************************************************************************)
EXTENDS Integers, Sequences

CONSTANTS
    Files,       \* formats and modes to look at, see File
    RawLengths,  \* lengths of a raw file, in units
    Packets,     \* the lengths of the packets of a packet file
    MpegLength,  \* length of an MPEG file, in half frames
    FrameSize,   \* size of a frame, in units of a raw file and in packet sizes
    PipeSize     \* bound: units the writer is ahead of the reader

\* The MPEG input ignores load_entire_file, and spins on a pipe without a writer.
File == [format : {"raw", "packet", "enhanced"}, mode : {"block", "nonblock", "whole"}]
        \union [format : {"mpeg24", "mpeg48"}, mode : {"block"}]

\* A packet has at most 96 bytes.  One longer than a frame is never sent, and neither
\* is anything behind it.
FilesOK ==
    /\ Files \subseteq File
    /\ FrameSize \in Nat \ {0} /\ MpegLength \in Nat \ {0} /\ PipeSize \in Nat
    /\ RawLengths \subseteq Nat /\ \A n \in RawLengths : n >= FrameSize
    /\ Packets \in Seq(1..4) /\ Packets # <<>>
    /\ \A i \in DOMAIN Packets : Packets[i] <= FrameSize

TableSize == 94        \* 12 * 188 bytes of packets make an FEC table
FecBytes == 192        \* 12 * 16 bytes of parity
BytesPerFecPacket == 22

VARIABLES
    file,
    length,      \* units in the file
    pos,         \* the next unit read from the file, the pipe or m_file_contents
    ahead,       \* units in the pipe
    m_nonblock_buffer,
    present,     \* the file can be opened
    loaded,      \* m_file_contents is not empty
    m_packet,    \* the packet in m_packetData, or NoPacket
    m_enhancedPacketLength, m_enhancedPacketWaiting,
    sinceFec,    \* packet sizes sent since the last FEC packet
    m_parity,
    reading,     \* inside PacketFile::readFrame
    written,     \* in packet sizes
    before,      \* the last unit given before this frame
    out          \* the units in the frame

source == <<file, length>>
access == <<pos, ahead, m_nonblock_buffer, present, loaded>>
packet == <<m_packet, m_enhancedPacketLength, m_enhancedPacketWaiting, sinceFec>>
frame == <<before, out>>
vars == <<source, access, packet, m_parity, reading, written, frame>>

NoPacket == -1
Silence == -1

Init ==
    /\ file \in Files
    /\ length \in IF file.format = "raw" THEN RawLengths
                  ELSE IF file.format \in {"packet", "enhanced"} THEN {Len(Packets)}
                  ELSE {MpegLength}
    /\ pos = 0 /\ ahead = 0 /\ m_nonblock_buffer = <<>>
    /\ present = TRUE /\ loaded = (file.mode = "whole")
    /\ m_packet = NoPacket
    /\ m_enhancedPacketLength = 0 /\ m_enhancedPacketWaiting = 0 /\ sinceFec = 0
    /\ m_parity = FALSE
    /\ reading = FALSE /\ written = 0
    /\ before = length - 1 /\ out = <<>>

Lesser(a, b) == IF a <= b THEN a ELSE b
Units(from, n) == [i \in 1..n |-> (from + i - 1) % length]

\* The units given up to now, of which the next frame is the continuation.
LastGiven == IF out = <<>> \/ out[Len(out)] = Silence THEN before ELSE out[Len(out)]

-----------------------------------------------------------------------------
(* The writer of the pipe, and the user who removes or puts back the file. *)
Write ==
    /\ file.mode = "nonblock" /\ ahead < PipeSize
    /\ ahead' = ahead + 1
    /\ UNCHANGED <<source, pos, m_nonblock_buffer, present, loaded, packet, m_parity,
                   reading, written, frame>>

Replace ==
    /\ file.mode = "whole" /\ ~reading
    /\ present' = ~present
    /\ UNCHANGED <<source, pos, ahead, m_nonblock_buffer, loaded, packet, m_parity,
                   reading, written, frame>>

-----------------------------------------------------------------------------
(* RawFile::readFrame, which is readFromFile.                              *)

Give(units) ==
    /\ before' = LastGiven
    /\ out' = units
    /\ UNCHANGED <<source, packet, m_parity, reading, written>>

\* At the end the file is rewound and read once more into what is left of the frame.
ReadRawBlock ==
    LET room == length - pos IN
    /\ file.format = "raw" /\ file.mode = "block"
    /\ pos' = IF FrameSize <= room THEN pos + FrameSize ELSE Lesser(FrameSize - room, length)
    /\ Give([i \in 1..FrameSize |-> IF i <= room + length THEN (pos + i - 1) % length ELSE Silence])
    /\ UNCHANGED <<ahead, m_nonblock_buffer, present, loaded>>

\* Mutant: what was read of an incomplete frame is thrown away.
KeepNothing(units) == <<>>

\* What is left of an incomplete frame for the next call.
Keep(units) == units

\* read may give less than what is missing to a frame.
ReadRawNonblock ==
    LET missing == FrameSize - Len(m_nonblock_buffer) IN
    /\ file.format = "raw" /\ file.mode = "nonblock"
    /\ \E got \in IF ahead = 0 THEN {0} ELSE 1..Lesser(missing, ahead) :
          LET units == m_nonblock_buffer \o Units(pos, got) IN
          /\ ahead' = ahead - got
          /\ pos' = (pos + got) % length
          /\ IF got = missing
             THEN Give(units) /\ m_nonblock_buffer' = <<>>
             ELSE Give(<<>>) /\ m_nonblock_buffer' = Keep(units)
    /\ UNCHANGED <<present, loaded>>

\* The frame that reaches the end is begun anew with the file, which is loaded again:
\* the copies behind the first one all go to the beginning of the frame.
Wrapped(room) ==
    LET rest == ((FrameSize - room - 1) % length) + 1 IN
    [i \in 1..FrameSize |->
        IF i <= rest THEN i - 1
        ELSE IF FrameSize - room > length /\ i <= length THEN i - 1
        ELSE IF i <= room THEN pos + i - 1 ELSE Silence]

\* A file that has gone leaves silence, and the next call tries to load it.
ReadRawWhole ==
    LET room == IF loaded THEN length - pos ELSE 0
        fits == loaded /\ FrameSize <= room
    IN  /\ file.format = "raw" /\ file.mode = "whole"
        /\ loaded' = (fits \/ present)
        /\ pos' = IF fits THEN pos + FrameSize
                  ELSE IF present THEN ((FrameSize - room - 1) % length) + 1 ELSE 0
        /\ before' = IF loaded' THEN LastGiven ELSE length - 1
        /\ out' = IF ~loaded' THEN <<>> ELSE IF fits THEN Units(pos, FrameSize) ELSE Wrapped(room)
        /\ UNCHANGED <<source, ahead, m_nonblock_buffer, present, packet, m_parity,
                       reading, written>>

-----------------------------------------------------------------------------
(* MPEGFile::readFrame.  A frame of 24 kHz is too long for one DAB frame:  *)
(* its first half is read as an incomplete frame, which sets m_parity, and *)
(* the next call reads the second half without looking for a header.  A    *)
(* frame cut off by the end of the file is muted; then the file is rewound.*)
ReadMpeg ==
    LET room == length - pos
        at == IF room = 0 /\ ~m_parity THEN 0 ELSE pos
        left == length - at
        need == IF file.format = "mpeg48" THEN 2 ELSE 1
    IN  /\ file.format \in {"mpeg24", "mpeg48"}
        /\ before' = IF need <= left THEN LastGiven ELSE length - 1
        /\ out' = IF need <= left THEN Units(at, need) ELSE <<>>
        /\ pos' = at + Lesser(need, left)
        /\ m_parity' = (file.format = "mpeg24" /\ ~m_parity)
        /\ UNCHANGED <<source, ahead, m_nonblock_buffer, present, loaded, packet,
                       reading, written>>

-----------------------------------------------------------------------------
(* PacketFile::readFrame, one step for each turn of its loop.              *)

Enhanced == file.format = "enhanced"

Call ==
    /\ file.format \in {"packet", "enhanced"} /\ ~reading
    /\ reading' = TRUE /\ written' = 0
    /\ before' = LastGiven /\ out' = <<>>
    /\ UNCHANGED <<source, access, packet, m_parity>>

\* The parity bytes, 22 in each packet, before anything else.
PutFec ==
    /\ reading /\ written < FrameSize /\ m_enhancedPacketWaiting > 0
    /\ m_enhancedPacketWaiting' = IF m_enhancedPacketWaiting > BytesPerFecPacket
                                  THEN m_enhancedPacketWaiting - BytesPerFecPacket ELSE 0
    /\ m_enhancedPacketLength' = IF m_enhancedPacketWaiting' = 0 THEN 0
                                 ELSE m_enhancedPacketLength
    /\ sinceFec' = 0
    /\ written' = written + 1
    /\ UNCHANGED <<source, access, m_packet, m_parity, reading, frame>>

\* So many packet sizes have gone into the frame, and in enhanced mode into the table.
Put(size) ==
    LET filled == m_enhancedPacketLength + size IN
    /\ written' = written + size
    /\ sinceFec' = IF Enhanced THEN sinceFec + size ELSE 0
    /\ m_enhancedPacketLength' = IF Enhanced THEN Lesser(filled, TableSize) ELSE 0
    /\ m_enhancedPacketWaiting' = IF Enhanced /\ filled >= TableSize THEN FecBytes ELSE 0
    /\ UNCHANGED <<source, m_parity, reading, before>>

Size(p) == Packets[p + 1]

\* Mutant: the rest of the frame is not looked at.
FitsTable(p) == Enhanced => m_enhancedPacketLength + Size(p) <= TableSize

Fits(p) ==
    /\ written + Size(p) <= FrameSize
    /\ Enhanced => m_enhancedPacketLength + Size(p) <= TableSize

\* A padding packet while the packet read before does not fit.
PutPadding ==
    /\ reading /\ written < FrameSize /\ m_enhancedPacketWaiting = 0
    /\ m_packet # NoPacket /\ ~Fits(m_packet)
    /\ Put(1)
    /\ UNCHANGED <<access, m_packet, out>>

PutPending ==
    /\ reading /\ written < FrameSize /\ m_enhancedPacketWaiting = 0
    /\ m_packet # NoPacket /\ Fits(m_packet)
    /\ Put(Size(m_packet))
    /\ out' = Append(out, m_packet)
    /\ m_packet' = NoPacket
    /\ UNCHANGED access

Readable == file.mode = "nonblock" => ahead > 0
Gone == file.mode = "whole" /\ ~present /\ (pos = length \/ ~loaded)

ReadPacket ==
    LET p == pos % length IN
    /\ reading /\ written < FrameSize /\ m_enhancedPacketWaiting = 0
    /\ m_packet = NoPacket /\ Readable /\ ~Gone
    /\ pos' = p + 1
    /\ ahead' = IF file.mode = "nonblock" THEN ahead - 1 ELSE ahead
    /\ loaded' = (file.mode = "whole")
    /\ IF Fits(p)
       THEN Put(Size(p)) /\ out' = Append(out, p) /\ UNCHANGED m_packet
       ELSE m_packet' = p /\ UNCHANGED <<source, m_enhancedPacketLength, m_enhancedPacketWaiting,
                                         sinceFec, m_parity, reading, written, before, out>>
    /\ UNCHANGED <<m_nonblock_buffer, present>>

\* The file has gone at the end, or has not come back: what is read are zeroes, which
\* look like a packet of 24 bytes.
ReadZeroes ==
    /\ reading /\ written < FrameSize /\ m_enhancedPacketWaiting = 0
    /\ m_packet = NoPacket /\ Gone
    /\ Put(1)
    /\ loaded' = FALSE /\ pos' = 0
    /\ UNCHANGED <<ahead, m_nonblock_buffer, present, m_packet, out>>

\* END_PACKET: nothing in the pipe.  The padding does not go into the table.
EndPacket ==
    /\ reading /\ written < FrameSize /\ m_enhancedPacketWaiting = 0
    /\ m_packet = NoPacket /\ ~Readable
    /\ written' = FrameSize
    /\ sinceFec' = IF Enhanced THEN sinceFec + FrameSize - written ELSE 0
    /\ UNCHANGED <<source, access, m_packet, m_enhancedPacketLength, m_enhancedPacketWaiting,
                   m_parity, reading, frame>>

Return ==
    /\ reading /\ written >= FrameSize
    /\ reading' = FALSE
    /\ UNCHANGED <<source, access, packet, m_parity, written, frame>>

ReadPackets == PutFec \/ PutPadding \/ PutPending \/ ReadPacket \/ ReadZeroes \/ EndPacket \/ Return

Next ==
    \/ Write \/ Replace
    \/ ReadRawBlock \/ ReadRawNonblock \/ ReadRawWhole \/ ReadMpeg
    \/ Call \/ ReadPackets

-----------------------------------------------------------------------------
(* Properties.                                                             *)

\* From frame to frame and over the end of the file, one unit after the other.
Continues ==
    /\ \A i \in 1..Len(out) - 1 : out[i + 1] = (out[i] + 1) % length
    /\ out # <<>> => out[1] = (before + 1) % length

\* A raw file loaded whole whose end is not the end of a frame: both copies for the frame
\* that reaches it go to the beginning of the frame.
EndIsTorn == file.format = "raw" /\ file.mode = "whole" /\ length % FrameSize # 0

\* A frame ends where the file has been read to, but for the one that reaches the end of
\* the file: that one begins with the beginning of the file, where the next goes on.
GoesOnAfterTheEnd ==
    out # <<>> =>
        IF pos >= FrameSize THEN out = [i \in 1..FrameSize |-> pos - FrameSize + i - 1]
        ELSE \A i \in 1..pos : out[i] = i - 1

\* What goes on air is the file without a gap, a repetition or a mixture, from frame to
\* frame and over its end: the pieces that the block reads, the partial reads of a
\* pipe, the halves of an MPEG frame and the packets held back fit together.  Only the
\* frame at the end of a file loaded whole may be a mixture, and only that frame.
FileContinues == IF EndIsTorn THEN GoesOnAfterTheEnd ELSE Continues

\* Each FEC set covers what was sent since the last one, all of it, padding included,
\* and the table never holds more than its size.
FecCoversWhatWasSent ==
    /\ m_enhancedPacketWaiting = 0 => sinceFec = m_enhancedPacketLength
    /\ m_enhancedPacketWaiting = FecBytes => sinceFec = TableSize
    /\ written <= FrameSize
=============================================================================
