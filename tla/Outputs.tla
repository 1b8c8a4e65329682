------------------------------ MODULE Outputs ------------------------------
(***************************************************************************)
(* The main loop (main, DabMultiplexer::mux_frame) and its outputs: what   *)
(* is read from the configuration, opened, and given every ETI frame, one  *)
(* output after the other, each of which can fail in its own way.  Files   *)
(* and FIFOs are written by several system calls per frame, and the        *)
(* process may end between any two of them.                                *)
(*                                                                         *)
(* The data of a frame is two halves with its counter; the size of a frame *)
(* and the number of frames are a cell of the file each.                   *)
(***************************************************************************)
EXTENDS Integers, Sequences, SequencesExt

CONSTANTS
    Configs,        \* [outputs : sequence of outputs, nbframes, tist, require_tai]
    Counters,       \* frame counters at startup, given by the time of day
    MaxFrames,      \* bound of the frames of a run
    MaxFailures     \* bound of the system calls that fail

\* One output at most has the variables of the file, one those of the ZeroMQ output.
OnDiskProtocols == {"file", "fifo"}
Entries == [uid : STRING, proto : STRING, type : STRING, metadata : BOOLEAN]
ConfigsOK ==
    \A c \in Configs :
        /\ c.outputs \in Seq(Entries)
        /\ \A i, j \in DOMAIN c.outputs :
              LET o == c.outputs[i]  p == c.outputs[j] IN
              /\ {o.proto, p.proto} \subseteq OnDiskProtocols => i = j
              /\ o.proto = "zmq" /\ p.proto = "zmq" => i = j
        /\ \A i \in DOMAIN c.outputs :
              c.outputs[i].proto \in OnDiskProtocols => c.outputs[i].type \in {"framed", "streamed", "raw"}

VARIABLES
    config, start,
    pc,             \* "config", "frame", "write", "ended" or "killed"
    next,           \* the entry of the configuration, or the output, it is at
    call,           \* the system calls of a Write that are left
    outputs, edi,   \* the outputs opened; is there an EDI output
    counter,        \* DabMultiplexer::currentFrame
    currentFrame,   \* of main
    returnCode,
    content, position, nbFrames_,     \* of the file or FIFO
    broken,         \* <<n>>: a call has failed when n frames were in the file
    zmq_message, meta_, published,    \* of the ZeroMQ output
    sent,           \* datagrams, packets of EDI
    failures

disk == <<content, position, nbFrames_, broken>>
zmq == <<zmq_message, meta_, published>>
vars == <<config, start, pc, next, call, outputs, edi, counter, currentFrame, returnCode, disk, zmq,
          sent, failures>>

Init ==
    /\ config \in Configs /\ start \in Counters
    /\ pc = "config" /\ next = 1 /\ call = <<>>
    /\ outputs = <<>> /\ edi = FALSE
    /\ counter = start /\ currentFrame = 0 /\ returnCode = 0
    /\ content = <<>> /\ position = 0 /\ nbFrames_ = 0 /\ broken = <<>>
    /\ zmq_message = <<>> /\ meta_ = <<>> /\ published = <<>>
    /\ sent = <<>>
    /\ failures = 0

End(code) == pc' = "ended" /\ returnCode' = code

-----------------------------------------------------------------------------
(***************************************************************************)
(* The configuration, entry by entry.  EDI is not one of the outputs that  *)
(* are counted at the end.                                                 *)
(***************************************************************************)
Entry == config.outputs[next]
Repeated == \E k \in 1..(next - 1) : config.outputs[k].uid = Entry.uid

ReadEntry ==
    /\ pc = "config" /\ next <= Len(config.outputs)
    /\ \/ /\ Repeated
          /\ End(2) /\ UNCHANGED <<next, outputs, edi>>
       \/ /\ ~Repeated /\ Entry.uid = "edi"
          /\ edi' = TRUE /\ next' = next + 1
          /\ UNCHANGED <<pc, outputs, returnCode>>
       \/ /\ ~Repeated /\ Entry.proto = "unknown"
          /\ End(1) /\ UNCHANGED <<next, outputs, edi>>
       \/ /\ ~Repeated /\ Entry.uid # "edi" /\ Entry.proto # "unknown"
          /\ \/ outputs' = Append(outputs, Entry) /\ next' = next + 1 /\ UNCHANGED <<pc, returnCode>>
             \/ End(-1) /\ UNCHANGED <<next, outputs>>        \* Open fails
          /\ UNCHANGED edi
    /\ UNCHANGED <<config, start, call, counter, currentFrame, disk, zmq, sent, failures>>

WantsMetadata == \E k \in DOMAIN outputs : outputs[k].proto = "zmq" /\ outputs[k].metadata

NeedsTai ==
    \/ config.tist /\ edi
    \/ WantsMetadata

\* prepare() gives up when it needs the TAI clock and has none.
Prepare ==
    /\ pc = "config" /\ next > Len(config.outputs)
    /\ IF outputs = <<>> THEN End(1)
       ELSE \/ pc' = "frame" /\ UNCHANGED returnCode
            \/ NeedsTai /\ End(2)
    /\ UNCHANGED <<config, start, next, call, outputs, edi, counter, currentFrame, disk, zmq, sent,
                   failures>>

-----------------------------------------------------------------------------
(***************************************************************************)
(* mux_frame up to the outputs: the metadata of the frame, and for ZeroMQ  *)
(* what separates it from that of the next.                                *)
(***************************************************************************)
Item(id, value) == [id |-> id, value |-> value]

Metadata ==
    (IF config.tist /\ NeedsTai
     THEN <<Item("UTCO", 0), Item("EDITime", 0), Item("DLFC", counter % 5000)>> ELSE <<>>)
    \o <<Item("separation", 0)>>

MuxFrame ==
    /\ pc = "frame" /\ currentFrame < MaxFrames
    /\ meta_' = IF WantsMetadata THEN meta_ \o Metadata ELSE meta_
    /\ pc' = "write" /\ next' = 1
    /\ UNCHANGED <<config, start, call, outputs, edi, counter, currentFrame, returnCode, disk,
                   zmq_message, published, sent, failures>>

Data(part) == [data |-> counter, part |-> part]
Size == [size |-> counter]
Padding == [padding |-> counter]
At(position_) == [seek |-> position_]
Beginning == 0
EndOfFile == -1

\* The system calls of a Write.  A FIFO cannot be sought, and never counts its
\* frames.
CallsNoEnd(output) ==
    IF output.type = "framed" /\ output.proto = "file"
    THEN <<At(Beginning), [count |-> nbFrames_ + 1], Size, Data(1), Data(2)>>
    ELSE <<Size, Data(1), Data(2)>>

Calls(output) ==
    IF output.type = "raw" THEN <<Data(1), Data(2), Padding>>
    ELSE IF output.type = "streamed" THEN <<Size, Data(1), Data(2)>>
    ELSE IF output.proto = "file"
    THEN <<At(Beginning), [count |-> nbFrames_ + 1], At(EndOfFile), Size, Data(1), Data(2)>>
    ELSE <<[count |-> -1], Size, Data(1), Data(2)>>

Output == outputs[next]
Writing == pc = "write" /\ next <= Len(outputs)
IsOnDisk(output) == output.proto \in OnDiskProtocols

BeginWrite ==
    /\ Writing /\ IsOnDisk(Output) /\ call = <<>>
    /\ call' = Calls(Output)
    /\ nbFrames_' = IF Output.proto = "file" THEN nbFrames_ + 1 ELSE nbFrames_
    /\ UNCHANGED <<config, start, pc, next, outputs, edi, counter, currentFrame, returnCode, content,
                   position, broken, zmq, sent, failures>>

\* A write puts its cell where the file is at, over what is there.
Overwritten(cell) ==
    IF position < Len(content) THEN [content EXCEPT ![position + 1] = cell]
    ELSE Append(content, cell)

SystemCall ==
    /\ Writing /\ call # <<>>
    /\ LET c == Head(call) IN
       IF "seek" \in DOMAIN c
       THEN /\ position' = IF c.seek = EndOfFile THEN Len(content) ELSE c.seek
            /\ UNCHANGED content
       ELSE /\ content' = Overwritten(c)
            /\ position' = position + 1
    /\ call' = Tail(call)
    /\ next' = IF Tail(call) = <<>> THEN next + 1 ELSE next
    /\ UNCHANGED <<config, start, pc, outputs, edi, counter, currentFrame, returnCode, nbFrames_,
                   broken, zmq, sent, failures>>

\* Write returns -1, which the main loop logs; the calls left are not made.
SystemCallFails ==
    /\ Writing /\ call # <<>> /\ failures < MaxFailures
    /\ failures' = failures + 1
    /\ broken' = IF broken = <<>> THEN <<counter - start>> ELSE broken
    /\ call' = <<>> /\ next' = next + 1
    /\ UNCHANGED <<config, start, pc, outputs, edi, counter, currentFrame, returnCode, content,
                   position, nbFrames_, zmq, sent>>

PublishKeepsMetadata(frames) ==
    /\ published' = Append(published, [frames |-> frames, meta |-> meta_])
    /\ zmq_message' = <<>>
    /\ UNCHANGED meta_

Publish(frames) ==
    /\ published' = Append(published, [frames |-> frames, meta |-> meta_])
    /\ zmq_message' = <<>>
    /\ meta_' = <<>>

FramesPerMessage == 4

WriteZmq ==
    /\ Writing /\ Output.proto = "zmq"
    /\ LET frames == Append(zmq_message, counter) IN
       IF Len(frames) = FramesPerMessage THEN Publish(frames)
       ELSE zmq_message' = frames /\ UNCHANGED <<meta_, published>>
    /\ next' = next + 1
    /\ UNCHANGED <<config, start, pc, call, outputs, edi, counter, currentFrame, returnCode, disk,
                   sent, failures>>

\* An error of a socket is an exception, that ends the multiplexer.
WriteSocket ==
    /\ Writing /\ Output.proto \in {"udp", "tcp"}
    /\ \/ /\ sent' = Append(sent, counter) /\ next' = next + 1
          /\ UNCHANGED <<pc, returnCode, failures>>
       \/ /\ failures < MaxFailures
          /\ failures' = failures + 1
          /\ End(2) /\ UNCHANGED <<sent, next>>
    /\ UNCHANGED <<config, start, call, outputs, edi, counter, currentFrame, disk, zmq>>

(***************************************************************************)
(* The rest of mux_frame (the EDI output is module EdiSender), and main    *)
(* looks whether that was enough.                                          *)
(***************************************************************************)
FinishFrame ==
    /\ pc = "write" /\ next > Len(outputs)
    /\ counter' = counter + 1
    /\ currentFrame' = currentFrame + 1
    /\ IF config.nbframes # 0 /\ currentFrame >= config.nbframes
       THEN End(0) ELSE pc' = "frame" /\ UNCHANGED returnCode
    /\ UNCHANGED <<config, start, next, call, outputs, edi, disk, zmq, sent, failures>>

\* A signal, at any time: SIGTERM, SIGPIPE from a reader of a FIFO that has
\* gone, and what the handlers of the other signals come to.
Killed ==
    /\ pc \in {"frame", "write"}
    /\ pc' = "killed"
    /\ UNCHANGED <<config, start, next, call, outputs, edi, counter, currentFrame, returnCode, disk,
                   zmq, sent, failures>>

Next ==
    \/ ReadEntry \/ Prepare \/ MuxFrame
    \/ BeginWrite \/ SystemCall \/ SystemCallFails
    \/ WriteZmq \/ WriteSocket
    \/ FinishFrame \/ Killed

Spec == Init /\ [][Next]_vars

-----------------------------------------------------------------------------
(***************************************************************************)
(* A reader that goes by doc/dab_output_formats.txt.                       *)
(***************************************************************************)
OnDisk == outputs[CHOOSE k \in DOMAIN outputs : IsOnDisk(outputs[k])]
FirstRecord == IF OnDisk.type = "framed" THEN 1 ELSE 0
RecordOf(n) == SubSeq(content, FirstRecord + 3 * n + 1, FirstRecord + 3 * n + 3)
FrameRecord(f) ==
    IF OnDisk.type = "raw" THEN <<[data |-> f, part |-> 1], [data |-> f, part |-> 2], [padding |-> f]>>
    ELSE <<[size |-> f], [data |-> f, part |-> 1], [data |-> f, part |-> 2]>>

FramesDone == counter - start
FramesInFile == IF broken = <<>> THEN FramesDone ELSE broken[1]

ReadsBack ==
    /\ \A n \in 0..(FramesInFile - 1) : RecordOf(n) = FrameRecord(start + n)
    /\ OnDisk.type = "framed" /\ broken = <<>> /\ content # <<>> =>
         content[1].count \in {FramesDone, FramesDone + 1}

(***************************************************************************)
(* Wherever the process ends, and whatever the other outputs do, the file  *)
(* reads back as the frames so far, whole and in order, up to the first    *)
(* call that failed, and its number of frames is right, or one too high.   *)
(* (DabOutputFile::Write)                                                  *)
(***************************************************************************)
FileReadsBack ==
    (\E k \in DOMAIN outputs : IsOnDisk(outputs[k])) =>
        (OnDisk.proto = "fifo" /\ OnDisk.type = "framed") \/ ReadsBack

(***************************************************************************)
(* The format framed is, of a FIFO too, the number of frames followed by   *)
(* the frames. (doc/dab_output_formats.txt, DabOutputFifo::Write)          *)
(***************************************************************************)
FifoReadsBack ==
    (\E k \in DOMAIN outputs : IsOnDisk(outputs[k])) =>
        \A n \in 0..(FramesInFile - 1) : RecordOf(n) = FrameRecord(start + n)

GroupSize == IF config.tist /\ NeedsTai THEN 4 ELSE 1
IsOfItsFrames(meta, frames) ==
    /\ Len(meta) = GroupSize * Len(frames)
    /\ \A k \in DOMAIN frames :
          /\ meta[GroupSize * k].id = "separation"
          /\ GroupSize = 4 => meta[GroupSize * k - 1] = Item("DLFC", frames[k] % 5000)

(***************************************************************************)
(* The metadata behind the frames of a ZeroMQ message is theirs: as many   *)
(* groups as frames, each with the counter of its frame; and no frame is   *)
(* left out, whatever becomes of the other outputs.                        *)
(* (DabOutputZMQ::Write, setMetadata)                                      *)
(***************************************************************************)
MetadataOfItsFrame ==
    \A i \in DOMAIN published :
        /\ \A k \in DOMAIN published[i].frames : published[i].frames[k] = start + 4 * (i - 1) + k - 1
        /\ WantsMetadata => IsOfItsFrames(published[i].meta, published[i].frames)

OutputsReadBack == FileReadsBack /\ MetadataOfItsFrame
=============================================================================
