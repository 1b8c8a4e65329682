# ODR-DabMux: models and proofs

ODR-DabMux takes the audio and data streams of a DAB ensemble and assembles, every 24 ms, one ETI frame
from them: a header, the fast information channel (FIC), one slice of every stream, and a timestamp. The
frame goes to a list of outputs and, as EDI, over the network.

This directory holds TLA+ specifications of its parts, from the configuration and the inputs to the
outputs and the servers around the main loop, TLC configurations that check them on small instances, and
theorems that TLAPS proves for every value of the constants. Everything is written from the C++ code; `PROJECT.json` maps each definition to the lines
it models, lists the runs, the mutants that show each property can fail, the hazards and the findings.

    tlc -workers 2 -config EdiReception.cfg MCEdiReception.tla       (the runs are listed in PROJECT.json)
    tlapm MainLoopProofs.tla

## 1. The system

One process. The *main loop* (`DabMux.cpp:502`, `DabMultiplexer::mux_frame`) makes the frames. Around it run
the threads of the inputs, of the EDI output, of the remote controls, of the management server and of the
clock. Nothing restarts the main loop: if it blocks or dies, the ensemble is off the air.

| Part | State | Operations | Talks to | What is hard | What makes it correct |
|---|---|---|---|---|---|
| Timekeeping: `MuxTime`, frame counter, MNSC | EDI seconds, milliseconds, offset, pending second, frame counter | `init`, `increment_timestamp`, `set_tist_offset`, `get_tist_seconds` | main loop, remote control thread | three clocks that never look at the wall clock again; the offset changes from another thread | stamps 24 ms apart, TIST at FCT 0 as configured, MNSC and EDI agree, stamp = wall clock + offset |
| EDI/STI input: `Inputs::Edi` | frame queue, pending frame, prebuffering flag, levels | receive, push with back pressure, `readFrame` in two variants, parameters, destructor | decoder thread, main loop, remote control | three threads on one queue; two state machines share a flag | frames in order, bounded queue, no needless gap, neither side waits for ever |
| PFT decoder: `EdiDecoder::PFT` | one builder per packet, awaited number | push fragment, get next packet, reset | network, sender's `edi::PFT` | loss, reordering, duplication, wrap-around, restart of the sender | packets in order and once, a late fragment is waited for, the decoder always finds its way back |
| EDI output: `edi::Sender`, `PFTSpreader`, `TCPDataDispatcher`, `TCPConnection` | fragments by time, preroll, a queue per client | write, tick, accept, send, drop, destructors | main loop, sender thread, listener, one thread per client | two nested mutexes, clients that stall, joins under a lock | contiguous streams, bounded queues, the main loop goes on, shutdown ends |
| FIG scheduler, priority: `FIGCarouselPriority` | counters, stack, carousels, deadlines | `write_fibs`, `fill_fib`, `select_priority` | main loop, every FIG | rotation while traversing, three passes, overload | no due FIG is passed over, no FIB space is wasted, a FIG that has room completes |
| FIG scheduler, classic: `FIGCarousel` | deadlines per FIG, allocation per frame phase | `write_fibs`, `load_and_allocate`, rate correction | the same | earliest deadline first under overload | FIG 0/0 and 0/1 where the standard wants them, rates kept when they fit |
| FIG contents: `FIG0_*`, `FIG1_*`, `FIG2_*` | position in the cycle of each FIG | `fill` | scheduler, ensemble, phase lock | a cycle is cut wherever the FIB ends; the ensemble changes meanwhile | each entry once per cycle, in whole, never past the end of the FIB |
| FIG 0/2 and FIG 1/1 phase lock: `FIGRuntimeInformation` | two counters | service sent, cycle start, label sent | FIG 0/2, FIG 1/1 | two independent cycles coupled by counts | a label follows its announcement; the lock never jams |
| Ensemble: `dabEnsemble` and its services, components, subchannels, linkage sets | the configuration | parse, prepare, validate, set parameters, reload linking | main loop, FIGs, remote control | reload while FIGs iterate | unique identifiers, capacity of 864 CU, valid links |
| Other inputs: ZeroMQ, UDP, STI-D/RTP, file, packet file, PRBS | buffers, prebuffering counter, file position | `open`, `readFrame`, parameters | main loop, remote control | levels changed at run time, end of file, partial reads | frames whole and in order, bounded buffers |
| EDI framing: `TagDispatcher`, `STIDecoder`, `STIWriter` | bytes not yet consumed, last sequence numbers, flags | `push_bytes`, `push_packet`, tag handlers | EDI input | resynchronisation in a byte stream, missing tags | no frame with data of another |
| TCP helpers: `TCPReceiveServer`, `TCPSendClient`, `ThreadsafeQueue` | bounded queues, connection | push, pop, wake up, reconnect | inputs, outputs | shutdown, reconnection, a full queue | nothing blocks for ever, bounded memory |
| Remote control: telnet, ZeroMQ; `RemoteControllers` | active and fault flags, threads | listen, dispatch, restart | main loop (fault check every 250 frames), every controllable | restart from two threads, exceptions in threads | a fault is repaired, the main loop is not disturbed |
| Management server and input statistics | buffer fills, levels, glitch and silence counters, threads | register, notify, answer, restart | main loop, inputs | the same; windows over time read by polls that come at any time | the same; the state reported of an input is that of its last events |
| Announcements: `AnnouncementCluster`, `TransitionHandler`, FIG 0/19 | active flags, deferred starts and stops, entries new, repeated, disabled | set parameters, `update_state`, `fill` | remote control, scheduler | clusters switched between two reads of one fill | what stays on is heard, what stays off is not left on |
| Service linking: linkage sets, FIG 0/6 | the list of subsets, place in it | `update`, `fill`, reload | remote control, scheduler | a reload in the middle of a cycle | each cycle carries one whole list, and the last one loaded comes |
| TAI clock: `ClockTAI` | bulletin, cached state, pending download | `get_offset`, parameters | main loop, download thread, remote control | a download under a mutex the main loop needs | the offset is valid and eventually fresh |
| ETI outputs: file, raw, FIFO, UDP, TCP, ZeroMQ, simulation | descriptors, message under construction | `Open`, `Write`, metadata | main loop | a slow reader | what was written can be read |
| Configuration, logging, utilities, tools | | | | | |

`PROJECT.json` lists these with their status, and every hazard found with its line.

## 2. What is modelled

Names follow the code. Specifications that share nothing, or of which a process runs only one (the schedulers, an input),
are checked beside each other in one run: `kind` in the `MC` modules chooses, so the state space is a sum and not a product.

### Clocks, outputs and the main loop

**MuxTime** (`src/src/DabMultiplexer.cpp`). The three clocks of the multiplexer and the steps of `mux_frame`
that read or advance them. One step is one call into `MuxTime`: `SampleTist`, `EncodeMnsc` and `FinishFrame`
are the order within a frame, and `SetTistOffset` may come between any two of them. Milliseconds are exact
integers. The loops of `set_tist_offset`, which advance by frames until the change is used up, are replaced by
their closed form (`Advance`). Reads that tear inside a call are not modelled.

**ClockTAI** (`src/lib/ClockTAI.cpp`). The main loop, the thread that looks for a bulletin once an hour, and the remote control,
over hours. `loader` says who holds `m_data_mutex`; `m_state` and `m_bulletin` are separate variables since they are assigned
separately and partly outside the mutex. The network may give any bulletin or none, the cache survives `Restart`. `store_to_cache` overwrites the
file in place and does not truncate it: opening, locking or a write may fail behind any line, and the process may end there, so a new bulletin may stand in front of the rest of an old
one (`Overwritten`). A write that is cut inside a line is not modelled. `known` and `unread` say whether the file has held a valid bulletin and whether this process has failed to read it.
`ruled` and `apart` are history; `apart` counts the time since the offset in use and the bulletin came apart, so an override, with which the
question begins anew, sets it back.

**Outputs** (`src/src/DabMux.cpp` from the outputs section on, `src/src/dabOutput/`). The configuration entry by entry, then
frames: every output in its order, files and FIFOs one system call at a time, so that a failure or the end of the process may come
between any two; ZeroMQ with the message it collects over four frames. A file is a sequence of cells: the number of frames, the size
of a frame, its halves. `ConfigsOK` (assumed of the configurations) has one output on disk and one to ZeroMQ at most, since the model has the members of one of each.

**EtiFrame** (`DabMultiplexer::mux_frame`). The layout of the frame in words and a reader that uses only the header. It has no
behaviour of its own; `Ensemble` makes frames of every multiplex that it reaches and whose subchannels all have a size, and `EnsembleProofs` proves that the reader finds every part of them.
In mode III that is with the priority carousel only: the classic one throws at the fourth FIB (`WriteFourthFib`), before a frame is complete.

### Inputs

**FrameSource** is the abstract specification of an input: what is given moves forward in what has come. `MCInputs` shows
that `ZmqInput`, `EdiInput` and the RTP input implement it, under a refinement mapping that says what each holds; `InputsProofs` proves it for any number of messages, datagrams and frames.
For ZeroMQ and EDI what has come is numbered by the source, for RTP by arrival: the code looks at no number of a datagram, so the order of the source is not kept over a network that does not keep it (`SourceOrder`, section 5).

**EdiInput** (`src/src/input/Edi.cpp`). Receiver thread, main loop and remote control on one input. Each
operation of the queue is a step, since each takes the mutex of the queue on its own; `reader` says where the
main loop is inside `readFrame`. Time is counted in half frames, so that a frame can be early by less than
one. `SizeModulus` makes the unsigned subtraction of the levels wrap, and no order of the levels is assumed. Levels, buffer management and `tistdelay` can all be set at any
time, during a lock too. A frame is its number, whether its size
is right and whether its timestamp is valid.

**ZmqInput** (`input/Zmq.cpp`). `readFrame` step by step, so that the remote control can act between two of them; messages of five frames (AAC)
or one (MPEG); the queue of ZeroMQ, which drops at its high-water mark and is lost by a rebind. The two levels are set independently; what a call has read of them is kept in `levels`, and a pop from
an empty buffer, which is undefined, ends the steps of the input (`reader = "undefined"`). **DatagramInput** (`input/Udp.cpp`). A network that loses datagrams and delivers those it keeps any number of
times and in any order, and the two ways to read them. **FileInput** (`input/File.cpp`). Files and pipes in units, every format and way of access, raw files of any length, and for packet files the loop of
`PacketFile::readFrame` branch by branch, with the table of the parity (`m_parity`, `sinceFec`).

**InputStat** (`src/src/ManagementServer.cpp`). The statistics of an input: a tick is one frame, instants are ages. A poll is
`DetermineState`; the five history variables say what the input was told without going through the counters.

### Signalling

**Ensemble** (`src/src/ConfigParser.cpp`, `MuxElements.cpp`, `DabMultiplexer::prepare`). Each section of the configuration entry by entry, with every check that refuses
an entry or drops a part of it, `prepare` in its order, and then the remote control: labels, local time offset, reload of the linking file. A label is changed in two writes, flag and text, between which frames are made (`RcSetLabel`, `SetLabelText`). An entry is a record of what
the checks tell apart. The sizes in capacity units are the tables and formulas of the code.

**FIGContents** (`src/src/fig/FIG0_*.cpp`, `FIG1.cpp`, `FIG2.cpp`). All FIGs walk over a list and write until the
space is used up, each in its own file. One specification of that walk serves for all but FIG 0/6 and FIG 1/1, and operators
say what differs: the sizes of the entries, what is passed over, when a new header goes in, where the first
cycle begins. An initial state chooses the FIG, its list and what of it is to be sent. A step is one entry, so that PTys and announcements
(`Change`) can change between any two; for FIG 0/19, which collects its clusters when it is called, between two calls. `Required` is what the code wants to
see free, `Advance` what it writes, `Announced` what the receiver takes the entry for; they are separate since the code computes
them in separate places, and not always alike: lists that mix what one header cannot carry are among those checked. FIG 0/0, 0/7, 0/9, 0/10, 1/0 and 2/0 have lists of one entry. FIG 2 segments all have 16 bytes.

**Announcements** (`AnnouncementCluster`, `TransitionHandler`, FIG 0/19). Each reading of a cluster takes its mutex on its own, so a fill is
`StartFill` (the update of the states), one `WriteCluster` per cluster, `EndFill`, with the remote control in between. `heard` is what a receiver was told last.

**Linking** (FIG 0/6). The list of subsets is rebuilt from the linkage sets at each cycle; one step is one fill with any space. `received` is the databases
of a receiver: a subset with CN = 0 opens one, CN = 1 continues it.

**FIGPhaseLock** (`src/src/fig/FIG.h`, `FIG0_2.cpp`, `FIG1.cpp`). FIG 0/2 and FIG 1/1 walk over the same list of
services, each call as far as the space allows, and two counters hold FIG 1/1 back. Which of the two is called
next, and how far it gets, is free.

**FIGCarouselPriority** (`src/src/fig/FIGCarouselPriority.cpp`). Every decision of `fill_fib` is a step: which
priority the must-send pass starts at, each attempt, each skip. A FIG is the sizes of the blocks it cycles
through (**FIGBlocks**); FIG 1/0 and the others that write one label per call are in `SingleFill`. Times are in frames.

**FIGCarousel** (`src/src/fig/FIGCarousel.cpp`). The classic scheduler over the same blocks: the sort by deadlines with every order of equal ones, FIG 0/0
and 0/7 at their places, changes of a rate, both ways of rate tuning.

### EDI

**EdiPft** (`src/lib/edi/PFT.cpp`, `common.cpp`, `src/lib/edioutput/PFT.cpp`). The sender numbers fragments, a
network (external) loses, delays or duplicates them, and the decoder collects them. `GetNextAFPacket` is
one call, split by the branch it takes. Reed-Solomon is a choice: with at least `RxMin` fragments the
packet may or may not be repaired. The CRC is exact: fragments of different packets never make a
packet. `silent` and `reinit` are history variables for the properties.

**PftCoding** (the same files) takes away that choice: chunks, parity and fragments by the positions of their bytes, and which sets of
fragments give back the packet. **EdiPacket** (`src/lib/edioutput/TagItems.cpp`, `AFPacket.cpp`, `src/lib/edi/`) writes the TAG items of an
STI-D frame byte by byte and reads them back, over the wrap of both counters and with every delay carried into the seconds.

**EdiStream** (`Socket::TCPReceiveServer`, `TagDispatcher`, `STIDecoder`, `STIWriter`). A source that connects, sends packets whole or not understood, and
leaves anywhere; the receiving thread; the cutting of the stream; the fields of the writer, which outlive a packet. What a
packet may contain is a constant of the run: any items, as long as they are in the order of encoders (`ContentsAssumption`).

**EdiSender** (`src/lib/edioutput/Transport.cpp`, `src/lib/Socket.cpp`). Main loop, sender thread, listener and
connection threads, with the two mutexes and the chain of destructors. `pending` and `due` count the fragments
in the map of the spreader. The thread of a connection is at `poll` (10 ms at a time, with a look at `m_running` in between) or at `send`: `TCPSocket::send` polls and then calls `::send` on a
blocking socket, which may not return as long as the client takes nothing of a packet larger than what is free. A packet is its number modulo `WireMod`, which is all that contiguity needs. Clients and threads have different
names (`NamesAssumption`), as the places of the threads are kept in one function.
**TcpSendClient** is the other kind of destination: a queue that is cut when it is full, and a thread that connects again.

### Servers

**Control** (`src/lib/RemoteControl.cpp`, `src/src/ManagementServer.cpp`, `src/src/DabMux.cpp`). The telnet and
the ZeroMQ remote control and the management server have the same life cycle with small differences, which
are what matters: who clears the fault flag, who keeps the socket as a member, who joins the restarter. So the
actions are written once for a server `s`, and the differences are sets of servers (`KeepsSocket`, `FaultAtEnd`) and
conditions on `s`. Every assignment to `m_active` and `m_fault` in the serving thread is a step, as
three threads write them. `child` and `restarter` are a thread's place and whether there is a thread to
join. Requests are left out, except that what is sent to a telnet client may never be read.

The modules `MC...` choose between the specifications of a run and give the constants that a configuration cannot express.

## 3. Runs

Each property of a passing run has a mutant: a plausible slip in a mapped definition under which TLC finds the
property violated in the same instance.

| Run | Question | Bounds, and why they suffice |
|---|---|---|
| `mainloop` | Do the clocks stay together? Is there always an offset from TAI? Can what the outputs wrote be read? | *Clocks*: 600 frames, every FCT twice and fourteen second boundaries, hence all coincidences of second and frame phase; startup in five places of a second, around the rounding; one change of the offset in the first twelve frames, which hold all phases. The theorems remove the bounds. *TAI*: ten hours with a leap second, two bulletins that expire and one that is empty, one restart, two commands: a refresh, its answer and the expiry fall into every order, and a cache file is cut at every line. *Outputs*: nine frames, which complete two ZeroMQ messages, one failure and an end at any system call. |
| `inputs` | Does every input give the frames in order and keep its levels? Do files go on where they stopped? Is the state reported of an input right? | *ZeroMQ*: four messages, limits that one and two messages of AAC overfill and one below a message, levels in both orders and up to an underflow, two commands. *EDI*: four frames of three kinds, a queue that two overfill, a prebuffering below and above it, delays of −1 and 0, one parameter change at any point; a longer source repeats queue states, since the queue never holds more than twice `buffer`. *Datagrams*: three with five arrivals, so that one comes twice or after another and a queue of RTP is filled. *Files*: lengths that are a multiple of the frame and that are not, for every way of access, packets of four sizes over several FEC tables. *Statistics*: three glitches and one more, windows of one to two ticks, one of them shorter than another, a poll in every frame or every other. |
| `fic` | Is a due FIG passed over? Does a FIG complete, or get late? | four FIGs in three priorities, two of them in one, and the last priority empty as in the code; mixes of contents most of which ask for more than the FIBs carry, on both sides of the boundary of `HasRoom`. The schedulers are deterministic but for ties, so each mix is one path into a cycle, which TLC explores whole. Rates, deadlines and lateness are bounded by `MaxLate`. |
| `signalling` | Is every label announced, every announcement heard, every linkage set sent? | four services of any kind; two clusters and three commands, so that both can be in any two states of the handler; three lists of sets with hard and international databases and types that alternate, two reloads; spaces that hold one subset, two and all |
| `ensemble` | What do configurations that start have in common? Does each cycle of a FIG carry each entry once and in whole? | two services, subchannels and components, every way to give or omit an identifier, an overbooked multiplex; 26 FIGs with lists of three entries (two where an entry has pieces or many kinds), mixed in every way, the smallest and the largest that fit a FIB; spaces that hold nothing, one small entry, one large entry, a whole FIB; two changes at any point; a label whose two writes lie apart. The theorems remove the bounds of both parts. |
| `edi_reception` | Order, tolerance of delay, return after faults; no frame of two packets; what is written is read | *Fragments*: two per packet, one repairable; 16 numbers wrap several times; two faults and one restart at any time; three in flight. *Stream*: three packets of two pieces, two connections, one timeout, one interruption. *Bytes*: both counters at their wrap, delays below and above a second, packets of one to many chunks, up to nine fragments lost. |
| `edi_output` | Contiguity, bounds, no deadlock, shutdown | two clients, two fragments per frame, a preroll and a queue of one packet: both clients can be slow, dead or new at once, and the queue overflows after two packets; a TCP client with a queue of two and five packets |
| `control` | Is a fault repaired without harm? Does the shutdown end? | all three servers; the ZeroMQ one fails at any point, again and again; periods of four and two frames, since only what falls into one period and the order of the two looks matter; shutdown at any frame |
| `tist_offset_change` | violated: the stamp follows a changed offset | one offset, one change |
| `ediinput_raise` | violated: raising the levels leaves the receiver waiting | levels 1 and 3 |
| `edipft_single` | violated: packets of one fragment go on | no fault of the network at all |
| `control_restart` | violated: a faulty remote control can be restarted | errors of the telnet server |

Deadlock is checked in `fic`, `control` and `control_restart`. The others end with their bounds, with a shutdown, or with an exception that ends the
multiplexer, and liveness under fairness says there what must still happen.

### Fairness

* Timekeeping, clock, outputs, configuration, `FIGPhaseLock` safety: none. The schedulers and the cycling of the labels: the next step is
  eventually taken, since the main loop makes frames for ever.
* `EdiInput`: the receiver thread and the main loop run again and again. The source need not send, the remote
  control need not act.
* `EdiPft`: the sender goes on and what is in flight arrives. The instance asks only that not both stop: what is in flight is
  bounded there, so neither can go on alone. Losses are bounded in number, so the properties say
  what happens after the last one.
* `EdiSender`, `TcpSendClient`: every thread runs again and again. Getting a mutex is strongly fair for the main loop, because
  the sender sleeps half a millisecond between two ticks with both mutexes free. Clients may never connect, never
  take a packet, or leave, and a `::send` to one of them need not return.
* `FIGContents`, `Linking`, `Announcements`: a fill runs to its end, and among the spaces that a FIG is offered is a whole FIB again and again. The
  schedulers provide that for a FIG that has room (`fic`: `HasRoom` for the priority scheduler, every mix of the run for the classic one); small spaces in between come in any number.
* `Control`: every thread runs again and again. A client may come or not, and a telnet client may never read what is
  sent to it. `InTime` says that between two looks at the remote controls, six seconds when frames are made in real
  time, a thread gets through the statements that wait for nothing. It bounds the main loop, never the shutdown.

### What the runs show

*Timekeeping.* While the offset is left alone the clocks agree for ever, except that startup in the last four
milliseconds of a second rounds up to 1008 ms and stamps the first frame almost a second early
(`StampIsWallPlusOffset` and `StampsAdvanceByOneFrame` therefore have `start` outside these milliseconds as
hypothesis in the proofs, and the instance starts outside them). A change of the offset goes the wrong way
(finding) and, in whole seconds, leaves the MNSC time behind.

*TAI clock.* Once there is an offset the process never loses it, cache or not: a refresh that finds nothing keeps it. Once the cache has held a valid bulletin, a process that can read the file gets an
offset at its start, wherever the writing of another bulletin was cut short or failed: the expiry comes first in the file and nothing is truncated, so the entries of the old bulletin that
are still there make it valid. The offset in use and the bulletin come apart for
two hours at most, whichever of the three threads was overtaken. An override can be lost for good, however (section 5).

*Outputs.* Files and ZeroMQ messages can be read wherever the process ends and whichever call fails. The framed format of a FIFO cannot (section 5).

*Inputs.* ZeroMQ and EDI give the frames of the source in its order and none twice; RTP gives each arrival once at most and in the order of arrival, and no better. The raw UDP input does not do that (section 5) and is left out of it.
The overrun of the EDI input brings the queue down to the prebuffering level even with the receiver pushing meanwhile, except when the prebuffering it has read is more than one frame above
the limit it has read: then the difference wraps. ZeroMQ removes no frame that is not there, except when the prebuffering it has read is more than one and a half times the limit, or for AAC the limit is below a
message. These are the exact extents of `BuffersInRange`, over levels in any order (section 5). A lock on a timestamp streams without a gap as long as the delay stays what it was. Raising both levels while the receiver waits stops the
input for good (finding). Files, pipes and packet files lose and repeat nothing, but for one frame at the end of a file loaded whole that ends within a frame (section 5), and the parity is that of the packets before it, with the exceptions of section 5. The state that a poll gets
of an input is right in both directions: no recovered input stays in alarm, and none that fails again and again is missed, up to the lateness of the polls.

*Schedulers.* The code always has a priority without a FIG (`FIGCarouselPriority.cpp:223`). Its counter never leaves zero, so the weighted counters are without effect and the priorities are served in
their order: a FIG completes its cycle again and again if the FIGs of its priority and of those above leave it room (`HasRoom`, which counts blocks and FIBs), and otherwise it may starve, even where
all bytes that are due would fit (`NothingStarves`, section 5). The classic scheduler lets every FIG of these mixes complete and none get late by more than two frames.

*Ensemble.* Configurations that start have disjoint subchannels within the capacity and the frame, and references that resolve.
Only a subchannel with a protection level that its profile does not have takes no capacity; with one the frame is not claimed to read back (section 5). A reload of the linking file takes all of it or nothing. The flag of a label marks the short label
that was asked for at any time, with the text that is there or the one about to follow.

*FIG contents.* However a cycle is cut, the positions hold, from the first cycle on and for every list: every entry that the cycle has to carry goes out once and in whole. A receiver reads it as it was
meant unless it is one of the mixed lists that `MayMisread` names, of FIG 0/20, 0/24, 2/1 and 2/5; a fill keeps to its space but for a FIG 2/1 or 2/5 that counts one header byte too few per text control
(`Overrun`). With a wrong length field a receiver also loses the FIGs behind it in the FIB, which is outside the model of one fill. That the first cycle of a FIG whose iterator starts at the end may have carried nothing is in `Carried`.
What `FIG.h` promises without these exceptions is `SetIsTransmitted`, which does not hold (section 5).

*Announcements, linking, phase lock.* A cluster that stays on is signalled as active, and one that stays off is signalled as over, unless it came on in the middle of the fill that ended it. A cycle of
FIG 0/6 carries one list whole even if the list was replaced under it. The counters of the phase lock suffice if every programme service has a label.

*EDI reception.* The numbers of the packets handed on always go on, except after the decoder has thrown away its builders, when a late copy may
bring back an older packet. A restart of the sender clears no builder: a complete packet of the old session can be handed on behind one of the new, if its number comes after that one on the circle, and
not once the builders were cleared. This is the exact extent of `InOrder`. Until the sender restarts (`LateIsNotLost`), a packet that has begun to arrive survives any
delay shorter than its lifetime. A packet of which nothing has arrived is given up at once, and the builders survive a reconnection (section 5). With packets of a single fragment
the decoder stops for ever (finding). Over a stream no frame is made of two packets, for sources that send the items in the order of the multiplexer's own encoder.

*EDI output.* The preroll and the stream meet without gap or repetition, because the list and the preroll are under
one mutex. A connection whose client takes nothing is at `poll`, and leaves within 10 ms of being told to. One that is inside `::send`, with a packet larger than what is free, holds whoever joins it: the
sender thread, with both mutexes, behind it the main loop, and the shutdown, until the client takes more or leaves. `NothingHangs` says that nothing else makes them wait for ever; `StopAlwaysCompletes` is the claim without that
exception and does not hold (section 5).

*Control.* The ZeroMQ remote control comes back after every fault that it flags, and only a thread that has ended is ever
restarted, so the main loop never waits in a join: a telnet client that stalls its server delays nothing but the shutdown. This needs `InTime`: with
outputs that do not pace the main loop, a restart may meet the previous one half done, and then the main loop waits
for a healthy server to end (set `InTime = FALSE` to see it). The shutdown ends unless a server is just starting, when its
`m_active = true` may follow the destructor's `false`, or a client stalls. A telnet server cannot be restarted at all (finding).

## 4. Proofs

| Module | Proved | Argument |
|---|---|---|
| `MainLoopProofs` (clocks) | types; TIST at FCT 0; MNSC follows the EDI time; stamp = wall clock + offset; stamps advance by one frame | `Undisturbed` behaviours keep EDI time = startup time + 24 ms per frame, with the millisecond part a multiple of 24 less whole seconds; the frame counter is tied to that phase modulo 250. At most one second can fall due between two frames of phase 0, because four frames last 96 ms: that is why one flag is enough. The invariant holds each clock against the number of frames, which none of the properties mentions, and so is stronger than their conjunction. |
| `MainLoopProofs` (TAI) | once the cache has held a valid bulletin no search fails for a process that can read it, and a process with an offset never fails to refresh it, wherever the writing of the file is cut short or fails; an offset that the bulletin in use does not give lasts two hours at most | `ClockOK` says which thread holds the mutex and where the main loop and the refresh then are, and that a bulletin that was valid is only ever replaced by a valid one: so the search that starts from it finds at least itself. For the file, which may mix two bulletins, it says that the first entry is the oldest, or else already of the past (`Begins`, `Firm`): whatever part is overwritten, what stands there has an entry of the past once it had one. `ApartOK` adds that the two come apart only by a leap second or by an answer that an override overtook, that the time since then is at most the time since the last look (`m_state_last_updated`), and that a refresh is only started when it is due, or finds the override itself. Hypotheses (`ClockHypotheses`): `MaxTime` is a natural, the entries of the bulletins are dated, and each bulletin begins with its oldest one; for the second result also that ten years ahead fits an `int` (`MaxTime + TenYears <= IntMax`). That one is needed: `expires_at` overflows from 2028 on, an override then has expired when it is set, and TLC finds three hours. |
| `MainLoopProofs` (outputs) | the file reads back wherever the process ends and whichever calls fail; ZeroMQ messages carry the metadata of their frames | The calls that are left of a `Write` say what the file must look like: `WholeStage` has one case for each, with the cells of the frame at work that are written and the number of frames old or new. As long as nothing failed, the frames in the file are those before the turn of the output (`TurnOf`). Once a call failed, what was whole stays: every later write is behind it or on the cell of the number of frames (`LeftStage`), even if the file goes on in disorder. For ZeroMQ, the frames published and collected are the frames written, and the groups of metadata one for each frame muxed and not published (`Collected`). The other steps of the main loop leave the variables of the outputs alone. Hypotheses: `ConfigsOK`, and that the counters of ETI-NI start as integers. The FIFO in the format framed is excluded, as in the property. |
| `FIGPhaseLockProofs` | types; every programme service is announced within each label cycle; no label goes out before its service was announced | the counters are the numbers of programme services in the two walks; the walk of FIG 1/1 is behind that of FIG 0/2, counted in services of which the labels are a subset. Finite cardinalities are computed with `FiniteSetTheorems`. For the second property `EInv` adds that, until the first walk of FIG 0/2 is over, what was announced in any cycle is what is before its place (`InOrderAtFirst`): comparing the sizes of two prefixes then compares their ends. Hypothesis: programme services all have labels. |
| `EnsembleProofs` (FIG contents) | a completed cycle has carried every entry once, in whole and, but for the lists of `MayMisread`, under its header, for every FIG but 0/6 and 1/1, every list, the first cycle included, all spaces and any number of changes | `SentSoFar` says what has been sent of each entry from the place alone: everything behind the iterator, the pieces at it, and in the second walk of an alternating FIG what belongs to the first. `IInv` equates it with the history and adds that the open header fits every entry of the walk that may still come (`HeaderFits`) and that a completed cycle has put the place back. `SentSoFar` and not the count of entries is needed because a reversed snapshot (FIG 0/1) is walked in the other direction and an entry of FIG 0/21 or FIG 2 is sent in pieces. The sizes play no part but in FIG 0/21, whose batches depend on the space (`BatchFits`). There is no hypothesis about the lists. The run has the FIGs beside the ensemble, whose steps leave them alone: the theorem is about that specification. |
| `ControlProofs` | types; when only the ZeroMQ remote control can fail, the program never calls `std::terminate`, and in time only servers whose thread has ended are restarted | `IInv`: a server that keeps its socket has no fault and, once its thread has begun, is active as long as the main loop runs (`Sound`), so only the ZeroMQ server is restarted (`RestartsZmq`); the one restarter of the telnet server, which its constructor starts, is over before the socket is bound (`RestartedOnce`), so no socket is bound twice (`BoundOnce`), and every restarter has been joined when its server is destroyed (`JoinedBefore`). `InTime` is not needed for that. `DInv` is for the second property: while the main loop runs, a flagged fault means that the thread has ended or its successor has not begun (`FaultMeansEnded`), and a restarter that is still before its join has an ended thread to join (`RestartsTheDead`). Under `InTime` the main loop looks only when a restart has settled, so the second case of a fault is excluded (`LooksWhenSettled`, `SawTheFault`). |
| `EdiOutputProofs` | types, who holds the mutex of the dispatcher, what each connection has at each place of its life (`OutputInvariant`); every queue is bounded; every client gets a piece of the sequence without hole or repetition, and the remote of a TCP client the newest packets in order | `IInv`: the mutex of the dispatcher is with the sender exactly while it pushes, and with the listener exactly while a connection has no preroll yet (`Mutex`). What a client was sent, holds and is queued for it (`Stream`) is a sequence without a hole, like the preroll, and ends with the packet transmitted last, or the one before while that one has not been pushed (`StreamOK`): so a preroll handed over between two pushes fits on. The bound is the larger of the two limits, since the preroll is put in without looking at the maximum, and one more until the overfull connections are removed (`Fits`). For the TCP client, packets are numbered and `Older` is how many are older than all that wait: `Numbered` gives every place of the queue its number from it, `TakenIsOlder` puts what the thread took before it, also when the queue is empty, which no property mentions. Hypothesis: `MaxClientQueue \in Nat`. |
| `EdiReceptionProofs` | a frame is made of one packet: its data, its count and its time stamp, whatever packets before it were not understood; unless a receive was interrupted, what is cut out of the stream is one packet of the source, also after any number of connections that ended in the middle of one; a delay is added to a time stamp exactly, with one carry at most | While no receive was interrupted (`fresh`), the pieces that wait are a stretch of what the source sent: within each block and from one to the next a piece follows on the one before (`Blocks`), the newest block is followed by what is under way, and the source goes on from there; without a connection the last thing to be read is the end of the stream, which empties the buffer (`InFlight`). So a packet is cut out whole. Its items are looked at one after the other up to the first that ends it, and a packet that got to its payload has set all the fields (`PayloadIsComplete`); between packets the writer holds no payload (`WriterInv`), which is what keeps a field of an older packet out of a frame. Hypotheses: `PiecesAssumption`, a packet has at least one piece; `ContentsAssumption`, the items are in the order in which encoders send them (protocol and management data, then the payload): with another order the fields of two packets do mix, and the code does not look at the order. |
| `InputsProofs` | ZeroMQ, EDI and RTP implement `FrameSource`; buffers stay in range; no gap while locked on timestamps; the answers of `InputStat` are true; a file is given unit by unit, without a gap, and the FEC packets cover what was sent | One invariant per kind. ZeroMQ: socket, buffer and what was given are in the order of the source, a message being a run of consecutive frames, and a drop of `readFrame` starts with more frames than it takes, unless the levels it has read are those of `RemovesWhatIsThere`. EDI: what the receiver holds, the queue, the pending frame and what was given are in order; what `readFrame` has measured of the queue is at most what is there, since only it removes frames; under a lock the pending frame or the front of the queue is the next one of the source. RTP: the queue followed by the socket is in the order of arrival, after what was given. Statistics: the glitch counter lies between the glitches since the last poll that must and that may count, and the ages of the windows bound those of the history. Files: `FilePlace` ties the place in the file to the unit that continues what was given (`NextUnit`), mode by mode: behind the bytes kept of a pipe, behind the pending packet, and at a multiple of the frame size for a file loaded whole whose length is one; of other lengths, `TornInv` says that the place goes on and which frame is torn; `FileFec` says that the table is never full between two packets and what has been put in since the parity. The units run modulo the length of the file, so the proof needs that remainders add (`RemainderAdd`, of the function that TLA+ gives by quotient and remainder). Hypotheses, that the run's instance also has: `Bounds` (how much the source sends are naturals, the modulus of the levels is positive), `Thresholds` (at least one glitch makes an input unstable), `FilesAssumption` (a raw file has at least one frame, and a packet fits into a frame), and `KnownProtocols` (UDP in its RTP form, and the raw one, which is not an ordered input). |
| `FicProofs` | no FIG that is due is passed over, and no FIB is closed with space left that was not offered to every FIG | `IInv` holds the carousels and the stack of priorities to their contents: each carousel has the FIGs of its priority, the stack has every priority. In a round of the must-send pass that has made no progress, the priorities behind the place in the stack have been tried, and of the one at work the last `attempt` FIGs (`MustInv`): a FIG that is tried goes to the end of its carousel, so the end of the list is what was tried. The same of the pass that fills up, together with the FIGs that the pass before it has spared (`CanInv`). Hypotheses, of the module: finitely many FIGs, and at least two priorities. |
| `EnsembleProofs` (references) | linking is that of one file; what the FIGs look up by identifier is there, once; the label on the air is the one asked for last | `LinkingInvariant` is the property from the moment the linking sections are parsed. `ReferencesInvariant` says in every phase what the checks so far have let through: services have identifiers of their own from the first on, subchannels only after `prepare_subchannels`, and a component refers by identifier to what it had found by name (`AllRefer`). The components of a service are numbered by their count when they are read, so they are numbered from 0 on at any time (`Numbered`). For the labels, `GoodMarks` says what the scan of a text has marked when it has come to character i: the marks increase, and reading them gives the beginning of the short label. Between the two writes of a command the flag is that of the text about to follow (`setting`). Hypotheses, for the labels only: texts and short labels are sequences, `ShortLength` an integer. |
| `EnsembleProofs` (capacity and frame) | a multiplex that runs fits: disjoint capacity units within `Capacity`, none empty but those of a level that its profile does not have; without such a one, and but for mode III with the classic carousel, a frame within its buffer in which a reader finds every part by the header | `FitsInvariant` has in the phases before `prepare_data_inputs` what the parser lets through of a subchannel (`Coded`), and after it that each one starts where the one before ends (`Chained`) and, but for a level its profile does not have, which gives size 0, a size and a whole number of pairs of words, at most 8/5 words for each unit (`Sized`, from the table of the code entry by entry and from its formulas). The check of the end of the last one then bounds them all, and so the frame: identifiers differ, so there are at most `MaxIds` of them (pigeonhole). That each stream is found where `mux_frame` put it is `FrameReadsBack`: the lengths in the header add up to the same sums. Hypothesis: `Sensible`. It says that the buffer has room for 5 + 32 + `MaxIds` + 8/5 `Capacity` words (of the code: 5 + 32 + 64 + 1382, and the buffer has 1536), that bitrates of MPEG are multiples of 8, and that the numbers of the configuration are numbers. That nobody configures a level without a size is not assumed. |

The theorems hold for every startup time, offset and number of frames, every list of services or entries, every choice of servers and periods, every
length of a queue, every number of clients, every number of packets, messages and datagrams, and every configuration. They assume only the ASSUMEs of the modules and what their statements say.

Where the code counts through a list (marks of a label, start addresses, sums of stream lengths) the model has a recursive function, and the proofs need induction. `EnsembleProofs` states it about sets: a set with 0 in it, and with every i of 1..n whose predecessor is in it, contains 0..n (`Upto`, from the well-foundedness of < on the naturals). `Recursion` derives from it that a function defined step by step exists.

Model-checked only:

* Liveness, under fairness, among it what is said of the announcement clusters and of a reloaded linkage list: out of reach of the prover.
* What is written and read of the EDI packets (`ReadsBack`): sums and cuts over bytes, recursive over the data, which is induction that the prover's library cannot be instantiated for.
* The fragment decoder (`InOrder`, `LateIsNotLost`, `ResumesSoon`). Fragments may be lost, doubled and late, so a builder may hold a number that has come round again, and each of the
  three properties charges every packet given up to a fault or to the lifetime of a builder. `InOrder` also needs that there are fewer faults than numbers. The invariant has to place all builders
  and all fragments under way on the circle of the numbers; section 7 has it as the next thing to prove.
* The lateness of the classic scheduler (`LatenessBounded`): `Bound` is a number for the sizes and rates of the lists in question, not a consequence of the algorithm for every list.
* That a fill respects its space (`TypeOK` of FIGContents), which needs the sizes entry by entry.

## 5. Divergences noted without a run

No run claims these: no text of the repository states the opposite in a form that can be checked, or they are about
data the models leave out, or one run per question had to do. They were found by reading and, where a model has the behaviour, seen in it. Some are
stated as properties that no passing run lists because the code does not have them: `OverrideIsUsed` (ClockTAI), `FifoReadsBack` (Outputs), `SourceOrder` (DatagramInput), `LevelHasSize` (Ensemble), `SetIsTransmitted` (FIGContents),
`NoHeaderAlone` (Announcements), `NothingStarves` (MCFic), `StopAlwaysCompletes` (EdiSender).

*Timekeeping and main loop*

* A change of `tist_offset` by whole seconds moves the EDI time and not the MNSC time (`DabMultiplexer.cpp:99-107`).
* `general.nbframes = n` makes n + 1 frames (`DabMux.cpp:505` compares after the frame; `doc/example.mux:27`).
* SIGHUP, SIGQUIT and SIGINT send SIGPIPE to the process group before `running` is lowered, and no handler for SIGPIPE is
  installed (`DabMux.cpp:91` and 116), so the orderly shutdown happens only where SIGPIPE is ignored; SIGTERM calls
  `exit` in the handler, which destroys the static servers in whatever thread took the signal.
* With EDI as the only output the multiplexer refuses to start: "no output defined".
* The hash that detects a reconfiguration reads beyond `data_to_hash` (`DabMultiplexer.cpp`, FIG 0/7).

*TAI clock*

* An override set by the remote control is lost if the answer of a refresh, begun before, comes after it (`ClockTAI.cpp:526`); `ClockTAI.h` calls `m_state`
  "the currently used TAI-UTC offset, extracted the bulletin and cached here".
* `get_valid_offset` downloads under the mutex that `get_offset` takes in the main loop (`ClockTAI.cpp:429`), although the refresh is meant to be asynchronous.
* The cache is written without truncation, so a bulletin shorter than the last one leaves its end, and a write that is cut short leaves a file of two bulletins with the expiry of the new one (`Overwritten`). `int expires_at` of an override
  overflows from January 2028 on. A new URL is used at the next refresh at the earliest, and not while the bulletin is usable.

*Outputs*

* A FIFO in the format framed gets the count 0xFFFFFFFF before every frame (`dabOutputFifo.cpp:78`), where the format has it once.
* A send error of UDP or of the TCP dispatcher ends the multiplexer. Short writes are not noticed.
* ZeroMQ messages start at the first frame made, which need not have FP modulo 4 = 0.

*EDI input*

* `over_max` wraps when prebuffering is above the fill (`input/Edi.cpp:209`; the comment at 205 has the drop "get down to the prebuffering size"): with `buffer` 2 and
  `prebuffering` 4 the loop can throw away all there is and never end. A prebuffering above twice the buffer is never reached and the input stays silent. In the instance of `inputs`.
* A `tistdelay` that is changed during a lock moves the window, and may cost the lock and frames.
* A locked timestamped `readFrame` copies a frame without comparing its size (`input/Edi.cpp:325`).
* `~Edi` joins a receiver that may be waiting for room in a queue nobody reads (`input/Edi.cpp:73`).
* A positive `tist-delay` plays content earlier, since it is added to the requested time and not to the timestamp of the frame
  (`input/Edi.cpp:267`); `doc/example.mux:292-293` says "Positive values mean the content will be inserted later". A negative one wraps the unsigned
  timestamp (`lib/edi/common.cpp:81` and 93).

*Other inputs*

* `Udp::readFrame` never removes from its buffer what it has returned (`input/Udp.cpp:89-106`): it repeats the first
  frame and the buffer grows.
* `Udp.h:61-62` says that the RTP input reorders, but the code has a TODO there (`Udp.cpp:273-274`): datagrams that arrive late or twice are given late or twice (`SourceOrder`). `0x80 >> 7` binds otherwise than meant (`Udp.cpp:266`), and the length of the STI frame is not compared.
  `sti-rtp://` makes a protocol that `ConfigParser` does not accept.
* `FileBase::readFromFile` in whole-file mode copies all pieces to the start of the frame (`input/File.cpp:238-251`), so the frame in which a file ends is a mixture; `FileContinues` excepts that frame. And it in block mode always
  ends the frame at which the file starts again with an error (`File.cpp:281`).
* `MPEGFile` spins for ever on an empty file (`File.cpp:294`, 319-327) and ignores `load_entire_file`. A packet longer than a frame blocks a packet file for ever. A header of a packet whose body has not arrived
  is lost in a nonblocking pipe. The padding at the end of a frame is not in the FEC table.
* `ZmqBase::readFrame` subtracts the prebuffering from the fill without comparing them (`Zmq.cpp:269`): with a prebuffering above one and a half times the buffer it may pop from an empty list. With `zmq-buffer` below
  five an AAC input may do the same. Both are in the instance of `inputs`, as what `RemovesWhatIsThere` excepts. Prebuffering counts superframes for AAC. The timestamped `readFrame` gives silence and drains nothing. A failed `rebind` leaves the socket unbound, and it uses the socket of the
  main loop from the thread of the remote control.

*Statistics of inputs*

* The counter of glitches is set to zero only when somebody polls (`ManagementServer.cpp:671`), while the comment at line 63 has it "set to zero when the counter timeout expires": without
  a poll in between, three glitches weeks apart are reported as Unstable.
* `m_short_window_length` is never set, so the peaks reported as those of a short window are those of the whole window or, where there is one, none of it (`ManagementServer.cpp:578-590`).
* An input whose levels stop while it is silent stays Silent however long it streams after that (`ManagementServer.cpp:509`).

*FIG schedulers*

* The last priority never has a FIG (`FIGCarouselPriority.cpp:223`) and its counter is never set anew, so from the first 256 selections on (`:131`, `:683`) it is always the one most overdue and the selection starts there: the weights
  have no effect and low priorities starve under overload, though `FIGCarouselPriority.h:5-8` has the weights "prevent starvation" (`NothingStarves`).
* The must-send pass moves a FIG to the back also when it wrote nothing (`FIGCarouselPriority.cpp:496`; the header says
  it goes to the back after being sent, `FIGCarouselPriority.h:301`).
* A FIG that completes its cycle in pass 1 may be sent again into the same FIB by pass 2, since pass 2 infers from the renewed
  deadline that pass 1 had skipped it (`FIGCarouselPriority.cpp:578`; comment at 574).
* `set_rate_correction` of the classic carousel has no effect on its elements. Transmission mode III throws at its fourth FIB (`FIGCarousel.cpp:316`; `WriteFourthFib` in `Ensemble`). The deadline of a FIG that never completes decreases for ever.

*Ensemble and configuration*

* A protection level that its profile does not have gives a size of zero (`MuxElements.cpp:849` says "Should not happens"). UEP with dabplus falls back to EEP after the type of the component has been adjusted.
* `abs(rint(lto * 2))` takes the sign from the configured local time offset (`ConfigParser.cpp:557`).
* Subchannel ids are cut to a byte before they are compared with 64, and linkage set numbers to 16 bits. The first automatic subchannel id is 1.
* `prepare_services_components` tells duplicate ids by a set that it never fills.
* Labels are changed by the remote control without the mutex that `MuxElements.h:425` asks for, flag and text one after the other (`MuxElements.cpp:259` and 290): frames in between show the old text with the new flag.

*FIG contents*

* `FIGRuntimeInformation` counts programme services in FIG 0/2 and labels in FIG 1/1: a programme service
  without a FIG 1 label makes the counts differ (`FIG.h:66` and 93).
* FIG 0/20 takes the P/D flag of the first entry behind a header for all of them (`FIG0_20.cpp:124`), FIG 0/24 P/D likewise (`FIG0_24.cpp:139`), and the OE
  flag when an entry of this ensemble follows one of another (`last_oe` is never set, `FIG0_24.cpp:83`); FIG 0/24 advances four bytes for the five-byte entry
  of a data service (`FIG0_24.cpp:171`).
* FIG 2/1 and 2/5 compute the length of a label by the text control of the label of the ensemble and write it by that of the service
  (`FIG2.cpp:248` and 286). Where the two differ the length field is wrong, and a segment may end past the space (`Overrun`), which ends
  the main loop with an exception (`FIGCarousel.cpp:457-463`, `FIGCarouselPriority.cpp:783-791`).
* The FIGs whose iterator starts at `end()` report a complete cycle in their first fill, when nothing was sent, though `FIG.h:132-134` says that
  it tells "if the complete set of information from that FIG was transmitted" (`SetIsTransmitted`). `CycleIsExact` says what that cycle carries.
* FIG 0/19 keeps no position: with more than seven clusters it begins anew each time and never completes. A cluster for a subchannel that does not
  exist is skipped after the header was written (`FIG0_19.cpp:137`), which both schedulers answer with an exception (`FIGCarousel.cpp:450`, `FIGCarouselPriority.cpp:778`).
  An announcement that comes on in the middle of the fill that signals its end is sent as on and may then never be ended.
* FIG 0/6: of two sets with one number and type, but different in hard or international, the second is never sent (`FIG0_6.cpp:269`). A set with a key service and an empty list is never sent. More ids than fit
  (over 12 national or 8 international) stop the FIG for good.
* Entries that never fit a FIB, which the configuration allows, stop their FIG for good: FIG 0/18 with more than 23 clusters, FIG 0/24 with more than 12
  ensembles, FIG 0/2 with 12 components of a data service, FIG 0/9 with extended fields of more than 25 bytes.
* FIG 0/9 and FIG 0/21 take their lists once and never again, so a change at run time does not reach them.
* FIG 1/5 asks for the space of a label before it looks whether the service is a data service (`FIG1.cpp:258`).

*EDI*

* A packet of which no fragment has arrived is abandoned with the first fragment of the next one, and that fragment with it,
  because the builders kept for late copies count against the maximum delay (`PFT.cpp:577`); `PFT.hpp:184` speaks of
  "the maximum delay in number of AF Packets before we abandon decoding a given pseq".
* The builders of the PFT decoder survive `push_bytes({})` (`src/lib/edi/common.cpp:146`; `common.hpp:112-116` says that it clears "the internal
  decoder state to ensure realignment"): after a reconnection, fragments of a sender that numbers from zero again are refused as
  already received, or combined with old ones into a packet that fails its CRC. `RestartSender` in `EdiPft` shows it.
* Under endless loss of part of every packet, each one waits its whole lifetime at the head, and lag and builders grow
  until the numbers wrap (`PFT.cpp:599-629`).
* With `fec` of 10 and more a burst of that many fragments is not repaired for all sizes, since the last chunk is shorter. `required_len` counts one byte for the two of the header (`PFT.cpp:142`), and without FEC the CRC of the header is not looked at. In a stream, a header with a wrong CRC
  loses everything that was buffered.
* `decode_tagpacket` stops at an unknown TAG though its log says "Ignoring unknown TAG". An exception clears the bytes, good packets behind included, but not the flags of `STIWriter`: a source that leaves out or reorders
  items after that could get frames of two packets. After an error of an AF packet, complete packets wait for the next bytes.
* `TCPReceiveServer` ends a connection without a message when interrupted, has no bound on its queue, and does not catch the error of `poll` in `accept`.
* `tagpacket_alignment` above 8 appends a `*dmy` of that size rather than padding to it (`doc/advanced.mux:517-520`).
* `PFTSpreader::settings` is never set from the configuration, so the configured spreading and verbosity have no effect
  (`Transport.cpp:243`).
* The preroll is counted in transmitted buffers, which are fragments when PFT is on (`Socket.cpp:1164`).
* A TCP client that stops reading in the middle of a packet holds its thread in `::send`: the socket is blocking, and the `poll` before it only says that something is free (`Socket.cpp:882`, 921-944). Whoever removes that
  client or ends the server then waits in the join, with both mutexes, and with it the main loop (`StopAlwaysCompletes`).
* An error of the TCP listener makes the next write throw in the sender thread, where nothing catches it (`Socket.cpp:1160`).
* The destructor of `TCPSendClient` waits for a send or a connect that blocks.

*Servers*

* The telnet remote control never resets its fault flag: when its port was taken at the start and is free later, the first
  restart succeeds and the second ends the program (`RemoteControl.cpp:250-273`). In `Control` with errors of the telnet server.
* The second restart of the management server assigns to a thread that is still joinable, and so does its destructor end
  the program after any restart (`ManagementServer.cpp:288-308`). In `Control` with errors of the management server.
* The ZeroMQ remote control does not flag an error of ZeroMQ, a bind that fails included, and then stays dead
  (`RemoteControl.cpp:602`).

## 6. Not modelled

* Vendored or external code: `lib/zmq.hpp`, `lib/fec`, `lib/charset/utf8`, `lib/farsync`, `m4`.
* Formatting without state: CRC, character sets, JSON, log text. The bytes inside the entries of the FIGs.
* `deti` and `estN` items of the multiplexer's own EDI output: nothing in the repository reads them, so there is nothing to hold them against. The raw output is the
  ioctls of a device, the simulation a sleep.
* PRBS and the dumps of MPEG headers: data without state that another part sees. Read errors and empty files.
* The web server, the requests to the management server and the list of remote controllables. The logger.
* Signal handlers (see section 5), options and the check of the date at startup.
* UDP destinations of the EDI output, PF fragments in a stream, `setMaxDelay` and the filter by stream index, which nothing uses.
* Code that no build target of the multiplexer calls: `Interleaver`, `Dmb`, `dabInputDmb*`.
* Tools: `zmq2farsync`, `zmqinput-keygen`, `TestStatsServer`.

## 7. Plan

What is left is to prove more of what is modelled, in this order:

1. The decoder of EdiPft: `InOrder`, `LateIsNotLost` and `ResumesSoon`, with an invariant that says where the numbers of the builders lie around the awaited one.
2. That a fill respects its space (FIGContents), which needs the sizes entry by entry.

Then, if the code grows there: UDP destinations of EdiSender, PF fragments in EdiStream, and one run that gives FIGCarousel and FIGCarouselPriority the walks of FIGContents in place
of lists of sizes.
