------------------------------ MODULE ZmqInput ------------------------------
(***************************************************************************)
(* The ZeroMQ input of one subchannel: classes Inputs::ZmqBase, ZmqMPEG    *)
(* and ZmqAAC.                                                             *)
(*                                                                         *)
(* There is no thread of its own.  The main loop calls readFrame once per  *)
(* 24 ms; each call first takes one message from the socket, whatever the  *)
(* level of the buffer, then makes room, then gives a frame or silence.    *)
(* The remote control changes the parameters at any moment, without a      *)
(* mutex, and may rebind the socket.                                       *)
(*                                                                         *)
(* A message of an AAC encoder carries a superframe of five frames, one of *)
(* an MPEG encoder a single frame.  The header of a message and the keys   *)
(* are reduced to whether they are right.                                  *)
(***************************************************************************)
EXTENDS Integers, Sequences

CONSTANTS
    Formats,        \* subset of {"AAC", "MPEG"}
    Messages,       \* bound: number of messages the encoder sends
    HighWater,      \* messages ZeroMQ keeps for the socket
    Buffers,        \* values of the parameter buffer
    Prebufferings,  \* values of the parameter prebuffering
    MaxRcCommands,  \* bound: number of parameter changes
    SizeModulus     \* 2^64, the number of values of a size_t

SuperFrame == 5

LevelsOK ==
    /\ Buffers \subseteq Nat /\ Prebufferings \subseteq Nat
    /\ SizeModulus \in Nat
    /\ \A b \in Buffers, p \in Prebufferings : b + SuperFrame + p < SizeModulus

VARIABLES
    format,
    encoded,         \* messages sent so far
    socket,          \* messages waiting: the number, and whether the size is right
    m_frame_buffer,  \* numbers of frames
    m_prebuf_current,
    buffer_size, prebuffering, m_enable_input,  \* parameters
    enable_encryption,
    keysValid,       \* the three key files exist and hold keys
    bound,           \* m_zmq_sock_bound_to is not empty
    reader,          \* where the main loop is inside readFrame
    readsize,        \* readFromSocket has stored something
    levels,          \* the levels that the overrun of this readFrame has read
    given,           \* the last frame that was not silence, or -1
    rcCommands

settings == <<buffer_size, prebuffering, m_enable_input, enable_encryption, keysValid, bound>>
network == <<format, encoded, socket>>
vars == <<network, m_frame_buffer, m_prebuf_current, settings, reader, readsize,
          levels, given, rcCommands>>

NotRead == -1
NoLevels == [limit |-> NotRead, again |-> NotRead, low |-> NotRead]

PerMessage == IF format = "AAC" THEN SuperFrame ELSE 1

Init ==
    /\ format \in Formats
    /\ encoded = 0 /\ socket = <<>>
    /\ m_frame_buffer = <<>>
    /\ buffer_size \in Buffers
    /\ prebuffering \in Prebufferings
    /\ m_prebuf_current = prebuffering
    /\ m_enable_input = TRUE
    /\ enable_encryption = FALSE /\ keysValid = FALSE
    /\ bound = TRUE
    /\ reader = "idle" /\ readsize = FALSE
    /\ levels = NoLevels
    /\ given = -1
    /\ rcCommands = 0

-----------------------------------------------------------------------------
(* The encoder.  What it sends is lost while the socket is not bound, and  *)
(* when ZeroMQ keeps as many messages as it is allowed to.                 *)
Encode(right) ==
    /\ encoded < Messages
    /\ encoded' = encoded + 1
    /\ socket' = IF bound /\ Len(socket) < HighWater
                 THEN Append(socket, [id |-> encoded, right |-> right]) ELSE socket
    /\ UNCHANGED <<format, m_frame_buffer, m_prebuf_current, settings, reader, readsize,
                   levels, given, rcCommands>>

-----------------------------------------------------------------------------
(* readFrame, called by the main loop.                                     *)

FramesOf(message) == [i \in 1..PerMessage |-> message.id * PerMessage + i - 1]

Stored(message) == FramesOf(message)

Accepts == Len(m_frame_buffer) <= buffer_size /\ m_enable_input

\* readFromSocket.  A message of the wrong size, one that finds the buffer full or the
\* input disabled is taken and dropped.
ReadNothing ==
    /\ reader = "idle" /\ socket = <<>>
    /\ reader' = "received" /\ readsize' = FALSE
    /\ UNCHANGED <<network, m_frame_buffer, m_prebuf_current, settings, levels, given,
                   rcCommands>>

ReadMessage ==
    /\ reader = "idle" /\ socket # <<>>
    /\ socket' = Tail(socket)
    /\ readsize' = (Head(socket).right /\ Accepts)
    /\ m_frame_buffer' = IF readsize' THEN m_frame_buffer \o Stored(Head(socket)) ELSE m_frame_buffer
    /\ reader' = "received"
    /\ UNCHANGED <<format, encoded, m_prebuf_current, settings, levels, given, rcCommands>>

\* The first look at the level.  The remote control may change the limit before the second,
\* and the level to return to before that is read.
LookAtLevel ==
    /\ reader = "received"
    /\ IF Len(m_frame_buffer) >= buffer_size
       THEN /\ reader' = "overrun" /\ levels' = [levels EXCEPT !.limit = buffer_size]
       ELSE /\ reader' = "roomy" /\ UNCHANGED levels
    /\ UNCHANGED <<network, m_frame_buffer, m_prebuf_current, settings, readsize, given,
                   rcCommands>>

FarTooFull == 2 * Len(m_frame_buffer) >= 3 * buffer_size

\* Mutant: the two amounts are swapped.
LookAgainSwapped ==
    /\ reader = "overrun"
    /\ levels' = [levels EXCEPT !.again = buffer_size]
    /\ reader' = IF FarTooFull THEN "tooFull" ELSE "farTooFull"
    /\ UNCHANGED <<network, m_frame_buffer, m_prebuf_current, settings, readsize, given,
                   rcCommands>>

LookAgain ==
    /\ reader = "overrun"
    /\ levels' = [levels EXCEPT !.again = buffer_size]
    /\ reader' = IF FarTooFull THEN "farTooFull" ELSE "tooFull"
    /\ UNCHANGED <<network, m_frame_buffer, m_prebuf_current, settings, readsize, given,
                   rcCommands>>

\* pop_front, n times.  On an empty list its behaviour is undefined, and with it that of the
\* program from there on: the input takes no further step.
Drop(n, read) ==
    /\ IF n > Len(m_frame_buffer)
       THEN reader' = "undefined" /\ levels' = read /\ UNCHANGED m_frame_buffer
       ELSE /\ reader' = "roomy" /\ levels' = NoLevels
            /\ m_frame_buffer' = SubSeq(m_frame_buffer, n + 1, Len(m_frame_buffer))
    /\ UNCHANGED <<network, m_prebuf_current, settings, readsize, given, rcCommands>>

DropSuperFrame == reader = "tooFull" /\ Drop(SuperFrame, levels)

\* size_t over_max: the difference is unsigned.
DropToPrebuffering ==
    /\ reader = "farTooFull"
    /\ Drop((Len(m_frame_buffer) - prebuffering) % SizeModulus,
            [levels EXCEPT !.low = prebuffering])

\* During the prebuffering, silence; it counts messages, not frames.
Prebuffer ==
    /\ reader = "roomy" /\ m_prebuf_current > 0
    /\ m_prebuf_current' = IF readsize THEN m_prebuf_current - 1 ELSE m_prebuf_current
    /\ reader' = "idle"
    /\ UNCHANGED <<network, m_frame_buffer, settings, readsize, levels, given, rcCommands>>

\* Nothing left: silence, and the prebuffering starts again.
Underrun ==
    /\ reader = "roomy" /\ m_prebuf_current = 0 /\ m_frame_buffer = <<>>
    /\ m_prebuf_current' = prebuffering
    /\ reader' = "idle"
    /\ UNCHANGED <<network, m_frame_buffer, settings, readsize, levels, given, rcCommands>>

Give ==
    /\ reader = "roomy" /\ m_prebuf_current = 0 /\ m_frame_buffer # <<>>
    /\ given' = Head(m_frame_buffer)
    /\ m_frame_buffer' = Tail(m_frame_buffer)
    /\ reader' = "idle"
    /\ UNCHANGED <<network, m_prebuf_current, settings, readsize, levels, rcCommands>>

ReadFrame ==
    \/ ReadNothing \/ ReadMessage
    \/ LookAtLevel \/ LookAgain \/ DropSuperFrame \/ DropToPrebuffering
    \/ Prebuffer \/ Underrun \/ Give

-----------------------------------------------------------------------------
(* The remote control: set_parameter.                                      *)

Command ==
    /\ rcCommands < MaxRcCommands
    /\ rcCommands' = rcCommands + 1
    /\ UNCHANGED <<network, m_frame_buffer, m_prebuf_current, reader, readsize, levels, given>>

\* The least that the remote control accepts for either level is five; it does not compare
\* them, and the configuration is read without a check.
SetBuffer(n) ==
    /\ n >= SuperFrame
    /\ Command /\ buffer_size' = n
    /\ UNCHANGED <<prebuffering, m_enable_input, enable_encryption, keysValid, bound>>

SetPrebuffering(n) ==
    /\ n >= SuperFrame
    /\ Command /\ prebuffering' = n
    /\ UNCHANGED <<buffer_size, m_enable_input, enable_encryption, keysValid, bound>>

SetEnable(on) ==
    /\ Command /\ m_enable_input' = on
    /\ UNCHANGED <<buffer_size, prebuffering, enable_encryption, keysValid, bound>>

\* The name of a key file; it is read by the next rebind.
SetKeyFile(valid) ==
    /\ Command /\ keysValid' = valid
    /\ UNCHANGED <<buffer_size, prebuffering, m_enable_input, enable_encryption, bound>>

\* rebind: the socket is unbound first; without keys, or when bind fails, an exception
\* leaves it so, and the flag of the encryption as it was set.
SetEncryption(on, bindSucceeds) ==
    /\ Command /\ enable_encryption' = on
    /\ bound' = ((on => keysValid) /\ bindSucceeds)
    /\ UNCHANGED <<buffer_size, prebuffering, m_enable_input, keysValid>>

SetParameter ==
    \/ \E n \in Buffers : SetBuffer(n)
    \/ \E n \in Prebufferings : SetPrebuffering(n)
    \/ \E on \in BOOLEAN : SetEnable(on)
    \/ \E valid \in BOOLEAN : SetKeyFile(valid)
    \/ \E on, bindSucceeds \in BOOLEAN : SetEncryption(on, bindSucceeds)

Next ==
    \/ \E right \in BOOLEAN : Encode(right)
    \/ ReadFrame
    \/ SetParameter
-----------------------------------------------------------------------------
(***************************************************************************)
(* "If the buffer is really too full, we drop as many frames as needed to  *)
(* get down to the prebuffering size": readFrame removes no more than      *)
(* there is, unless the level to return to that this call has read is more *)
(* than one and a half times the limit that this call has read, or, for    *)
(* the five frames of the other branch, the configured limit is below      *)
(* five.                                                                   *)
(***************************************************************************)
RemovesWhatIsThere ==
    reader = "undefined" =>
        IF levels.low = NotRead THEN levels.limit < SuperFrame
        ELSE 2 * levels.low > 3 * levels.again
=============================================================================
