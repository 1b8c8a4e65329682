----------------------------- MODULE MCEdiReception ---------------------------
(***************************************************************************)
(* An EDI input from the network to the frames: the fragments over UDP     *)
(* (EdiPft), what they are cut from and put together to (PftCoding), the   *)
(* stream over TCP (EdiStream) and the packets themselves (EdiPacket).     *)
(* They meet in packets only, so each behaviour is one of them alone       *)
(* (kind), the variables of the others staying as they start.              *)
(***************************************************************************)
EXTENDS EdiPft

CONSTANTS
    Contents, PacketPieces, MaxPackets, MaxConnections, MaxFlight, MaxMessages,
    MaxTimeouts, MaxInterrupts,                                    \* of EdiStream
    Alignments, FirstDlfcs, FirstSeqs, MaxWritten, Ticks, Delays,  \* of EdiPacket
    Sizes, ChunkLens, Fecs, MaxPayload, MaxLost                    \* of PftCoding

VARIABLES
    kind,
    stream, peer, connections, packets, piece, contents, sock, num_timeouts, interrupts,
    messages, m_input_data, decoding, fresh, m_proto_valid, m_management_data, m_payload,
    m_seconds, frame,
    dlfc, m_seq, written, given, packet,
    size, m_k, m_m, lost

streamVars == <<stream, peer, connections, packets, piece, contents, sock, num_timeouts,
                interrupts, messages, m_input_data, decoding, fresh, m_proto_valid,
                m_management_data, m_payload, m_seconds, frame>>
packetVars == <<dlfc, m_seq, written, given, packet>>
codingVars == <<size, m_k, m_m, lost>>
allVars == <<kind, vars, streamVars, packetVars, codingVars>>

\* A packet as ODR-AudioEnc sends it, one without a time, some that are not understood, or not
\* to the end.
MCContents ==
    {<<"ptr", "dsti", "ss">>, <<"ptr", "dsti_null", "unknown", "ss">>,
     <<"ptr", "dsti_short", "ss">>, <<"ptr_wrong", "dsti", "ss">>}

\* With and without a time, the fields that are optional, and frames of length zero.
Fr(time, tsta, sti, rfad, levels, version, istd) ==
    [time |-> time, taiUtc |-> 37, tsta |-> tsta, sti |-> sti, rfad |-> rfad, id |-> 258,
     rfa |-> 0, tid |-> 5, stid |-> 4095, istd |-> istd, levels |-> levels, version |-> version]
MCFrames ==
    LET rfad == <<1, 2, 3, 4, 5, 6, 7, 8, 255>>
        version == <<0, 0, 0, 9, 118>>
    IN  UNION {{Fr(t[1], t[2], <<>>, <<>>, <<>>, <<>>, <<>>),
                Fr(t[1], t[2], <<1, 2, 3>>, <<>>, <<1, 0, 2, 0>>, version, <<7>>),
                Fr(t[1], t[2], <<>>, rfad, <<>>, version, <<42, 112, 116, 114, 0>>),
                Fr(t[1], t[2], <<1, 2, 3>>, rfad, <<>>, <<>>, <<7, 8, 9, 10>>)} :
                   t \in {<<0, 0>>, <<1700000000, 16383999>>, <<1700000000, 500 * Ticks>>}}

Stream == INSTANCE EdiStream WITH
    MaxQueue <- MaxMessages, net <- stream, m_queue <- messages
Packet == INSTANCE EdiPacket WITH Frames <- MCFrames
Coding == INSTANCE PftCoding

ASSUME PiecesAssumption == PacketPieces \in Nat \ {0}
ASSUME ContentsAssumption == \A tags \in Contents : Stream!InOrderOfEncoders(tags)

NoPacket == dlfc = 0 /\ m_seq = 0 /\ written = 0 /\ given = Packet!Nothing /\ packet = <<>>
NoCoding == size = 0 /\ m_k = 0 /\ m_m = 0 /\ lost = {}

InputInit ==
    /\ Init /\ Stream!Init
    /\ \/ kind \in {"pft", "stream"} /\ NoPacket /\ NoCoding
       \/ kind = "packet" /\ Packet!Init /\ NoCoding
       \/ kind = "coding" /\ NoPacket /\ Coding!Init

NotPft == UNCHANGED <<kind, streamVars, packetVars, codingVars>>

InputNext ==
    \/ kind = "pft" /\ Next /\ NotPft
    \/ kind = "stream" /\ Stream!Next /\ UNCHANGED <<kind, vars, packetVars, codingVars>>
    \/ kind = "packet" /\ Packet!Next /\ UNCHANGED <<kind, vars, streamVars, codingVars>>
    \/ kind = "coding" /\ Coding!Next /\ UNCHANGED <<kind, vars, streamVars, packetVars>>

\* The fairness of EdiPft: as fragments in flight are bounded, neither the sender nor the
\* decoder can stop if not both do.
InputSpec ==
    /\ InputInit /\ [][InputNext]_allVars
    /\ WF_allVars(kind = "pft" /\ (SendFragment \/ Receive) /\ NotPft)

-----------------------------------------------------------------------------
\* A frame is made of one packet, and that of the bytes of one connection.
FrameOfOnePacket == Stream!FrameOfOnePacket /\ Stream!Realigned

\* What is put into packets and fragments is read back.
ReadsBack == Packet!ReadsBack /\ (kind = "coding" => Coding!Recovers)
=============================================================================
