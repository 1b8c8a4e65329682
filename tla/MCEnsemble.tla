----------------------------- MODULE MCEnsemble -----------------------------
(***************************************************************************)
(* The ensemble, from its configuration to the multiplex (Ensemble), and   *)
(* the FIGs made of its elements (FIGContents).  What the configuration    *)
(* has too many forms of is not combined with all lists of the FIGs: each  *)
(* behaviour is one of the two alone (kind), the variables of the other    *)
(* staying as they start.                                                  *)
(*                                                                         *)
(* Small configurations: one or two services and subchannels, with every   *)
(* kind of entry that the parser or prepare treat differently.             *)
(***************************************************************************)
EXTENDS MCFIGContents, FiniteSets

CONSTANTS Generals, ServiceEntries, SubchannelEntries, ComponentEntries, LinkingFiles, Labels, Offsets,
          MpegBitrate, FirstServiceId, MaxIds, Capacity, LabelLength, ShortLength, FrameBuffer,
          MaxServices, MaxSubchannels, MaxComponents, MaxRcCommands   \* of Ensemble

VARIABLES
    kind,
    pc, general, services, subchannels, components, linking, loaded, label, asked, setting, rcCommands

NotGiven == -1

General(dabmode, lto, text, cluster) ==
    [dabmode |-> dabmode, scheduler |-> "classic", lto |-> lto, text |-> text, hasShort |-> FALSE, short |-> <<>>,
     cluster |-> cluster]
MCGenerals ==
    {General(1, 4, <<"p", "q">>, 1),
     [General(3, 0, <<"p", "q", "q">>, 511) EXCEPT !.hasShort = TRUE, !.short = <<"q">>,
                                                   !.scheduler = "priority"],
     General(3, 0, <<"p">>, 1),
     General(5, 0, <<"p">>, 1), General(1, 25, <<"p">>, 1), General(1, 0, <<"p">>, 256),
     General(1, 0, <<"p", "p", "p", "p", "p">>, 1)}
MCOffsets == {-24, 3, 25}

MCServiceEntries ==
    [uid : {"a"}, id : {NotGiven, 51}, clusters : {<<1, 255, NotGiven>>}, label : {0}, sd : {"dynamic"}, oldOe : {FALSE}]
        \union [uid : {"b"}, id : {NotGiven, 50}, clusters : {<<>>}, label : {0}, sd : {"static"}, oldOe : {FALSE}]
        \union [uid : {"b"}, id : {9}, clusters : {<<>>}, label : {-2}, sd : {"dynamic"}, oldOe : {FALSE}]
        \union [uid : {"b"}, id : {9}, clusters : {<<>>}, label : {0}, sd : {"none"}, oldOe : {FALSE}]
        \union [uid : {"b"}, id : {9}, clusters : {<<>>}, label : {0}, sd : {"static"}, oldOe : {TRUE}]

Channel(type, proto, bitrate, profile, protection) ==
    [uid |-> "s1", id |-> NotGiven, management |-> "prebuffering",
     type |-> type, proto |-> proto, bitrate |-> bitrate, profile |-> profile,
     protection |-> protection]

AllSubchannelEntries ==
    {Channel("dabplus", "zmq", 320, "", 3), Channel("audio", "file", 0, "", 1),
     Channel("audio", "stp", 40, "", 3), Channel("dabplus", "edi", 128, "EEP_B", 4),
     Channel("data", "prbs", 576, "", 1), Channel("audio", "stp", 40, "", 5)}
BadSubchannelEntries ==
    {Channel("packet", "file", 8, "EEP_B", 2), Channel("dabplus", "udp", 64, "", 3),
     Channel("audio", "file", 12, "", 3), Channel("dmb", "udp", 64, "", 5),
     Channel("dabplus", "zmq", NotGiven, "", 3), Channel("data", "file", 0, "", 3)}

MCSubchannelEntries ==
    AllSubchannelEntries \union BadSubchannelEntries
        \union {[e EXCEPT !.id = 0] : e \in {Channel("dabplus", "zmq", 320, "", 3)}}
        \union {[e EXCEPT !.uid = "s2"] : e \in AllSubchannelEntries}
        \union {[e EXCEPT !.uid = "s2", !.id = 257] : e \in {Channel("audio", "stp", 40, "", 3)}}

Component(service, subchannel) ==
    [service |-> service, subchannel |-> subchannel, type |-> 5, label |-> 0, app |-> "slideshow"]
MCComponentEntries ==
    {Component(service, subchannel) : service \in {"a", "b"}, subchannel \in {"s1", "s2"}}
        \union {[Component("a", "s1") EXCEPT !.label = -3], [Component("a", "s1") EXCEPT !.app = "too_large"]}
        \union {Component("x", "s1")}

Link(type, id, ecc) == [type |-> type, id |-> id, ecc |-> ecc]
Set(lsn, key, hasList, links, international) ==
    [lsn |-> lsn, keyservice |-> key, hasList |-> hasList, list |-> links, international |-> international]
Fi(rm, oe, continuity, frequencies) ==
    [rm |-> rm, oe |-> oe, continuity |-> continuity, frequencies |-> frequencies]

Good == [links |-> <<Set(1, "a", TRUE, <<Link("fm", 7, 0)>>, FALSE), Set(65538, "", FALSE, <<>>, FALSE)>>,
         freqs |-> <<Fi("dab", TRUE, 1, 1), Fi("fm", FALSE, 0, 2)>>,
         others |-> <<[id |-> NotGiven, ensembles |-> {}], [id |-> 3, ensembles |-> {8}]>>,
         sci |-> <<[id |-> 3, change |-> "addition"]>>]
MCLinkingFiles ==
    {Good,
     [Good EXCEPT !.links = <<Set(4, "b", TRUE, <<Link("dab", 9, 2)>>, TRUE)>>],
     [Good EXCEPT !.links = <<Set(4096, "a", TRUE, <<>>, FALSE)>>],
     [Good EXCEPT !.links = <<Set(5, "a", TRUE, <<Link("dab", 9, 0)>>, TRUE)>>],
     [Good EXCEPT !.freqs = <<Fi("dab", FALSE, NotGiven, 1)>>],
     [Good EXCEPT !.freqs = <<Fi("drm", FALSE, 1, 0)>>, !.others = <<>>],
     [Good EXCEPT !.sci = <<[id |-> 3, change |-> "none"]>>]}

MCLabels ==
    UNION {[1..n -> {"p", "q"}] : n \in 0..2}
        \union {<<"p", "q", "p">>, <<"q", "q", "q">>, <<"p", "q", "p", "q">>, <<"p", "p", "p", "p", "p">>}

Ens == INSTANCE Ensemble

ensembleVars == <<pc, general, services, subchannels, components, linking, loaded, label, asked,
                  setting, rcCommands>>
allVars == <<kind, vars, ensembleVars>>

\* What stands for FIGContents while a configuration is read.
NoContents == Init /\ fig = "0/0"

EnsembleInit ==
    /\ Ens!Init
    /\ \/ kind = "contents" /\ Init
       \/ kind = "ensemble" /\ NoContents

NotContents == UNCHANGED <<kind, ensembleVars>>

EnsembleNext ==
    \/ kind = "contents" /\ Next /\ NotContents
    \/ kind = "ensemble" /\ Ens!Next /\ UNCHANGED <<kind, vars>>

\* The fairness of FIGContents.
EnsembleSpec ==
    /\ EnsembleInit /\ [][EnsembleNext]_allVars
    /\ WF_allVars(kind = "contents" /\ Fill /\ NotContents)
    /\ SF_allVars(kind = "contents" /\ Begin(FibSize) /\ NotContents)

-----------------------------------------------------------------------------
\* A multiplex that runs fits its frames.
MultiplexFits == Ens!MultiplexFits

\* What the FIGs look up is there.
ReferencesResolve == Ens!ReferencesResolve

\* The linking information is that of one file.
LinkingIsOfOneFile == Ens!LinkingIsOfOneFile

\* The label on the air is the one asked for last.
LabelAsAsked == Ens!LabelAsAsked

\* Every FIG completes its cycle again and again.
EveryCycleEnds == kind = "contents" => CycleEnds
=============================================================================
