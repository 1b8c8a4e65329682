------------------------------ MODULE Ensemble ------------------------------
(***************************************************************************)
(* From the configuration to a running multiplex: ConfigParser fills the   *)
(* dabEnsemble one entry at a time, DabMultiplexer::prepare checks and     *)
(* completes it, and then the remote control changes it while frames are   *)
(* made of it.                                                             *)
(*                                                                         *)
(* The configuration is chosen entry by entry: the entries are records of  *)
(* what the properties tell apart, NotGiven where the key is missing.  The *)
(* parser reads the services, the subchannels, the components and then the *)
(* linking sections; an exception anywhere ends the program ("failed").    *)
(***************************************************************************)
EXTENDS Integers, Sequences, FiniteSets, SequencesExt

CONSTANTS
    Generals,        \* [dabmode, scheduler, lto, text, hasShort, short, cluster], the general sections
    ServiceEntries,  \* [uid, id, clusters, label, sd, oldOe]
    SubchannelEntries, \* [uid, type, proto, bitrate, id, profile, protection, management]
    ComponentEntries, \* [service, subchannel, type, label, app]
    LinkingFiles,    \* [links, freqs, others, sci], the linking sections of a file
    Labels,          \* texts the remote control may ask a label to become
    Offsets,         \* local time offsets the remote control may ask for
    MpegBitrate,     \* bitrate that the header of an MPEG file tells
    FirstServiceId, MaxIds, Capacity, LabelLength, ShortLength, FrameBuffer,
    MaxServices, MaxSubchannels, MaxComponents, MaxRcCommands   \* bounds

NotGiven == -1

VARIABLES
    pc,           \* the section the parser is in, the phase of prepare, or the end
    general,      \* transmission_mode, fic_scheduler, lto and alarm_flag of the ensemble
    services,     \* [uid, id, clusters]
    subchannels,  \* [uid, id, type, proto, bitrate, form, eepProfile, tableIndex, level, startAddress]
    components,   \* [serviceId, subchId, SCIdS, type]
    linking,      \* m_linkagesets, m_frequency_information, m_service_other_ensemble
    loaded,       \* the file that linking comes from
    label,        \* m_fig1_label and m_fig1_flag of one element
    asked,        \* <<the last label and short label accepted for it>>
    setting,      \* <<those whose flag is set, but not yet their text>>
    rcCommands

vars == <<pc, general, services, subchannels, components, linking, loaded,
          label, asked, setting, rcCommands>>

parsed == <<general, services, subchannels, components>>
running == <<linking, loaded, label, asked, setting, rcCommands>>

(***************************************************************************)
(* Labels.  A label is accepted when it is not too long, the short one can *)
(* be read from left to right in it, and at most ShortLength characters    *)
(* are marked; the flag is the set of the marked positions.                *)
(***************************************************************************)
Marks(text, short) ==
    LET M[i \in 0..Len(text)] ==
          IF i = 0 THEN <<>>
          ELSE LET before == M[i - 1] IN
               IF Len(before) < Len(short) /\ short[Len(before) + 1] = text[i]
               THEN Append(before, i) ELSE before
    IN M[Len(text)]

SetFIG1ShortLabelNoCount(text, short) ==
    IF Len(Marks(text, short)) < Len(short) THEN [code |-> -1]
    ELSE [code |-> 0, flag |-> ToSet(Marks(text, short))]

SetFIG1ShortLabel(text, short) ==
    LET marks == Marks(text, short) IN
    CASE Len(marks) < Len(short)   -> [code |-> -1]
      [] Len(marks) > ShortLength  -> [code |-> -2]
      [] OTHER                     -> [code |-> 0, flag |-> ToSet(marks)]

SetLabel(text, short) ==
    IF Len(text) > LabelLength THEN [code |-> -3] ELSE SetFIG1ShortLabel(text, short)

SetLongLabel(text) ==
    IF Len(text) > LabelLength THEN [code |-> -3]
    ELSE [code |-> 0, flag |-> 1..ShortLength]

ShortLabel(l) ==
    LET S[i \in 0..Len(l.text)] ==
          IF i = 0 THEN <<>>
          ELSE IF i \in l.flag THEN Append(S[i - 1], l.text[i]) ELSE S[i - 1]
    IN S[Len(l.text)]

(***************************************************************************)
(* parse_general                                                           *)
(***************************************************************************)
Abs(n) == IF n < 0 THEN -n ELSE n

\* The local time offset is given in half hours.
EnsembleLabel(g) == IF g.hasShort THEN SetLabel(g.text, g.short) ELSE SetLongLabel(g.text)

ParseGeneral ==
    /\ pc = "general"
    /\ \E g \in Generals :
         IF /\ g.dabmode \in 1..4
            /\ g.lto \in -24..24
            /\ EnsembleLabel(g).code = 0
            /\ g.cluster % 256 # 0
         THEN /\ general' = [mode |-> g.dabmode, scheduler |-> g.scheduler, lto |-> Abs(g.lto),
                             alarm |-> g.cluster % 256 = 255]
              /\ label' = [text |-> g.text, flag |-> EnsembleLabel(g).flag]
              /\ asked' = IF g.hasShort THEN <<[text |-> g.text, short |-> g.short]>> ELSE <<>>
              /\ pc' = "services"
         ELSE pc' = "failed" /\ UNCHANGED <<general, label, asked>>
    /\ UNCHANGED <<services, subchannels, components, linking, loaded, setting, rcCommands>>

(***************************************************************************)
(* Services.  The uid and the identifier must be new; an identifier that   *)
(* is not given is counted up.                                             *)
(***************************************************************************)
NewServiceId(e) == IF e.id = NotGiven THEN FirstServiceId + Len(services) ELSE e.id

ServiceOKNoId(e) ==
    /\ \A s \in ToSet(services) : s.uid # e.uid
    /\ e.label = 0 /\ e.sd \in {"dynamic", "static"} /\ ~e.oldOe

ServiceOK(e) ==
    /\ \A s \in ToSet(services) : s.uid # e.uid /\ s.id # NewServiceId(e)
    /\ e.label = 0
    /\ e.sd \in {"dynamic", "static"}
    /\ ~e.oldOe

\* Announcement clusters that cannot be read, and cluster 255, are left out.
NewService(e) ==
    [uid |-> e.uid, id |-> NewServiceId(e),
     clusters |-> SelectSeq(e.clusters, LAMBDA c : c \notin {NotGiven, 255})]

ParseService ==
    /\ pc = "services"
    /\ Len(services) < MaxServices
    /\ \E e \in ServiceEntries :
         IF ServiceOK(e)
         THEN services' = Append(services, NewService(e)) /\ UNCHANGED pc
         ELSE pc' = "failed" /\ UNCHANGED services
    /\ UNCHANGED <<general, subchannels, components, running>>

(***************************************************************************)
(* Subchannels.  The new one is in the list while its entry is read, with  *)
(* identifier 0, so that the search for a free one never finds 0.  An      *)
(* identifier is cut to a byte before it is compared to 64.                *)
(***************************************************************************)
HasInput(e) ==
    \/ e.type \in {"audio", "dabplus"} /\ e.proto \in {"file", "zmq", "edi", "stp"}
    \/ e.type = "data" /\ e.proto = "prbs"
    \/ e.type \in {"data", "dmb"} /\ e.proto \in {"udp", "file", "fifo"}
    \/ e.type \in {"packet", "enhancedpacket"}

Form(e) ==
    CASE e.profile \in {"EEP_A", "EEP_B"} -> "EEP"
      [] e.profile = "UEP" -> "UEP"
      [] OTHER -> IF e.type = "audio" THEN "UEP" ELSE "EEP"

FirstFree ==
    LET taken == {0} \union {s.id : s \in ToSet(subchannels)}
        free  == (0..(MaxIds - 1)) \ taken
    IN IF free = {} THEN 0 ELSE CHOOSE i \in free : \A j \in free : i <= j

SubchannelId(e) == IF e.id = NotGiven THEN FirstFree ELSE e.id % 256

SubchannelOK(e) ==
    /\ HasInput(e)
    /\ e.management \in {"prebuffering", "timestamped"}
    /\ e.bitrate # NotGiven /\ e.bitrate % 8 = 0
    /\ SubchannelId(e) < MaxIds
    /\ e.profile \in {"", "EEP_A", "EEP_B", "UEP"}
    /\ e.protection \in 1..(IF Form(e) = "UEP" THEN 5 ELSE 4)
    /\ \A s \in ToSet(subchannels) : s.uid # e.uid

NewSubchannel(e) ==
    [uid |-> e.uid, id |-> SubchannelId(e), type |-> e.type, proto |-> e.proto,
     bitrate |-> e.bitrate % 65536, form |-> Form(e),
     eepProfile |-> IF e.profile = "EEP_B" THEN "EEP_B" ELSE "EEP_A",
     tableIndex |-> 1, level |-> e.protection - 1, startAddress |-> 0]

ParseSubchannel ==
    /\ pc = "subchannels"
    /\ Len(subchannels) < MaxSubchannels
    /\ \E e \in SubchannelEntries :
         IF SubchannelOK(e)
         THEN subchannels' = Append(subchannels, NewSubchannel(e)) /\ UNCHANGED pc
         ELSE pc' = "failed" /\ UNCHANGED subchannels
    /\ UNCHANGED <<general, services, components, running>>

(***************************************************************************)
(* Components refer to their service and their subchannel by uid; from     *)
(* then on they are found by identifier.                                   *)
(***************************************************************************)
HasUid(list, uid) == \E i \in DOMAIN list : list[i].uid = uid
ByUid(list, uid) == list[CHOOSE i \in DOMAIN list : list[i].uid = uid]
NbComponent(id) == Cardinality({i \in DOMAIN components : components[i].serviceId = id})

ComponentOK(e) ==
    /\ HasUid(services, e.service)
    /\ HasUid(subchannels, e.subchannel)
    /\ e.label = 0
    /\ e.app # "too_large"

NewComponent(e) ==
    LET service == ByUid(services, e.service).id IN
    [serviceId |-> service,
     subchId |-> ByUid(subchannels, e.subchannel).id,
     SCIdS |-> NbComponent(service), type |-> e.type]

ParseComponent ==
    /\ pc = "components"
    /\ Len(components) < MaxComponents
    /\ \E e \in ComponentEntries :
         IF ComponentOK(e)
         THEN components' = Append(components, NewComponent(e)) /\ UNCHANGED pc
         ELSE pc' = "failed" /\ UNCHANGED components
    /\ UNCHANGED <<general, services, subchannels, running>>

EndOfSection ==
    /\ \/ pc = "services" /\ pc' = "subchannels"
       \/ pc = "subchannels" /\ pc' = "components"
       \/ pc = "components" /\ pc' = "linking"
    /\ UNCHANGED <<parsed, running>>

(***************************************************************************)
(* The linking sections.  An error in a linkage set or in the frequency    *)
(* information throws, one in the other services only drops the entry; the *)
(* frequencies of the own ensemble are sorted to the front.  The service   *)
(* component information is read at startup only.                          *)
(***************************************************************************)
LinkOK(link, international) ==
    /\ link.type \in {"dab", "fm", "drm", "amss"}
    /\ link.id # 0
    /\ international => link.ecc # 0

LinkageOK(set) ==
    /\ set.lsn % 65536 \in 1..4095
    /\ (set.keyservice = "") <=> ~set.hasList
    /\ \A link \in ToSet(set.list) : LinkOK(link, set.international)

FrequencyOK(fi) ==
    fi.rm \in {"dab", "fm", "drm", "amss"} /\ fi.continuity # NotGiven /\ fi.frequencies > 0

SortedOwnFirst(freqs) ==
    SelectSeq(freqs, LAMBDA fi : ~fi.oe) \o SelectSeq(freqs, LAMBDA fi : fi.oe)

OtherServices(others) == SelectSeq(others, LAMBDA o : o.id # NotGiven /\ o.ensembles # {})

ParsedLinking(f) ==
    [links |-> f.links, freqs |-> SortedOwnFirst(f.freqs), others |-> OtherServices(f.others)]

LinksThrow(f) == \E i \in DOMAIN f.links : ~LinkageOK(f.links[i])
SciThrows(f) ==
    \E i \in DOMAIN f.sci :
        \/ f.sci[i].id = NotGiven
        \/ f.sci[i].change \notin {"identity", "addition", "local_removal", "global_removal"}
FreqsThrow(f) == \E i \in DOMAIN f.freqs : ~FrequencyOK(f.freqs[i])

\* validate_linkage_sets: the key service exists and counts as a link.
ValidateLinkageSets(links) ==
    \A i \in DOMAIN links :
        LET set == links[i] IN
        IF set.keyservice = "" THEN set.list = <<>>
        ELSE HasUid(services, set.keyservice) /\ 1 + Len(set.list) <= 15

ParseLinking ==
    /\ pc = "linking"
    /\ \E f \in LinkingFiles :
         IF LinksThrow(f) \/ FreqsThrow(f) \/ SciThrows(f)
         THEN pc' = "failed" /\ UNCHANGED <<linking, loaded>>
         ELSE linking' = ParsedLinking(f) /\ loaded' = f /\ pc' = "prepare_subchannels"
    /\ UNCHANGED <<parsed, label, asked, setting, rcCommands>>

(***************************************************************************)
(* DabMultiplexer::prepare                                                 *)
(***************************************************************************)
ById(id) == subchannels[CHOOSE i \in DOMAIN subchannels : subchannels[i].id = id]

PrepareSubchannels ==
    /\ pc = "prepare_subchannels"
    /\ pc' = IF \A i, j \in DOMAIN subchannels : subchannels[i].id = subchannels[j].id => i = j
             THEN "prepare_components" ELSE "failed"
    /\ UNCHANGED <<parsed, running>>

\* The component type of audio with equal error protection is that of its coding.
AdjustedType(c) ==
    LET s == ById(c.subchId) IN
    IF s.form = "EEP" /\ s.type = "dabplus" THEN 63
    ELSE IF s.form = "EEP" /\ s.type = "audio" THEN 0
    ELSE c.type

PrepareServicesComponents ==
    /\ pc = "prepare_components"
    /\ IF \A s \in ToSet(services) : NbComponent(s.id) > 0
       THEN /\ components' = [i \in DOMAIN components |->
                                [components[i] EXCEPT !.type = AdjustedType(components[i])]]
            /\ pc' = "prepare_inputs"
       ELSE pc' = "failed" /\ UNCHANGED components
    /\ UNCHANGED <<general, services, subchannels, running>>

(***************************************************************************)
(* The sizes of Sub_Channel_SizeTable, by bitrate and protection level 4,  *)
(* 3, ..., 0; zero where there is no such profile.                         *)
(***************************************************************************)
UepBitrates == {32, 48, 56, 64, 80, 96, 112, 128, 160, 192, 224, 256, 320, 384}
UepSizes ==
    [b \in UepBitrates |->
       CASE b = 32  -> <<16, 21, 24, 29, 35>>     [] b = 48  -> <<24, 29, 35, 42, 52>>
         [] b = 56  -> <<29, 35, 42, 52, 0>>      [] b = 64  -> <<32, 42, 48, 58, 70>>
         [] b = 80  -> <<40, 52, 58, 70, 84>>     [] b = 96  -> <<48, 58, 70, 84, 104>>
         [] b = 112 -> <<58, 70, 84, 104, 0>>     [] b = 128 -> <<64, 84, 96, 116, 140>>
         [] b = 160 -> <<80, 104, 116, 140, 168>> [] b = 192 -> <<96, 116, 140, 168, 208>>
         [] b = 224 -> <<116, 140, 168, 208, 232>> [] b = 256 -> <<128, 168, 192, 232, 280>>
         [] b = 320 -> <<160, 208, 0, 280, 0>>    [] OTHER   -> <<192, 0, 280, 0, 416>>]

HasUepProfile(bitrate, level) ==
    bitrate \in UepBitrates /\ UepSizes[bitrate][5 - level] # 0

GetSizeCu(s) ==
    IF s.form = "UEP" THEN UepSizes[s.bitrate][5 - s.level]
    ELSE IF s.level > 3 THEN 0
    ELSE IF s.eepProfile = "EEP_A" THEN (s.bitrate * <<12, 8, 6, 4>>[s.level + 1]) \div 8
    ELSE (s.bitrate * <<27, 21, 18, 15>>[s.level + 1]) \div 32

GetSizeByte(s) == s.bitrate * 3

\* An MPEG file without a bitrate tells its own.
SetBitrate(s) ==
    IF s.bitrate = 0 /\ s.type = "audio" /\ s.proto = "file" THEN MpegBitrate ELSE s.bitrate

\* A profile of unequal protection that does not exist becomes an equal one.
Adjusted(s) ==
    [s EXCEPT !.bitrate = SetBitrate(s),
              !.form = IF s.form = "UEP" /\ ~HasUepProfile(SetBitrate(s), s.level)
                       THEN "EEP" ELSE s.form]

Placed ==
    LET P[i \in 0..Len(subchannels)] ==
          IF i = 0 THEN [list |-> <<>>, next |-> 0]
          ELSE LET s == [Adjusted(subchannels[i]) EXCEPT !.startAddress = P[i - 1].next]
               IN [list |-> Append(P[i - 1].list, s), next |-> s.startAddress + GetSizeCu(s)]
    IN P[Len(subchannels)].list

InputRefuses(s) == s.bitrate <= 0
ProfileRefused(s) == s.form = "EEP" /\ s.eepProfile = "EEP_B" /\ s.bitrate % 32 # 0

PrepareDataInputs ==
    /\ pc = "prepare_inputs"
    /\ IF \E s \in ToSet(Placed) : InputRefuses(s) \/ ProfileRefused(s)
       THEN pc' = "failed" /\ UNCHANGED subchannels
       ELSE subchannels' = Placed /\ pc' = "last_checks"
    /\ UNCHANGED <<general, services, components, running>>

CapacityOfAllButLast ==
    subchannels # <<>> /\ subchannels[Len(subchannels)].startAddress <= Capacity

CapacityOK ==
    /\ subchannels # <<>>
    /\ LET last == subchannels[Len(subchannels)]
       IN last.startAddress + GetSizeCu(last) <= Capacity

LastChecks ==
    /\ pc = "last_checks"
    /\ pc' = IF ValidateLinkageSets(linking.links) /\ CapacityOK THEN "running" ELSE "failed"
    /\ UNCHANGED <<parsed, running>>

\* Of mode III the first frame asks the carousel for a fourth FIB, which the classic one
\* does not know: its exception ends the program.
FicServed == general.mode = 3 => general.scheduler = "priority"

WriteFourthFib ==
    /\ pc = "running" /\ ~FicServed
    /\ pc' = "failed"
    /\ UNCHANGED <<parsed, running>>

(***************************************************************************)
(* The remote control.  reload_linking parses the three sections of the    *)
(* file anew and takes all of them or none.                                *)
(***************************************************************************)
ReloadableNoFreqs(f) == ~LinksThrow(f) /\ ValidateLinkageSets(f.links)

Reloadable(f) == ~LinksThrow(f) /\ ValidateLinkageSets(f.links) /\ ~FreqsThrow(f)

ReloadLinking ==
    /\ \E f \in LinkingFiles :
         IF Reloadable(f)
         THEN linking' = ParsedLinking(f) /\ loaded' = f
         ELSE UNCHANGED <<linking, loaded>>
    /\ UNCHANGED <<parsed, label, asked, setting>>

\* Both labels are checked on a copy.  Then the flag is set, and after it the text, while
\* the main loop may read either.
RcSetLabel ==
    /\ \E text \in Labels, short \in Labels :
         LET answer == SetLabel(text, short) IN
         IF answer.code = 0
         THEN /\ label' = [label EXCEPT !.flag = answer.flag]
              /\ setting' = <<[text |-> text, short |-> short]>>
         ELSE UNCHANGED <<label, setting>>
    /\ UNCHANGED <<parsed, linking, loaded, asked>>

SetLabelText ==
    /\ setting # <<>>
    /\ label' = [label EXCEPT !.text = setting[1].text]
    /\ asked' = setting /\ setting' = <<>>
    /\ UNCHANGED <<pc, parsed, linking, loaded, rcCommands>>

RcSetLocalTimeOffset ==
    /\ \E lto \in Offsets :
         general' = IF lto \in -24..24 THEN [general EXCEPT !.lto = lto] ELSE general
    /\ UNCHANGED <<services, subchannels, components, linking, loaded, label, asked, setting>>

RemoteControl ==
    /\ pc = "running" /\ setting = <<>>
    /\ rcCommands < MaxRcCommands
    /\ rcCommands' = rcCommands + 1
    /\ ReloadLinking \/ RcSetLabel \/ RcSetLocalTimeOffset
    /\ UNCHANGED pc

Init ==
    /\ pc = "general"
    /\ general = [mode |-> 1, scheduler |-> "classic", lto |-> 0, alarm |-> FALSE]
    /\ services = <<>> /\ subchannels = <<>> /\ components = <<>>
    /\ linking = [links |-> <<>>, freqs |-> <<>>, others |-> <<>>]
    /\ loaded = [links |-> <<>>, freqs |-> <<>>, others |-> <<>>, sci |-> <<>>]
    /\ label = [text |-> <<>>, flag |-> {}]
    /\ asked = <<>> /\ setting = <<>>
    /\ rcCommands = 0

Next ==
    \/ ParseGeneral \/ ParseService \/ ParseSubchannel \/ ParseComponent
    \/ EndOfSection \/ ParseLinking
    \/ PrepareSubchannels \/ PrepareServicesComponents \/ PrepareDataInputs \/ LastChecks
    \/ WriteFourthFib
    \/ RemoteControl \/ SetLabelText

Spec == Init /\ [][Next]_vars

-----------------------------------------------------------------------------
(***************************************************************************)
(* What the frames are made of.                                            *)
(***************************************************************************)
Eti == INSTANCE EtiFrame WITH BufferWords <- FrameBuffer \div 4

Streams ==
    [mode |-> general.mode,
     subchannels |-> [i \in DOMAIN subchannels |->
        [id |-> subchannels[i].id, words |-> (GetSizeByte(subchannels[i])) \div 4]]]

CUs(s) == s.startAddress .. (s.startAddress + GetSizeCu(s) - 1)

(***************************************************************************)
(* When frames are made, the subchannels have capacity units of their own, *)
(* all of them in the multiplex; none but one with a protection level that *)
(* its profile does not have is without any.  If there is no such one and  *)
(* the carousel serves the mode, then the frame fits its buffer, and a     *)
(* reader who goes by the header finds every part.                         *)
(* (DabMultiplexer::prepare_data_inputs, prepare and mux_frame)            *)
(***************************************************************************)
NoSuchLevel(s) == s.form = "EEP" /\ s.level > 3

MultiplexFits ==
    pc = "running" =>
        /\ \A s \in ToSet(subchannels) :
              /\ CUs(s) \subseteq 0..(Capacity - 1)
              /\ CUs(s) = {} <=> NoSuchLevel(s)
        /\ \A s, t \in ToSet(subchannels) : CUs(s) \intersect CUs(t) # {} => s = t
        /\ FicServed /\ (\A s \in ToSet(subchannels) : ~NoSuchLevel(s)) /\ rcCommands = 0
              => Eti!ReadsBack(Streams, 0)

(***************************************************************************)
(* When frames are made, the FIGs find what they look up by identifier:    *)
(* one subchannel and one service for each component, at least one         *)
(* component for each service, and its components numbered from 0 on.      *)
(* (parse_ptree, prepare_subchannels and prepare_services_components)      *)
(***************************************************************************)
ReferencesResolve ==
    pc = "running" =>
        /\ \A c \in ToSet(components) :
             /\ Cardinality({i \in DOMAIN subchannels : subchannels[i].id = c.subchId}) = 1
             /\ Cardinality({i \in DOMAIN services : services[i].id = c.serviceId}) = 1
        /\ \A s \in ToSet(services) :
             LET own == {i \in DOMAIN components : components[i].serviceId = s.id} IN
             /\ own # {}
             /\ {components[i].SCIdS : i \in own} = 0..(Cardinality(own) - 1)

(***************************************************************************)
(* The linking information is at any time that of one file, checked        *)
(* against the services: a reload takes all of a file or nothing.          *)
(* (DabMultiplexer::reload_linking)                                        *)
(***************************************************************************)
LinkingIsOfOneFile ==
    pc = "running" =>
        /\ linking = ParsedLinking(loaded)
        /\ ~LinksThrow(loaded) /\ ~FreqsThrow(loaded)
        /\ ValidateLinkageSets(linking.links)

(***************************************************************************)
(* The label on the air is the one last accepted, and its flag marks just  *)
(* the short label that was asked for, in at most ShortLength characters,  *)
(* but for the moment in which the flag is already that of the next label. *)
(* (DabLabel::setLabel and setFIG1ShortLabel)                              *)
(***************************************************************************)
LabelAsAsked ==
    /\ asked # <<>> => label.text = asked[1].text
    /\ setting \o asked # <<>> =>
          LET newest == (setting \o asked)[1] IN
          /\ ShortLabel([text |-> newest.text, flag |-> label.flag]) = newest.short
          /\ Cardinality(label.flag) <= ShortLength

(***************************************************************************)
(* A subchannel with a protection level that its profile does not have     *)
(* takes no capacity.  The source says of that case "Should not happens".  *)
(* (DabSubchannel::getSizeCu, MuxElements.cpp)                             *)
(***************************************************************************)
LevelHasSize ==
    pc = "running" => \A s \in ToSet(subchannels) : ~NoSuchLevel(s)
=============================================================================
