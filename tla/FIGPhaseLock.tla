---------------------------- MODULE FIGPhaseLock ----------------------------
(***************************************************************************)
(* The phase lock between FIG 0/2, which announces the services, and       *)
(* FIG 1/1, which carries the labels of the programme services: the two    *)
(* counters of FIGRuntimeInformation, reset by FIG 1/1 when it starts a    *)
(* cycle.                                                                  *)
(*                                                                         *)
(* The carousel may fill either FIG at any time, with or without room.  A  *)
(* fill that places several services is a sequence of fills with room for  *)
(* one: both FIGs stop where the room ends and go on there.                *)
(***************************************************************************)
EXTENDS Integers, FiniteSets

CONSTANTS N,             \* services of the ensemble, in configuration order
          MaxAnnounced   \* bound on fig0_2_services_announced

ASSUME NAssumption == N \in Nat \ {0}

Services == 1..N

VARIABLES
    programmes,     \* services for which isProgramme() holds
    labelled,       \* programme services with a FIG 1 label
    initialised02,  \* FIG0_2::m_initialised
    audio,          \* m_inserting_audio_not_data
    service02,      \* position in m_audio_services or m_data_services
    initialised11,  \* FIG1_1::m_initialised
    service11,      \* FIG1_1::service; N + 1 is the end
    fig0_2_services_announced,
    fig1_1_labels_sent,
    window,         \* programmes announced since FIG 1/1 started its cycle
    ever,           \* programmes announced since the start
    label,          \* what the last fill of FIG 1/1 labelled, if anything
    complete        \* FIGs whose cycle was completed by the last fill

config == <<programmes, labelled>>
fig02 == <<initialised02, audio, service02>>
fig11 == <<initialised11, service11>>
vars == <<config, fig02, fig11, fig0_2_services_announced, fig1_1_labels_sent,
          window, ever, label, complete>>

Init ==
    /\ programmes \in SUBSET Services
    /\ labelled \in SUBSET programmes
    /\ initialised02 = FALSE /\ audio = FALSE /\ service02 = 1
    /\ initialised11 = FALSE /\ service11 = 1
    /\ fig0_2_services_announced = 0 /\ fig1_1_labels_sent = 0
    /\ window = {} /\ ever = {} /\ label = {} /\ complete = {}

-----------------------------------------------------------------------------
Least(S) == CHOOSE x \in S : \A y \in S : x <= y
NextIn(S, from) == Least({x \in S : x >= from} \union {N + 1})

\* on_fig0_2_service_sent(), for programme services only.
CountAnnounced(half, s) ==
    /\ fig0_2_services_announced' = fig0_2_services_announced + (IF half THEN 1 ELSE 0)
    /\ window' = IF half THEN window \union {s} ELSE window
    /\ ever' = IF half THEN ever \union {s} ELSE ever

\* A cycle alternates between the audio and the data services, and counts as
\* complete after the latter.
Fill02(room) ==
    LET half == IF initialised02 THEN audio ELSE ~audio
        list == IF half THEN programmes ELSE Services \ programmes
        s == NextIn(list, IF initialised02 THEN service02 ELSE 1)
        placed == room /\ s <= N
        next == IF placed THEN NextIn(list, s + 1) ELSE s
    IN  /\ fig0_2_services_announced < MaxAnnounced
        /\ audio' = half
        /\ service02' = next
        /\ initialised02' = (next <= N)
        /\ complete' = IF next = N + 1 /\ ~half THEN {"0/2"} ELSE {}
        /\ IF placed THEN CountAnnounced(half, s)
           ELSE UNCHANGED <<fig0_2_services_announced, window, ever>>
        /\ label' = {}
        /\ UNCHANGED <<config, fig11, fig1_1_labels_sent>>

\* Mutant: the counters are reset by every fill.
CycleStartEveryFill ==
    [service |-> IF initialised11 THEN service11 ELSE 1, announced |-> 0, sent |-> 0,
     window |-> {}]

\* Mutant: a new cycle only forgets the labels it has sent.
CycleStartResetsLabels ==
    IF initialised11
    THEN [service |-> service11, announced |-> fig0_2_services_announced,
          sent |-> fig1_1_labels_sent, window |-> window]
    ELSE [service |-> 1, announced |-> fig0_2_services_announced,
          sent |-> 0, window |-> {}]

\* on_fig1_1_cycle_start(): the first fill of a cycle resets both counters.
CycleStart ==
    IF initialised11
    THEN [service |-> service11, announced |-> fig0_2_services_announced,
          sent |-> fig1_1_labels_sent, window |-> window]
    ELSE [service |-> 1, announced |-> 0, sent |-> 0, window |-> {}]

\* Mutant: one label ahead of the announcements.
CanSendOneAhead(sent, announced) == sent <= announced

\* can_fig1_1_send()
CanSend(sent, announced) == sent < announced

\* With no room the loop stops at the service it is at, with room it skips to
\* the next service that needs a label.
Fill11(room) ==
    LET c == CycleStart
        s == IF room THEN NextIn(labelled, c.service) ELSE c.service
        sends == room /\ s <= N /\ CanSend(c.sent, c.announced)
        next == IF sends THEN s + 1 ELSE s
    IN  /\ service11' = next
        /\ initialised11' = (next <= N)
        /\ complete' = IF next = N + 1 THEN {"1/1"} ELSE {}
        /\ fig0_2_services_announced' = c.announced
        /\ fig1_1_labels_sent' = c.sent + (IF sends THEN 1 ELSE 0)
        /\ window' = c.window
        /\ label' = IF sends THEN {s} ELSE {}
        /\ UNCHANGED <<config, fig02, ever>>

Next == \E room \in BOOLEAN : Fill02(room) \/ Fill11(room)

\* The carousels come back to each FIG with an empty enough FIB.
Spec == Init /\ [][Next]_vars /\ WF_vars(Fill02(TRUE)) /\ WF_vars(Fill11(TRUE))

-----------------------------------------------------------------------------
\* The types.
TypeOK ==
    /\ programmes \subseteq Services /\ labelled \subseteq programmes
    /\ initialised02 \in BOOLEAN /\ audio \in BOOLEAN /\ service02 \in 1..(N + 1)
    /\ initialised11 \in BOOLEAN /\ service11 \in 1..(N + 1)
    /\ fig0_2_services_announced \in Nat /\ fig1_1_labels_sent \in Nat
    /\ window \subseteq ever /\ ever \subseteq programmes
    /\ label \subseteq labelled /\ complete \subseteq {"0/2", "1/1"}

(***************************************************************************)
(* "Receivers see complete service data before labels finish": when the    *)
(* label cycle ends, every programme service was announced since the cycle *)
(* began, wherever FIG 0/2 was in its own cycle then.  The counters only   *)
(* count, so this needs every programme service to have a FIG 1 label.     *)
(***************************************************************************)
AllLabelled == labelled = programmes
AnnouncedBeforeLabelsFinish ==
    (AllLabelled /\ complete = {"1/1"}) => programmes \subseteq window

(***************************************************************************)
(* The lock is one-way and never closes for good: FIG 1/1 completes its    *)
(* cycle again and again.                                                  *)
(***************************************************************************)
LabelsKeepCycling == []<>(complete = {"1/1"})

(***************************************************************************)
(* "FIG 1/1 cannot send a label until FIG 0/2 has announced that service", *)
(* in this cycle or any earlier one.  With a programme service that has no *)
(* label the two counts are of different things, and this fails.           *)
(***************************************************************************)
LabelAfterAnnouncement == AllLabelled => label \subseteq ever
=============================================================================
