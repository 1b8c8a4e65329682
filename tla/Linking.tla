------------------------------ MODULE Linking ------------------------------
(***************************************************************************)
(* FIG 0/6, service linking.  At the start of each cycle the FIG rebuilds  *)
(* its list from the linkage sets of the ensemble: one subset for each     *)
(* type of link in a set, since a FIG carries links of one type only.  It  *)
(* then sends the subsets in order, as many as fit in each call; the first *)
(* one of a database opens it (CN = 0) with the key service, the others    *)
(* continue it (CN = 1).  The remote control may replace the linkage sets  *)
(* at any time.                                                            *)
(*                                                                         *)
(* A database is what receivers tell apart: the number of the set, whether *)
(* it is hard, and whether it is international.                            *)
(***************************************************************************)
EXTENDS Integers, Sequences, FiniteSets, SequencesExt, FiniteSetsExt

CONSTANTS
    LinkConfigs,  \* lists of linkage sets [lsn, hard, international, key, links]
    Spaces,       \* bytes the carousel may offer
    MaxReloads    \* bound

VARIABLES
    m_linkagesets,    \* of the ensemble
    current,          \* the list that the cycle in progress was made of
    linkageSubsets,   \* [set, links], in the order they are sent
    pos,              \* linkageSetFIG0_6, Len + 1 at the end; 0 before the first cycle
    complete,         \* complete_fig_transmitted of the last call
    received,         \* what a receiver holds of each database
    reloads

vars == <<m_linkagesets, current, linkageSubsets, pos, complete, received, reloads>>

Database(set) == <<set.lsn, set.hard, set.international>>
Databases == UNION {{Database(c[i]) : i \in DOMAIN c} : c \in LinkConfigs}

NoKey == ""

(***************************************************************************)
(* update(): a set without a key service is sent as it is, the others by   *)
(* type; a subset of the same number and type is not made twice.           *)
(***************************************************************************)
FilterType(set, type) ==
    [set |-> set, links |-> SelectSeq(set.links, LAMBDA l : l.type = type)]

Exists(subsets, lsn, type) ==
    \E i \in DOMAIN subsets :
        subsets[i].links # <<>> /\ subsets[i].set.lsn = lsn /\ subsets[i].links[1].type = type

\* The types of a set in the order in which they first occur in it.
Types(set) ==
    LET firsts == {i \in DOMAIN set.links :
                     \A j \in 1..(i - 1) : set.links[j].type # set.links[i].type}
    IN [k \in DOMAIN SetToSortSeq(firsts, <) |-> set.links[SetToSortSeq(firsts, <)[k]].type]

AddSet(subsets, set) ==
    IF set.key = NoKey THEN Append(subsets, [set |-> set, links |-> <<>>])
    ELSE LET new == SelectSeq(Types(set), LAMBDA type : ~Exists(subsets, set.lsn, type))
         IN subsets \o [k \in DOMAIN new |-> FilterType(set, new[k])]

SubsetsOf ==
    [sets \in LinkConfigs |->
       LET A[n \in 0..Len(sets)] == IF n = 0 THEN <<>> ELSE AddSet(A[n - 1], sets[n])
       IN A[Len(sets)]]

(***************************************************************************)
(* What a subset takes, and what a receiver makes of it.                   *)
(***************************************************************************)
DatabaseStart(subsets, i) ==
    \A j \in 1..(i - 1) : Database(subsets[j].set) # Database(subsets[i].set)

NumIds(subsets, i) ==
    IF subsets[i].set.key = NoKey THEN 0
    ELSE (IF DatabaseStart(subsets, i) THEN 1 ELSE 0) + Len(subsets[i].links)

RequiredSize(subsets, i) ==
    2 + 2 + 1 + NumIds(subsets, i) * (IF subsets[i].set.international THEN 3 ELSE 2)
WrittenSize(subsets, i) ==
    IF NumIds(subsets, i) = 0 THEN 4 ELSE RequiredSize(subsets, i)

TooMany(subsets, i) == NumIds(subsets, i) > 15

\* The subsets from one position up to another that are written.
Written(subsets, from, to) == {i \in from..(to - 1) : ~TooMany(subsets, i)}

FitsAt(subsets, from, space, i) ==
    \/ TooMany(subsets, i)
    \/ RequiredSize(subsets, i) <=
         space - MapThenSumSet(LAMBDA j : WrittenSize(subsets, j), Written(subsets, from, i))

\* Where a call stops.
Stop(subsets, from, space) ==
    CHOOSE to \in from..(Len(subsets) + 1) :
        /\ \A i \in from..(to - 1) : FitsAt(subsets, from, space, i)
        /\ to <= Len(subsets) => ~FitsAt(subsets, from, space, to)

Content(key, links) == [key |-> key, links |-> links]

\* A start replaces what is held of a database, a continuation adds to it.
Receive(subsets, indices) ==
    [db \in Databases |->
       LET mine   == {i \in indices : Database(subsets[i].set) = db}
           links  == UNION {ToSet(subsets[i].links) : i \in mine}
           starts == {i \in mine : DatabaseStart(subsets, i)}
       IN IF starts # {}
          THEN <<Content(subsets[CHOOSE i \in starts : TRUE].set.key, links)>>
          ELSE IF received[db] = <<>> THEN <<>>
          ELSE <<Content(received[db][1].key, received[db][1].links \union links)>>]

(***************************************************************************)
(* fill()                                                                  *)
(***************************************************************************)
StaleAfterCycle(subsets) == subsets
AfterCycle(subsets) == SubsetsOf[m_linkagesets]

FillWith(space) ==
    LET subsets == IF pos = 0 THEN SubsetsOf[m_linkagesets] ELSE linkageSubsets
        base    == IF pos = 0 THEN m_linkagesets ELSE current
        from    == IF pos = 0 THEN 1 ELSE pos
        to      == Stop(subsets, from, space)
        ends    == to > Len(subsets)
    IN /\ received' = Receive(subsets, Written(subsets, from, to))
       /\ complete' = IF ends THEN <<base>> ELSE <<>>
       /\ current' = IF ends THEN m_linkagesets ELSE base
       /\ linkageSubsets' = IF ends THEN AfterCycle(subsets) ELSE subsets
       /\ pos' = IF ends THEN 1 ELSE to
       /\ UNCHANGED <<m_linkagesets, reloads>>

Fill == \E space \in Spaces : FillWith(space)

SetLinkingConfig ==
    /\ reloads < MaxReloads
    /\ reloads' = reloads + 1
    /\ \E c \in LinkConfigs : m_linkagesets' = c
    /\ UNCHANGED <<current, linkageSubsets, pos, complete, received>>

Init ==
    /\ m_linkagesets \in LinkConfigs
    /\ current = <<>> /\ linkageSubsets = <<>> /\ pos = 0 /\ complete = <<>>
    /\ received = [d \in Databases |-> <<>>]
    /\ reloads = 0

Next == Fill \/ SetLinkingConfig

(***************************************************************************)
(* The carousel offers the space of an empty FIB again and again.          *)
(***************************************************************************)
FillRoomy == \E space \in Spaces : (\A s \in Spaces : s <= space) /\ FillWith(space)

Spec == Init /\ [][Next]_vars /\ WF_vars(FillRoomy)

-----------------------------------------------------------------------------
Holds(held, sets) ==
    \A i \in DOMAIN sets :
        LET d == Database(sets[i]) IN
        held[d] = <<Content(sets[i].key, ToSet(sets[i].links))>>

(***************************************************************************)
(* When FIG 0/6 says that it is complete, a receiver that has listened     *)
(* through the cycle holds all databases of the list that the cycle was    *)
(* made of, with their key services, even if the list has been replaced.   *)
(* (FIG0_6::fill and update)                                               *)
(***************************************************************************)
CycleGivesDatabases == complete # <<>> => Holds(received, complete[1])

(***************************************************************************)
(* The linkage sets loaded last reach the receivers: cycles are completed  *)
(* again and again, each one gives a list as it was, and from some point   *)
(* on all of the last one.                                                 *)
(* (FIG0_6::update at the end of fill)                                     *)
(***************************************************************************)
ReloadIsSignalled ==
    /\ []CycleGivesDatabases
    /\ []<>(complete # <<>>)
    /\ <>[](complete # <<>> => Holds(received, m_linkagesets))
=============================================================================
