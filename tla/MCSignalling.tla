---------------------------- MODULE MCSignalling ----------------------------
(***************************************************************************)
(* The three FIGs that keep state of their own between two fills: FIG 0/19 *)
(* with the announcements, FIG 0/6 with the linkage sets, and FIG 0/2 with *)
(* FIG 1/1 and their phase lock.  They share nothing, so each behaviour is *)
(* one of them alone (kind), the variables of the others staying as they   *)
(* start.                                                                  *)
(***************************************************************************)
EXTENDS FIGPhaseLock, Sequences

CONSTANTS Known, Delays, Rooms, Timeout, MaxTime, MaxRcCommands,  \* of Announcements
          Spaces, MaxReloads                                      \* of Linking

VARIABLES
    kind,
    now, m_active, m_deferred_start_time, m_deferred_stop_time, new_entries, disabled_entries,
    repeated_entries, todo, remaining, written, heard, offered, flipped, rcCommands,
    m_linkagesets, current, linkageSubsets, pos, cycle, received, reloads

MCClusters == <<"c1", "c2">>

L(type, id) == [type |-> type, id |-> id]
LinkSet(lsn, hard, international, key, links) ==
    [lsn |-> lsn, hard |-> hard, international |-> international, key |-> key, links |-> links]
MCLinkConfigs ==
    {<<>>,
     <<LinkSet(1, TRUE, FALSE, "a", <<L("fm", 1), L("dab", 2), L("fm", 3)>>),
       LinkSet(2, FALSE, FALSE, "", <<>>)>>,
     <<LinkSet(1, TRUE, FALSE, "b", <<L("fm", 1)>>),
       LinkSet(1, TRUE, TRUE, "a", <<L("dab", 2), L("drm", 4), L("dab", 5)>>),
       LinkSet(2, FALSE, FALSE, "a", <<L("amss", 6)>>)>>}

Ann == INSTANCE Announcements WITH Clusters <- MCClusters
Link == INSTANCE Linking WITH LinkConfigs <- MCLinkConfigs, complete <- cycle

annVars == <<now, m_active, m_deferred_start_time, m_deferred_stop_time, new_entries,
             disabled_entries, repeated_entries, todo, remaining, written, heard, offered,
             flipped, rcCommands>>
linkVars == <<m_linkagesets, current, linkageSubsets, pos, cycle, received, reloads>>
allVars == <<kind, vars, annVars, linkVars>>

SignallingInit ==
    /\ kind \in {"announcements", "linking", "phaselock"}
    /\ Ann!Init
    /\ Link!Init /\ (kind # "linking" => m_linkagesets = <<>>)
    /\ Init /\ (kind # "phaselock" => programmes = {})

SignallingNext ==
    \/ kind = "announcements" /\ Ann!Next /\ UNCHANGED <<kind, vars, linkVars>>
    \/ kind = "linking" /\ Link!Next /\ UNCHANGED <<kind, vars, annVars>>
    \/ kind = "phaselock" /\ Next /\ UNCHANGED <<kind, annVars, linkVars>>

\* The fairness of the three modules.
SignallingFairness ==
    /\ SF_allVars(kind = "announcements" /\ Ann!Roomy /\ UNCHANGED <<kind, vars, linkVars>>)
    /\ WF_allVars(kind = "announcements" /\ Ann!WriteCluster /\ UNCHANGED <<kind, vars, linkVars>>)
    /\ WF_allVars(kind = "announcements" /\ Ann!EndFill /\ UNCHANGED <<kind, vars, linkVars>>)
    /\ WF_allVars(kind = "linking" /\ Link!FillRoomy /\ UNCHANGED <<kind, vars, annVars>>)
    /\ WF_allVars(kind = "phaselock" /\ Fill02(TRUE) /\ UNCHANGED <<kind, annVars, linkVars>>)
    /\ WF_allVars(kind = "phaselock" /\ Fill11(TRUE) /\ UNCHANGED <<kind, annVars, linkVars>>)

SignallingSpec == SignallingInit /\ [][SignallingNext]_allVars /\ SignallingFairness

-----------------------------------------------------------------------------
\* A cluster that stays on is signalled as active, and one that stays off is not left as
\* active in the receivers.
ClustersAreHeard == Ann!ActiveIsHeard /\ Ann!EndIsHeard

\* The linkage sets loaded last are signalled.
ReloadIsSignalled == kind = "linking" => Link!ReloadIsSignalled

\* FIG 1/1 completes its cycle again and again.
LabelsGoOn == kind = "phaselock" => LabelsKeepCycling
=============================================================================
