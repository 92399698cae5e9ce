---------------------------- MODULE LaunchScreen ----------------------------
(***************************************************************************)
(* What the launch screen (app/screens/launch_screen.cpp) keeps for the    *)
(* user: the profile on display, the selected entry, the entries whose     *)
(* process trees are unfolded; and its tick, which is that of module       *)
(* SystemMonitor.  The keys that start, stop and restart entries hand work *)
(* to ProcessManager and are the subject of module Launcher.               *)
(***************************************************************************)
EXTENDS SystemMonitor, Widgets

CONSTANT Profiles  \* the profiles: each the sequence of its entries' names

ASSUME ProfilesAssumption == Profiles \in Seq(Seq(STRING)) /\ Profiles # <<>>

VARIABLES
    profile,     \* *active_profile_idx_, from 1
    launchList,  \* scroll_list_
    expanded     \* names for which expanded_ is true

launchVars == <<profile, launchList, expanded>>

Entries == Profiles[profile]

LaunchInit ==
    /\ profile = 1
    /\ launchList = NewList(TRUE)
    /\ expanded = {}

\* The selection is left alone: it may be past the new profile's entries.
NextProfile ==
    /\ profile' = (profile % Len(Profiles)) + 1
    /\ UNCHANGED <<launchList, expanded>>

ToggleTree ==
    /\ expanded' =
         IF launchList.selected < Len(Entries)
         THEN SymDiff(expanded, {Entries[launchList.selected + 1]})
         ELSE expanded
    /\ UNCHANGED <<profile, launchList>>

MoveInLaunchList(key) ==
    /\ launchList' = PressList(launchList, key)
    /\ UNCHANGED <<profile, expanded>>

LaunchKey(key) ==
    \/ key \in ListKeys /\ MoveInLaunchList(key)
    \/ key = "e" /\ ToggleTree
    \/ key = "p" /\ NextProfile
    \/ key \notin ListKeys \union {"e", "p"} /\ UNCHANGED launchVars

DrawLaunch(height) ==
    /\ launchList' = Shape(launchList, Max({3, height - 20}), Len(Entries))
    /\ UNCHANGED <<profile, expanded>>
=============================================================================
