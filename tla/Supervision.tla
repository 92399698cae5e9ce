----------------------------- MODULE Supervision -----------------------------
(***************************************************************************)
(* What ProcessManager (src/process_manager.cpp, restart policies of       *)
(* README.md) promises of every child it starts, without threads, locks or *)
(* registration: a child is started once and ends once; its end leads to   *)
(* at most one restart, only if the policy of its entry asks for one after *)
(* this kind of end, and never if the child had been asked to stop by the  *)
(* time its end was dealt with.                                            *)
(***************************************************************************)
CONSTANTS
    Procs,      \* children, one per fork
    Names,      \* launch entries
    Policy,     \* the restart_policy of each entry
    NoName

VARIABLES
    life,       \* unborn, running, ended, due (for a restart), settled
    entry,      \* the entry a child was started for
    outcome,    \* how it ended
    asked,      \* it was asked to stop
    task        \* a task that restarts its entry is under way

vars == <<life, entry, outcome, asked, task>>

Init ==
    /\ life = [p \in Procs |-> "unborn"]
    /\ entry = [p \in Procs |-> NoName]
    /\ outcome = [p \in Procs |-> "none"]
    /\ asked = [p \in Procs |-> FALSE]
    /\ task = [p \in Procs |-> FALSE]

Wants(p) ==
    \/ Policy[entry[p]] = "always"
    \/ Policy[entry[p]] = "on-failure" /\ outcome[p] = "failure"

Start(p, n) ==
    /\ life[p] = "unborn"
    /\ life' = [life EXCEPT ![p] = "running"]
    /\ entry' = [entry EXCEPT ![p] = n]
    /\ UNCHANGED <<outcome, asked, task>>

\* The restart task may have done its part already, so asking is always open.
Ask(p) ==
    /\ life[p] # "unborn"
    /\ asked' = [asked EXCEPT ![p] = TRUE]
    /\ UNCHANGED <<life, entry, outcome, task>>

End(p, e) ==
    /\ life[p] = "running"
    /\ life' = [life EXCEPT ![p] = "ended"]
    /\ outcome' = [outcome EXCEPT ![p] = e]
    /\ UNCHANGED <<entry, asked, task>>

\* The end is dealt with: nothing follows from it ...
Settle(p) ==
    /\ life[p] \in {"ended", "due"}
    /\ life' = [life EXCEPT ![p] = "settled"]
    /\ UNCHANGED <<entry, outcome, asked, task>>

\* ... or a restart is due,
ComeDue(p) ==
    /\ life[p] = "ended"
    /\ ~asked[p]
    /\ Wants(p)
    /\ life' = [life EXCEPT ![p] = "due"]
    /\ UNCHANGED <<entry, outcome, asked, task>>

\* and takes place once.
Relaunch(p) ==
    /\ life[p] = "due"
    /\ life' = [life EXCEPT ![p] = "settled"]
    /\ task' = [task EXCEPT ![p] = TRUE]
    /\ UNCHANGED <<entry, outcome, asked>>

TaskEnds(p) ==
    /\ task[p]
    /\ task' = [task EXCEPT ![p] = FALSE]
    /\ UNCHANGED <<life, entry, outcome, asked>>

Next ==
    \E p \in Procs :
        \/ \E n \in Names : Start(p, n)
        \/ Ask(p)
        \/ \E e \in {"clean", "failure"} : End(p, e)
        \/ Settle(p) \/ ComeDue(p) \/ Relaunch(p)
        \/ TaskEnds(p)

Spec == Init /\ [][Next]_vars
=============================================================================
