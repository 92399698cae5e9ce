----------------------------- MODULE MCLauncher -----------------------------
(* Small instances of Launcher for TLC. *)
EXTENDS Launcher, TLC

CONSTANTS n1, p1, p2, main, w1

OnFailurePolicy == [n \in Names |-> "on-failure"]
NeverPolicy     == [n \in Names |-> "never"]

ProcSymmetry == Permutations(Procs)
=============================================================================
