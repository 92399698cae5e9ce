-------------------------- MODULE MCProcessManager --------------------------
(* Small instances of ProcessManager for TLC. *)
EXTENDS ProcessManager, TLC

CONSTANTS n1, n2, p1, p2, c1

MixedPolicy     == [n \in Names |-> IF n = n1 THEN "on-failure" ELSE "never"]

ProcSymmetry == Permutations(Procs)
=============================================================================
