-------------------------- MODULE MCLogAggregator ---------------------------
(* Instances of LogAggregator for TLC. *)
EXTENDS LogAggregator, TLC

CONSTANTS out, err, talker, rosout

OneProcess == out :> talker @@ err :> talker
ThreeLines == {f \in [{talker, rosout} -> 0..3] : f[rosout] <= 1 /\ f[talker] + f[rosout] <= 3}
OwnSources == talker :> {talker} @@ rosout :> {talker}
=============================================================================
