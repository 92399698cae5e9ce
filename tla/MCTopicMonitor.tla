--------------------------- MODULE MCTopicMonitor ---------------------------
(* Instances of TopicMonitor for TLC. *)
EXTENDS TopicMonitor, TLC

CONSTANTS scan

AnyProfile == {<< >>, scan :> 0, scan :> 1}
=============================================================================
