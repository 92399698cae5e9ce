----------------------------- MODULE NodeScreen -----------------------------
(***************************************************************************)
(* NodeScreen (app/screens/node_screen.cpp): the nodes NodeInspector knows *)
(* of.  Key r refreshes them on the event loop, and the screen's mutex_ is *)
(* held until that is done, which keeps the tick thread from storing what  *)
(* it found.  The order of the rows is left out.                           *)
(***************************************************************************)
EXTENDS Widgets, NodeInspector

VARIABLES
    shownNodes,  \* cached_nodes_: a copy of nodes_map_
    nodeList,    \* scroll_list_
    nodeTick     \* where the tick is, and the nodes it read

nodeVars == <<shownNodes, nodeList, nodeTick>>

NodeIdle == [at |-> "idle", nodes |-> <<>>]

NodeInit ==
    /\ shownNodes = <<>>
    /\ nodeList = NewList(TRUE)
    /\ nodeTick = NodeIdle

\* mutex_ is the event loop's while it refreshes.
MutexFree == ~Refreshing(Looper)

BeginNodeTick ==
    /\ nodeTick' = [NodeIdle EXCEPT !.at = "refresh"]
    /\ UNCHANGED <<shownNodes, nodeList>>

RefreshNodes ==
    /\ nodeTick.at = "refresh"
    /\ Refresh(Ticker)
    /\ nodeTick' = [NodeIdle EXCEPT !.at = "nodes"]
    /\ UNCHANGED <<shownNodes, nodeList>>

ReadNodes ==
    /\ nodeTick.at = "nodes" /\ ~Refreshing(Ticker)
    /\ nodeTick' = [at |-> "commit", nodes |-> nodesMap]
    /\ UNCHANGED <<shownNodes, nodeList, inspectorVars>>

CommitNodes ==
    /\ nodeTick.at = "commit" /\ MutexFree
    /\ shownNodes' = nodeTick.nodes
    /\ nodeTick' = NodeIdle
    /\ UNCHANGED <<nodeList, inspectorVars>>

NodeTickStep == RefreshNodes \/ ReadNodes \/ CommitNodes

NodeKey(key) ==
    /\ \/ /\ key \in ListKeys
          /\ nodeList' = PressList(nodeList, key)
          /\ UNCHANGED inspectorVars
       \/ key = "r" /\ Refresh(Looper) /\ UNCHANGED nodeList
       \/ key \notin ListKeys \union {"r"} /\ UNCHANGED <<nodeList, inspectorVars>>
    /\ UNCHANGED <<shownNodes, nodeTick>>

DrawNodes(height) ==
    /\ nodeList' = Shape(nodeList, Max({3, height - 12}), Cardinality(DOMAIN shownNodes))
    /\ UNCHANGED <<shownNodes, nodeTick>>

NodesShown == shownNodes = [n \in Present |-> n \in Lifecycle]
=============================================================================
