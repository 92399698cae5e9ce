---------------------------- MODULE NodeInspector ----------------------------
(***************************************************************************)
(* NodeInspector (src/node_inspector.cpp): a throttled snapshot of the ROS *)
(* graph.  The tick thread refreshes it for the screen on display, and the *)
(* event loop does for key r of the node screen (app/screens/              *)
(* node_screen.cpp), which keeps the screen's mutex_ meanwhile.  A refresh *)
(* asks the graph several times while the graph goes on changing, and two  *)
(* of them overlap once the throttle has let the second one in.            *)
(*                                                                         *)
(* Abstractions.  Time is the flag fresh; only a query lasts as long as    *)
(* the throttle's interval.  Nothing is decided by the endpoints of nodes  *)
(* and the answers to queries, which are left out, as are the cached       *)
(* service clients: a query may go unanswered whatever client it uses.     *)
(***************************************************************************)
EXTENDS Integers, FiniteSets

CONSTANT Nodes  \* names of ROS nodes

ASSUME NodesAssumption == IsFiniteSet(Nodes)

\* The threads that call refresh.
Ticker == "tick"
Looper == "loop"
Threads == {Ticker, Looper}

VARIABLES
    graph,      \* what each node is: absent, plain or lifecycle
    nodesMap,   \* nodes_map_: which nodes there are, and whether lifecycle nodes
    fresh,      \* last_refresh_ is less than kRefreshInterval ago
    call        \* where each thread is in refresh, with doRefresh's locals

inspectorVars == <<graph, nodesMap, fresh, call>>

Present == {n \in Nodes : graph[n] # "absent"}
Lifecycle == {n \in Nodes : graph[n] = "lifecycle"}

Idle == [at |-> "idle", found |-> <<>>, todo |-> {}]

InspectorInit(initial) ==
    /\ graph = initial
    /\ nodesMap = <<>>
    /\ fresh = FALSE
    /\ call = [t \in Threads |-> Idle]

Refreshing(t) == call[t].at # "idle"

-----------------------------------------------------------------------------
\* refresh(): the throttle is taken before the work, whose first step reads the
\* names of the nodes.
Refresh(t) ==
    IF fresh
    THEN UNCHANGED inspectorVars
    ELSE /\ fresh' = TRUE
         /\ call' = [call EXCEPT ![t].at = "services", ![t].found = [n \in Present |-> FALSE]]
         /\ UNCHANGED <<graph, nodesMap>>

\* A node that offers get_state is a lifecycle node, and will be asked.
ReadServices(t) ==
    /\ call[t].at = "services"
    /\ LET todo == DOMAIN call[t].found \intersect Lifecycle
       IN  call' = [call EXCEPT
             ![t].at = "query",
             ![t].todo = todo,
             ![t].found = [n \in DOMAIN @ |-> n \in todo]]
    /\ UNCHANGED <<graph, nodesMap, fresh>>

\* Mistake: the query waits for its answer without a deadline.
QueryForEver(t, n) ==
    /\ call[t].at = "query" /\ n \in call[t].todo \intersect Lifecycle
    /\ call' = [call EXCEPT ![t].todo = @ \ {n}]
    /\ UNCHANGED <<graph, nodesMap, fresh>>

\* queryLifecycleState, with the answer or without it: the service has gone or
\* the deadline passes.
QueryLifecycleState(t, n) ==
    /\ call[t].at = "query" /\ n \in call[t].todo
    /\ call' = [call EXCEPT ![t].todo = @ \ {n}]
    /\ UNCHANGED <<graph, nodesMap, fresh>>

\* Mistake: nodes that are gone stay in the map.
MergeMap(t) ==
    /\ call[t].at = "query" /\ call[t].todo = {}
    /\ nodesMap' = [n \in DOMAIN nodesMap \union DOMAIN call[t].found |->
                      IF n \in DOMAIN call[t].found THEN call[t].found[n] ELSE nodesMap[n]]
    /\ call' = [call EXCEPT ![t] = Idle]
    /\ UNCHANGED <<graph, fresh>>

\* The topics' endpoints are read, all of them or those before an exception,
\* and the new map replaces the old one.
SwapMap(t) ==
    /\ call[t].at = "query" /\ call[t].todo = {}
    /\ nodesMap' = call[t].found
    /\ call' = [call EXCEPT ![t] = Idle]
    /\ UNCHANGED <<graph, fresh>>

RefreshStep(t) ==
    \/ ReadServices(t)
    \/ \E n \in Nodes : QueryLifecycleState(t, n)
    \/ SwapMap(t)

-----------------------------------------------------------------------------
\* The throttle's interval is over.
IntervalPasses ==
    /\ fresh
    /\ \A t \in Threads : Refreshing(t) => call[t].todo # {}
    /\ fresh' = FALSE
    /\ UNCHANGED <<graph, nodesMap, call>>

\* Nodes come, go and come back as others.
GraphChanges(n) ==
    /\ \E to \in {"absent", "plain", "lifecycle"} \ {graph[n]} :
          graph' = [graph EXCEPT ![n] = to]
    /\ UNCHANGED <<nodesMap, fresh, call>>
=============================================================================
