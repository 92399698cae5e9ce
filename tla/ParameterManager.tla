-------------------------- MODULE ParameterManager --------------------------
(***************************************************************************)
(* ParameterManager (src/parameter_manager.cpp): cached parameters of      *)
(* remote nodes.  A fetch is a chain of three asynchronous calls (list,    *)
(* get, describe) whose callbacks run on the one thread that spins the     *)
(* launcher's node; a set is one call, followed by a forced fetch.         *)
(*                                                                         *)
(* Abstractions.  A node has at most one parameter, called the same on all *)
(* nodes, whose Kind and Declared values never change and whose value only *)
(* the launcher sets.  The calls of one AsyncParametersClient are answered *)
(* in the order they were made.  The time since last_fetch is a flag, and  *)
(* error, which is only displayed, is left out.  A node crashes at most    *)
(* once, so it has at most two clients.  Names come from the graph and are *)
(* valid: a client can always be created.                                  *)
(***************************************************************************)
EXTENDS Naturals, Sequences, FiniteSets, SequencesExt

CONSTANTS
    Nodes,       \* full names of the remote nodes
    Kind,        \* of each node's parameter: "number", "bool", or "none" at all
    Values,      \* parameter values
    Declared,    \* the values in the declared range of each node's parameter
    Default,     \* the value after the node has started
    Garbage,     \* a text that is the text of no value
    NoValue, NoNode,
    MaxFetches,  \* bound: fetches under way when a tick or a key starts another
    MaxSets,     \* bound: sets under way at once
    MaxCrashes,  \* bound: nodes that crash
    MaxFailures  \* bound: calls that end in an exception

ASSUME ParameterAssumption ==
    /\ Kind \in [Nodes -> {"number", "bool", "none"}]
    /\ Declared \in [Nodes -> SUBSET Values]
    /\ Default \in Values
    /\ Garbage \notin Values /\ NoValue \notin Values /\ NoNode \notin Nodes
    /\ {MaxFetches, MaxSets, MaxCrashes, MaxFailures} \subseteq Nat

VARIABLES
    nodes,    \* nodes_: the NodeState of each name, Absent when there is none
    fetches,  \* fetches under way, oldest first
    sets,     \* set_parameters calls under way, oldest first
    spin,     \* the node a set callback has yet to refresh, on the spin thread
    \* the remote nodes, external
    alive, remote, crashed, failures

managerVars == <<nodes, fetches, sets, spin>>
remoteVars  == <<alive, remote, crashed, failures>>

\* The stages of a fetch; at "got" the node has answered get_parameters and the
\* answer has yet to be taken.
Stages == <<"list", "get", "got", "describe">>

Clients == {"none", "first", "second"}

NodeState == [known : BOOLEAN, client : Clients, loading : BOOLEAN, loaded : BOOLEAN,
              recent : BOOLEAN, params : Values \union {NoValue}]

Absent == [known |-> FALSE, client |-> "none", loading |-> FALSE, loaded |-> FALSE,
           recent |-> FALSE, params |-> NoValue]

Fetches == [node : Nodes, client : Clients, stage : 1..4, value : Values \union {NoValue}]

Sets == [node : Nodes, client : Clients, value : Values, from : {"edit", "toggle"},
         status : {"sent", "accepted", "rejected"}]

\* The elements of s at the positions in I, in their order.
Pick(s, I) ==
    [k \in 1..Cardinality(I) |-> s[CHOOSE i \in I : Cardinality({j \in I : j <= i}) = k]]

\* A set under way, or one just answered, has yet to start a fetch.
ManagerTypeOK ==
    /\ nodes \in [Nodes -> NodeState]
    /\ fetches \in Seq(Fetches)
    /\ sets \in Seq(Sets) /\ Len(sets) <= MaxSets
    /\ Len(fetches) + Len(sets) + (IF spin = NoNode THEN 0 ELSE 1) <= MaxFetches + MaxSets + 1
    /\ spin \in Nodes \union {NoNode}
    /\ alive \in SUBSET Nodes /\ crashed \in SUBSET Nodes
    /\ remote \in [Nodes -> Values]
    /\ failures \in 0..MaxFailures

ManagerInit ==
    /\ nodes = [n \in Nodes |-> Absent]
    /\ fetches = << >>
    /\ sets = << >>
    /\ spin = NoNode
    /\ alive = Nodes
    /\ remote = [n \in Nodes |-> Default]
    /\ crashed = {}
    /\ failures = 0

-----------------------------------------------------------------------------
\* doFetch(n, force): the first use of a name creates its state, the first that
\* is not throttled its client.  A client just created may not have discovered
\* the node's service yet.

NewClient(n) == IF n \in crashed THEN "second" ELSE "first"

\* Mistake: a forced refresh leaves a fetch under way to do the work.
ThrottledLoading(n, force) == nodes[n].loading \/ (~force /\ nodes[n].recent)

Throttled(n, force) == ~force /\ (nodes[n].loading \/ nodes[n].recent)

DoFetch(n, force) ==
    LET s == [nodes[n] EXCEPT !.known = TRUE]
        c == IF s.client = "none" THEN NewClient(n) ELSE s.client
    IN  \/ /\ Throttled(n, force)
           /\ nodes' = [nodes EXCEPT ![n] = s]
           /\ UNCHANGED fetches
        \/ /\ ~Throttled(n, force)
           /\ n \notin alive \/ s.client = "none"
           /\ nodes' = [nodes EXCEPT ![n] =
                           [s EXCEPT !.client = c, !.loaded = FALSE]]
           /\ UNCHANGED fetches
        \/ /\ ~Throttled(n, force)
           /\ n \in alive
           /\ nodes' = [nodes EXCEPT ![n] =
                           [s EXCEPT !.client = c, !.loading = TRUE, !.recent = TRUE]]
           /\ fetches' = Append(fetches, [node |-> n, client |-> c, stage |-> 1,
                                          value |-> NoValue])

-----------------------------------------------------------------------------
\* The calls of a fetch and their callbacks.

\* Fetch i may move on: no older one of its client is at the same stage.
Foremost(i) ==
    \A j \in 1..(i - 1) :
        fetches[j].node = fetches[i].node /\ fetches[j].client = fetches[i].client =>
            fetches[j].stage > fetches[i].stage

At(i, stage) == i \in DOMAIN fetches /\ Stages[fetches[i].stage] = stage /\ Foremost(i)

Advance(i) == fetches' = [fetches EXCEPT ![i].stage = @ + 1]

Drop(i) == fetches' = RemoveAt(fetches, i)

\* A callback finds the state of its node by name, if there still is one.
Update(n, s) == nodes' = IF nodes[n].known THEN [nodes EXCEPT ![n] = s] ELSE nodes

\* The callbacks of list and get hold the client of their node.
Held(n, I) == \E i \in I : fetches[i].node = n /\ Stages[fetches[i].stage] # "describe"

\* list_parameters found names: get_parameters is called.
Listed(i) ==
    /\ spin = NoNode
    /\ At(i, "list") /\ Kind[fetches[i].node] # "none"
    /\ Advance(i)
    /\ UNCHANGED <<nodes, sets, spin, remoteVars>>

\* Mistake: an empty list leaves the loading flag set.
ListedNoneLoading(i) ==
    /\ spin = NoNode
    /\ At(i, "list") /\ Kind[fetches[i].node] = "none"
    /\ LET n == fetches[i].node
       IN  Update(n, [nodes[n] EXCEPT !.params = NoValue, !.loaded = TRUE])
    /\ Drop(i)
    /\ UNCHANGED <<sets, spin, remoteVars>>

ListedNone(i) ==
    /\ spin = NoNode
    /\ At(i, "list") /\ Kind[fetches[i].node] = "none"
    /\ LET n == fetches[i].node
       IN  Update(n, [nodes[n] EXCEPT !.params = NoValue, !.loaded = TRUE, !.loading = FALSE])
    /\ Drop(i)
    /\ UNCHANGED <<sets, spin, remoteVars>>

\* External: the node answers get_parameters.
AnswerGet(i) ==
    /\ At(i, "get")
    /\ fetches' = [fetches EXCEPT ![i].stage = @ + 1, ![i].value = remote[fetches[i].node]]
    /\ UNCHANGED <<nodes, sets, spin, remoteVars>>

\* Mistake: describe_parameters is not called.
GotOnly(i) ==
    /\ spin = NoNode
    /\ At(i, "got")
    /\ Drop(i)
    /\ UNCHANGED <<nodes, sets, spin, remoteVars>>

\* The values are taken and describe_parameters is called.  A node that has died
\* never answers, and the answer is lost with a client that is no longer held.
Got(i) ==
    /\ spin = NoNode
    /\ At(i, "got")
    /\ LET n == fetches[i].node
       IN  IF n \in alive /\ (nodes[n].client = fetches[i].client \/ Held(n, DOMAIN fetches \ {i}))
           THEN Advance(i)
           ELSE Drop(i)
    /\ UNCHANGED <<nodes, sets, spin, remoteVars>>

\* "List failed" and "Get failed".
ListOrGetFails(i) ==
    /\ spin = NoNode
    /\ At(i, "list") \/ At(i, "get")
    /\ failures < MaxFailures
    /\ failures' = failures + 1
    /\ LET n == fetches[i].node
       IN  Update(n, [nodes[n] EXCEPT !.loading = FALSE])
    /\ Drop(i)
    /\ UNCHANGED <<sets, spin, alive, remote, crashed>>

\* The descriptions, which are optional, complete the fetch.
Described(i) ==
    /\ spin = NoNode
    /\ At(i, "describe")
    /\ LET n == fetches[i].node
       IN  Update(n, [nodes[n] EXCEPT !.params = fetches[i].value, !.loaded = TRUE,
                                      !.loading = FALSE])
    /\ Drop(i)
    /\ UNCHANGED <<sets, spin, remoteVars>>

-----------------------------------------------------------------------------
\* setParameter(n, text): refused on the spot, or sent.

Refused(n, text) == nodes[n].client = "none" \/ text \notin Values

Send(n, value, from) ==
    sets' = IF n \in alive
            THEN Append(sets, [node |-> n, client |-> nodes[n].client, value |-> value,
                               from |-> from, status |-> "sent"])
            ELSE sets

\* The sets that the same client sent before set i.
Earlier(i) ==
    {j \in 1..(i - 1) : sets[j].node = sets[i].node /\ sets[j].client = sets[i].client}

\* External: the node may take a value it declares, and rejects any other.
AnswerSet(i) ==
    /\ i \in DOMAIN sets /\ sets[i].status = "sent"
    /\ \A j \in Earlier(i) : sets[j].status # "sent"
    /\ \/ /\ sets[i].value \in Declared[sets[i].node]
          /\ remote' = [remote EXCEPT ![sets[i].node] = sets[i].value]
          /\ sets' = [sets EXCEPT ![i].status = "accepted"]
       \/ /\ sets' = [sets EXCEPT ![i].status = "rejected"]
          /\ UNCHANGED remote
    /\ UNCHANGED <<nodes, fetches, spin, alive, crashed, failures>>

\* The callback of a set: after cb, a success refreshes the cache.
TakeAnswer(i) ==
    /\ spin = NoNode
    /\ i \in DOMAIN sets /\ sets[i].status # "sent" /\ Earlier(i) = {}
    /\ sets' = RemoveAt(sets, i)
    /\ spin' = IF sets[i].status = "accepted" THEN sets[i].node ELSE NoNode

RefreshAfterSet ==
    /\ spin # NoNode
    /\ DoFetch(spin, TRUE)
    /\ spin' = NoNode
    /\ UNCHANGED <<sets, remoteVars>>

-----------------------------------------------------------------------------
\* Mistake: the state of a node that is being fetched is kept.
PruneIdle(listed) ==
    /\ nodes' = [n \in Nodes |-> IF n \in listed \/ nodes[n].loading THEN nodes[n] ELSE Absent]
    /\ UNCHANGED <<fetches, sets>>

\* pruneNodes: the state of a node that is not listed goes, and its client with
\* every answer it still waits for, unless a callback under way holds it.
Prune(listed) ==
    LET kept == {n \in Nodes : n \in listed \/ Held(n, DOMAIN fetches)}
    IN  /\ nodes' = [n \in Nodes |-> IF n \in listed THEN nodes[n] ELSE Absent]
        /\ fetches' = Pick(fetches, {i \in DOMAIN fetches : fetches[i].node \in kept})
        /\ sets' = Pick(sets, {i \in DOMAIN sets : sets[i].node \in kept})

\* kFetchInterval has passed since the last fetch.
IntervalPasses(n) ==
    /\ nodes[n].recent
    /\ nodes' = [nodes EXCEPT ![n].recent = FALSE]
    /\ UNCHANGED <<fetches, sets, spin, remoteVars>>

\* External: a node dies with every call it has not answered, and comes back.
Crash(n) ==
    /\ n \in alive \ crashed /\ Cardinality(crashed) < MaxCrashes
    /\ alive' = alive \ {n}
    /\ crashed' = crashed \union {n}
    /\ fetches' = Pick(fetches, {i \in DOMAIN fetches :
                                   fetches[i].node # n \/ Stages[fetches[i].stage] = "got"})
    /\ sets' = Pick(sets, {i \in DOMAIN sets : sets[i].node # n \/ sets[i].status # "sent"})
    /\ UNCHANGED <<nodes, spin, remote, failures>>

ComeBack(n) ==
    /\ n \notin alive
    /\ alive' = alive \union {n}
    /\ remote' = [remote EXCEPT ![n] = Default]
    /\ UNCHANGED <<managerVars, crashed, failures>>
=============================================================================
