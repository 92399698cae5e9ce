-------------------------- MODULE ParameterScreen ---------------------------
(***************************************************************************)
(* ParameterScreen (app/screens/parameter_screen.cpp) with the manager it  *)
(* uses.  Three threads meet here: the terminal thread handles keys and    *)
(* the tick thread refreshes what is shown, both under the screen's        *)
(* mutex_; the spin thread runs the callbacks of the manager, of which the *)
(* one of a set takes mutex_ too.                                          *)
(*                                                                         *)
(* Left out: the search bar, the choice of panel and the scrolling; the    *)
(* selection of the parameter, as a node has one at most; the messages.    *)
(* The text of an edit matters when it is committed and is chosen then.    *)
(***************************************************************************)
EXTENDS ParameterManager

CONSTANTS
    Order,  \* the nodes, sorted by name
    Leaves  \* bound: whether the user may leave the tab once it is on display

ASSUME OrderAssumption == Order \in Seq(Nodes) /\ ToSet(Order) = Nodes /\ Leaves \in BOOLEAN

VARIABLES
    graph,      \* external: the nodes NodeInspector reports
    names,      \* cached_node_names_
    sel,        \* node_list_.selected(), from 1
    shown,      \* cached_params_: the node it is of and the parameter's value
    editing,    \* editing_
    range,      \* edit_has_..._range_ and its bounds
    pending,    \* set_pending_
    overdue,    \* five seconds have passed since set_pending_time_
    mutex,      \* mutex_: "free", held by the tick, or by a key handler
    displayed,  \* this screen's tab is the selected one
    ticking     \* position of the tick thread; "due" if it calls tick on what it saw

editVars   == <<editing, range, pending, overdue>>
screenVars == <<graph, names, sel, shown, editVars, mutex, displayed, ticking>>
pvars      == <<managerVars, remoteVars, screenVars>>

Texts == Values \union {Garbage}

NothingShown == [node |-> NoNode, value |-> NoValue]

ScreenTypeOK ==
    /\ graph \in SUBSET Nodes
    /\ names \in Seq(Nodes) /\ Len(names) <= Len(Order)
    /\ sel \in {1} \union 1..Len(Order)
    /\ shown \in [node : Nodes, value : Values \union {NoValue}] \union {NothingShown}
    /\ editing \in BOOLEAN /\ pending \in BOOLEAN /\ overdue \in BOOLEAN
    /\ range \in SUBSET Values
    /\ mutex \in {"free", "tick", "key"}
    /\ displayed \in BOOLEAN
    /\ ticking \in {"idle", "due", "read", "prune"}

PInit ==
    /\ ManagerInit
    /\ graph = Nodes
    /\ names = << >>
    /\ sel = 1
    /\ shown = NothingShown
    /\ editing = FALSE /\ pending = FALSE /\ overdue = FALSE
    /\ range = {}
    /\ mutex = "free"
    /\ displayed = FALSE
    /\ ticking = "idle"

-----------------------------------------------------------------------------
\* The tick thread.

Selected == sel <= Len(names)

\* Mistake: the deadline is forgotten.
TimeOutNever == UNCHANGED <<pending, overdue>>

\* A set that has been under way for too long is given up.
TimeOut ==
    IF pending /\ overdue
    THEN pending' = FALSE /\ overdue' = FALSE
    ELSE UNCHANGED <<pending, overdue>>

\* TuiRunner's tick thread calls the tick of the selected tab only.
TickDue == ticking = "due" \/ (ticking = "idle" /\ displayed)

\* The list is replaced and the parameters of the selected node are requested.
TickList ==
    /\ TickDue /\ mutex = "free"
    /\ Len(fetches) < MaxFetches
    /\ mutex' = "tick"
    /\ ticking' = "read"
    /\ TimeOut
    /\ names' = Pick(Order, {i \in DOMAIN Order : Order[i] \in graph})
    /\ IF sel <= Len(names')
       THEN DoFetch(names'[sel], FALSE)
       ELSE UNCHANGED <<nodes, fetches>>
    /\ UNCHANGED <<sets, spin, remoteVars, graph, sel, shown, editing, range, displayed>>

TickRead ==
    /\ ticking = "read"
    /\ shown' = IF Selected
                THEN [node |-> names[sel], value |-> nodes[names[sel]].params]
                ELSE NothingShown
    /\ mutex' = "free"
    /\ ticking' = "prune"
    /\ UNCHANGED <<managerVars, remoteVars, graph, names, sel, editVars, displayed>>

TickPrune ==
    /\ ticking = "prune"
    /\ Prune(ToSet(names))
    /\ ticking' = "idle"
    /\ UNCHANGED <<spin, remoteVars, graph, names, sel, shown, editVars, mutex,
                   displayed>>

\* External: NodeInspector reads the graph again.
GraphRefreshed ==
    /\ graph # alive
    /\ graph' = alive
    /\ UNCHANGED <<managerVars, remoteVars, names, sel, shown, editVars, mutex,
                   displayed, ticking>>

DeadlinePasses ==
    /\ pending /\ ~overdue
    /\ overdue' = TRUE
    /\ UNCHANGED <<managerVars, remoteVars, graph, names, sel, shown,
                   editing, range, pending, mutex, displayed, ticking>>

-----------------------------------------------------------------------------
\* The keys.

\* A key of TuiRunner's selects this tab or another, but not while an edit gets all
\* the keys; the terminal thread is not stuck in a handler.  The tick thread may have
\* looked at the tab just before it was left.
SelectTab ==
    /\ mutex # "key"
    /\ displayed => Leaves /\ ~editing
    /\ displayed' = ~displayed
    /\ ticking' \in {ticking} \union IF displayed /\ ticking = "idle" THEN {"due"} ELSE {}
    /\ UNCHANGED <<managerVars, remoteVars, graph, names, sel, shown, editVars, mutex>>

Key == displayed /\ mutex = "free"

\* setParameter from a handler, which holds mutex_.  A call that is refused runs
\* its callback at once, on this thread, and that takes mutex_ again: it is never
\* released.
SetParameter(n, value, from) ==
    IF Refused(n, value)
    THEN mutex' = "key" /\ UNCHANGED sets
    ELSE Len(sets) < MaxSets /\ Len(fetches) < MaxFetches /\ Send(n, value, from) /\ UNCHANGED mutex

Select(i) ==
    /\ Key /\ ~editing
    /\ i \in DOMAIN names /\ i # sel
    /\ sel' = i
    /\ UNCHANGED <<managerVars, remoteVars, graph, names, shown, editVars, mutex,
                   displayed, ticking>>

\* Enter on a parameter that is not a boolean opens the edit.
BeginEdit ==
    /\ Key /\ ~editing
    /\ shown.value # NoValue /\ Kind[shown.node] = "number"
    /\ editing' = TRUE
    /\ pending' = FALSE /\ overdue' = FALSE
    /\ range' = Declared[shown.node]
    /\ UNCHANGED <<managerVars, remoteVars, graph, names, sel, shown, mutex, displayed,
                   ticking>>

\* Enter on a boolean toggles it, of the node that is selected by now.
Toggle ==
    /\ Key /\ ~editing
    /\ shown.value # NoValue /\ Kind[shown.node] = "bool"
    /\ Selected
    /\ \E v \in Values \ {shown.value} : SetParameter(names[sel], v, "toggle")
    /\ UNCHANGED <<nodes, fetches, spin, remoteVars, graph, names, sel, shown, editVars,
                   displayed, ticking>>

Escape ==
    /\ Key /\ editing
    /\ editing' = FALSE
    /\ pending' = FALSE /\ overdue' = FALSE
    /\ UNCHANGED <<managerVars, remoteVars, graph, names, sel, shown, range, mutex,
                   displayed, ticking>>

\* Enter commits t, the text typed by now.  A number outside the range is reported
\* at once; other texts are left to setParameter.
InRange(t) == t \in Values => t \in range

Commit(t) ==
    /\ Key /\ editing /\ ~pending
    /\ InRange(t)
    /\ Selected
    /\ pending' = TRUE /\ overdue' = FALSE
    /\ SetParameter(names[sel], t, "edit")
    /\ UNCHANGED <<nodes, fetches, spin, remoteVars, graph, names, sel, shown,
                   editing, range, displayed, ticking>>

\* 'r'
ForceRefresh ==
    /\ Key /\ ~editing
    /\ Selected
    /\ Len(fetches) < MaxFetches
    /\ DoFetch(names[sel], TRUE)
    /\ UNCHANGED <<sets, spin, remoteVars, screenVars>>

-----------------------------------------------------------------------------
\* The callback of a set on the spin thread.
SetAnswered(i) ==
    /\ mutex = "free"
    /\ TakeAnswer(i)
    /\ IF sets[i].from = "edit"
       THEN /\ pending' = FALSE /\ overdue' = FALSE
            /\ editing' = (editing /\ sets[i].status # "accepted")
       ELSE UNCHANGED <<pending, overdue, editing>>
    /\ UNCHANGED <<nodes, fetches, remoteVars, graph, names, sel, shown, range,
                   mutex, displayed, ticking>>

CallsOf(n) ==
    /\ \E i \in DOMAIN fetches :
        /\ fetches[i].node = n
        /\ Listed(i) \/ ListedNone(i) \/ AnswerGet(i) \/ Got(i) \/ Described(i)
    /\ UNCHANGED screenVars

Refresh == RefreshAfterSet /\ UNCHANGED screenVars

Tick == TickList \/ TickRead \/ TickPrune

Keys ==
    \/ \E i \in 1..Len(Order) : Select(i)
    \/ SelectTab \/ BeginEdit \/ Toggle \/ Escape \/ ForceRefresh
    \/ \E t \in Texts : Commit(t)

PNext ==
    \/ Keys \/ Tick \/ Refresh \/ GraphRefreshed \/ DeadlinePasses
    \/ \E n \in Nodes : CallsOf(n)
    \/ \E i \in DOMAIN sets : SetAnswered(i)
    \/ /\ \/ \E i \in DOMAIN fetches : ListOrGetFails(i)
          \/ \E i \in DOMAIN sets : AnswerSet(i)
          \/ \E n \in Nodes : IntervalPasses(n) \/ Crash(n) \/ ComeBack(n)
       /\ UNCHANGED screenVars

PSpec == PInit /\ [][PNext]_pvars

\* The threads keep running, time passes, and a living node answers queries.  The
\* tick is due while the tab is displayed; it may find mutex_ taken, but never for
\* long, and the bound on fetches may hold it back for a while.  Nothing is
\* assumed of the user, who may leave the tab for good, of crashes, or of the answer
\* to a set.
PFairness ==
    /\ SF_pvars(TickList) /\ WF_pvars(TickRead \/ TickPrune)
    /\ WF_pvars(DeadlinePasses)
    /\ WF_pvars(Refresh)
    /\ \A n \in Nodes : SF_pvars(CallsOf(n))

PFairSpec == PSpec /\ PFairness

-----------------------------------------------------------------------------
\* The terminal thread waits for the mutex it holds itself.
Frozen == mutex = "key"

\* The handler of a key always returns: the edit box never hangs.
NeverFrozen == ~Frozen

\* loading is set only while a fetch is on its way that will clear it, however
\* fetches overlap, fail or outlive the state they were started for; only a
\* node that has died may still owe the answer to a client it knew.
LoadingIsAnswered ==
    \A n \in Nodes : nodes[n].loading /\ nodes[n].client = NewClient(n) =>
        \E i \in DOMAIN fetches : fetches[i].node = n /\ fetches[i].client = nodes[n].client

\* A node that never crashed is always there, and the list of a tick has it.
PresenceInv ==
    \A n \in Nodes :
        /\ n \in alive \union crashed
        /\ n \notin crashed =>
            n \in graph /\ (ticking \in {"read", "prune"} => n \in ToSet(names))

\* A state has a client, the one the node's life calls for or an older one; nothing
\* is asked of a node that died through the client of its second life before that.
ClientInv ==
    /\ \A n \in Nodes :
        /\ nodes[n].client = "none" => nodes[n] = Absent
        /\ ~nodes[n].known => nodes[n] = Absent
        /\ nodes[n].client = "second" => n \in crashed /\ (nodes[n].loading => n \in alive)
    /\ \A i \in DOMAIN fetches :
        /\ fetches[i].client # "none"
        /\ fetches[i].client = "second" => fetches[i].node \in crashed \intersect alive
        /\ fetches[i].node \notin crashed => nodes[fetches[i].node].known
    /\ \A i \in DOMAIN sets : sets[i].node \notin crashed => nodes[sets[i].node].known
    /\ spin \notin crashed \union {NoNode} => nodes[spin].known

\* Of a node without parameters no values are asked.
NoneInv ==
    \A n \in Nodes : Kind[n] = "none" =>
        /\ nodes[n].params = NoValue
        /\ \A i \in DOMAIN fetches : fetches[i].node = n => fetches[i].stage = 1

\* A set that n took has yet to start a fetch.
Changed(n) ==
    spin = n \/ \E i \in DOMAIN sets : sets[i].node = n /\ sets[i].status = "accepted"

\* The value of n is what the last of its fetches has read or will read, or else what
\* the cache has.
Fresh(n) ==
    /\ \A i \in DOMAIN fetches :
        /\ fetches[i].node = n /\ fetches[i].stage > 2
        /\ \A j \in DOMAIN fetches : j > i => fetches[j].node # n
        => fetches[i].value = remote[n]
    /\ \/ ~nodes[n].loaded \/ nodes[n].params = remote[n]
       \/ \E i \in DOMAIN fetches : fetches[i].node = n

\* So it is of a node that never crashed, unless it is about to be fetched.
FreshInv ==
    failures = 0 =>
        \A n \in Nodes \ crashed : Kind[n] # "none" /\ ~Changed(n) => Fresh(n)

\* The inductive invariant.
PInv ==
    /\ ManagerTypeOK /\ ScreenTypeOK
    /\ LoadingIsAnswered
    /\ PresenceInv /\ ClientInv /\ NoneInv /\ FreshInv

\* Nothing is under way for n.
Quiet(n) ==
    /\ spin # n
    /\ \A i \in DOMAIN fetches : fetches[i].node # n
    /\ \A i \in DOMAIN sets : sets[i].node # n

\* After a set the cache shows the new value once everything has been answered,
\* even when a fetch under way had read the old one.
SetIsShown ==
    \A n \in Nodes \ crashed : failures = 0 /\ Quiet(n) /\ nodes[n].loaded =>
        nodes[n].params = IF Kind[n] = "none" THEN NoValue ELSE remote[n]

\* What is sent for an edit is a value in the range the node declares.
EditsInRange ==
    \A i \in DOMAIN sets : sets[i].from = "edit" =>
        sets[i].value \in Declared[sets[i].node]

\* The edit box does not wait for ever: an answer or the deadline resolves it,
\* unless the handler itself never returned.
PendingResolves == pending ~> ~pending \/ Frozen

\* Every fetch of a living node comes to an end.
FetchCompletes ==
    \A n \in Nodes : nodes[n].loading ~> ~nodes[n].loading \/ n \in crashed \/ Frozen

\* While the tab stays on display, the state of a node that has left the graph is given
\* up, though the refresh after a set may create it once more.  Nothing is given up
\* while another tab is shown.
GoneIsForgotten ==
    \A n \in Nodes :
        n \notin graph /\ displayed ~>
            ~nodes[n].known \/ n \in graph \/ ~displayed \/ Frozen
=============================================================================
