---------------------------- MODULE TopicMonitor ----------------------------
(***************************************************************************)
(* TopicMonitor (src/topic_monitor.cpp) inside runTui: a polling thread    *)
(* copies the ROS graph into topics_, subscribes to the watched topics     *)
(* once they are advertised, and measures their rates from the times the   *)
(* subscription callbacks, run by the spinning thread, leave in bounded    *)
(* queues.                                                                 *)
(*                                                                         *)
(* A time is kept as its age, in ticks, and ages beyond Window look alike: *)
(* the code never tells them apart.  The clock need not be bounded.        *)
(***************************************************************************)
EXTENDS Integers, Sequences, FiniteSets, FiniteSetsExt, Functions

CONSTANTS
    Topics,         \* the topics that may be advertised
    Profiles,       \* what a profile may monitor: for each topic, the expected ticks
                    \* between two messages, or 0 for no expectation
    Window,         \* the five seconds of computeHz
    MaxSamples,     \* kMaxSamples
    QueueCapacity   \* kQueueCapacity

ASSUME TopicsAssumption ==
    \A f \in Profiles : DOMAIN f \subseteq Topics /\ \A t \in DOMAIN f : f[t] \in Nat

ASSUME SizesAssumption == {Window, MaxSamples, QueueCapacity} \subseteq Nat \ {0}

VARIABLES
    publishing,  \* the topics other nodes publish
    loadable,    \* those whose type is installed, as a subscription needs
    period,      \* expected_hz of hz_trackers_, as the ticks between two messages
    subscribed,  \* the watched topics with a subscription
    queue,       \* incoming: the ages of the samples, oldest first
    timestamps,  \* the drained samples of a watched topic
    topics,      \* topics_: what is shown of each topic
    fresh,       \* the publisher counts refreshTopicList has read
    todo,        \* the trackers the poll has still to visit
    poll,        \* where the polling thread is
    running,     \* running_
    phase,       \* where runTui is
    heard,       \* history: the ages of the messages put into a queue, ...
    missed       \* ... and of the last one that found it full

graphVars == <<publishing, loadable, subscribed>>
sampleVars == <<queue, timestamps, heard, missed>>
pollVars == <<topics, fresh, todo, poll>>
vars == <<graphVars, period, sampleVars, pollVars, running, phase>>

\* The topics with a tracker.
Watched == DOMAIN period

Old == Window + 1
Ages == 0..Old

\* A topic nobody publishes is in the graph as long as the monitor subscribes to it.
InGraph == publishing \union subscribed

NewInfo == [publishers |-> 0, silent |-> TRUE, stale |-> FALSE]

Init ==
    /\ publishing \in SUBSET Topics
    /\ loadable \in SUBSET Topics
    /\ period = << >>
    /\ subscribed = {}
    /\ queue = [t \in Topics |-> << >>]
    /\ timestamps = [t \in Topics |-> << >>]
    /\ topics = << >>
    /\ fresh = << >>
    /\ todo = {}
    /\ poll = "loop"
    /\ running = FALSE
    /\ phase = "setup"
    /\ heard = [t \in Topics |-> {}]
    /\ missed = [t \in Topics |-> Old]

-----------------------------------------------------------------------------
(* The environment.  The graph and the time are of no account once the last *)
(* poll has been made.                                                      *)

Appear(t) ==
    /\ poll # "done"
    /\ t \notin publishing
    /\ publishing' = publishing \union {t}
    /\ UNCHANGED <<loadable, subscribed, period, sampleVars, pollVars, running, phase>>

Vanish(t) ==
    /\ poll # "done"
    /\ t \in publishing
    /\ publishing' = publishing \ {t}
    /\ UNCHANGED <<loadable, subscribed, period, sampleVars, pollVars, running, phase>>

Older(a) == IF a = Old THEN Old ELSE a + 1

Aged(samples) == [i \in DOMAIN samples |-> Older(samples[i])]

\* The history keeps the messages of the window only.
AgedWithin(ages) == {Older(a) : a \in ages} \ {Old}

Tick ==
    /\ poll # "done"
    /\ queue' = [t \in Topics |-> Aged(queue[t])]
    /\ timestamps' = [t \in Topics |-> Aged(timestamps[t])]
    /\ heard' = [t \in Topics |-> AgedWithin(heard[t])]
    /\ missed' = [t \in Topics |-> Older(missed[t])]
    /\ UNCHANGED <<graphVars, period, pollVars, running, phase>>

\* The spinning thread runs the callback of a subscription: try_push drops the
\* sample when the queue is full.  The clock is finer than the distance of two
\* messages of a topic: no two of them have the same time.
Receive(t) ==
    /\ phase \in {"tui", "stopping", "stopped"}
    /\ t \in publishing \intersect subscribed
    /\ 0 \notin heard[t] \union {missed[t]}
    /\ IF Len(queue[t]) < QueueCapacity
       THEN /\ queue' = [queue EXCEPT ![t] = Append(@, 0)]
            /\ heard' = [heard EXCEPT ![t] = @ \union {0}]
            /\ UNCHANGED missed
       ELSE /\ missed' = [missed EXCEPT ![t] = 0]
            /\ UNCHANGED <<queue, heard>>
    /\ UNCHANGED <<graphVars, period, timestamps, pollVars, running, phase>>

-----------------------------------------------------------------------------
(* The polling thread. *)

\* tryCreateSubscription: the topic must be advertised, its type installed.
Creatable(t) == t \in InGraph /\ t \in loadable

LeaveLoop ==
    /\ poll = "loop" /\ phase \notin {"setup", "watched"}
    /\ ~running
    /\ poll' = "done"
    /\ UNCHANGED <<graphVars, period, sampleVars, topics, fresh, todo, running, phase>>

\* The graph is queried outside mutex_ ...
ReadGraph ==
    /\ poll = "loop" /\ running
    /\ fresh' = [t \in InGraph |-> IF t \in publishing THEN 1 ELSE 0]
    /\ poll' = "swap"
    /\ UNCHANGED <<graphVars, period, sampleVars, topics, todo, running, phase>>

\* Mistake: a topic that is known keeps the counts it was first seen with.
RefreshedNewOnly ==
    LET kept == {t \in DOMAIN topics : t \in DOMAIN fresh \/ t \in Watched}
    IN  [t \in kept \union DOMAIN fresh |-> IF t \in kept THEN topics[t]
                                            ELSE [NewInfo EXCEPT !.publishers = fresh[t]]]

\* ... and swapped in under it: what has left the graph is pruned unless watched.
Refreshed ==
    LET kept == {t \in DOMAIN topics : t \in DOMAIN fresh \/ t \in Watched}
        before(t) == IF t \in kept THEN topics[t] ELSE NewInfo
    IN  [t \in kept \union DOMAIN fresh |->
            IF t \in DOMAIN fresh THEN [before(t) EXCEPT !.publishers = fresh[t]] ELSE before(t)]

\* When every tracker has been visited mutex_ is released and the thread sleeps.
AfterVisiting(rest) == IF rest = {} THEN "loop" ELSE "measure"

SwapIn ==
    /\ poll = "swap"
    /\ topics' = Refreshed
    /\ fresh' = << >>
    /\ todo' = Watched
    /\ poll' = AfterVisiting(Watched)
    /\ UNCHANGED <<graphVars, period, sampleVars, running, phase>>

\* Mistake: trimming drops the newest samples.
DrainedOldest(t) ==
    LET all == timestamps[t] \o queue[t]
    IN  SubSeq(all, 1, Min({Len(all), MaxSamples}))

\* Mistake: nothing is trimmed.
DrainedUntrimmed(t) == timestamps[t] \o queue[t]

\* The samples after draining the queue and trimming to kMaxSamples.
Drained(t) ==
    LET all == timestamps[t] \o queue[t]
    IN  SubSeq(all, Max({1, Len(all) - MaxSamples + 1}), Len(all))

\* computeHz: the intervals with both ends inside the window, and their average;
\* with none the rate is 0.
Intervals(samples) ==
    {i \in 2..Len(samples) : samples[i] <= Window /\ samples[i - 1] <= Window}

IntervalSum(samples) ==
    SumFunction([i \in Intervals(samples) |-> samples[i - 1] - samples[i]])

\* hz < expected_hz * 0.5
TooSlow(t, samples) ==
    /\ period[t] > 0
    /\ \/ Intervals(samples) = {}
       \/ IntervalSum(samples) > 2 * period[t] * Cardinality(Intervals(samples))

\* Mistake: a topic that was not advertised at first is never subscribed to.
NeverRetried(t) == subscribed

Retried(t) == IF Creatable(t) THEN subscribed \union {t} ELSE subscribed

\* One tracker: drain, compute, and try again to subscribe, all under mutex_.
Measure(t) ==
    /\ poll = "measure" /\ t \in todo
    /\ queue' = [queue EXCEPT ![t] = << >>]
    /\ timestamps' = [timestamps EXCEPT ![t] = Drained(t)]
    /\ LET before == IF t \in DOMAIN topics THEN topics[t] ELSE NewInfo
           info == [publishers |-> before.publishers,
                    silent |-> Intervals(Drained(t)) = {},
                    stale |-> TooSlow(t, Drained(t))]
       IN  topics' = [u \in DOMAIN topics \union {t} |-> IF u = t THEN info ELSE topics[u]]
    /\ subscribed' = Retried(t)
    /\ todo' = todo \ {t}
    /\ poll' = AfterVisiting(todo')
    /\ UNCHANGED <<publishing, loadable, period, heard, missed, fresh, running, phase>>

-----------------------------------------------------------------------------
(* runTui. *)

GoTo(from, to) == phase = from /\ phase' = to

\* setWatchedTopics, called once, before the polling thread exists.
SetWatchedTopics ==
    /\ GoTo("setup", "watched")
    /\ period' \in Profiles
    /\ subscribed' = {t \in DOMAIN period' : Creatable(t)}
    /\ UNCHANGED <<publishing, loadable, sampleVars, pollVars, running>>

Start ==
    /\ GoTo("watched", "started")
    /\ running' = TRUE
    /\ UNCHANGED <<graphVars, period, sampleVars, pollVars>>

\* spin_thread begins to run callbacks.
Spin ==
    /\ GoTo("started", "tui")
    /\ UNCHANGED <<graphVars, period, sampleVars, pollVars, running>>

\* Mistake: stop waits for a thread it never told to end.
StopUntold ==
    /\ GoTo("tui", "stopping")
    /\ UNCHANGED <<graphVars, period, sampleVars, pollVars, running>>

\* stop: the flag ...
Stop ==
    /\ GoTo("tui", "stopping")
    /\ running' = FALSE
    /\ UNCHANGED <<graphVars, period, sampleVars, pollVars>>

\* ... and the join.
Joined ==
    /\ GoTo("stopping", "stopped")
    /\ poll = "done"
    /\ UNCHANGED <<graphVars, period, sampleVars, pollVars, running>>

\* Once spin_thread is joined as well, ~TopicMonitor: the subscriptions go, and the
\* queues their callbacks point to.
Destroy ==
    /\ GoTo("stopped", "gone")
    /\ subscribed' = {}
    /\ queue' = [t \in Topics |-> << >>]
    /\ timestamps' = [t \in Topics |-> << >>]
    /\ UNCHANGED <<publishing, loadable, period, heard, missed, pollVars, running>>

-----------------------------------------------------------------------------
PollStep == LeaveLoop \/ ReadGraph \/ SwapIn \/ (\E t \in Topics : Measure(t))

MainStep == SetWatchedTopics \/ Start \/ Spin \/ Joined \/ Destroy

Next ==
    \/ \E t \in Topics : Appear(t) \/ Vanish(t) \/ Receive(t)
    \/ Tick
    \/ PollStep
    \/ MainStep
    \/ Stop

Spec == Init /\ [][Next]_vars

\* Time passes and the threads keep being scheduled.  Nothing is assumed of the
\* user, who quits, and of the other nodes.
FairSpec ==
    /\ Spec
    /\ WF_vars(Tick)
    /\ WF_vars(PollStep)
    /\ WF_vars(MainStep)

-----------------------------------------------------------------------------
(* Safety. *)

\* No sample queue or sample list outgrows its limit, samples are in the order of
\* their times, and only watched topics have any.
TInv ==
    /\ publishing \subseteq Topics
    /\ period \in Profiles \union {<< >>}
    /\ subscribed \subseteq Watched \intersect loadable
    /\ DOMAIN topics \subseteq Topics
    /\ todo \subseteq Watched
    /\ \A t \in Topics :
        /\ Len(queue[t]) <= QueueCapacity /\ Len(timestamps[t]) <= MaxSamples
        /\ LET all == timestamps[t] \o queue[t]
           IN  \A i \in DOMAIN all :
                    /\ all[i] \in Ages
                    /\ i > 1 => all[i] < all[i - 1] \/ all[i - 1] = Old

\* What computeHz should see: the newest kMaxSamples messages of the last five
\* seconds, however they came through the queue.
Recent(t) ==
    {a \in heard[t] : Cardinality({b \in heard[t] : b <= a}) <= MaxSamples}

ShouldBeStale(t) ==
    /\ period[t] > 0
    /\ \/ Cardinality(Recent(t)) < 2
       \/ Max(Recent(t)) - Min(Recent(t)) > 2 * period[t] * (Cardinality(Recent(t)) - 1)

\* Each poll judges a topic as the messages of the last five seconds deserve, unless
\* the queue was full in that time: neither trimming, nor a queue filled between two
\* polls, nor samples that leave the window make it misjudge the rate.
VerdictIsRight ==
    [][\A t \in Topics :
          t \in todo \ todo' /\ missed[t] = Old
          => topics'[t].stale = ShouldBeStale(t)]_vars

(* Liveness. *)

Polled == phase \in {"started", "tui"}

\* A watched topic that is advertised only after the profile is loaded is subscribed
\* to all the same, unless its type is not installed.
SubscribedAtLast ==
    \A t \in Topics :
        Polled /\ t \in Watched \intersect loadable \intersect publishing
        ~> t \in subscribed \/ t \notin publishing \/ ~Polled

\* TopicScreen's last column.
Status(t) ==
    LET info == topics[t]
    IN  IF info.stale THEN "STALE"
        ELSE IF ~info.silent THEN "OK"
        ELSE IF info.publishers > 0 THEN "IDLE" ELSE "NO PUB"

\* When its last publisher is gone a topic stops looking alive: it leaves the list,
\* or, watched, turns STALE or NO PUB.  A watched topic that could not be subscribed
\* to while it was in the graph is excepted: its last publisher count stays.
DeathShows ==
    \A t \in Topics :
        Polled /\ t \notin publishing /\ (t \in Watched => t \in subscribed)
        ~> \/ t \in publishing \/ ~Polled
           \/ t \notin DOMAIN topics
           \/ Status(t) \in {"STALE", "NO PUB"}

\* Quitting is not held up by the monitor: its threads are joined at last.
StopCompletes == phase = "stopping" ~> phase = "gone"
=============================================================================
