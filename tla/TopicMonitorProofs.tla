------------------------- MODULE TopicMonitorProofs -------------------------
(***************************************************************************)
(* TInv, proved for any topics, profiles and sizes: whatever the clock,    *)
(* the callbacks and the polling thread do to the queues, no list of       *)
(* samples outgrows its limit or loses the order of its times.  And        *)
(* VerdictIsRight: the rate each poll computes from them is that of the    *)
(* newest messages there were.                                             *)
(***************************************************************************)
EXTENDS TopicMonitor, SequenceLemmas

-----------------------------------------------------------------------------
\* Lists of samples.

\* Times only grow along a list, so ages shrink; beyond the window they look alike.
Ordered(s) ==
    \A i \in DOMAIN s : i > 1 => s[i] < s[i - 1] \/ s[i - 1] = Old

\* The samples of a topic: those of the window are messages that were heard.
Samples(s, ages) ==
    /\ s \in Seq(Ages)
    /\ Ordered(s)
    /\ \A i \in DOMAIN s : s[i] = Old \/ s[i] \in ages

All(t) == timestamps[t] \o queue[t]

\* What the assumption says of sizes and ages.
LEMMA Sizes ==
  /\ Window \in Nat \ {0} /\ MaxSamples \in Nat \ {0} /\ QueueCapacity \in Nat \ {0}
  /\ Old \in Nat /\ Old > 1 /\ Ages \subseteq Nat /\ 0 \in Ages /\ Old \in Ages
  BY SizesAssumption DEF Old, Ages

\* Time ages every sample but the old ones, and keeps their order.
LEMMA OlderAges ==
  ASSUME NEW a \in Ages
  PROVE  /\ Older(a) \in Ages
         /\ Older(a) = Old \/ Older(a) = a + 1
         /\ a = Old => Older(a) = Old
         /\ \A b \in Ages : b < a => Older(b) < Older(a) \/ Older(a) = Old
  BY Sizes DEF Older, Ages, Old

\* Ageing a list ages each of its samples.
LEMMA AgedList ==
  ASSUME NEW s \in Seq(Ages)
  PROVE  /\ Aged(s) \in Seq(Ages) /\ Len(Aged(s)) = Len(s) /\ DOMAIN Aged(s) = DOMAIN s
         /\ \A i \in DOMAIN s : Aged(s)[i] = Older(s[i])
<1>1. DOMAIN s = 1..Len(s) /\ Len(s) \in Nat /\ \A i \in 1..Len(s) : s[i] \in Ages
  BY Indices
<1>2. \A i \in 1..Len(s) : Older(s[i]) \in Ages
  BY <1>1, OlderAges
<1>3. Aged(s) = [i \in 1..Len(s) |-> Older(s[i])]
  BY <1>1 DEF Aged
<1> QED BY <1>1, <1>2, <1>3

\* Time passes for both parts of a list alike.
LEMMA AgedSamples ==
  ASSUME NEW s \in Seq(Ages), NEW q \in Seq(Ages), NEW ages, Samples(s \o q, ages)
  PROVE  Samples(Aged(s) \o Aged(q), AgedWithin(ages))
<1> DEFINE c == s \o q
           d == Aged(s) \o Aged(q)
<1>1. /\ c \in Seq(Ages) /\ Len(c) = Len(s) + Len(q)
      /\ \A i \in 1..(Len(s) + Len(q)) : c[i] = IF i <= Len(s) THEN s[i] ELSE q[i - Len(s)]
  BY Concatenation, Zenon
<1>2. /\ d \in Seq(Ages) /\ Len(d) = Len(Aged(s)) + Len(Aged(q))
      /\ \A i \in 1..(Len(Aged(s)) + Len(Aged(q))) :
           d[i] = IF i <= Len(Aged(s)) THEN Aged(s)[i] ELSE Aged(q)[i - Len(Aged(s))]
  BY AgedList, Concatenation, Zenon
<1> HIDE DEF c, d
<1>3. Len(s) \in Nat /\ Len(q) \in Nat /\ DOMAIN s = 1..Len(s) /\ DOMAIN q = 1..Len(q)
  BY Indices
<1>4. /\ DOMAIN c = 1..(Len(s) + Len(q)) /\ DOMAIN d = 1..(Len(s) + Len(q))
      /\ \A i \in 1..(Len(s) + Len(q)) : c[i] \in Ages
  BY <1>1, <1>2, AgedList, Indices
<1>5. ASSUME NEW i \in 1..(Len(s) + Len(q))
      PROVE  d[i] = Older(c[i])
  <2>1. CASE i <= Len(s)
    <3>1. i \in 1..Len(s)
      BY <1>3, <2>1
    <3>2. c[i] = s[i] /\ d[i] = Aged(s)[i]
      BY <1>1, <1>2, <2>1, AgedList
    <3> QED BY <1>3, <3>1, <3>2, AgedList
  <2>2. CASE ~(i <= Len(s))
    <3>1. i - Len(s) \in 1..Len(q)
      BY <1>3, <2>2
    <3>2. c[i] = q[i - Len(s)] /\ d[i] = Aged(q)[i - Len(s)]
      BY <1>1, <1>2, <2>2, AgedList
    <3> QED BY <1>3, <3>1, <3>2, AgedList
  <2> QED BY <2>1, <2>2
<1>6. Samples(c, ages)
  BY DEF c
<1>7. Ordered(d)
  <2> SUFFICES ASSUME NEW i \in 1..(Len(s) + Len(q)), i > 1
               PROVE  d[i] < d[i - 1] \/ d[i - 1] = Old
    BY <1>4 DEF Ordered
  <2>1. i - 1 \in 1..(Len(s) + Len(q))
    BY <1>3
  <2>2. c[i] < c[i - 1] \/ c[i - 1] = Old
    BY <1>4, <1>6 DEF Samples, Ordered
  <2> QED BY <1>4, <1>5, <2>1, <2>2, OlderAges
<1>8. ASSUME NEW i \in 1..(Len(s) + Len(q))
      PROVE  d[i] = Old \/ d[i] \in AgedWithin(ages)
  <2>1. c[i] = Old \/ c[i] \in ages
    BY <1>4, <1>6 DEF Samples
  <2> QED BY <1>4, <1>5, <2>1, OlderAges DEF AgedWithin
<1>9. Samples(d, AgedWithin(ages))
  BY <1>2, <1>4, <1>7, <1>8 DEF Samples
<1> QED BY <1>9 DEF d

\* A message joins a list of older ones.
LEMMA HeardSamples ==
  ASSUME NEW s \in Seq(Ages), NEW q \in Seq(Ages), NEW ages,
         Samples(s \o q, ages), 0 \notin ages
  PROVE  Samples(s \o Append(q, 0), ages \union {0})
<1> DEFINE c == s \o q
           p == Append(q, 0)
           d == s \o p
<1>1. /\ c \in Seq(Ages) /\ Len(c) = Len(s) + Len(q)
      /\ \A i \in 1..(Len(s) + Len(q)) : c[i] = IF i <= Len(s) THEN s[i] ELSE q[i - Len(s)]
  BY Concatenation, Zenon
<1>2. /\ p \in Seq(Ages) /\ Len(p) = Len(q) + 1 /\ p[Len(q) + 1] = 0
      /\ \A i \in 1..Len(q) : p[i] = q[i]
  BY Sizes
<1> HIDE DEF p
<1>3. /\ d \in Seq(Ages) /\ Len(d) = Len(s) + Len(p)
      /\ \A i \in 1..(Len(s) + Len(p)) : d[i] = IF i <= Len(s) THEN s[i] ELSE p[i - Len(s)]
  BY <1>2, Concatenation, Zenon
<1> HIDE DEF c, d
<1> DEFINE n == Len(s) + Len(q)
<1>4. Len(s) \in Nat /\ Len(q) \in Nat /\ n \in Nat /\ Len(s) + Len(p) = n + 1
  BY <1>2, Indices
<1>5. DOMAIN c = 1..n /\ DOMAIN d = 1..(n + 1) /\ \A i \in 1..n : c[i] \in Ages
  BY <1>1, <1>3, <1>4, Indices
<1>6. ASSUME NEW i \in 1..n PROVE d[i] = c[i]
  <2>1. i \in 1..(Len(s) + Len(p))
    BY <1>4
  <2>2. CASE i <= Len(s)
    BY <1>1, <1>3, <2>1, <2>2
  <2>3. CASE ~(i <= Len(s))
    <3>1. i - Len(s) \in 1..Len(q)
      BY <1>4, <2>3
    <3> QED BY <1>1, <1>2, <1>3, <2>1, <2>3, <3>1
  <2> QED BY <2>2, <2>3
<1>7. d[n + 1] = 0
  <2>1. /\ n + 1 \in 1..(Len(s) + Len(p)) /\ ~(n + 1 <= Len(s))
        /\ (n + 1) - Len(s) = Len(q) + 1
    BY <1>4
  <2> QED BY <1>2, <1>3, <2>1
<1> HIDE DEF n
<1>8. Samples(c, ages)
  BY DEF c
<1>9. Ordered(d)
  <2> SUFFICES ASSUME NEW i \in 1..(n + 1), i > 1
               PROVE  d[i] < d[i - 1] \/ d[i - 1] = Old
    BY <1>5 DEF Ordered
  <2>1. i - 1 \in 1..n
    BY <1>4
  <2>2. CASE i \in 1..n
    BY <1>5, <1>6, <1>8, <2>1, <2>2 DEF Samples, Ordered
  <2>3. CASE i = n + 1
    <3>1. c[i - 1] = Old \/ c[i - 1] \in ages
      BY <1>5, <1>8, <2>1 DEF Samples
    <3>2. c[i - 1] \in Nat /\ c[i - 1] # 0
      <4>1. c[i - 1] \in Ages
        BY <1>5, <2>1, Zenon
      <4>2. Old # 0 /\ Ages \subseteq Nat
        BY Sizes
      <4> QED BY <3>1, <4>1, <4>2
    <3> QED BY <1>6, <1>7, <2>1, <2>3, <3>2
  <2> QED BY <1>4, <2>2, <2>3
<1>10. ASSUME NEW i \in 1..(n + 1)
       PROVE  d[i] = Old \/ d[i] \in ages \union {0}
  <2>1. i \in 1..n \/ i = n + 1
    BY <1>4
  <2> QED BY <1>5, <1>6, <1>7, <1>8, <2>1 DEF Samples
<1>11. Samples(d, ages \union {0})
  BY <1>3, <1>5, <1>9, <1>10 DEF Samples
<1> QED BY <1>11 DEF d, p

\* The greater of two numbers.
LEMMA MaxOfTwo ==
  ASSUME NEW a \in Int, NEW b \in Int
  PROVE  Max({a, b}) = IF a >= b THEN a ELSE b
<1> DEFINE m == IF a >= b THEN a ELSE b
<1>1. m \in {a, b} /\ \A y \in {a, b} : m >= y
  OBVIOUS
<1>2. \A x \in {a, b} : (\A y \in {a, b} : x >= y) => x = m
  OBVIOUS
<1> HIDE DEF m
<1>3. Max({a, b}) \in {a, b} /\ \A y \in {a, b} : Max({a, b}) >= y
  BY <1>1, Zenon DEF Max
<1>4. Max({a, b}) = m
  BY <1>2, <1>3, Zenon
<1> QED BY <1>4 DEF m

\* Draining leaves the end of all samples, of MaxSamples of them at most.
LEMMA DrainedEnd ==
  ASSUME NEW t, All(t) \in Seq(Ages)
  PROVE  \E m \in 1..(Len(All(t)) + 1) :
            /\ Drained(t) \in Seq(Ages) /\ Len(Drained(t)) = Len(All(t)) - m + 1
            /\ Len(Drained(t)) <= MaxSamples
            /\ m > 1 => Len(Drained(t)) = MaxSamples
            /\ \A i \in 1..Len(Drained(t)) : Drained(t)[i] = All(t)[m + i - 1]
<1>. DEFINE c == All(t)
            m == Max({1, Len(c) - MaxSamples + 1})
            d == SubSeq(c, m, Len(c))
<1>1. d = Drained(t) /\ c \in Seq(Ages)
  BY DEF Drained, All
<1>. HIDE DEF c
<1>2. Len(c) \in Nat /\ \A i \in 1..Len(c) : c[i] \in Ages
  BY <1>1, Indices
<1>3. m = IF 1 >= Len(c) - MaxSamples + 1 THEN 1 ELSE Len(c) - MaxSamples + 1
  BY <1>2, Sizes, MaxOfTwo
<1>4. /\ m \in 1..(Len(c) + 1) /\ Len(c) - m + 1 <= MaxSamples
      /\ m > 1 => Len(c) - m + 1 = MaxSamples
  BY <1>2, <1>3, Sizes
<1>. HIDE DEF m
<1>5. /\ d \in Seq(Ages) /\ Len(d) = Len(c) - m + 1
      /\ \A i \in 1..(Len(c) - m + 1) : d[i] = c[m + i - 1]
  <2>1. c \in Seq(Ages) /\ Len(c) \in Nat /\ m \in 1..(Len(c) + 1)
    BY <1>1, <1>2, <1>4
  <2>2. \A i \in m..Len(c) : c[i] \in Ages
    BY <1>2, <2>1
  <2>. QED  BY <2>1, <2>2
<1>. HIDE DEF d
<1>. QED  BY <1>1, <1>4, <1>5 DEF c

\* The end of an ordered list is one.
LEMMA DrainedSamples ==
  ASSUME NEW t, NEW ages, Samples(All(t), ages)
  PROVE  /\ Drained(t) \in Seq(Ages) /\ Len(Drained(t)) <= MaxSamples
         /\ Samples(Drained(t) \o << >>, ages)
<1> DEFINE c == All(t)
           d == Drained(t)
<1>1. c \in Seq(Ages) /\ Samples(c, ages)
  BY DEF Samples
<1>2. PICK m \in 1..(Len(c) + 1) :
        /\ d \in Seq(Ages) /\ Len(d) = Len(c) - m + 1 /\ Len(d) <= MaxSamples
        /\ \A i \in 1..Len(d) : d[i] = c[m + i - 1]
  BY <1>1, DrainedEnd
<1> HIDE DEF c, d
<1>3. Len(c) \in Nat /\ DOMAIN c = 1..Len(c) /\ DOMAIN d = 1..Len(d)
  BY <1>1, <1>2, Indices
<1>4. ASSUME NEW i \in DOMAIN d
      PROVE  /\ m + i - 1 \in DOMAIN c /\ d[i] = c[m + i - 1]
             /\ i > 1 => /\ d[i - 1] = c[(m + i - 1) - 1] /\ m + i - 1 > 1
  <2>1. i \in 1..Len(d) /\ m + i - 1 \in 1..Len(c)
    BY <1>2, <1>3
  <2>2. ASSUME i > 1
        PROVE  i - 1 \in 1..Len(d) /\ (m + i - 1) - 1 = m + (i - 1) - 1 /\ m + i - 1 > 1
    BY <1>3, <2>1, <2>2
  <2>. QED  BY <1>2, <1>3, <2>1, <2>2
<1>5. Samples(d, ages)
  BY <1>1, <1>2, <1>4 DEF Samples, Ordered
<1>6. d \o << >> = d
  BY <1>2
<1> QED BY <1>2, <1>5, <1>6 DEF c, d

\* The empty list of samples.
LEMMA NoSamples == /\ << >> \in Seq(Ages) /\ Len(<< >>) = 0 /\ << >> \o << >> = << >>
                   /\ \A ages : Samples(<< >> \o << >>, ages)
<1>1. << >> \in Seq(Ages) /\ Len(<< >>) = 0 /\ << >> \o << >> = << >> /\ DOMAIN << >> = {}
  OBVIOUS
<1> QED BY <1>1 DEF Samples, Ordered

-----------------------------------------------------------------------------
\* The inductive invariant.

Lists ==
    /\ queue \in [Topics -> Seq(Ages)] /\ timestamps \in [Topics -> Seq(Ages)]
    /\ heard \in [Topics -> SUBSET Nat]
    /\ \A t \in Topics :
        /\ Len(queue[t]) <= QueueCapacity /\ Len(timestamps[t]) <= MaxSamples
        /\ Samples(All(t), heard[t])

\* What the threads know of the topics; nothing is polled before the profile's
\* topics are watched.
Known ==
    /\ publishing \subseteq Topics
    /\ period \in Profiles \union {<< >>} /\ DOMAIN period \subseteq Topics
    /\ subscribed \subseteq Watched \intersect loadable
    /\ DOMAIN topics \subseteq Topics /\ DOMAIN fresh \subseteq Topics
    /\ todo \subseteq Watched
    /\ phase \in {"setup", "watched"} => ~running /\ poll = "loop" /\ todo = {}

TopicInv == Lists /\ Known

listVars == <<queue, timestamps, heard>>

knownVars == <<publishing, loadable, period, subscribed, topics, fresh, todo, running, poll, phase>>

\* Steps that touch no list keep the lists in order.
LEMMA ListsUnchanged == Lists /\ UNCHANGED listVars => Lists'
  BY DEF Lists, listVars, All

\* Steps that touch no topic keep what is known of topics.
LEMMA KnownUnchanged == Known /\ UNCHANGED knownVars => Known'
  BY DEF Known, knownVars, Watched

\* Profiles name topics only.
LEMMA ProfileTopics == \A f \in Profiles \union {<< >>} : DOMAIN f \subseteq Topics
<1>1. DOMAIN << >> = {}
  OBVIOUS
<1> QED BY <1>1, TopicsAssumption

\* Nothing has been heard at first.
LEMMA InitInv == Init => TopicInv
<1> SUFFICES ASSUME Init PROVE TopicInv
  OBVIOUS
<1>1. DOMAIN << >> = {}
  OBVIOUS
<1>2. Known
  BY <1>1 DEF Init, Known
<1>3. Lists
  BY NoSamples, Sizes DEF Init, Lists, All
<1> QED BY <1>2, <1>3 DEF TopicInv

\* The clock keeps the order of every list.
LEMMA TickStep == ASSUME TopicInv, Tick PROVE TopicInv'
<1>1. Known'
  BY KnownUnchanged DEF Tick, TopicInv, knownVars, graphVars, pollVars
<1>2. ASSUME NEW t \in Topics
      PROVE  /\ queue[t] \in Seq(Ages) /\ timestamps[t] \in Seq(Ages)
             /\ Len(queue[t]) <= QueueCapacity /\ Len(timestamps[t]) <= MaxSamples
             /\ Samples(timestamps[t] \o queue[t], heard[t]) /\ heard[t] \subseteq Nat
  BY DEF TopicInv, Lists, All
<1>3. ASSUME NEW t \in Topics
      PROVE  /\ Aged(queue[t]) \in Seq(Ages) /\ Aged(timestamps[t]) \in Seq(Ages)
             /\ Len(Aged(queue[t])) <= QueueCapacity /\ Len(Aged(timestamps[t])) <= MaxSamples
             /\ Samples(Aged(timestamps[t]) \o Aged(queue[t]), AgedWithin(heard[t]))
             /\ AgedWithin(heard[t]) \subseteq Nat
  <2>1. AgedWithin(heard[t]) \subseteq Nat
    BY <1>2, Sizes DEF AgedWithin, Older
  <2> QED BY <1>2, <2>1, AgedList, AgedSamples
<1>4. /\ queue' = [t \in Topics |-> Aged(queue[t])]
      /\ timestamps' = [t \in Topics |-> Aged(timestamps[t])]
      /\ heard' = [t \in Topics |-> AgedWithin(heard[t])]
  BY DEF Tick
<1>5. Lists'
  BY <1>3, <1>4 DEF Lists, All
<1> QED BY <1>1, <1>5 DEF TopicInv

\* A message is newer than all there are.
LEMMA ReceiveStep == ASSUME TopicInv, NEW t \in Topics, Receive(t) PROVE TopicInv'
<1>1. Known'
  BY KnownUnchanged DEF Receive, TopicInv, knownVars, graphVars, pollVars
<1>2. CASE UNCHANGED <<queue, heard>>
  BY <1>1, <1>2, ListsUnchanged DEF Receive, TopicInv, listVars
<1>3. CASE /\ Len(queue[t]) < QueueCapacity
           /\ queue' = [queue EXCEPT ![t] = Append(@, 0)]
           /\ heard' = [heard EXCEPT ![t] = @ \union {0}]
  <2> DEFINE q == Append(queue[t], 0)
  <2>1. /\ queue[t] \in Seq(Ages) /\ timestamps[t] \in Seq(Ages) /\ heard[t] \subseteq Nat
        /\ Samples(timestamps[t] \o queue[t], heard[t]) /\ 0 \notin heard[t]
    BY DEF Receive, TopicInv, Lists, All
  <2>2. q \in Seq(Ages) /\ Len(q) = Len(queue[t]) + 1 /\ Len(queue[t]) \in Nat
    BY <2>1, Sizes
  <2>3. Len(q) <= QueueCapacity
    BY <1>3, <2>2, Sizes
  <2>4. Samples(timestamps[t] \o q, heard[t] \union {0})
    BY <2>1, HeardSamples
  <2> HIDE DEF q
  <2>5. queue' = [queue EXCEPT ![t] = q] /\ timestamps' = timestamps
    BY <1>3 DEF q, Receive
  <2>6. ASSUME NEW u \in Topics
        PROVE  /\ queue'[u] = IF u = t THEN q ELSE queue[u]
               /\ heard'[u] = IF u = t THEN heard[t] \union {0} ELSE heard[u]
    BY <1>3, <2>5 DEF TopicInv, Lists
  <2>7. queue' \in [Topics -> Seq(Ages)] /\ heard' \in [Topics -> SUBSET Nat]
    BY <1>3, <2>1, <2>2, <2>5 DEF TopicInv, Lists
  <2>8. ASSUME NEW u \in Topics
        PROVE  /\ Len(queue'[u]) <= QueueCapacity /\ Len(timestamps'[u]) <= MaxSamples
               /\ Samples(timestamps'[u] \o queue'[u], heard'[u])
    BY <2>3, <2>4, <2>5, <2>6 DEF TopicInv, Lists, All
  <2>9. Lists'
    BY <2>5, <2>7, <2>8 DEF TopicInv, Lists, All
  <2> QED BY <1>1, <2>9 DEF TopicInv
<1> QED BY <1>2, <1>3 DEF Receive

\* Draining and trimming keep order and limits.
LEMMA MeasureStep == ASSUME TopicInv, NEW t \in Topics, Measure(t) PROVE TopicInv'
<1>1. /\ Samples(All(t), heard[t]) /\ t \in todo /\ heard' = heard
      /\ queue' = [queue EXCEPT ![t] = << >>]
      /\ timestamps' = [timestamps EXCEPT ![t] = Drained(t)]
  BY DEF Measure, TopicInv, Lists
<1>2. /\ Drained(t) \in Seq(Ages) /\ Len(Drained(t)) <= MaxSamples
      /\ Samples(Drained(t) \o << >>, heard[t])
  BY <1>1, DrainedSamples
<1> DEFINE d == Drained(t)
<1> HIDE DEF d
<1>3. ASSUME NEW u \in Topics
      PROVE  /\ queue'[u] = IF u = t THEN << >> ELSE queue[u]
             /\ timestamps'[u] = IF u = t THEN d ELSE timestamps[u]
  BY <1>1 DEF TopicInv, Lists, d
<1>4. queue' \in [Topics -> Seq(Ages)] /\ timestamps' \in [Topics -> Seq(Ages)]
  BY <1>1, <1>2, NoSamples DEF TopicInv, Lists
<1>5. ASSUME NEW u \in Topics
      PROVE  /\ Len(queue'[u]) <= QueueCapacity /\ Len(timestamps'[u]) <= MaxSamples
             /\ Samples(timestamps'[u] \o queue'[u], heard'[u])
  <2>1. CASE u = t
    <3>1. queue'[u] = << >> /\ timestamps'[u] = d /\ heard'[u] = heard[t]
      BY <1>1, <1>3, <2>1
    <3>2. Len(d) <= MaxSamples /\ Samples(d \o << >>, heard[t])
      BY <1>2 DEF d
    <3>3. Len(<< >>) <= QueueCapacity
      BY NoSamples, Sizes
    <3> QED BY <3>1, <3>2, <3>3
  <2>2. CASE u # t
    BY <1>1, <1>3, <2>2 DEF TopicInv, Lists, All
  <2> QED BY <2>1, <2>2
<1>6. Lists'
  BY <1>1, <1>4, <1>5 DEF TopicInv, Lists, All
<1>7. Known'
  <2>1. t \in Watched /\ todo \subseteq Watched /\ todo' = todo \ {t}
        /\ UNCHANGED <<publishing, loadable, period, fresh, running, phase>>
    BY <1>1 DEF Measure, TopicInv, Known
  <2>2. DOMAIN topics' \subseteq Topics
    BY DEF Measure, TopicInv, Known
  <2>3. subscribed' \subseteq Watched \intersect loadable
    BY <2>1 DEF Measure, Retried, Creatable, TopicInv, Known
  <2>4. phase \notin {"setup", "watched"}
    BY <1>1 DEF TopicInv, Known
  <2> QED BY <2>1, <2>2, <2>3, <2>4 DEF TopicInv, Known, Watched
<1> QED BY <1>6, <1>7 DEF TopicInv

\* The other steps of a poll touch no sample.
LEMMA PollSteps == ASSUME TopicInv, LeaveLoop \/ ReadGraph \/ SwapIn PROVE TopicInv'
<1>1. UNCHANGED listVars
  BY DEF LeaveLoop, ReadGraph, SwapIn, sampleVars, listVars
<1>2. Lists'
  BY <1>1, ListsUnchanged DEF TopicInv
<1>3. CASE LeaveLoop
  <2>1. UNCHANGED <<publishing, loadable, period, subscribed, topics, fresh, todo, running, phase>>
    BY <1>3 DEF LeaveLoop, graphVars
  <2>2. phase \notin {"setup", "watched"}
    BY <1>3 DEF LeaveLoop
  <2> QED BY <1>2, <2>1, <2>2 DEF TopicInv, Known, Watched
<1>4. CASE ReadGraph
  <2>1. InGraph \subseteq Topics
    BY DEF InGraph, TopicInv, Known, Watched
  <2>2. DOMAIN fresh' \subseteq Topics
    <3>1. fresh' = [t \in InGraph |-> IF t \in publishing THEN 1 ELSE 0]
      BY <1>4 DEF ReadGraph
    <3> QED BY <2>1, <3>1
  <2>3. UNCHANGED <<publishing, loadable, period, subscribed, topics, todo, running, phase>>
    BY <1>4 DEF ReadGraph, graphVars
  <2>4. phase \notin {"setup", "watched"}
    BY <1>4 DEF ReadGraph, TopicInv, Known
  <2> QED BY <1>2, <2>2, <2>3, <2>4 DEF TopicInv, Known, Watched
<1>5. CASE SwapIn
  <2>1. DOMAIN topics' \subseteq Topics
    <3>1. topics' = Refreshed
      BY <1>5 DEF SwapIn
    <3>2. DOMAIN Refreshed \subseteq DOMAIN topics \union DOMAIN fresh
      BY DEF Refreshed
    <3> QED BY <3>1, <3>2 DEF TopicInv, Known
  <2>2. DOMAIN fresh' \subseteq Topics
    BY <1>5, ProfileTopics DEF SwapIn
  <2>3. phase \notin {"setup", "watched"}
    BY <1>5 DEF SwapIn, TopicInv, Known
  <2>4. /\ UNCHANGED <<publishing, loadable, period, subscribed, running, phase>>
        /\ todo' = Watched
    BY <1>5 DEF SwapIn, graphVars
  <2> QED BY <1>2, <2>1, <2>2, <2>3, <2>4 DEF TopicInv, Known, Watched
<1> QED BY <1>3, <1>4, <1>5

\* Nor do those of the main thread, except where a topic is forgotten.
LEMMA MainSteps == ASSUME TopicInv, MainStep \/ Stop PROVE TopicInv'
<1>1. CASE SetWatchedTopics
  <2>1. Lists'
    BY <1>1, ListsUnchanged DEF SetWatchedTopics, TopicInv, sampleVars, listVars
  <2>2. period' \in Profiles /\ DOMAIN period' \subseteq Topics
    BY <1>1, ProfileTopics DEF SetWatchedTopics
  <2>3. subscribed' \subseteq Watched' \intersect loadable
    BY <1>1 DEF SetWatchedTopics, Creatable, Watched
  <2>4. todo = {} /\ ~running /\ poll = "loop"
    BY <1>1 DEF SetWatchedTopics, GoTo, TopicInv, Known
  <2>5. Known'
    BY <1>1, <2>2, <2>3, <2>4 DEF SetWatchedTopics, GoTo, TopicInv, Known, pollVars
  <2> QED BY <2>1, <2>5 DEF TopicInv
<1>2. CASE Start \/ Spin \/ Stop \/ Joined
  <2>1. UNCHANGED <<graphVars, period, sampleVars, pollVars>> /\ phase' \notin {"setup", "watched"}
    BY <1>2 DEF Start, Spin, Stop, Joined, GoTo
  <2>2. Lists'
    BY <2>1, ListsUnchanged DEF TopicInv, sampleVars, listVars
  <2>3. Known'
    BY <2>1 DEF TopicInv, Known, Watched, graphVars, pollVars
  <2> QED BY <2>2, <2>3 DEF TopicInv
<1>3. CASE Destroy
  <2>1. /\ queue' = [t \in Topics |-> << >>] /\ timestamps' = [t \in Topics |-> << >>]
        /\ heard' = heard
    BY <1>3 DEF Destroy
  <2>2. Lists'
    BY <2>1, NoSamples, Sizes DEF TopicInv, Lists, All
  <2>3. Known'
    BY <1>3 DEF Destroy, GoTo, TopicInv, Known, Watched, pollVars
  <2> QED BY <2>2, <2>3 DEF TopicInv
<1> QED BY <1>1, <1>2, <1>3 DEF MainStep

\* Every step keeps the invariant.
LEMMA StepInv == TopicInv /\ [Next]_vars => TopicInv'
<1> SUFFICES ASSUME TopicInv, [Next]_vars PROVE TopicInv'
  OBVIOUS
<1>1. CASE UNCHANGED vars
  BY <1>1, ListsUnchanged, KnownUnchanged
     DEF TopicInv, vars, graphVars, sampleVars, pollVars, listVars, knownVars
<1>2. ASSUME NEW t \in Topics, Appear(t) \/ Vanish(t)
      PROVE  TopicInv'
  <2>1. Lists'
    BY <1>2, ListsUnchanged DEF Appear, Vanish, TopicInv, sampleVars, listVars
  <2>2. Known'
    BY <1>2 DEF Appear, Vanish, TopicInv, Known, Watched, pollVars
  <2> QED BY <2>1, <2>2 DEF TopicInv
<1>3. ASSUME NEW t \in Topics, Receive(t) \/ Measure(t)
      PROVE  TopicInv'
  BY <1>3, ReceiveStep, MeasureStep
<1>4. CASE Tick
  BY <1>4, TickStep
<1>5. CASE LeaveLoop \/ ReadGraph \/ SwapIn
  BY <1>5, PollSteps
<1>6. CASE MainStep \/ Stop
  BY <1>6, MainSteps
<1> QED BY <1>1, <1>2, <1>3, <1>4, <1>5, <1>6 DEF Next, PollStep

-----------------------------------------------------------------------------
\* No list of samples outgrows its limit, nor are samples ever out of order, though
\* the clock, the callbacks and the polling thread change them in any order; nothing
\* is subscribed to that is not watched, or whose type is not installed (TInv).
THEOREM SamplesStayOrdered == Spec => []TInv
<1>1. TopicInv => TInv
  <2> SUFFICES ASSUME TopicInv PROVE TInv
    OBVIOUS
  <2>1. ASSUME NEW t \in Topics, NEW i \in DOMAIN All(t)
        PROVE  /\ All(t)[i] \in Ages
               /\ i > 1 => All(t)[i] < All(t)[i - 1] \/ All(t)[i - 1] = Old
    <3>1. All(t) \in Seq(Ages) /\ Ordered(All(t))
      BY DEF TopicInv, Lists, Samples
    <3> HIDE DEF All
    <3>2. All(t)[i] \in Ages
      BY <3>1
    <3> QED BY <3>1, <3>2 DEF Ordered
  <2> QED BY <2>1 DEF TopicInv, Known, Lists, TInv, All
<1>2. TopicInv => TInv
  BY <1>1
<1> QED BY <1>2, InitInv, StepInv, PTL DEF Spec

-----------------------------------------------------------------------------
(* What computeHz sees. *)

\* From a sample of the window on, the ages in a list decrease.
LEMMA Decreasing ==
  ASSUME NEW s \in Seq(Ages), Ordered(s), NEW i \in 1..Len(s), NEW j \in 1..Len(s),
         i < j, s[i] # Old
  PROVE  s[j] < s[i]
<1>. DEFINE S == {m \in Nat : i + (m + 1) <= Len(s) => s[i + (m + 1)] < s[i]}
<1>1. /\ DOMAIN s = 1..Len(s) /\ Len(s) \in Nat
      /\ \A m \in 1..Len(s) : s[m] \in Nat /\ s[m] <= Old
  <2>1. \A m \in 1..Len(s) : s[m] \in Ages
    BY Indices
  <2>. QED  BY <2>1, Indices, Sizes DEF Ages
<1>2. \A m \in 1..Len(s) : m > 1 => s[m] < s[m - 1] \/ s[m - 1] = Old
  BY <1>1 DEF Ordered
<1>3. 0 \in S
  <2>. SUFFICES ASSUME i + 1 <= Len(s) PROVE s[i + 1] < s[i]
    OBVIOUS
  <2>1. i + 1 \in 1..Len(s) /\ i + 1 > 1 /\ (i + 1) - 1 = i
    BY <1>1
  <2>. QED  BY <1>2, <2>1
<1>4. ASSUME NEW m \in Nat, m \in S PROVE m + 1 \in S
  <2>. SUFFICES ASSUME i + ((m + 1) + 1) <= Len(s) PROVE s[i + ((m + 1) + 1)] < s[i]
    OBVIOUS
  <2>. DEFINE a == i + (m + 1)
              b == i + ((m + 1) + 1)
  <2>1. a \in 1..Len(s) /\ b \in 1..Len(s) /\ b > 1 /\ b - 1 = a /\ a <= Len(s)
    BY <1>1
  <2>2. s[a] < s[i]
    BY <1>4, <2>1
  <2>. HIDE DEF a, b
  <2>3. s[b] < s[a] \/ s[a] = Old
    BY <1>2, <2>1
  <2>4. s[a] \in Nat /\ s[b] \in Nat /\ s[i] \in Nat /\ s[i] <= Old /\ Old \in Nat
    BY <1>1, <2>1, Sizes
  <2>5. s[b] < s[i]
    BY <2>2, <2>3, <2>4
  <2>. QED  BY <2>5 DEF b
<1>5. Nat \subseteq S
  <2>. HIDE DEF S
  <2>. QED  BY <1>3, <1>4, SetInduction
<1>6. (j - i) - 1 \in Nat /\ i + (((j - i) - 1) + 1) = j
  BY <1>1
<1>7. (j - i) - 1 \in S
  BY <1>5, <1>6
<1>. QED  BY <1>1, <1>6, <1>7

\* The samples of the window are those from some index k on.
RecentFrom(s, k) ==
    /\ k \in 1..(Len(s) + 1)
    /\ \A i \in 1..Len(s) : IF i < k THEN s[i] = Old ELSE s[i] \in 0..Window

\* Every ordered list is split so.
LEMMA RecentEnd ==
  ASSUME NEW s \in Seq(Ages), Ordered(s)
  PROVE  \E k : RecentFrom(s, k)
<1>1. Len(s) \in Nat /\ \A i \in 1..Len(s) : s[i] \in Ages
  BY Indices
<1>2. \A i \in 1..Len(s) : s[i] \in 0..Window <=> s[i] # Old
  BY <1>1, Sizes DEF Ages, Old
<1>. DEFINE T == {i \in 1..Len(s) : s[i] # Old}
<1>3. CASE T = {}
  <2>1. Len(s) + 1 \in 1..(Len(s) + 1) /\ \A i \in 1..Len(s) : i < Len(s) + 1
    BY <1>1
  <2>2. RecentFrom(s, Len(s) + 1)
    BY <1>3, <2>1 DEF RecentFrom
  <2>. QED  BY <2>2
<1>4. CASE T # {}
  <2>1. T \subseteq Nat
    BY <1>1
  <2>2. PICK k \in T : \A i \in T : k <= i
    <3>. HIDE DEF T
    <3>. QED  BY <1>4, <2>1, NatMin
  <2>3. \A i \in 1..Len(s) : i < k => s[i] = Old
    BY <1>1, <2>2
  <2>4. \A i \in 1..Len(s) : ~(i < k) => s[i] \in 0..Window
    <3>. SUFFICES ASSUME NEW i \in 1..Len(s), ~(i < k) PROVE s[i] \in 0..Window
      OBVIOUS
    <3>1. CASE i = k
      BY <1>2, <3>1
    <3>2. CASE i # k
      <4>1. s[i] < s[k] /\ s[k] \in 0..Window
        BY <1>1, <1>2, <3>2, Decreasing
      <4>. QED  BY <1>1, <4>1, Sizes DEF Ages
    <3>. QED  BY <3>1, <3>2
  <2>5. RecentFrom(s, k)
    BY <1>1, <2>3, <2>4 DEF RecentFrom
  <2>. QED  BY <2>5
<1>. QED  BY <1>3, <1>4

\* They are as many as their indices, from any such index on.
LEMMA CountRecent ==
  ASSUME NEW s \in Seq(Ages), Ordered(s), NEW k \in 1..(Len(s) + 1),
         \A i \in k..Len(s) : s[i] # Old
  PROVE  LET R == {s[i] : i \in k..Len(s)}
         IN  IsFiniteSet(R) /\ Cardinality(R) = (Len(s) - k) + 1
<1>. DEFINE n == Len(s)
            R == {s[i] : i \in k..n}
            f == [i \in k..n |-> s[i]]
<1>1. n \in Nat /\ k \in Nat /\ k..n \subseteq 1..n /\ \A i \in 1..n : s[i] \in Nat
  <2>1. Len(s) \in Nat /\ \A i \in 1..Len(s) : s[i] \in Ages
    BY Indices
  <2>2. \A i \in 1..n : s[i] \in Nat
    BY <2>1, Sizes
  <2>3. n \in Nat /\ k \in Nat /\ 1 <= k
    BY <2>1
  <2>4. k..n \subseteq 1..n
    <3>. HIDE DEF n
    <3>. QED  BY <2>3
  <2>. QED  BY <2>2, <2>3, <2>4
<1>2. ASSUME NEW i \in k..n, NEW j \in k..n, s[i] = s[j] PROVE i = j
  <2>1. CASE i < j
    BY <1>1, <1>2, <2>1, Decreasing
  <2>2. CASE j < i
    BY <1>1, <1>2, <2>2, Decreasing
  <2>. QED  BY <1>1, <2>1, <2>2
<1>3. f \in Bijection(k..n, R)
  BY <1>2 DEF Bijection, Injection, Surjection, IsInjective
<1>4. IsFiniteSet(k..n) /\ Cardinality(k..n) = (n - k) + 1
  <2>1. k \in Int /\ n \in Int /\ k <= n + 1
    BY <1>1
  <2>. HIDE DEF n
  <2>2. IsFiniteSet(k..n) /\ Cardinality(k..n) = IF k > n THEN 0 ELSE n - k + 1
    BY <2>1, FS_Interval
  <2>. QED  BY <2>1, <2>2
<1>5. ExistsBijection(k..n, R)
  BY <1>3, Zenon DEF ExistsBijection
<1>. HIDE DEF R
<1>6. IsFiniteSet(R) /\ Cardinality(R) = (n - k) + 1
  BY <1>4, <1>5, FS_Bijection
<1>. QED  BY <1>6 DEF R

\* d shows the newest messages: all there are of the window, or MaxSamples of them.
ShowsNewest(d, ages) ==
    /\ d \in Seq(Ages) /\ Len(d) <= MaxSamples /\ Samples(d, ages)
    /\ ages \subseteq 0..Window
    /\ \A a \in ages :
        \/ \E i \in 1..Len(d) : d[i] = a
        \/ Len(d) = MaxSamples /\ \A i \in 1..Len(d) : d[i] < a

Newest(ages) == {a \in ages : Cardinality({b \in ages : b <= a}) <= MaxSamples}

\* The messages that count are the samples of the window.
LEMMA NewestAreRecent ==
  ASSUME NEW d, NEW ages, ShowsNewest(d, ages), NEW k, RecentFrom(d, k)
  PROVE  Newest(ages) = {d[i] : i \in k..Len(d)}
<1>. DEFINE n == Len(d)
            R == {d[i] : i \in k..n}
            Upto(a) == {b \in ages : b <= a}
<1>1. /\ d \in Seq(Ages) /\ Ordered(d) /\ ages \subseteq 0..Window
      /\ n <= MaxSamples /\ n \in Nat /\ MaxSamples \in Nat /\ DOMAIN d = 1..n
      /\ \A i \in 1..n : d[i] = Old \/ d[i] \in ages
  BY Sizes, Indices DEF ShowsNewest, Samples
<1>2. /\ k \in 1..(n + 1) /\ k \in Nat
      /\ \A i \in 1..n : IF i < k THEN d[i] = Old ELSE d[i] \in 0..Window
  BY <1>1 DEF RecentFrom
<1>3. Old = Window + 1 /\ Window \in Nat
  BY Sizes DEF Old
<1>4. IsFiniteSet(ages)
  <2>1. IsFiniteSet(0..Window)
    BY <1>3, FS_Interval
  <2>. QED  BY <1>1, <2>1, FS_Subset
<1>5. ASSUME NEW a PROVE IsFiniteSet(Upto(a)) /\ Upto(a) \subseteq ages
  BY <1>4, FS_Subset
<1>6. ASSUME NEW i \in k..n PROVE d[i] \in Newest(ages)
  <2>. DEFINE Q == {d[j] : j \in i..n}
  <2>1. i \in 1..n /\ d[i] \in 0..Window /\ d[i] \in ages
    BY <1>1, <1>2, <1>3
  <2>2. Upto(d[i]) \subseteq Q
    <3>. SUFFICES ASSUME NEW b \in ages, b <= d[i] PROVE b \in Q
      OBVIOUS
    <3>1. PICK j \in 1..n : d[j] = b
      <4>1. ~(d[i] < b)
        BY <1>1, <2>1
      <4>. QED  BY <2>1, <4>1 DEF ShowsNewest
    <3>2. ~(j < i)
      <4>. SUFFICES ASSUME j < i PROVE FALSE
        OBVIOUS
      <4>1. d[j] # Old
        BY <1>1, <1>3, <3>1
      <4>2. d[i] < d[j]
        BY <1>1, <2>1, <4>1, Decreasing
      <4>. QED  BY <1>1, <2>1, <3>1, <4>2
    <3>. QED  BY <1>1, <2>1, <3>1, <3>2
  <2>3. IsFiniteSet(Q) /\ Cardinality(Q) = (n - i) + 1
    <3>1. \A j \in i..n : d[j] # Old
      BY <1>1, <1>2, <1>3, <2>1
    <3>2. i \in 1..(n + 1)
      BY <1>1, <2>1
    <3>. QED  BY <1>1, <3>1, <3>2, CountRecent
  <2>. HIDE DEF Q
  <2>4. Cardinality(Upto(d[i])) <= (n - i) + 1 /\ Cardinality(Upto(d[i])) \in Nat
    BY <1>5, <2>2, <2>3, FS_Subset, FS_CardinalityType
  <2>5. Cardinality(Upto(d[i])) <= MaxSamples
    BY <1>1, <2>1, <2>4
  <2>. QED  BY <2>1, <2>5 DEF Newest
<1>7. ASSUME NEW a \in ages, Cardinality(Upto(a)) <= MaxSamples PROVE a \in R
  <2>1. a \in 0..Window
    BY <1>1
  <2>2. CASE \E i \in 1..n : d[i] = a
    <3>. PICK i \in 1..n : d[i] = a
      BY <2>2
    <3>1. ~(i < k)
      BY <1>2, <1>3, <2>1
    <3>2. i \in k..n
      BY <1>1, <1>2, <3>1
    <3>. QED  BY <3>2
  <2>3. CASE n = MaxSamples /\ \A i \in 1..n : d[i] < a
    <3>. DEFINE Q == {d[j] : j \in 1..n}
    <3>1. \A i \in 1..n : d[i] \in ages /\ d[i] # Old /\ d[i] < a /\ d[i] \in 0..Window
      <4>1. \A i \in 1..n : d[i] # Old
        BY <1>2, <1>3, <2>1, <2>3
      <4>. QED  BY <1>1, <2>3, <4>1
    <3>2. IsFiniteSet(Q) /\ Cardinality(Q) = n
      <4>1. 1 \in 1..(n + 1) /\ (n - 1) + 1 = n
        BY <1>1
      <4>2. IsFiniteSet(Q) /\ Cardinality(Q) = (n - 1) + 1
        BY <1>1, <3>1, <4>1, CountRecent
      <4>. QED  BY <4>1, <4>2
    <3>3. a \notin Q /\ Q \union {a} \subseteq Upto(a)
      BY <2>1, <3>1
    <3>. HIDE DEF Q
    <3>4. IsFiniteSet(Q \union {a}) /\ Cardinality(Q \union {a}) = n + 1
      BY <3>2, <3>3, FS_AddElement
    <3>5. Cardinality(Q \union {a}) <= Cardinality(Upto(a)) /\ Cardinality(Upto(a)) \in Nat
      BY <1>5, <3>3, FS_Subset, FS_CardinalityType
    <3>. HIDE DEF Upto
    <3>6. n + 1 <= MaxSamples
      BY <1>1, <1>7, <3>4, <3>5
    <3>. QED  BY <1>1, <2>3, <3>6
  <2>. QED  BY <2>2, <2>3 DEF ShowsNewest
<1>8. \A a : a \in Newest(ages) <=> a \in ages /\ Cardinality(Upto(a)) <= MaxSamples
  BY DEF Newest
<1>. HIDE DEF Upto
<1>. QED  BY <1>6, <1>7, <1>8

\* computeHz judges a list that shows the newest messages as they deserve: the sum of
\* the intervals is the time between the newest and the oldest of them.
LEMMA RightVerdict ==
  ASSUME NEW d, NEW ages, ShowsNewest(d, ages), NEW p \in Nat
  PROVE  \/ Intervals(d) = {}
         \/ IntervalSum(d) > 2 * p * Cardinality(Intervals(d))
         <=> \/ Cardinality(Newest(ages)) < 2
             \/ Max(Newest(ages)) - Min(Newest(ages)) > 2 * p * (Cardinality(Newest(ages)) - 1)
<1>. DEFINE n == Len(d)
<1>1. d \in Seq(Ages) /\ Ordered(d)
  BY DEF ShowsNewest, Samples
<1>2. PICK k : RecentFrom(d, k)
  BY <1>1, RecentEnd
<1>3. /\ n \in Nat /\ k \in 1..(n + 1) /\ k \in Nat
      /\ \A i \in 1..n : IF i < k THEN d[i] = Old ELSE d[i] \in 0..Window
  BY <1>1, <1>2, Indices DEF RecentFrom
<1>4. Old = Window + 1 /\ Window \in Nat
  BY Sizes DEF Old
<1>. DEFINE R == {d[i] : i \in k..n}
<1>5. Newest(ages) = R
  BY <1>2, NewestAreRecent
<1>6. \A i \in k..n : i \in 1..n /\ d[i] \in 0..Window /\ d[i] \in Int /\ d[i] # Old
  BY <1>3, <1>4
<1>7. Cardinality(R) = (n - k) + 1
  BY <1>1, <1>3, <1>6, CountRecent
<1>8. Intervals(d) = (k + 1)..n
  <2>1. \A i \in 2..n : (d[i] <= Window /\ d[i - 1] <= Window) <=> k + 1 <= i
    <3>. SUFFICES ASSUME NEW i \in 2..n
                  PROVE  (d[i] <= Window /\ d[i - 1] <= Window) <=> k + 1 <= i
      OBVIOUS
    <3>1. i \in 1..n /\ i - 1 \in 1..n
      BY <1>3
    <3>2. IF i < k THEN d[i] = Old ELSE d[i] \in 0..Window
      BY <1>3, <3>1
    <3>3. IF i - 1 < k THEN d[i - 1] = Old ELSE d[i - 1] \in 0..Window
      BY <1>3, <3>1
    <3>4. k + 1 <= i <=> ~(i - 1 < k)
      BY <1>3
    <3>5. ~(i - 1 < k) => ~(i < k)
      BY <1>3
    <3>. QED  BY <1>4, <3>2, <3>3, <3>4, <3>5
  <2>2. (k + 1)..n = {i \in 2..n : k + 1 <= i}
    BY <1>3
  <2>. QED  BY <2>1, <2>2 DEF Intervals
<1>9. CASE n - k < 1
  <2>1. (k + 1)..n = {} /\ (n - k) + 1 < 2
    BY <1>3, <1>9
  <2>. QED  BY <1>5, <1>7, <1>8, <2>1
<1>10. CASE ~(n - k < 1)
  <2>1. k \in k..n /\ n \in k..n /\ k <= n /\ k + 1 <= n /\ n - k \in Nat \ {0}
    BY <1>3, <1>10
  <2>2. Cardinality((k + 1)..n) = n - k
    <3>1. k + 1 \in Int /\ n \in Int
      BY <1>3
    <3>2. Cardinality((k + 1)..n) = IF k + 1 > n THEN 0 ELSE n - (k + 1) + 1
      BY <3>1, FS_Interval
    <3>. QED  BY <1>3, <2>1, <3>2
  <2>3. IntervalSum(d) = d[k] - d[n]
    <3>. DEFINE f == [i \in (k + 1)..n |-> d[i - 1] - d[i]]
    <3>1. DOMAIN f = (k + 1)..n /\ \A i \in (k + 1)..n : f[i] = d[i - 1] - d[i]
      OBVIOUS
    <3>2. f \in [(k + 1)..n -> Int]
      <4>1. \A i \in (k + 1)..n : i \in k..n /\ i - 1 \in k..n
        BY <1>3
      <4>. QED  BY <1>6, <4>1
    <3>3. IntervalSum(d) = SumFunctionOnSet(f, DOMAIN f)
      BY <1>8 DEF IntervalSum, SumFunction
    <3>. HIDE DEF f
    <3>4. SumFunctionOnSet(f, (k + 1)..n) = d[k] - d[n]
      BY <1>3, <1>6, <2>1, <3>1, <3>2, Telescoping
    <3>. QED  BY <3>1, <3>3, <3>4
  <2>4. ASSUME NEW i \in k..n PROVE d[n] <= d[i] /\ d[i] <= d[k]
    <3>1. d[i] \in Int /\ d[k] \in Int /\ d[n] \in Int
      BY <1>6, <2>1
    <3>2. d[n] <= d[i]
      <4>1. CASE i < n
        BY <1>1, <1>3, <1>6, <2>1, <3>1, <4>1, Decreasing
      <4>. QED  BY <1>3, <3>1, <4>1
    <3>3. d[i] <= d[k]
      <4>1. CASE k < i
        BY <1>1, <1>3, <1>6, <2>1, <3>1, <4>1, Decreasing
      <4>. QED  BY <1>3, <3>1, <4>1
    <3>. QED  BY <3>2, <3>3
  <2>5. Max(R) = d[k] /\ Min(R) = d[n]
    <3>1. R \subseteq Int /\ d[k] \in R /\ d[n] \in R
      BY <1>6, <2>1
    <3>2. \A x \in R : d[n] <= x /\ x <= d[k]
      BY <2>4
    <3>. HIDE DEF R
    <3>3. Max(R) \in R /\ \A y \in R : Max(R) >= y
      <4>1. \A y \in R : d[k] >= y
        BY <1>6, <2>1, <3>1, <3>2
      <4>. QED  BY <3>1, <4>1, Zenon DEF Max
    <3>4. Min(R) \in R /\ \A y \in R : Min(R) <= y
      BY <3>1, <3>2, Zenon DEF Min
    <3>5. Max(R) \in Int /\ Min(R) \in Int /\ d[k] \in Int /\ d[n] \in Int
      BY <3>1, <3>3, <3>4
    <3>6. Max(R) >= d[k] /\ Max(R) <= d[k] /\ Min(R) <= d[n] /\ Min(R) >= d[n]
      BY <3>1, <3>2, <3>3, <3>4, <3>5
    <3>. QED  BY <3>5, <3>6
  <2>6. /\ Intervals(d) # {} /\ Cardinality(Intervals(d)) = n - k
        /\ ~(Cardinality(R) < 2) /\ Cardinality(R) - 1 = n - k
    <3>1. n \in (k + 1)..n
      BY <1>3, <2>1
    <3>2. ~((n - k) + 1 < 2) /\ ((n - k) + 1) - 1 = n - k
      BY <1>3, <2>1
    <3>. QED  BY <1>7, <1>8, <2>2, <3>1, <3>2
  <2>. HIDE DEF R
  <2>. QED  BY <1>5, <2>3, <2>5, <2>6
<1>. QED  BY <1>9, <1>10

-----------------------------------------------------------------------------
(* The samples stay the newest messages. *)

\* Every message of the window is in a list, or MaxSamples later ones have been drained
\* since.
Covers(s, q, ages) ==
    /\ ages \subseteq 0..Window
    /\ \A a \in ages :
        \/ \E i \in 1..Len(s \o q) : (s \o q)[i] = a
        \/ Len(s) = MaxSamples /\ \A i \in 1..Len(s) : s[i] < a

\* Up to the destruction of the lists, which no poll follows.
NewestInv ==
    /\ phase # "gone" => \A t \in Topics : Covers(timestamps[t], queue[t], heard[t])
    /\ phase \in {"stopped", "gone"} => poll = "done"
    /\ poll # "measure" => todo = {}

\* Time passes for the lists and for the messages alike.
LEMMA AgedCovers ==
  ASSUME NEW s \in Seq(Ages), NEW q \in Seq(Ages), NEW ages, Covers(s, q, ages)
  PROVE  Covers(Aged(s), Aged(q), AgedWithin(ages))
<1>. DEFINE c == s \o q
            d == Aged(s) \o Aged(q)
<1>1. /\ Window \in Nat /\ Old = Window + 1
      /\ \A i \in 1..Len(s) : s[i] \in Ages
      /\ \A i \in 1..Len(q) : q[i] \in Ages
      /\ Len(s) \in Nat /\ Len(q) \in Nat /\ DOMAIN s = 1..Len(s) /\ DOMAIN q = 1..Len(q)
  BY Sizes, Indices DEF Old
<1>2. /\ Len(Aged(s)) = Len(s) /\ Len(Aged(q)) = Len(q)
      /\ Aged(s) \in Seq(Ages) /\ Aged(q) \in Seq(Ages)
      /\ \A i \in 1..Len(s) : Aged(s)[i] = Older(s[i])
      /\ \A i \in 1..Len(q) : Aged(q)[i] = Older(q[i])
  BY <1>1, AgedList
<1>3. /\ Len(c) = Len(s) + Len(q) /\ Len(d) = Len(s) + Len(q)
      /\ \A i \in 1..Len(c) : d[i] = Older(c[i])
  <2>1. /\ Len(c) = Len(s) + Len(q)
        /\ \A i \in 1..(Len(s) + Len(q)) : c[i] = IF i <= Len(s) THEN s[i] ELSE q[i - Len(s)]
    BY Concatenation, Zenon
  <2>2. /\ Len(d) = Len(Aged(s)) + Len(Aged(q))
        /\ \A i \in 1..(Len(Aged(s)) + Len(Aged(q))) :
              d[i] = IF i <= Len(Aged(s)) THEN Aged(s)[i] ELSE Aged(q)[i - Len(Aged(s))]
    BY AgedList, Concatenation, Zenon
  <2>. HIDE DEF c, d
  <2>3. ASSUME NEW i \in 1..(Len(s) + Len(q)) PROVE d[i] = Older(c[i])
    <3>1. CASE i <= Len(s)
      BY <1>1, <1>2, <2>1, <2>2, <3>1
    <3>2. CASE ~(i <= Len(s))
      <4>1. i - Len(s) \in 1..Len(q)
        BY <1>1, <3>2
      <4>. QED  BY <1>2, <2>1, <2>2, <3>2, <4>1
    <3>. QED  BY <3>1, <3>2
  <2>. QED  BY <1>2, <2>1, <2>2, <2>3
<1>4. ages \subseteq 0..Window
  BY DEF Covers
<1>5. \A a \in ages : a \in Ages /\ a # Old /\ Older(a) = a + 1
  BY <1>1, <1>4 DEF Ages, Older
<1>6. ASSUME NEW b \in AgedWithin(ages)
      PROVE  /\ b \in 0..Window
             /\ \/ \E i \in 1..Len(d) : d[i] = b
                \/ Len(Aged(s)) = MaxSamples /\ \A i \in 1..Len(Aged(s)) : Aged(s)[i] < b
  <2>1. PICK a \in ages : b = Older(a) /\ b # Old
    BY DEF AgedWithin
  <2>2. b \in 0..Window
    BY <1>1, <1>4, <1>5, <2>1
  <2>3. CASE \E i \in 1..Len(c) : c[i] = a
    <3>. HIDE DEF c, d
    <3>. QED  BY <1>3, <2>1, <2>2, <2>3
  <2>4. CASE Len(s) = MaxSamples /\ \A i \in 1..Len(s) : s[i] < a
    <3>1. \A i \in 1..Len(s) : Older(s[i]) < b
      BY <1>1, <1>5, <2>1, <2>4, OlderAges
    <3>. QED  BY <1>2, <2>2, <2>4, <3>1
  <2>. QED  BY <2>3, <2>4 DEF Covers
<1>7. AgedWithin(ages) \subseteq 0..Window
  BY <1>6
<1>. QED  BY <1>6, <1>7 DEF Covers

\* A message joins the queue and the messages at once.
LEMMA HeardCovers ==
  ASSUME NEW s \in Seq(Ages), NEW q \in Seq(Ages), NEW ages, Covers(s, q, ages)
  PROVE  Covers(s, Append(q, 0), ages \union {0})
<1>. DEFINE c == s \o q
            p == Append(q, 0)
            d == s \o p
            n == Len(s) + Len(q)
<1>1. /\ Len(c) = Len(s) + Len(q)
      /\ \A i \in 1..(Len(s) + Len(q)) : c[i] = IF i <= Len(s) THEN s[i] ELSE q[i - Len(s)]
  BY Concatenation, Zenon
<1>2. /\ p \in Seq(Ages) /\ Len(p) = Len(q) + 1 /\ p[Len(q) + 1] = 0
      /\ \A i \in 1..Len(q) : p[i] = q[i]
  BY Sizes
<1>. HIDE DEF p
<1>3. /\ Len(d) = Len(s) + Len(p)
      /\ \A i \in 1..(Len(s) + Len(p)) : d[i] = IF i <= Len(s) THEN s[i] ELSE p[i - Len(s)]
  BY <1>2, Concatenation, Zenon
<1>. HIDE DEF c, d
<1>4. Len(s) \in Nat /\ Len(q) \in Nat
  BY Indices
<1>5. ASSUME NEW i \in 1..n PROVE d[i] = c[i] /\ i \in 1..Len(d)
  <2>1. i \in 1..(Len(s) + Len(p)) /\ (~(i <= Len(s)) => i - Len(s) \in 1..Len(q))
    BY <1>2, <1>4
  <2>. QED  BY <1>1, <1>2, <1>3, <2>1
<1>6. d[n + 1] = 0 /\ n + 1 \in 1..Len(d)
  <2>1. n + 1 \in 1..(Len(s) + Len(p)) /\ ~(n + 1 <= Len(s)) /\ (n + 1) - Len(s) = Len(q) + 1
    BY <1>2, <1>4
  <2>. QED  BY <1>2, <1>3, <2>1
<1>7. ages \union {0} \subseteq 0..Window
  BY Sizes DEF Covers
<1>8. ASSUME NEW a \in ages \union {0}
      PROVE  \/ \E i \in 1..Len(d) : d[i] = a
             \/ Len(s) = MaxSamples /\ \A i \in 1..Len(s) : s[i] < a
  <2>1. CASE a = 0
    BY <1>6, <2>1
  <2>2. CASE a \in ages
    <3>1. \/ \E i \in 1..Len(c) : c[i] = a
          \/ Len(s) = MaxSamples /\ \A i \in 1..Len(s) : s[i] < a
      BY <2>2 DEF Covers, c
    <3>. QED  BY <1>1, <1>5, <3>1
  <2>. QED  BY <2>1, <2>2
<1>. QED  BY <1>7, <1>8 DEF Covers, d, p

\* Draining and trimming keep the newest messages.
LEMMA DrainedShows ==
  ASSUME NEW t, timestamps[t] \in Seq(Ages), queue[t] \in Seq(Ages), NEW ages,
         Samples(All(t), ages), Covers(timestamps[t], queue[t], ages)
  PROVE  ShowsNewest(Drained(t), ages) /\ Covers(Drained(t), << >>, ages)
<1>. DEFINE s == timestamps[t]
            q == queue[t]
            c == All(t)
            d == Drained(t)
<1>1. c \in Seq(Ages) /\ Ordered(c) /\ ages \subseteq 0..Window
  BY DEF Samples, Covers
<1>2. PICK m \in 1..(Len(c) + 1) :
        /\ d \in Seq(Ages) /\ Len(d) = Len(c) - m + 1
        /\ Len(d) <= MaxSamples
        /\ m > 1 => Len(d) = MaxSamples
        /\ \A i \in 1..Len(d) : d[i] = c[m + i - 1]
  BY <1>1, DrainedEnd
<1>3. /\ Len(c) = Len(s) + Len(q)
      /\ \A i \in 1..(Len(s) + Len(q)) : c[i] = IF i <= Len(s) THEN s[i] ELSE q[i - Len(s)]
  BY Concatenation, Zenon DEF All
<1>4. \A a \in ages : \/ \E i \in 1..Len(c) : c[i] = a
                      \/ Len(s) = MaxSamples /\ \A i \in 1..Len(s) : s[i] < a
  BY DEF Covers, All
<1>5. Len(c) \in Nat /\ Len(s) \in Nat /\ Len(q) \in Nat /\ \A i \in 1..Len(c) : c[i] \in Nat
  <2>1. \A i \in 1..Len(c) : c[i] \in Ages
    BY <1>1, Indices
  <2>. QED  BY <1>1, <2>1, Indices, Sizes
<1>6. MaxSamples \in Nat \ {0} /\ Old = Window + 1 /\ Window \in Nat
  BY Sizes DEF Old
<1>7. Samples(d, ages)
  <2>1. Samples(d \o << >>, ages) /\ d \o << >> = d
    BY <1>2, DrainedSamples
  <2>. QED  BY <2>1
<1>. HIDE DEF c, d, s, q
<1>8. ASSUME NEW a \in ages
      PROVE  \/ \E i \in 1..Len(d) : d[i] = a
             \/ Len(d) = MaxSamples /\ \A i \in 1..Len(d) : d[i] < a
  <2>0. a \in 0..Window
    BY <1>1
  <2>1. CASE \E i \in 1..Len(c) : c[i] = a
    <3>. PICK i \in 1..Len(c) : c[i] = a
      BY <2>1
    <3>1. CASE i >= m
      <4>1. (i - m) + 1 \in 1..Len(d) /\ m + ((i - m) + 1) - 1 = i
        BY <1>2, <1>5, <3>1
      <4>. QED  BY <1>2, <4>1
    <3>2. CASE ~(i >= m)
      <4>1. Len(d) = MaxSamples
        <5>1. m > 1
          BY <1>5, <3>2
        <5>. QED  BY <1>2, <5>1
      <4>2. ASSUME NEW j \in 1..Len(d) PROVE d[j] < a
        <5>1. m + j - 1 \in 1..Len(c) /\ i < m + j - 1 /\ d[j] = c[m + j - 1]
          BY <1>2, <1>5, <3>2
        <5>2. c[i] # Old
          BY <1>6, <2>0
        <5>. QED  BY <1>1, <5>1, <5>2, Decreasing
      <4>. QED  BY <4>1, <4>2
    <3>. QED  BY <3>1, <3>2
  <2>2. CASE Len(s) = MaxSamples /\ \A i \in 1..Len(s) : s[i] < a
    <3>1. Len(d) = MaxSamples
      BY <1>2, <1>3, <1>5, <1>6, <2>2
    <3>2. \A i \in 1..Len(s) : c[i] < a /\ i \in 1..Len(c)
      BY <1>3, <1>5, <2>2
    <3>3. ASSUME NEW i \in 1..Len(c) PROVE c[i] < a
      <4>1. CASE i <= Len(s)
        BY <1>5, <3>2, <4>1
      <4>2. CASE ~(i <= Len(s))
        <5>1. Len(s) \in 1..Len(s) /\ Len(s) < i
          BY <1>5, <1>6, <2>2, <4>2
        <5>2. c[Len(s)] < a /\ Len(s) \in 1..Len(c)
          BY <3>2, <5>1
        <5>3. c[Len(s)] # Old /\ c[Len(s)] \in Nat
          BY <1>5, <1>6, <2>0, <5>2
        <5>4. c[i] < c[Len(s)]
          BY <1>1, <5>1, <5>2, <5>3, Decreasing
        <5>5. c[i] \in Nat /\ a \in Nat
          BY <1>5, <2>0
        <5>. QED  BY <5>2, <5>3, <5>4, <5>5
      <4>. QED  BY <4>1, <4>2
    <3>4. \A j \in 1..Len(d) : m + j - 1 \in 1..Len(c)
      BY <1>2, <1>5
    <3>. QED  BY <1>2, <3>1, <3>3, <3>4
  <2>. QED  BY <1>4, <2>1, <2>2
<1>9. ShowsNewest(d, ages)
  BY <1>1, <1>2, <1>7, <1>8 DEF ShowsNewest
<1>10. d \o << >> = d
  BY <1>2
<1>11. Covers(d, << >>, ages)
  BY <1>1, <1>8, <1>10 DEF Covers
<1>. QED  BY <1>9, <1>11 DEF d

\* Before anything is heard there is nothing to show.
LEMMA NewestInit == Init => NewestInv
  BY DEF Init, NewestInv, Covers

\* The clock,
LEMMA NewestTick == ASSUME TopicInv, NewestInv, Tick PROVE NewestInv'
<1>1. UNCHANGED <<phase, poll, todo>>
  BY DEF Tick, pollVars
<1>2. ASSUME phase # "gone", NEW t \in Topics PROVE Covers(timestamps'[t], queue'[t], heard'[t])
  <2>1. /\ timestamps[t] \in Seq(Ages) /\ queue[t] \in Seq(Ages)
        /\ Covers(timestamps[t], queue[t], heard[t])
    BY <1>2 DEF TopicInv, Lists, NewestInv
  <2>2. Covers(Aged(timestamps[t]), Aged(queue[t]), AgedWithin(heard[t]))
    BY <2>1, AgedCovers
  <2>. QED  BY <2>2 DEF Tick
<1>. QED  BY <1>1, <1>2 DEF NewestInv

\* the callbacks,
LEMMA NewestReceive == ASSUME TopicInv, NewestInv, NEW t \in Topics, Receive(t) PROVE NewestInv'
<1>1. UNCHANGED <<phase, poll, todo, timestamps>>
  BY DEF Receive, pollVars
<1>2. CASE UNCHANGED <<queue, heard>>
  BY <1>1, <1>2 DEF NewestInv
<1>3. CASE /\ queue' = [queue EXCEPT ![t] = Append(@, 0)]
           /\ heard' = [heard EXCEPT ![t] = @ \union {0}]
  <2>1. ASSUME phase # "gone", NEW u \in Topics
        PROVE  Covers(timestamps[u], queue'[u], heard'[u])
    <3>1. /\ timestamps[u] \in Seq(Ages) /\ queue[u] \in Seq(Ages)
          /\ Covers(timestamps[u], queue[u], heard[u])
      BY <2>1 DEF TopicInv, Lists, NewestInv
    <3>2. CASE u = t
      <4>1. queue'[u] = Append(queue[u], 0) /\ heard'[u] = heard[u] \union {0}
        BY <1>3, <3>2 DEF TopicInv, Lists
      <4>. QED  BY <3>1, <4>1, HeardCovers
    <3>3. CASE u # t
      <4>1. queue'[u] = queue[u] /\ heard'[u] = heard[u]
        BY <1>3, <3>3 DEF TopicInv, Lists
      <4>. QED  BY <3>1, <4>1
    <3>. QED  BY <3>2, <3>3
  <2>. QED  BY <1>1, <2>1 DEF NewestInv
<1>. QED  BY <1>2, <1>3 DEF Receive

\* the poll of a topic,
LEMMA NewestMeasure == ASSUME TopicInv, NewestInv, NEW t \in Topics, Measure(t) PROVE NewestInv'
<1>1. /\ heard' = heard /\ phase' = phase /\ poll = "measure"
      /\ queue' = [queue EXCEPT ![t] = << >>]
      /\ timestamps' = [timestamps EXCEPT ![t] = Drained(t)]
      /\ poll' # "measure" => todo' = {}
  BY DEF Measure, AfterVisiting
<1>2. phase \notin {"stopped", "gone"}
  BY <1>1 DEF NewestInv
<1>3. ASSUME NEW u \in Topics PROVE Covers(timestamps'[u], queue'[u], heard'[u])
  <2>1. /\ timestamps[u] \in Seq(Ages) /\ queue[u] \in Seq(Ages)
        /\ Samples(All(u), heard[u]) /\ Covers(timestamps[u], queue[u], heard[u])
    BY <1>2 DEF TopicInv, Lists, NewestInv
  <2>2. CASE u = t
    <3>1. queue'[u] = << >> /\ timestamps'[u] = Drained(u)
      BY <1>1, <2>2 DEF TopicInv, Lists
    <3>. QED  BY <1>1, <2>1, <3>1, DrainedShows
  <2>3. CASE u # t
    <3>1. queue'[u] = queue[u] /\ timestamps'[u] = timestamps[u]
      BY <1>1, <2>3 DEF TopicInv, Lists
    <3>. QED  BY <1>1, <2>1, <3>1
  <2>. QED  BY <2>2, <2>3
<1>. QED  BY <1>1, <1>2, <1>3 DEF NewestInv

\* The other steps leave the lists alone, until they are destroyed.
LEMMA NewestOthers ==
  ASSUME NewestInv,
         \/ \E t \in Topics : Appear(t) \/ Vanish(t)
         \/ LeaveLoop \/ ReadGraph \/ SwapIn
         \/ MainStep \/ Stop
         \/ UNCHANGED vars
  PROVE  NewestInv'
<1>1. CASE \E t \in Topics : Appear(t) \/ Vanish(t)
  BY <1>1 DEF Appear, Vanish, NewestInv, sampleVars, pollVars
<1>2. CASE LeaveLoop \/ ReadGraph
  BY <1>2 DEF LeaveLoop, ReadGraph, NewestInv, sampleVars
<1>3. CASE SwapIn
  BY <1>3 DEF SwapIn, AfterVisiting, NewestInv, sampleVars
<1>4. CASE Destroy
  BY <1>4 DEF Destroy, GoTo, NewestInv, pollVars
<1>5. CASE SetWatchedTopics \/ Start \/ Spin \/ Joined \/ Stop
  BY <1>5 DEF SetWatchedTopics, Start, Spin, Joined, Stop, GoTo, NewestInv, sampleVars, pollVars
<1>6. CASE UNCHANGED vars
  BY <1>6 DEF vars, NewestInv, sampleVars, pollVars
<1>. QED  BY <1>1, <1>2, <1>3, <1>4, <1>5, <1>6 DEF MainStep

\* and every other step keep the lists at the newest messages.
LEMMA NewestStep == ASSUME TopicInv, NewestInv, [Next]_vars PROVE NewestInv'
<1>1. CASE \E t \in Topics : Receive(t) \/ Measure(t)
  BY <1>1, NewestReceive, NewestMeasure
<1>2. CASE Tick
  BY <1>2, NewestTick
<1>. QED  BY <1>1, <1>2, NewestOthers DEF Next, PollStep

\* Only Measure takes a topic from those to be visited, and it judges it as it deserves.
LEMMA MeasureIsRight ==
  ASSUME TopicInv, NewestInv, [Next]_vars, NEW t \in Topics, t \in todo \ todo'
  PROVE  topics'[t].stale = ShouldBeStale(t)
<1>1. poll = "measure"
  BY DEF NewestInv
<1>2. Measure(t)
  <2>1. PICK u \in Topics : Measure(u)
    BY <1>1 DEF Next, PollStep, MainStep, Appear, Vanish, Receive, Tick, LeaveLoop,
       ReadGraph, SwapIn, SetWatchedTopics, Start, Spin, Joined, Destroy, Stop, vars, pollVars
  <2>2. todo' = todo \ {u}
    BY <2>1 DEF Measure
  <2>. QED  BY <2>1, <2>2
<1>3. topics'[t].stale = TooSlow(t, Drained(t))
  BY <1>2 DEF Measure
<1>4. ShowsNewest(Drained(t), heard[t])
  <2>1. phase # "gone"
    BY <1>1 DEF NewestInv
  <2>2. /\ timestamps[t] \in Seq(Ages) /\ queue[t] \in Seq(Ages)
        /\ Samples(All(t), heard[t]) /\ Covers(timestamps[t], queue[t], heard[t])
    BY <2>1 DEF TopicInv, Lists, NewestInv
  <2>. QED  BY <2>2, DrainedShows
<1>5. period[t] \in Nat
  <2>1. t \in DOMAIN period /\ period \in Profiles
    <3>1. DOMAIN << >> = {}
      OBVIOUS
    <3>. QED  BY <3>1 DEF TopicInv, Known, Watched
  <2>. QED  BY <2>1, TopicsAssumption
<1>6. Recent(t) = Newest(heard[t])
  BY DEF Recent, Newest
<1>7. TooSlow(t, Drained(t)) = ShouldBeStale(t)
  BY <1>4, <1>5, <1>6, RightVerdict DEF TooSlow, ShouldBeStale
<1>. QED  BY <1>3, <1>7

\* Each poll judges a topic as the messages of the last five seconds deserve, for any
\* window, profile and sizes: the draining, the trimming and the queue between callbacks
\* and poll lose no message that counts, and none is counted twice (VerdictIsRight).
THEOREM VerdictsAreRight == Spec => VerdictIsRight
<1>. DEFINE A == \A t \in Topics :
                    t \in todo \ todo' /\ missed[t] = Old
                    => topics'[t].stale = ShouldBeStale(t)
<1>1. TopicInv /\ NewestInv /\ [Next]_vars => NewestInv'
  BY NewestStep
<1>2. TopicInv /\ NewestInv /\ [Next]_vars => [A]_vars
  BY MeasureIsRight
<1>. QED  BY <1>1, <1>2, InitInv, NewestInit, StepInv, PTL DEF Spec, VerdictIsRight
=============================================================================
