--------------------------- MODULE ParameterProofs ---------------------------
(***************************************************************************)
(* Proofs about ParameterManager and the screen that uses it: the          *)
(* invariant PInv, which is inductive, and that a set shows in the end.    *)
(*                                                                         *)
(* PInv falls into two parts.  CallInv is what the calls of the manager    *)
(* keep whatever the screen asks for; one lemma for each kind of change    *)
(* (a fetch starts, moves on or ends; many calls end at once; a set is     *)
(* sent, answered or taken) serves several actions.  The screen's part is  *)
(* its types and PresenceInv, that a node which never crashed is in the    *)
(* graph and in the list a tick has made: without it TickPrune could       *)
(* forget a fetch that the rest of the invariant counts on.                *)
(***************************************************************************)
EXTENDS ParameterScreen, SequenceLemmas

\* What Pick makes of a sequence: its elements at the positions, one for each, in their
\* order.
LEMMA PickKeeps ==
  ASSUME NEW S, NEW s \in Seq(S), NEW I \in SUBSET (1..Len(s))
  PROVE  /\ Cardinality(I) \in 0..Len(s)
         /\ \E at \in [1..Cardinality(I) -> I] :
              /\ Pick(s, I) = [k \in 1..Cardinality(I) |-> s[at[k]]]
              /\ \A k, l \in 1..Cardinality(I) : k < l <=> at[k] < at[l]
              /\ \A i \in I : \E k \in 1..Cardinality(I) : at[k] = i
<1>. DEFINE n == Cardinality(I)
            Upto(i) == {j \in I : j <= i}
            rank == [i \in I |-> Cardinality(Upto(i))]
            pos == [k \in 1..n |-> CHOOSE i \in I : Cardinality(Upto(i)) = k]
<1>1. IsFiniteSet(I) /\ n \in 0..Len(s)
  <2>1. IsFiniteSet(1..Len(s)) /\ Cardinality(1..Len(s)) = Len(s)
    BY CountOfInterval
  <2>2. IsFiniteSet(I) /\ n <= Cardinality(1..Len(s)) /\ n \in Nat
    BY <2>1, FS_Subset, FS_CardinalityType, Zenon
  <2>. HIDE DEF n
  <2>. QED  BY <2>1, <2>2
<1>2. \A i \in I : IsFiniteSet(Upto(i)) /\ Cardinality(Upto(i)) \in 1..n
  <2>. SUFFICES ASSUME NEW i \in I PROVE IsFiniteSet(Upto(i)) /\ Cardinality(Upto(i)) \in 1..n
    OBVIOUS
  <2>1. Upto(i) \in SUBSET I /\ Upto(i) # {}
    OBVIOUS
  <2>. HIDE DEF Upto
  <2>2. IsFiniteSet(Upto(i)) /\ Cardinality(Upto(i)) <= n
    BY <1>1, <2>1, FS_Subset
  <2>3. Cardinality(Upto(i)) \in Nat /\ Cardinality(Upto(i)) # 0
    BY <2>1, <2>2, FS_EmptySet, FS_CardinalityType
  <2>. HIDE DEF n
  <2>. QED  BY <1>1, <2>2, <2>3
<1>3. \A i, j \in I : i < j => Cardinality(Upto(i)) < Cardinality(Upto(j))
  <2>. SUFFICES ASSUME NEW i \in I, NEW j \in I, i < j
                PROVE  Cardinality(Upto(i)) < Cardinality(Upto(j))
    OBVIOUS
  <2>1. \A k \in I : k \in Nat
    OBVIOUS
  <2>2. \A k \in I : k <= i => k <= j
    BY <2>1
  <2>3. Upto(i) \in SUBSET Upto(j)
    BY <2>2, Zenon
  <2>4. j \in Upto(j) /\ j \notin Upto(i)
    BY <2>1
  <2>. HIDE DEF Upto, n
  <2>5. /\ Cardinality(Upto(i)) <= Cardinality(Upto(j))
        /\ Cardinality(Upto(i)) # Cardinality(Upto(j))
    BY <1>2, <2>3, <2>4, FS_Subset
  <2>. QED  BY <1>1, <1>2, <2>5
<1>. HIDE DEF Upto, n
<1>4. \A i, j \in I : i < j <=> Cardinality(Upto(i)) < Cardinality(Upto(j))
  BY <1>1, <1>2, <1>3
<1>5. rank \in Injection(I, 1..n)
  <2>1. rank \in [I -> 1..n]
    BY <1>2
  <2>2. \A i, j \in I : rank[i] = rank[j] => i = j
    BY <1>2, <1>4
  <2>. HIDE DEF rank
  <2>. QED  BY <2>1, <2>2 DEF Injection, IsInjective
<1>6. rank \in Surjection(I, 1..n)
  <2>1. IsFiniteSet(1..n) /\ Cardinality(1..n) = n
    BY <1>1, CountOfInterval
  <2>. HIDE DEF rank
  <2>. QED  BY <1>5, <2>1, FS_Injection DEF n
<1>7. \A k \in 1..n : \E i \in I : Cardinality(Upto(i)) = k
  BY <1>6 DEF Surjection
<1>8. \A k \in 1..n : pos[k] \in I /\ Cardinality(Upto(pos[k])) = k
  BY <1>7
<1>9. Pick(s, I) = [k \in 1..n |-> s[pos[k]]]
  BY DEF Pick, n, Upto
<1>10. pos \in [1..n -> I]
  BY <1>8, Zenon
<1>. HIDE DEF pos
<1>11. \A k, l \in 1..n : k < l <=> pos[k] < pos[l]
  <2>. SUFFICES ASSUME NEW k \in 1..n, NEW l \in 1..n PROVE k < l <=> pos[k] < pos[l]
    OBVIOUS
  <2>1. pos[k] < pos[l] <=> Cardinality(Upto(pos[k])) < Cardinality(Upto(pos[l]))
    BY <1>4, <1>8, Zenon
  <2>. QED  BY <1>8, <2>1
<1>12. \A i \in I : \E k \in 1..n : pos[k] = i
  <2>. SUFFICES ASSUME NEW i \in I PROVE \E k \in 1..n : pos[k] = i
    OBVIOUS
  <2>1. Cardinality(Upto(i)) \in 1..n
    BY <1>2
  <2>2. PICK a \in I : a = pos[Cardinality(Upto(i))] /\ Cardinality(Upto(a)) = Cardinality(Upto(i))
    BY <1>8, <2>1
  <2>3. ~(i < a) /\ ~(a < i)
    BY <1>1, <1>4, <2>1, <2>2
  <2>4. a = i
    BY <2>3
  <2>. QED  BY <2>1, <2>2, <2>4
<1>13. \E h \in [1..n -> I] :
          /\ Pick(s, I) = [k \in 1..n |-> s[h[k]]]
          /\ \A k, l \in 1..n : k < l <=> h[k] < h[l]
          /\ \A i \in I : \E k \in 1..n : h[k] = i
  <2>. USE <1>10
  <2>. WITNESS pos \in [1..n -> I]
  <2>. QED  BY <1>9, <1>11, <1>12
<1>. QED  BY <1>1, <1>13 DEF n

\* Pick keeps the elements at the positions it is given, and no other.
LEMMA PickThins ==
  ASSUME NEW S, NEW s \in Seq(S), NEW I \in SUBSET (1..Len(s))
  PROVE  Pick(s, I) \in Seq(S) /\ Thins(Pick(s, I), s, I)
<1>. DEFINE n == Cardinality(I)
            p == Pick(s, I)
<1>1. n \in 0..Len(s)
  BY PickKeeps
<1>2. PICK at \in [1..n -> I] :
        /\ p = [k \in 1..n |-> s[at[k]]]
        /\ \A k, l \in 1..n : k < l <=> at[k] < at[l]
        /\ \A i \in I : \E k \in 1..n : at[k] = i
  BY PickKeeps
<1>. HIDE DEF n, p
<1>3. \A k \in 1..n : s[at[k]] \in S
  <2>1. \A k \in 1..n : at[k] \in 1..Len(s)
    BY <1>2
  <2>. QED  BY <2>1
<1>4. p \in Seq(S) /\ Len(p) = n
  BY <1>1, <1>2, <1>3
<1>5. \A k \in 1..n : p[k] = s[at[k]]
  BY <1>2
<1>6. \E h \in [1..n -> I] :
        /\ \A k \in 1..n : p[k] = s[h[k]]
        /\ \A k, l \in 1..n : k < l <=> h[k] < h[l]
        /\ \A i \in I : \E k \in 1..n : h[k] = i
  BY <1>2, <1>5
<1>. QED  BY <1>1, <1>4, <1>6 DEF Thins, p

-----------------------------------------------------------------------------
\* What the calls of the manager keep, whatever the screen does.
CallInv ==
  /\ ManagerTypeOK
  /\ LoadingIsAnswered
  /\ ClientInv /\ NoneInv /\ FreshInv

\* The assumptions on the constants, one by one.
LEMMA Constants ==
  /\ MaxFetches \in Nat /\ MaxSets \in Nat /\ MaxFailures \in Nat
  /\ Kind \in [Nodes -> {"number", "bool", "none"}] /\ Declared \in [Nodes -> SUBSET Values]
  /\ Default \in Values /\ NoValue \notin Values /\ NoNode \notin Nodes
  /\ Order \in Seq(Nodes)
  BY ParameterAssumption, OrderAssumption

\* The calls under way are records of their kinds.
LEMMA Calls ==
  ASSUME ManagerTypeOK
  PROVE  /\ DOMAIN fetches = 1..Len(fetches) /\ Len(fetches) \in Nat
         /\ DOMAIN sets = 1..Len(sets) /\ Len(sets) \in Nat
         /\ \A i \in 1..Len(fetches) :
              /\ fetches[i] \in Fetches /\ fetches[i].node \in Nodes
              /\ fetches[i].client \in Clients /\ fetches[i].stage \in 1..4
              /\ fetches[i].value \in Values \union {NoValue}
         /\ \A i \in 1..Len(sets) :
              /\ sets[i] \in Sets /\ sets[i].node \in Nodes
<1>1. fetches \in Seq(Fetches) /\ sets \in Seq(Sets)
  BY DEF ManagerTypeOK
<1>2. /\ DOMAIN fetches = 1..Len(fetches) /\ Len(fetches) \in Nat
      /\ \A i \in 1..Len(fetches) : fetches[i] \in Fetches
  BY <1>1, Indices
<1>3. /\ DOMAIN sets = 1..Len(sets) /\ Len(sets) \in Nat
      /\ \A i \in 1..Len(sets) : sets[i] \in Sets
  BY <1>1, Indices
<1>. QED  BY <1>2, <1>3 DEF Fetches, Sets

\* The stages of a fetch, by number.
LEMMA StageNames ==
  ASSUME NEW k \in 1..4
  PROVE  /\ Stages[k] = "list" <=> k = 1
         /\ Stages[k] = "get" <=> k = 2
         /\ Stages[k] = "got" <=> k = 3
         /\ Stages[k] = "describe" <=> k = 4
<1>1. k = 1 \/ k = 2 \/ k = 3 \/ k = 4
  OBVIOUS
<1>. QED  BY <1>1 DEF Stages

\* What a request to fetch does to the state of its node and to the fetches.
LEMMA DoFetchEffect ==
  ASSUME ManagerTypeOK, ClientInv, NEW n \in Nodes, NEW force \in BOOLEAN, DoFetch(n, force)
  PROVE  \E s \in NodeState :
            /\ nodes' = [nodes EXCEPT ![n] = s]
            /\ s.known /\ s.client # "none"
            /\ s.client = IF nodes[n].client = "none" THEN NewClient(n) ELSE nodes[n].client
            /\ s.params = nodes[n].params /\ (s.loaded => nodes[n].loaded)
            /\ \/ /\ UNCHANGED fetches /\ s.loading = nodes[n].loading
                  /\ force /\ n \in alive => nodes[n].client = "none"
               \/ /\ n \in alive /\ s.loading
                  /\ fetches' = Append(fetches, [node |-> n, client |-> s.client, stage |-> 1,
                                                 value |-> NoValue])
<1>. DEFINE s == [nodes[n] EXCEPT !.known = TRUE]
            c == IF s.client = "none" THEN NewClient(n) ELSE s.client
<1>1. nodes[n] \in NodeState
  BY DEF ManagerTypeOK
<1>2. NewClient(n) \in {"first", "second"}
  BY DEF NewClient
<1>3. s \in NodeState /\ s.known /\ s.client = nodes[n].client /\ s.params = nodes[n].params
      /\ s.loaded = nodes[n].loaded /\ s.loading = nodes[n].loading
  BY <1>1 DEF NodeState
<1>4. c \in Clients /\ c # "none"
      /\ c = IF nodes[n].client = "none" THEN NewClient(n) ELSE nodes[n].client
  BY <1>1, <1>2, <1>3 DEF NodeState, Clients
<1>5. CASE Throttled(n, force)
  <2>1. nodes' = [nodes EXCEPT ![n] = s] /\ UNCHANGED fetches /\ ~force
    BY <1>5 DEF DoFetch, Throttled
  <2>2. nodes[n].client # "none"
    BY <1>5 DEF Throttled, ClientInv, Absent
  <2>. QED  BY <1>3, <2>1, <2>2
<1>6. CASE ~Throttled(n, force) /\ UNCHANGED fetches /\ (n \notin alive \/ s.client = "none")
           /\ nodes' = [nodes EXCEPT ![n] = [s EXCEPT !.client = c, !.loaded = FALSE]]
  <2>. DEFINE t == [s EXCEPT !.client = c, !.loaded = FALSE]
  <2>1. t \in NodeState /\ t.known /\ t.client = c /\ t.params = nodes[n].params
        /\ t.loaded = FALSE /\ t.loading = nodes[n].loading
    BY <1>1, <1>3, <1>4 DEF NodeState
  <2>2. nodes' = [nodes EXCEPT ![n] = t] /\ UNCHANGED fetches
        /\ (force /\ n \in alive => nodes[n].client = "none")
    BY <1>3, <1>6
  <2>. HIDE DEF t, c, s
  <2>. QED  BY <1>4, <2>1, <2>2
<1>7. CASE /\ n \in alive
           /\ nodes' = [nodes EXCEPT ![n] = [s EXCEPT !.client = c, !.loading = TRUE,
                                                       !.recent = TRUE]]
           /\ fetches' = Append(fetches, [node |-> n, client |-> c, stage |-> 1,
                                          value |-> NoValue])
  <2>. DEFINE t == [s EXCEPT !.client = c, !.loading = TRUE, !.recent = TRUE]
  <2>1. t \in NodeState /\ t.known /\ t.client = c /\ t.params = nodes[n].params
        /\ t.loaded = nodes[n].loaded /\ t.loading
    BY <1>1, <1>3, <1>4 DEF NodeState
  <2>2. nodes' = [nodes EXCEPT ![n] = t]
    BY <1>7
  <2>. HIDE DEF t, c, s
  <2>. QED  BY <1>4, <1>7, <2>1, <2>2
<1>8. \/ Throttled(n, force)
      \/ ~Throttled(n, force) /\ UNCHANGED fetches /\ (n \notin alive \/ s.client = "none")
           /\ nodes' = [nodes EXCEPT ![n] = [s EXCEPT !.client = c, !.loaded = FALSE]]
      \/ /\ n \in alive
         /\ nodes' = [nodes EXCEPT ![n] = [s EXCEPT !.client = c, !.loading = TRUE,
                                                     !.recent = TRUE]]
         /\ fetches' = Append(fetches, [node |-> n, client |-> c, stage |-> 1,
                                        value |-> NoValue])
  BY DEF DoFetch
<1>. QED  BY <1>5, <1>6, <1>7, <1>8

\* Starting a fetch, for a tick, for a key or after a set.
LEMMA StartKeeps ==
  ASSUME CallInv, NEW n \in Nodes, NEW force \in BOOLEAN, DoFetch(n, force),
         UNCHANGED <<sets, remoteVars>>,
         \/ UNCHANGED spin /\ Len(fetches) < MaxFetches
         \/ spin = n /\ force /\ spin' = NoNode /\ (n \notin crashed => n \in alive)
  PROVE  CallInv'
<1>. USE Constants DEF remoteVars
<1>0. ManagerTypeOK /\ ClientInv /\ NoneInv /\ LoadingIsAnswered /\ FreshInv
  BY DEF CallInv
<1>1. PICK s \in NodeState :
        /\ nodes' = [nodes EXCEPT ![n] = s]
        /\ s.known /\ s.client # "none"
        /\ s.client = IF nodes[n].client = "none" THEN NewClient(n) ELSE nodes[n].client
        /\ s.params = nodes[n].params /\ (s.loaded => nodes[n].loaded)
        /\ \/ /\ UNCHANGED fetches /\ s.loading = nodes[n].loading
              /\ force /\ n \in alive => nodes[n].client = "none"
           \/ /\ n \in alive /\ s.loading
              /\ fetches' = Append(fetches, [node |-> n, client |-> s.client, stage |-> 1,
                                             value |-> NoValue])
  BY <1>0, DoFetchEffect
<1>. DEFINE new == [node |-> n, client |-> s.client, stage |-> 1, value |-> NoValue]
            last == Len(fetches) + 1
<1>2. new \in Fetches /\ new.node = n /\ new.client = s.client /\ new.stage = 1
  BY <1>1 DEF Fetches, NodeState
<1>3. nodes' \in [Nodes -> NodeState] /\ \A m \in Nodes : nodes'[m] = IF m = n THEN s ELSE nodes[m]
  BY <1>0, <1>1 DEF ManagerTypeOK
<1>. HIDE DEF new
<1>4. fetches \in Seq(Fetches) /\ DOMAIN fetches = 1..Len(fetches) /\ Len(fetches) \in Nat
  BY <1>0, Calls DEF ManagerTypeOK
<1>5. /\ fetches' \in Seq(Fetches)
      /\ \A i \in 1..Len(fetches) : fetches'[i] = fetches[i]
      /\ \/ /\ Len(fetches') = Len(fetches)
            /\ s.loading = nodes[n].loading
            /\ force /\ n \in alive => nodes[n].client = "none"
         \/ /\ Len(fetches') = last /\ fetches'[last] = new
            /\ n \in alive /\ s.loading
  <2>1. CASE fetches' = Append(fetches, new) /\ n \in alive /\ s.loading
    <3>1. /\ Append(fetches, new) \in Seq(Fetches) /\ Len(Append(fetches, new)) = last
          /\ \A i \in 1..Len(fetches) : Append(fetches, new)[i] = fetches[i]
          /\ Append(fetches, new)[last] = new
      BY <1>2, <1>4, Appending
    <3>. QED  BY <2>1, <3>1, Zenon
  <2>2. CASE UNCHANGED fetches /\ s.loading = nodes[n].loading
             /\ (force /\ n \in alive => nodes[n].client = "none")
    BY <1>4, <2>2
  <2>. QED  BY <1>1, <2>1, <2>2 DEF new
<1>6. DOMAIN fetches' = 1..Len(fetches')
  BY <1>5, Indices
<1>7. ManagerTypeOK'
  <2>1. Len(fetches') + Len(sets') + (IF spin' = NoNode THEN 0 ELSE 1) <= MaxFetches + MaxSets + 1
    <3>1. /\ Len(sets) \in Nat /\ Len(sets) <= MaxSets /\ sets' = sets
          /\ Len(fetches) + Len(sets) + (IF spin = NoNode THEN 0 ELSE 1) <= MaxFetches + MaxSets + 1
      BY <1>0, Calls DEF ManagerTypeOK
    <3>2. Len(fetches') <= last
      BY <1>4, <1>5
    <3>. QED  BY <1>4, <1>5, <3>1, <3>2
  <2>. QED  BY <1>0, <1>3, <1>5, <2>1 DEF ManagerTypeOK
<1>8. LoadingIsAnswered'
  <2>. SUFFICES ASSUME NEW m \in Nodes, nodes'[m].loading, nodes'[m].client = NewClient(m)'
                PROVE  \E i \in 1..Len(fetches') : /\ fetches'[i].node = m
                                                  /\ fetches'[i].client = nodes'[m].client
    BY <1>6 DEF LoadingIsAnswered
  <2>1. CASE nodes[m].loading /\ nodes[m].client = nodes'[m].client
    <3>1. PICK i \in 1..Len(fetches) : fetches[i].node = m /\ fetches[i].client = nodes[m].client
      BY <1>0, <1>4, <2>1 DEF LoadingIsAnswered, NewClient
    <3>. QED  BY <1>4, <1>5, <2>1, <3>1
  <2>2. CASE ~(nodes[m].loading /\ nodes[m].client = nodes'[m].client)
    <3>1. m = n /\ ~(nodes[n].loading /\ nodes[n].client = s.client) /\ s.loading
      BY <1>3, <2>2
    <3>2. nodes[n].client = "none" => ~nodes[n].loading
      BY <1>0 DEF ClientInv, Absent
    <3>3. Len(fetches') = last /\ fetches'[last] = new
      BY <1>1, <1>5, <3>1, <3>2
    <3>. QED  BY <1>2, <1>3, <1>4, <3>1, <3>3
  <2>. QED  BY <2>1, <2>2
<1>9. ClientInv'
  <2>1. \A m \in Nodes :
          /\ nodes'[m].client = "none" => nodes'[m] = Absent
          /\ ~nodes'[m].known => nodes'[m] = Absent
          /\ nodes'[m].client = "second" => m \in crashed /\ (nodes'[m].loading => m \in alive)
    <3>1. nodes[n].client = "none" => ~nodes[n].loading
      BY <1>0 DEF ClientInv, Absent
    <3>2. s.client = "second" => n \in crashed /\ (s.loading => n \in alive)
      BY <1>0, <1>1, <1>5, <3>1 DEF ClientInv, NewClient
    <3>. QED  BY <1>0, <1>1, <1>3, <3>2 DEF ClientInv
  <2>2. \A i \in 1..Len(fetches') :
          /\ fetches'[i].client # "none"
          /\ fetches'[i].client = "second" => fetches'[i].node \in crashed \intersect alive
          /\ fetches'[i].node \notin crashed => nodes'[fetches'[i].node].known
    <3>. SUFFICES ASSUME NEW i \in 1..Len(fetches')
                  PROVE  /\ fetches'[i].client # "none"
                         /\ fetches'[i].client = "second" => fetches'[i].node \in crashed \intersect alive
                         /\ fetches'[i].node \notin crashed => nodes'[fetches'[i].node].known
      OBVIOUS
    <3>1. CASE i \in 1..Len(fetches)
      BY <1>0, <1>1, <1>3, <1>4, <1>5, <3>1, Calls DEF ClientInv
    <3>2. CASE i \notin 1..Len(fetches)
      <4>1. i = last /\ fetches'[i] = new /\ n \in alive
        BY <1>4, <1>5, <3>2
      <4>2. s.client = "second" => n \in crashed
        BY <1>0, <1>1 DEF ClientInv, NewClient
      <4>. QED  BY <1>1, <1>2, <1>3, <4>1, <4>2
    <3>. QED  BY <3>1, <3>2
  <2>3. \A i \in 1..Len(sets) : sets[i].node \notin crashed => nodes'[sets[i].node].known
    BY <1>0, <1>1, <1>3, Calls DEF ClientInv
  <2>4. spin' \notin crashed \union {NoNode} => nodes'[spin'].known
    BY <1>0, <1>1, <1>3 DEF ClientInv, ManagerTypeOK
  <2>. QED  BY <1>0, <1>6, <2>1, <2>2, <2>3, <2>4, Calls DEF ClientInv
<1>10. NoneInv'
  <2>1. \A m \in Nodes : Kind[m] = "none" => nodes'[m].params = NoValue
    BY <1>0, <1>1, <1>3 DEF NoneInv
  <2>2. \A m \in Nodes, i \in 1..Len(fetches') :
          Kind[m] = "none" /\ fetches'[i].node = m => fetches'[i].stage = 1
    BY <1>0, <1>2, <1>4, <1>5 DEF NoneInv
  <2>. QED  BY <1>6, <2>1, <2>2 DEF NoneInv
<1>11. FreshInv'
  <2>. SUFFICES ASSUME failures = 0, NEW m \in Nodes \ crashed, Kind[m] # "none", ~Changed(m)'
                PROVE  /\ \A i \in 1..Len(fetches') :
                            /\ fetches'[i].node = m /\ fetches'[i].stage > 2
                            /\ \A j \in 1..Len(fetches') : j > i => fetches'[j].node # m
                            => fetches'[i].value = remote[m]
                       /\ \/ ~nodes'[m].loaded \/ nodes'[m].params = remote[m]
                          \/ \E i \in 1..Len(fetches') : fetches'[i].node = m
    BY <1>6 DEF FreshInv, Fresh
  <2>1. CASE m = n /\ Len(fetches') = last
    <3>1. fetches'[last] = new /\ last \in 1..Len(fetches')
      <4>0. Len(fetches) \in Nat
        BY <1>4
      <4>1. last # Len(fetches) /\ last \in 1..last
        BY <4>0
      <4>2. Len(fetches') = last
        BY <2>1
      <4>. HIDE DEF last
      <4>3. fetches'[last] = new
        BY <1>5, <4>1, <4>2
      <4>. QED  BY <4>1, <4>2, <4>3
    <3>2. \A i \in 1..Len(fetches') : fetches'[i].stage > 2 => last > i
      BY <1>2, <1>4, <2>1, <3>1
    <3>. QED  BY <1>2, <2>1, <3>1, <3>2
  <2>2. CASE m # n \/ Len(fetches') # last
    <3>1. ~Changed(m)
      <4>1. CASE m # n
        BY <4>1 DEF Changed
      <4>2. CASE m = n /\ Len(fetches') # last
        <5>1. ~(force /\ n \in alive) \/ nodes[n].client = "none"
          BY <1>4, <1>5, <4>2
        <5>2. nodes[n].client = "none" => ~nodes[n].known
          BY <1>0 DEF ClientInv, Absent
        <5>3. spin = n => (n \in alive /\ force) \/ UNCHANGED spin
          BY <4>2
        <5>4. spin = n => nodes[n].known
          BY <1>0, <4>2 DEF ClientInv
        <5>5. UNCHANGED spin \/ spin # m
          BY <5>1, <5>2, <5>3, <5>4, <4>2
        <5>. QED  BY <5>5 DEF Changed
      <4>. QED  BY <2>2, <4>1, <4>2
    <3>2. /\ \A i \in 1..Len(fetches) :
               /\ fetches[i].node = m /\ fetches[i].stage > 2
               /\ \A j \in 1..Len(fetches) : j > i => fetches[j].node # m
               => fetches[i].value = remote[m]
          /\ \/ ~nodes[m].loaded \/ nodes[m].params = remote[m]
             \/ \E i \in 1..Len(fetches) : fetches[i].node = m
      BY <1>0, <1>4, <3>1 DEF FreshInv, Fresh
    <3>3. \A i \in 1..Len(fetches') : i \in 1..Len(fetches) \/ fetches'[i].node # m
      BY <1>2, <1>4, <1>5, <2>2
    <3>4. nodes'[m].loaded => nodes[m].loaded
      BY <1>1, <1>3
    <3>5. nodes'[m].params = nodes[m].params
      BY <1>1, <1>3
    <3>6. \A i \in 1..Len(fetches) : i \in 1..Len(fetches')
      BY <1>4, <1>5
    <3>. QED  BY <1>5, <3>2, <3>3, <3>4, <3>5, <3>6
  <2>. QED  BY <2>1, <2>2
<1>. QED  BY <1>7, <1>8, <1>9, <1>10, <1>11 DEF CallInv

\* A fetch that moves on: its answers are waited for, or have just been read.
LEMMA MoveKeeps ==
  ASSUME CallInv, UNCHANGED <<nodes, sets, spin, remoteVars>>,
         NEW i \in 1..Len(fetches), NEW f \in Fetches,
         fetches' = [fetches EXCEPT ![i] = f],
         f.node = fetches[i].node, f.client = fetches[i].client, Kind[f.node] # "none",
         \/ f.stage <= 2
         \/ f.value = remote[f.node]
         \/ fetches[i].stage > 2 /\ f.value = fetches[i].value
  PROVE  CallInv'
<1>. USE DEF remoteVars
<1>0. ManagerTypeOK /\ ClientInv /\ NoneInv /\ LoadingIsAnswered /\ FreshInv
  BY DEF CallInv
<1>1. fetches \in Seq(Fetches) /\ DOMAIN fetches = 1..Len(fetches) /\ Len(fetches) \in Nat
  BY <1>0, Calls DEF ManagerTypeOK
<1>2. /\ fetches' \in Seq(Fetches) /\ Len(fetches') = Len(fetches)
      /\ \A j \in 1..Len(fetches) : fetches'[j] = IF j = i THEN f ELSE fetches[j]
  BY <1>1
<1>3. DOMAIN fetches' = 1..Len(fetches)
  BY <1>2, Indices
<1>4. ManagerTypeOK'
  BY <1>0, <1>2 DEF ManagerTypeOK
<1>5. \A j \in 1..Len(fetches) :
         fetches'[j].node = fetches[j].node /\ fetches'[j].client = fetches[j].client
  BY <1>2
<1>6. LoadingIsAnswered'
  BY <1>0, <1>1, <1>3, <1>5 DEF LoadingIsAnswered, NewClient
<1>7. ClientInv'
  BY <1>0, <1>1, <1>3, <1>5 DEF ClientInv
<1>8. NoneInv'
  BY <1>0, <1>1, <1>2, <1>3 DEF NoneInv
<1>9. FreshInv'
  <2>. SUFFICES ASSUME failures = 0, NEW m \in Nodes \ crashed, Kind[m] # "none", ~Changed(m)
                PROVE  /\ \A j \in 1..Len(fetches) :
                            /\ fetches'[j].node = m /\ fetches'[j].stage > 2
                            /\ \A k \in 1..Len(fetches) : k > j => fetches'[k].node # m
                            => fetches'[j].value = remote[m]
                       /\ \/ ~nodes[m].loaded \/ nodes[m].params = remote[m]
                          \/ \E j \in 1..Len(fetches) : fetches'[j].node = m
    BY <1>3 DEF FreshInv, Fresh, Changed
  <2>1. /\ \A j \in 1..Len(fetches) :
             /\ fetches[j].node = m /\ fetches[j].stage > 2
             /\ \A k \in 1..Len(fetches) : k > j => fetches[k].node # m
             => fetches[j].value = remote[m]
        /\ \/ ~nodes[m].loaded \/ nodes[m].params = remote[m]
           \/ \E j \in 1..Len(fetches) : fetches[j].node = m
    BY <1>0, <1>1 DEF FreshInv, Fresh
  <2>2. f.stage \in 1..4
    BY DEF Fetches
  <2>3. ASSUME NEW j \in 1..Len(fetches), fetches'[j].node = m, fetches'[j].stage > 2,
               \A k \in 1..Len(fetches) : k > j => fetches'[k].node # m
        PROVE  fetches'[j].value = remote[m]
    <3>1. \A k \in 1..Len(fetches) : k > j => fetches[k].node # m
      BY <1>5, <2>3
    <3>2. CASE j = i /\ ~(fetches[i].stage > 2)
      BY <1>2, <2>2, <2>3, <3>2
    <3>3. CASE j # i \/ fetches[i].stage > 2
      BY <1>2, <1>5, <2>1, <2>2, <2>3, <3>1, <3>3
    <3>. QED  BY <3>2, <3>3
  <2>. QED  BY <1>5, <2>1, <2>3
<1>. QED  BY <1>4, <1>6, <1>7, <1>8, <1>9 DEF CallInv

\* What is left of the fetches of a node that keeps all of them.
LEMMA ThinnedFetches ==
  ASSUME ManagerTypeOK, fetches' \in Seq(Fetches), NEW I \in SUBSET (1..Len(fetches)),
         Thins(fetches', fetches, I), NEW m \in Nodes,
         \A i \in 1..Len(fetches) : fetches[i].node = m => i \in I
  PROVE  /\ (\E i \in 1..Len(fetches) : fetches[i].node = m)
               => \E i \in 1..Len(fetches') : fetches'[i].node = m
         /\ \A i \in 1..Len(fetches) : fetches[i].node = m =>
               \E k \in 1..Len(fetches') : fetches'[k] = fetches[i]
         /\ \A k \in 1..Len(fetches') :
               /\ fetches'[k].node = m
               /\ \A l \in 1..Len(fetches') : l > k => fetches'[l].node # m
               => \E i \in 1..Len(fetches) :
                     /\ fetches[i] = fetches'[k]
                     /\ \A j \in 1..Len(fetches) : j > i => fetches[j].node # m
<1>1. PICK at \in [1..Len(fetches') -> I] :
        /\ \A k \in 1..Len(fetches') : fetches'[k] = fetches[at[k]]
        /\ \A k, l \in 1..Len(fetches') : k < l <=> at[k] < at[l]
        /\ \A i \in I : \E k \in 1..Len(fetches') : at[k] = i
  BY DEF Thins
<1>2. \A i \in 1..Len(fetches) : fetches[i].node = m =>
         \E k \in 1..Len(fetches') : fetches'[k] = fetches[i]
  BY <1>1
<1>3. ASSUME NEW k \in 1..Len(fetches'), fetches'[k].node = m,
             \A l \in 1..Len(fetches') : l > k => fetches'[l].node # m
      PROVE  \E i \in 1..Len(fetches) :
                /\ fetches[i] = fetches'[k]
                /\ \A j \in 1..Len(fetches) : j > i => fetches[j].node # m
  <2>1. at[k] \in 1..Len(fetches) /\ fetches[at[k]] = fetches'[k]
    BY <1>1
  <2>2. ASSUME NEW j \in 1..Len(fetches), j > at[k], fetches[j].node = m PROVE FALSE
    <3>1. PICK l \in 1..Len(fetches') : at[l] = j
      BY <1>1, <2>2
    <3>2. k < l
      BY <1>1, <2>1, <2>2, <3>1
    <3>. QED  BY <1>1, <1>3, <2>2, <3>1, <3>2
  <2>. QED  BY <2>1, <2>2
<1>. QED  BY <1>2, <1>3

\* What is known of the value of a node that keeps all its fetches.
LEMMA FreshStays ==
  ASSUME ManagerTypeOK, fetches' \in Seq(Fetches), NEW I \in SUBSET (1..Len(fetches)),
         Thins(fetches', fetches, I), NEW m \in Nodes,
         \A i \in 1..Len(fetches) : fetches[i].node = m => i \in I,
         nodes'[m] = nodes[m], remote'[m] = remote[m], Fresh(m)
  PROVE  Fresh(m)'
<1>1. DOMAIN fetches = 1..Len(fetches) /\ DOMAIN fetches' = 1..Len(fetches')
  BY Calls, Indices
<1>2. /\ (\E i \in 1..Len(fetches) : fetches[i].node = m)
            => \E i \in 1..Len(fetches') : fetches'[i].node = m
      /\ \A k \in 1..Len(fetches') :
            /\ fetches'[k].node = m
            /\ \A l \in 1..Len(fetches') : l > k => fetches'[l].node # m
            => \E i \in 1..Len(fetches) :
                  /\ fetches[i] = fetches'[k]
                  /\ \A j \in 1..Len(fetches) : j > i => fetches[j].node # m
  BY ThinnedFetches
<1>3. ASSUME NEW k \in 1..Len(fetches'), fetches'[k].node = m, fetches'[k].stage > 2,
             \A l \in 1..Len(fetches') : l > k => fetches'[l].node # m
      PROVE  fetches'[k].value = remote'[m]
  <2>1. PICK i \in 1..Len(fetches) :
          /\ fetches[i] = fetches'[k]
          /\ \A j \in 1..Len(fetches) : j > i => fetches[j].node # m
    BY <1>2, <1>3
  <2>2. fetches[i].value = remote[m]
    BY <1>1, <1>3, <2>1 DEF Fresh
  <2>. QED  BY <2>1, <2>2
<1>. QED  BY <1>1, <1>2, <1>3 DEF Fresh

\* The end of fetch i, after which the state of its node is s if it is still there.
\* It may be the one that a loading flag waits for only if that flag is cleared, and
\* what it read of a node that never crashed is taken unless a call has failed.
LEMMA DropKeeps ==
  ASSUME CallInv, UNCHANGED <<sets, spin, alive, remote, crashed>>,
         NEW i \in 1..Len(fetches), Drop(i),
         NEW n \in Nodes, n = fetches[i].node,
         NEW s \in NodeState, Update(n, s),
         s.known = nodes[n].known, s.client = nodes[n].client,
         s.loading => nodes[n].loading,
         s.loading /\ s.client = NewClient(n) => s.client # fetches[i].client,
         Kind[n] = "none" => s.params = NoValue,
         failures' \in failures..MaxFailures,
         failures' = 0 /\ n \notin crashed /\ Kind[n] # "none" =>
            /\ fetches[i].stage > 2 /\ s.params = fetches[i].value
            /\ \A j \in 1..Len(fetches) : j < i => fetches[j].node # n
  PROVE  CallInv'
<1>0. ManagerTypeOK /\ ClientInv /\ NoneInv /\ LoadingIsAnswered /\ FreshInv
  BY DEF CallInv
<1>1. fetches \in Seq(Fetches) /\ DOMAIN fetches = 1..Len(fetches) /\ Len(fetches) \in Nat
  BY <1>0, Calls DEF ManagerTypeOK
<1>. DEFINE I == (1..Len(fetches)) \ {i}
<1>2. /\ fetches' \in Seq(Fetches) /\ Len(fetches') = Len(fetches) - 1
      /\ Thins(fetches', fetches, I)
  BY <1>1, RemoveThins DEF Drop
<1>3. DOMAIN fetches' = 1..Len(fetches')
  BY <1>2, Indices
<1>4. PICK at \in [1..Len(fetches') -> I] :
        /\ \A k \in 1..Len(fetches') : fetches'[k] = fetches[at[k]]
        /\ \A k, l \in 1..Len(fetches') : k < l <=> at[k] < at[l]
        /\ \A j \in I : \E k \in 1..Len(fetches') : at[k] = j
  BY <1>2 DEF Thins
<1>5. \A k \in 1..Len(fetches') : at[k] \in 1..Len(fetches) /\ at[k] # i
  BY <1>4
<1>6. /\ nodes' \in [Nodes -> NodeState]
      /\ \A m \in Nodes \ {n} : nodes'[m] = nodes[m]
      /\ nodes[n].known => nodes'[n] = s
      /\ ~nodes[n].known => nodes'[n] = nodes[n] /\ nodes[n] = Absent
  BY <1>0 DEF Update, ManagerTypeOK, ClientInv
<1>7. ManagerTypeOK'
  <2>1. Len(fetches') + Len(sets) + (IF spin = NoNode THEN 0 ELSE 1) <= MaxFetches + MaxSets + 1
    BY <1>0, <1>1, <1>2, Constants, Calls DEF ManagerTypeOK
  <2>2. failures' \in 0..MaxFailures
    BY <1>0, Constants DEF ManagerTypeOK
  <2>. QED  BY <1>0, <1>2, <1>6, <2>1, <2>2 DEF ManagerTypeOK
<1>8. LoadingIsAnswered'
  <2>. SUFFICES ASSUME NEW m \in Nodes, nodes'[m].loading, nodes'[m].client = NewClient(m)
                PROVE  \E k \in 1..Len(fetches') : /\ fetches'[k].node = m
                                                  /\ fetches'[k].client = nodes'[m].client
    BY <1>3 DEF LoadingIsAnswered, NewClient
  <2>1. nodes[m].loading /\ nodes[m].client = nodes'[m].client
    BY <1>6 DEF Absent
  <2>2. PICK j \in 1..Len(fetches) : fetches[j].node = m /\ fetches[j].client = nodes[m].client
    BY <1>0, <1>1, <2>1 DEF LoadingIsAnswered
  <2>3. j # i
    BY <1>6, <2>1, <2>2 DEF Absent
  <2>. QED  BY <1>4, <2>1, <2>2, <2>3
<1>9. ClientInv'
  <2>1. \A m \in Nodes :
          /\ nodes'[m].client = "none" => nodes'[m] = Absent
          /\ ~nodes'[m].known => nodes'[m] = Absent
          /\ nodes'[m].client = "second" => m \in crashed /\ (nodes'[m].loading => m \in alive)
          /\ nodes'[m].known = nodes[m].known
    <3>1. nodes[n].known => nodes[n].client # "none"
      BY <1>0 DEF ClientInv, Absent
    <3>. QED  BY <1>0, <1>6, <3>1 DEF ClientInv
  <2>2. \A k \in 1..Len(fetches') :
          /\ fetches'[k].client # "none"
          /\ fetches'[k].client = "second" => fetches'[k].node \in crashed \intersect alive
          /\ fetches'[k].node \notin crashed => nodes'[fetches'[k].node].known
    <3>1. \A j \in 1..Len(fetches) :
            /\ fetches[j].client # "none"
            /\ fetches[j].client = "second" => fetches[j].node \in crashed \intersect alive
            /\ fetches[j].node \notin crashed => nodes'[fetches[j].node].known
      BY <1>0, <1>1, <2>1, Calls DEF ClientInv
    <3>. QED  BY <1>4, <1>5, <3>1
  <2>3. \A k \in 1..Len(sets) : sets[k].node \notin crashed => nodes'[sets[k].node].known
    BY <1>0, <2>1, Calls DEF ClientInv
  <2>4. spin \notin crashed \union {NoNode} => nodes'[spin].known
    BY <1>0, <2>1 DEF ClientInv, ManagerTypeOK
  <2>. QED  BY <1>0, <1>3, <2>1, <2>2, <2>3, <2>4, Calls DEF ClientInv
<1>10. NoneInv'
  <2>1. \A m \in Nodes : Kind[m] = "none" => nodes'[m].params = NoValue
    BY <1>0, <1>6 DEF NoneInv
  <2>2. \A m \in Nodes, k \in 1..Len(fetches') :
          Kind[m] = "none" /\ fetches'[k].node = m => fetches'[k].stage = 1
    BY <1>0, <1>1, <1>4, <1>5 DEF NoneInv
  <2>. QED  BY <1>3, <2>1, <2>2 DEF NoneInv
<1>11. FreshInv'
  <2>. DEFINE FreshNow(m) ==
                /\ \A k \in 1..Len(fetches') :
                     /\ fetches'[k].node = m /\ fetches'[k].stage > 2
                     /\ \A l \in 1..Len(fetches') : l > k => fetches'[l].node # m
                     => fetches'[k].value = remote[m]
                /\ \/ ~nodes'[m].loaded \/ nodes'[m].params = remote[m]
                   \/ \E k \in 1..Len(fetches') : fetches'[k].node = m
  <2>. SUFFICES ASSUME failures' = 0, NEW m \in Nodes \ crashed, Kind[m] # "none", ~Changed(m)
                PROVE  FreshNow(m)
    <3>1. \A m \in Nodes : Changed(m)' = Changed(m)
      BY DEF Changed
    <3>2. ASSUME NEW m \in Nodes, FreshNow(m) PROVE Fresh(m)'
      BY <1>3, <3>2 DEF Fresh
    <3>. HIDE DEF FreshNow
    <3>. QED  BY <3>1, <3>2 DEF FreshInv
  <2>1. failures = 0
    BY <1>0, Constants DEF ManagerTypeOK
  <2>2. /\ \A j \in 1..Len(fetches) :
             /\ fetches[j].node = m /\ fetches[j].stage > 2
             /\ \A k \in 1..Len(fetches) : k > j => fetches[k].node # m
             => fetches[j].value = remote[m]
        /\ \/ ~nodes[m].loaded \/ nodes[m].params = remote[m]
           \/ \E j \in 1..Len(fetches) : fetches[j].node = m
    BY <1>0, <1>1, <2>1 DEF FreshInv, Fresh
  <2>3. CASE m # n
    <3>1. \A j \in 1..Len(fetches) : fetches[j].node = m => j \in I
      BY <2>3
    <3>2. I \in SUBSET (1..Len(fetches))
      OBVIOUS
    <3>. HIDE DEF I
    <3>3. nodes'[m] = nodes[m] /\ remote'[m] = remote[m]
      BY <1>6, <2>3
    <3>4. Fresh(m)
      BY <1>1, <2>2 DEF Fresh
    <3>5. m \in Nodes /\ fetches' \in Seq(Fetches) /\ Thins(fetches', fetches, I)
      BY <1>2
    <3>6. Fresh(m)'
      BY <1>0, <3>1, <3>2, <3>3, <3>4, <3>5, FreshStays, Zenon
    <3>7. UNCHANGED remote
      OBVIOUS
    <3>. QED  BY <1>3, <3>6, <3>7 DEF Fresh
  <2>4. CASE m = n
    <3>1. /\ fetches[i].stage > 2 /\ s.params = fetches[i].value
          /\ \A j \in 1..Len(fetches) : j < i => fetches[j].node # n
      BY <2>4
    <3>2. nodes'[n] = s
      BY <1>0, <1>1, <1>6, <2>4 DEF ClientInv
    <3>3. CASE \E j \in 1..Len(fetches) : j > i /\ fetches[j].node = n
      <4>1. PICK j \in 1..Len(fetches) : j > i /\ fetches[j].node = n
        BY <3>3
      <4>2. \E k \in 1..Len(fetches') : fetches'[k].node = n
        BY <1>4, <4>1
      <4>3. ASSUME NEW k \in 1..Len(fetches'), fetches'[k].node = n, fetches'[k].stage > 2,
                   \A l \in 1..Len(fetches') : l > k => fetches'[l].node # n
            PROVE  fetches'[k].value = remote[n]
        <5>1. at[k] \in 1..Len(fetches) /\ fetches[at[k]] = fetches'[k] /\ at[k] # i
          BY <1>4, <1>5
        <5>2. at[k] > i
          BY <3>1, <4>3, <5>1
        <5>3. \A l \in 1..Len(fetches) : l > at[k] => fetches[l].node # n
          <6>. SUFFICES ASSUME NEW l \in 1..Len(fetches), l > at[k], fetches[l].node = n
                        PROVE  FALSE
            OBVIOUS
          <6>1. PICK l2 \in 1..Len(fetches') : at[l2] = l
            BY <1>4, <5>1, <5>2
          <6>2. k < l2
            BY <1>4, <6>1
          <6>3. fetches'[l2].node = n /\ l2 > k
            BY <1>4, <6>1, <6>2
          <6>. QED  BY <4>3, <6>1, <6>3
        <5>. QED  BY <2>2, <2>4, <4>3, <5>1, <5>3
      <4>. QED  BY <2>4, <4>2, <4>3
    <3>4. CASE ~\E j \in 1..Len(fetches) : j > i /\ fetches[j].node = n
      <4>1. fetches[i].value = remote[n]
        BY <2>2, <2>4, <3>1, <3>4
      <4>2. \A k \in 1..Len(fetches') : fetches'[k].node # n
        BY <1>4, <1>5, <3>1, <3>4
      <4>. QED  BY <2>4, <3>1, <3>2, <4>1, <4>2
    <3>. QED  BY <3>3, <3>4
  <2>. QED  BY <2>3, <2>4
<1>. QED  BY <1>7, <1>8, <1>9, <1>10, <1>11 DEF CallInv

\* The end of many calls at once: fetches that are not at the positions I and sets
\* that are not at the positions J, with the state of some nodes.
LEMMA ThinKeeps ==
  ASSUME CallInv, UNCHANGED <<spin, remote, failures>>,
         NEW I \in SUBSET (1..Len(fetches)), fetches' \in Seq(Fetches), Thins(fetches', fetches, I),
         NEW J \in SUBSET (1..Len(sets)), sets' \in Seq(Sets), Thins(sets', sets, J),
         nodes' \in [Nodes -> NodeState],
         \A m \in Nodes : nodes'[m] = nodes[m] \/ nodes'[m] = Absent,
         alive' \in SUBSET Nodes, crashed' \in SUBSET Nodes, crashed \subseteq crashed',
         \A m \in Nodes \ crashed' :
            /\ nodes'[m] = nodes[m]
            /\ \A i \in 1..Len(fetches) : fetches[i].node = m => i \in I
            /\ \A j \in 1..Len(sets) : sets[j].node = m => j \in J,
         \A i \in I : fetches[i].client = "second" => fetches[i].node \in alive',
         \A m \in Nodes : nodes'[m].loading =>
            /\ nodes'[m].client = "second" => m \in alive'
            /\ nodes'[m].client = NewClient(m)' =>
                  /\ nodes[m].client = NewClient(m)
                  /\ \A i \in 1..Len(fetches) : fetches[i].node = m => i \in I
  PROVE  CallInv'
<1>0. ManagerTypeOK /\ ClientInv /\ NoneInv /\ LoadingIsAnswered /\ FreshInv
  BY DEF CallInv
<1>1. PICK at \in [1..Len(fetches') -> I] :
        /\ \A k \in 1..Len(fetches') : fetches'[k] = fetches[at[k]]
        /\ \A k, l \in 1..Len(fetches') : k < l <=> at[k] < at[l]
        /\ \A i \in I : \E k \in 1..Len(fetches') : at[k] = i
  BY DEF Thins
<1>2. PICK to \in [1..Len(sets') -> J] :
        /\ \A k \in 1..Len(sets') : sets'[k] = sets[to[k]]
        /\ \A k, l \in 1..Len(sets') : k < l <=> to[k] < to[l]
        /\ \A j \in J : \E k \in 1..Len(sets') : to[k] = j
  BY DEF Thins
<1>3. /\ \A k \in 1..Len(fetches') : at[k] \in 1..Len(fetches) /\ at[k] \in I
      /\ \A k \in 1..Len(sets') : to[k] \in 1..Len(sets) /\ to[k] \in J
  BY <1>1, <1>2
<1>4. /\ DOMAIN fetches = 1..Len(fetches) /\ DOMAIN sets = 1..Len(sets)
      /\ DOMAIN fetches' = 1..Len(fetches') /\ DOMAIN sets' = 1..Len(sets')
  BY <1>0, Calls, Indices
<1>5. /\ \A i \in 1..Len(fetches) : fetches[i].node \in Nodes
      /\ \A i \in 1..Len(sets) : sets[i].node \in Nodes
  BY <1>0, Calls
<1>6. ManagerTypeOK'
  <2>1. /\ Len(fetches) \in Nat /\ Len(sets) \in Nat /\ Len(fetches') \in Nat /\ Len(sets') \in Nat
        /\ Len(fetches') <= Len(fetches) /\ Len(sets') <= Len(sets)
    BY <1>0, Calls, Indices DEF Thins
  <2>. DEFINE e == IF spin = NoNode THEN 0 ELSE 1
  <2>2. e \in Nat /\ e' = e
    OBVIOUS
  <2>3. Len(sets) <= MaxSets /\ Len(fetches) + Len(sets) + e <= MaxFetches + MaxSets + 1
    BY <1>0 DEF ManagerTypeOK
  <2>. HIDE DEF e
  <2>4. Len(sets') <= MaxSets /\ Len(fetches') + Len(sets') + e <= MaxFetches + MaxSets + 1
    BY <2>1, <2>2, <2>3, Constants
  <2>5. Len(fetches') + Len(sets') + (IF spin' = NoNode THEN 0 ELSE 1) <= MaxFetches + MaxSets + 1
    BY <2>4 DEF e
  <2>. QED  BY <1>0, <2>4, <2>5 DEF ManagerTypeOK
<1>7. LoadingIsAnswered'
  <2>. SUFFICES ASSUME NEW m \in Nodes, nodes'[m].loading, nodes'[m].client = NewClient(m)'
                PROVE  \E k \in 1..Len(fetches') : /\ fetches'[k].node = m
                                                  /\ fetches'[k].client = nodes'[m].client
    BY <1>4 DEF LoadingIsAnswered
  <2>1. nodes'[m] = nodes[m]
    BY DEF Absent
  <2>2. PICK i \in 1..Len(fetches) : fetches[i].node = m /\ fetches[i].client = nodes[m].client
    BY <1>0, <1>4, <2>1 DEF LoadingIsAnswered
  <2>3. i \in I
    BY <2>2
  <2>4. PICK k \in 1..Len(fetches') : at[k] = i
    BY <1>1, <2>3
  <2>5. fetches'[k] = fetches[i]
    BY <1>1, <2>4
  <2>. QED  BY <2>1, <2>2, <2>5
<1>8. ClientInv'
  <2>1. ASSUME NEW m \in Nodes
        PROVE  /\ nodes'[m].client = "none" => nodes'[m] = Absent
               /\ ~nodes'[m].known => nodes'[m] = Absent
               /\ nodes'[m].client = "second" =>
                     m \in crashed' /\ (nodes'[m].loading => m \in alive')
    <3>1. CASE nodes'[m] = Absent
      BY <3>1 DEF Absent
    <3>2. CASE nodes'[m] = nodes[m]
      BY <1>0, <3>2 DEF ClientInv
    <3>. QED  BY <3>1, <3>2
  <2>2. ASSUME NEW k \in 1..Len(fetches')
        PROVE  /\ fetches'[k].client # "none"
               /\ fetches'[k].client = "second" => fetches'[k].node \in crashed' \intersect alive'
               /\ fetches'[k].node \notin crashed' => nodes'[fetches'[k].node].known
    <3>1. fetches'[k] = fetches[at[k]] /\ at[k] \in 1..Len(fetches) /\ at[k] \in I
      BY <1>1, <1>3
    <3>. QED  BY <1>0, <1>4, <1>5, <3>1 DEF ClientInv
  <2>3. ASSUME NEW k \in 1..Len(sets'), sets'[k].node \notin crashed'
        PROVE  nodes'[sets'[k].node].known
    <3>1. sets'[k] = sets[to[k]] /\ to[k] \in 1..Len(sets)
      BY <1>2, <1>3
    <3>. QED  BY <1>0, <1>4, <1>5, <2>3, <3>1 DEF ClientInv
  <2>4. spin' \notin crashed' \union {NoNode} => nodes'[spin'].known
    BY <1>0 DEF ClientInv, ManagerTypeOK
  <2>. QED  BY <1>4, <2>1, <2>2, <2>3, <2>4 DEF ClientInv
<1>9. NoneInv'
  <2>. SUFFICES ASSUME NEW m \in Nodes, Kind[m] = "none"
                PROVE  /\ nodes'[m].params = NoValue
                       /\ \A k \in 1..Len(fetches') : fetches'[k].node = m => fetches'[k].stage = 1
    BY <1>4 DEF NoneInv
  <2>1. nodes'[m].params = NoValue
    BY <1>0 DEF NoneInv, Absent
  <2>2. \A k \in 1..Len(fetches') : fetches'[k].node = m => fetches'[k].stage = 1
    <3>. SUFFICES ASSUME NEW k \in 1..Len(fetches'), fetches'[k].node = m
                  PROVE  fetches'[k].stage = 1
      OBVIOUS
    <3>1. fetches'[k] = fetches[at[k]] /\ at[k] \in 1..Len(fetches)
      BY <1>1, <1>3
    <3>. QED  BY <1>0, <1>4, <3>1 DEF NoneInv
  <2>. QED  BY <2>1, <2>2
<1>10. FreshInv'
  <2>. SUFFICES ASSUME failures = 0, NEW m \in Nodes \ crashed', Kind[m] # "none", ~Changed(m)'
                PROVE  Fresh(m)'
    BY DEF FreshInv
  <2>1. ~Changed(m)
    <3>1. ASSUME NEW j \in 1..Len(sets), sets[j].node = m, sets[j].status = "accepted"
          PROVE  FALSE
      <4>1. \E k \in 1..Len(sets') : sets'[k] = sets[j]
        BY <1>2, <3>1
      <4>. QED  BY <1>4, <3>1, <4>1 DEF Changed
    <3>. QED  BY <1>4, <3>1 DEF Changed
  <2>2. Fresh(m)
    BY <1>0, <2>1 DEF FreshInv
  <2>3. m \in Nodes /\ nodes'[m] = nodes[m] /\ remote'[m] = remote[m]
        /\ \A i \in 1..Len(fetches) : fetches[i].node = m => i \in I
    OBVIOUS
  <2>. QED  BY <1>0, <2>2, <2>3, FreshStays, Zenon
<1>. QED  BY <1>6, <1>7, <1>8, <1>9, <1>10 DEF CallInv

\* What pruneNodes keeps is what the list names; a node that never crashed is there.
LEMMA PruneKeeps ==
  ASSUME CallInv, NEW listed \in SUBSET Nodes, Nodes \ crashed \subseteq listed,
         Prune(listed), UNCHANGED <<spin, remoteVars>>
  PROVE  CallInv'
<1>. USE DEF remoteVars
<1>0. ManagerTypeOK /\ ClientInv
  BY DEF CallInv
<1>. DEFINE kept == {n \in Nodes : n \in listed \/ Held(n, DOMAIN fetches)}
            I == {i \in 1..Len(fetches) : fetches[i].node \in kept}
            J == {j \in 1..Len(sets) : sets[j].node \in kept}
<1>1. /\ DOMAIN fetches = 1..Len(fetches) /\ DOMAIN sets = 1..Len(sets)
      /\ fetches \in Seq(Fetches) /\ sets \in Seq(Sets)
      /\ I \in SUBSET (1..Len(fetches)) /\ J \in SUBSET (1..Len(sets))
  BY <1>0, Calls DEF ManagerTypeOK
<1>2. /\ nodes' = [n \in Nodes |-> IF n \in listed THEN nodes[n] ELSE Absent]
      /\ fetches' = Pick(fetches, I) /\ sets' = Pick(sets, J)
  BY <1>1 DEF Prune
<1>3. /\ fetches' \in Seq(Fetches) /\ Thins(fetches', fetches, I)
      /\ sets' \in Seq(Sets) /\ Thins(sets', sets, J)
  <2>. HIDE DEF I, J
  <2>. QED  BY <1>1, <1>2, PickThins, Zenon
<1>4. \A i \in 1..Len(fetches) : fetches[i].node \in listed => i \in I
  OBVIOUS
<1>5. \A j \in 1..Len(sets) : sets[j].node \in listed => j \in J
  OBVIOUS
<1>. HIDE DEF I, J
<1>6. Absent \in NodeState
  BY Constants DEF Absent, NodeState, Clients
<1>7. nodes' \in [Nodes -> NodeState]
  BY <1>0, <1>2, <1>6 DEF ManagerTypeOK
<1>8. \A m \in Nodes : nodes'[m] = nodes[m] \/ nodes'[m] = Absent
  BY <1>2
<1>9. \A m \in Nodes \ crashed' :
        /\ nodes'[m] = nodes[m]
        /\ \A i \in 1..Len(fetches) : fetches[i].node = m => i \in I
        /\ \A j \in 1..Len(sets) : sets[j].node = m => j \in J
  BY <1>2, <1>4, <1>5
<1>10. \A i \in I : fetches[i].client = "second" => fetches[i].node \in alive'
  BY <1>0, <1>1 DEF ClientInv
<1>11. ASSUME NEW m \in Nodes, nodes'[m].loading
       PROVE  /\ nodes'[m].client = "second" => m \in alive'
              /\ nodes'[m].client = NewClient(m)' =>
                    /\ nodes[m].client = NewClient(m)
                    /\ \A i \in 1..Len(fetches) : fetches[i].node = m => i \in I
  <2>1. m \in listed /\ nodes'[m] = nodes[m]
    BY <1>2, <1>11 DEF Absent
  <2>. QED  BY <1>0, <1>4, <1>11, <2>1 DEF ClientInv, NewClient
<1>12. /\ alive' \in SUBSET Nodes /\ crashed' \in SUBSET Nodes /\ crashed \subseteq crashed'
       /\ UNCHANGED <<spin, remote, failures>>
  BY <1>0 DEF ManagerTypeOK
<1>. QED  BY <1>1, <1>3, <1>7, <1>8, <1>9, <1>10, <1>11, <1>12, ThinKeeps

\* A node that dies takes with it the calls it has not answered.
LEMMA CrashKeeps ==
  ASSUME CallInv, NEW n \in Nodes, Crash(n)
  PROVE  CallInv'
<1>. USE DEF Crash
<1>0. ManagerTypeOK /\ ClientInv
  BY DEF CallInv
<1>. DEFINE I == {i \in 1..Len(fetches) : fetches[i].node # n \/ Stages[fetches[i].stage] = "got"}
            J == {j \in 1..Len(sets) : sets[j].node # n \/ sets[j].status # "sent"}
<1>1. /\ DOMAIN fetches = 1..Len(fetches) /\ DOMAIN sets = 1..Len(sets)
      /\ fetches \in Seq(Fetches) /\ sets \in Seq(Sets)
      /\ I \in SUBSET (1..Len(fetches)) /\ J \in SUBSET (1..Len(sets))
  BY <1>0, Calls DEF ManagerTypeOK
<1>2. fetches' = Pick(fetches, I) /\ sets' = Pick(sets, J)
  BY <1>1
<1>3. /\ fetches' \in Seq(Fetches) /\ Thins(fetches', fetches, I)
      /\ sets' \in Seq(Sets) /\ Thins(sets', sets, J)
  <2>. HIDE DEF I, J
  <2>. QED  BY <1>1, <1>2, PickThins, Zenon
<1>4. \A i \in 1..Len(fetches) : fetches[i].node # n => i \in I
  OBVIOUS
<1>5. \A j \in 1..Len(sets) : sets[j].node # n => j \in J
  OBVIOUS
<1>. HIDE DEF I, J
<1>6. nodes' \in [Nodes -> NodeState] /\ \A m \in Nodes : nodes'[m] = nodes[m] \/ nodes'[m] = Absent
  BY <1>0 DEF ManagerTypeOK
<1>7. /\ alive' \in SUBSET Nodes /\ crashed' \in SUBSET Nodes /\ crashed \subseteq crashed'
      /\ UNCHANGED <<spin, remote, failures>>
  BY <1>0 DEF ManagerTypeOK
<1>8. \A m \in Nodes \ crashed' :
        /\ nodes'[m] = nodes[m]
        /\ \A i \in 1..Len(fetches) : fetches[i].node = m => i \in I
        /\ \A j \in 1..Len(sets) : sets[j].node = m => j \in J
  BY <1>4, <1>5
<1>9. \A i \in I : fetches[i].client = "second" => fetches[i].node \in alive'
  BY <1>0, <1>1 DEF ClientInv
<1>10. ASSUME NEW m \in Nodes, nodes'[m].loading
       PROVE  /\ nodes'[m].client = "second" => m \in alive'
              /\ nodes'[m].client = NewClient(m)' =>
                    /\ nodes[m].client = NewClient(m)
                    /\ \A i \in 1..Len(fetches) : fetches[i].node = m => i \in I
  <2>1. CASE m = n
    <3>1. nodes[m].client # "second" /\ NewClient(m)' = "second"
      BY <1>0, <2>1 DEF ClientInv, NewClient
    <3>. QED  BY <3>1
  <2>2. CASE m # n
    BY <1>0, <1>4, <1>10, <2>2 DEF ClientInv, NewClient
  <2>. QED  BY <2>1, <2>2
<1>. QED  BY <1>1, <1>3, <1>6, <1>7, <1>8, <1>9, <1>10, ThinKeeps

\* What changes the sets and what nodes have taken, and neither states nor fetches.
LEMMA SetsKeep ==
  ASSUME CallInv, UNCHANGED <<nodes, fetches, crashed, failures>>,
         ManagerTypeOK', alive \subseteq alive',
         \A m \in Nodes : Changed(m) => Changed(m)',
         \A m \in Nodes \ crashed : remote'[m] = remote[m] \/ Changed(m)',
         \A j \in 1..Len(sets') : sets'[j].node \notin crashed => nodes[sets'[j].node].known,
         spin' \notin crashed \union {NoNode} => nodes[spin'].known
  PROVE  CallInv'
<1>0. ManagerTypeOK /\ ClientInv /\ NoneInv /\ LoadingIsAnswered /\ FreshInv
  BY DEF CallInv
<1>1. DOMAIN sets' = 1..Len(sets')
  BY Indices DEF ManagerTypeOK
<1>2. LoadingIsAnswered'
  BY <1>0 DEF LoadingIsAnswered, NewClient
<1>3. ClientInv'
  BY <1>0, <1>1 DEF ClientInv
<1>4. NoneInv'
  BY <1>0 DEF NoneInv
<1>5. FreshInv'
  <2>. SUFFICES ASSUME failures = 0, NEW m \in Nodes \ crashed, Kind[m] # "none", ~Changed(m)'
                PROVE  Fresh(m)'
    BY DEF FreshInv
  <2>1. Fresh(m) /\ remote'[m] = remote[m]
    BY <1>0 DEF FreshInv
  <2>. QED  BY <2>1 DEF Fresh
<1>. QED  BY <1>2, <1>3, <1>4, <1>5 DEF CallInv

\* A set that is sent to a node, or lost with a node that died.
LEMMA SendKeeps ==
  ASSUME CallInv, NEW n \in Nodes, NEW value \in Values, NEW from \in {"edit", "toggle"},
         ~Refused(n, value), Len(sets) < MaxSets, Len(fetches) < MaxFetches,
         Send(n, value, from), UNCHANGED <<nodes, fetches, spin, remoteVars>>
  PROVE  CallInv'
<1>. USE DEF remoteVars
<1>0. ManagerTypeOK /\ ClientInv
  BY DEF CallInv
<1>1. CASE n \notin alive
  <2>1. UNCHANGED sets
    BY <1>1 DEF Send
  <2>2. ManagerTypeOK'
    BY <1>0, <2>1 DEF ManagerTypeOK
  <2>3. \A m \in Nodes : Changed(m) <=> Changed(m)'
    BY <2>1 DEF Changed
  <2>4. \A j \in 1..Len(sets) : sets[j].node \notin crashed => nodes[sets[j].node].known
    BY <1>0, Calls DEF ClientInv
  <2>5. spin \notin crashed \union {NoNode} => nodes[spin].known
    BY <1>0 DEF ClientInv
  <2>. QED  BY <2>1, <2>2, <2>3, <2>4, <2>5, SetsKeep
<1>2. CASE n \in alive
  <2>. DEFINE x == [node |-> n, client |-> nodes[n].client, value |-> value, from |-> from,
                    status |-> "sent"]
  <2>1. nodes[n] \in NodeState /\ sets \in Seq(Sets)
    BY <1>0 DEF ManagerTypeOK
  <2>2. x \in Sets /\ x.node = n /\ x.status = "sent"
    BY <2>1 DEF Sets, NodeState
  <2>3. sets' = Append(sets, x)
    BY <1>2 DEF Send
  <2>. HIDE DEF x
  <2>4. /\ sets' \in Seq(Sets) /\ Len(sets') = Len(sets) + 1
        /\ \A j \in 1..Len(sets) : sets'[j] = sets[j]
        /\ sets'[Len(sets) + 1] = x
    BY <2>1, <2>2, <2>3, Appending
  <2>5. /\ DOMAIN sets = 1..Len(sets) /\ Len(sets) \in Nat /\ Len(fetches) \in Nat
        /\ DOMAIN sets' = 1..Len(sets')
    BY <1>0, <2>4, Calls, Indices
  <2>6. ManagerTypeOK'
    <3>. DEFINE e == IF spin = NoNode THEN 0 ELSE 1
    <3>1. e \in {0, 1} /\ e' = e
      OBVIOUS
    <3>. HIDE DEF e
    <3>2. Len(sets') <= MaxSets /\ Len(fetches) + Len(sets') + e <= MaxFetches + MaxSets + 1
      BY <2>4, <2>5, <3>1, Constants
    <3>3. Len(fetches') + Len(sets') + (IF spin' = NoNode THEN 0 ELSE 1) <= MaxFetches + MaxSets + 1
      BY <3>2 DEF e
    <3>. QED  BY <1>0, <2>4, <3>2, <3>3 DEF ManagerTypeOK
  <2>7. \A m \in Nodes : Changed(m) => Changed(m)'
    BY <2>4, <2>5 DEF Changed
  <2>8. nodes[n].known
    BY <1>0 DEF Refused, ClientInv, Absent
  <2>9. \A j \in 1..Len(sets) : sets[j].node \notin crashed => nodes[sets[j].node].known
    BY <1>0, <2>5 DEF ClientInv
  <2>10. \A j \in 1..Len(sets') : j \in 1..Len(sets) \/ j = Len(sets) + 1
    BY <2>4, <2>5
  <2>11. \A j \in 1..Len(sets') : sets'[j].node \notin crashed => nodes[sets'[j].node].known
    BY <2>2, <2>4, <2>8, <2>9, <2>10
  <2>12. spin \notin crashed \union {NoNode} => nodes[spin].known
    BY <1>0 DEF ClientInv
  <2>. QED  BY <2>6, <2>7, <2>11, <2>12, SetsKeep
<1>. QED  BY <1>1, <1>2

\* The answer to a set: a value that the node takes is about to be fetched.
LEMMA AnswerSetKeeps ==
  ASSUME CallInv, NEW i \in 1..Len(sets), AnswerSet(i)
  PROVE  CallInv'
<1>0. ManagerTypeOK /\ ClientInv
  BY DEF CallInv
<1>1. /\ sets \in Seq(Sets) /\ DOMAIN sets = 1..Len(sets) /\ Len(sets) \in Nat
      /\ sets[i] \in Sets /\ sets[i].node \in Nodes /\ sets[i].value \in Values
  <2>1. sets[i] \in Sets
    BY <1>0, Calls
  <2>. QED  BY <1>0, <2>1, Calls DEF ManagerTypeOK, Sets
<1>2. PICK status \in {"accepted", "rejected"} :
        /\ sets' = [sets EXCEPT ![i].status = status]
        /\ \/ status = "accepted" /\ remote' = [remote EXCEPT ![sets[i].node] = sets[i].value]
           \/ status = "rejected" /\ UNCHANGED remote
  BY DEF AnswerSet
<1>. DEFINE x == [sets[i] EXCEPT !.status = status]
<1>3. x \in Sets /\ x.node = sets[i].node /\ x.status = status
  BY <1>1 DEF Sets
<1>4. sets' = [sets EXCEPT ![i] = x]
  BY <1>1, <1>2
<1>. HIDE DEF x
<1>5. /\ sets' \in Seq(Sets) /\ Len(sets') = Len(sets)
      /\ \A j \in 1..Len(sets) : sets'[j] = IF j = i THEN x ELSE sets[j]
  BY <1>1, <1>3, <1>4
<1>6. DOMAIN sets' = 1..Len(sets)
  BY <1>5, Indices
<1>7. remote' \in [Nodes -> Values]
  BY <1>0, <1>1, <1>2 DEF ManagerTypeOK
<1>8. /\ UNCHANGED <<nodes, fetches, spin, alive, crashed, failures>>
      /\ sets[i].status = "sent"
  BY DEF AnswerSet
<1>9. ManagerTypeOK'
  BY <1>0, <1>5, <1>7, <1>8 DEF ManagerTypeOK
<1>10. \A m \in Nodes : Changed(m) => Changed(m)'
  BY <1>1, <1>5, <1>6, <1>8 DEF Changed
<1>11. \A m \in Nodes \ crashed : remote'[m] = remote[m] \/ Changed(m)'
  <2>. SUFFICES ASSUME NEW m \in Nodes, remote'[m] # remote[m] PROVE Changed(m)'
    OBVIOUS
  <2>1. status = "accepted" /\ m = sets[i].node
    BY <1>0, <1>1, <1>2 DEF ManagerTypeOK
  <2>. QED  BY <1>3, <1>5, <1>6, <2>1 DEF Changed
<1>12. \A j \in 1..Len(sets') : sets'[j].node \notin crashed => nodes[sets'[j].node].known
  BY <1>0, <1>1, <1>3, <1>5 DEF ClientInv
<1>13. spin' \notin crashed \union {NoNode} => nodes[spin'].known
  BY <1>0, <1>8 DEF ClientInv
<1>. QED  BY <1>8, <1>9, <1>10, <1>11, <1>12, <1>13, SetsKeep

\* A node that took a value is about to be fetched.
LEMMA TakeAnswerKeeps ==
  ASSUME CallInv, NEW i \in 1..Len(sets), TakeAnswer(i), UNCHANGED <<nodes, fetches, remoteVars>>
  PROVE  CallInv'
<1>. USE DEF remoteVars
<1>0. ManagerTypeOK /\ ClientInv
  BY DEF CallInv
<1>1. /\ sets \in Seq(Sets) /\ DOMAIN sets = 1..Len(sets) /\ Len(sets) \in Nat
      /\ Len(fetches) \in Nat /\ sets[i].node \in Nodes
  BY <1>0, Calls DEF ManagerTypeOK
<1>2. /\ spin = NoNode /\ sets' = RemoveAt(sets, i)
      /\ spin' = IF sets[i].status = "accepted" THEN sets[i].node ELSE NoNode
  BY DEF TakeAnswer
<1>. DEFINE J == (1..Len(sets)) \ {i}
<1>3. sets' \in Seq(Sets) /\ Len(sets') = Len(sets) - 1 /\ Thins(sets', sets, J)
  BY <1>1, <1>2, RemoveThins
<1>4. PICK to \in [1..Len(sets') -> J] :
        /\ \A k \in 1..Len(sets') : sets'[k] = sets[to[k]]
        /\ \A k, l \in 1..Len(sets') : k < l <=> to[k] < to[l]
        /\ \A j \in J : \E k \in 1..Len(sets') : to[k] = j
  BY <1>3 DEF Thins
<1>5. \A k \in 1..Len(sets') : to[k] \in 1..Len(sets)
  BY <1>4
<1>6. DOMAIN sets' = 1..Len(sets')
  BY <1>3, Indices
<1>7. ManagerTypeOK'
  <2>. DEFINE e == IF spin = NoNode THEN 0 ELSE 1
  <2>1. e = 0 /\ e' \in {0, 1}
    BY <1>2
  <2>2. Len(sets) <= MaxSets /\ Len(fetches) + Len(sets) + e <= MaxFetches + MaxSets + 1
    BY <1>0 DEF ManagerTypeOK
  <2>. HIDE DEF e
  <2>3. Len(sets') <= MaxSets /\ Len(fetches') + Len(sets') + e' <= MaxFetches + MaxSets + 1
    BY <1>1, <1>3, <2>1, <2>2, Constants
  <2>4. Len(fetches') + Len(sets') + (IF spin' = NoNode THEN 0 ELSE 1) <= MaxFetches + MaxSets + 1
    BY <2>3 DEF e
  <2>. QED  BY <1>0, <1>1, <1>2, <1>3, <2>3, <2>4 DEF ManagerTypeOK
<1>8. \A m \in Nodes : Changed(m) => Changed(m)'
  <2>. SUFFICES ASSUME NEW m \in Nodes, Changed(m) PROVE Changed(m)'
    OBVIOUS
  <2>1. m # NoNode
    BY Constants
  <2>2. PICK j \in 1..Len(sets) : sets[j].node = m /\ sets[j].status = "accepted"
    BY <1>1, <1>2, <2>1 DEF Changed
  <2>3. CASE j = i
    BY <1>2, <2>2, <2>3 DEF Changed
  <2>4. CASE j # i
    <3>1. \E k \in 1..Len(sets') : sets'[k] = sets[j]
      BY <1>4, <2>4
    <3>. QED  BY <1>6, <2>2, <3>1 DEF Changed
  <2>. QED  BY <2>3, <2>4
<1>9. \A j \in 1..Len(sets) : sets[j].node \notin crashed => nodes[sets[j].node].known
  BY <1>0, <1>1 DEF ClientInv
<1>10. \A k \in 1..Len(sets') : sets'[k].node \notin crashed => nodes[sets'[k].node].known
  BY <1>4, <1>5, <1>9
<1>11. spin' \notin crashed \union {NoNode} => nodes[spin'].known
  BY <1>2, <1>9
<1>. QED  BY <1>7, <1>8, <1>10, <1>11, SetsKeep

\* A node that comes back is one that crashed.
LEMMA ComeBackKeeps ==
  ASSUME CallInv, NEW n \in crashed, ComeBack(n)
  PROVE  CallInv'
<1>. USE DEF ComeBack, managerVars
<1>0. ManagerTypeOK /\ ClientInv
  BY DEF CallInv
<1>1. n \in Nodes /\ remote \in [Nodes -> Values]
  BY <1>0 DEF ManagerTypeOK
<1>2. ManagerTypeOK'
  BY <1>0, <1>1, Constants DEF ManagerTypeOK
<1>3. \A m \in Nodes : Changed(m) => Changed(m)'
  BY DEF Changed
<1>4. \A m \in Nodes \ crashed : remote'[m] = remote[m]
  BY <1>1
<1>5. \A j \in 1..Len(sets') : sets'[j].node \notin crashed => nodes[sets'[j].node].known
  BY <1>0, Calls DEF ClientInv
<1>6. spin' \notin crashed \union {NoNode} => nodes[spin'].known
  BY <1>0 DEF ClientInv
<1>. QED  BY <1>2, <1>3, <1>4, <1>5, <1>6, SetsKeep

\* The passing of time changes when a fetch is throttled, and nothing else.
LEMMA IntervalKeeps ==
  ASSUME CallInv, NEW n \in Nodes, IntervalPasses(n)
  PROVE  CallInv'
<1>. USE DEF IntervalPasses, remoteVars
<1>0. ManagerTypeOK /\ ClientInv /\ NoneInv /\ LoadingIsAnswered /\ FreshInv
  BY DEF CallInv
<1>. DEFINE s == [nodes[n] EXCEPT !.recent = FALSE]
<1>1. nodes \in [Nodes -> NodeState] /\ nodes[n] \in NodeState
  BY <1>0 DEF ManagerTypeOK
<1>2. /\ s \in NodeState /\ s.known = nodes[n].known /\ s.client = nodes[n].client
      /\ s.loading = nodes[n].loading /\ s.loaded = nodes[n].loaded /\ s.params = nodes[n].params
  BY <1>1 DEF NodeState
<1>3. nodes' = [nodes EXCEPT ![n] = s]
  BY <1>1
<1>. HIDE DEF s
<1>4. /\ nodes' \in [Nodes -> NodeState]
      /\ \A m \in Nodes :
           /\ nodes'[m].known = nodes[m].known /\ nodes'[m].client = nodes[m].client
           /\ nodes'[m].loading = nodes[m].loading /\ nodes'[m].loaded = nodes[m].loaded
           /\ nodes'[m].params = nodes[m].params
           /\ nodes'[m] = nodes[m] \/ nodes[m].recent
  BY <1>1, <1>2, <1>3
<1>5. ManagerTypeOK'
  BY <1>0, <1>4 DEF ManagerTypeOK
<1>6. LoadingIsAnswered'
  BY <1>0, <1>4 DEF LoadingIsAnswered, NewClient
<1>7. ClientInv'
  <2>1. ASSUME NEW m \in Nodes
        PROVE  /\ nodes'[m].client = "none" => nodes'[m] = Absent
               /\ ~nodes'[m].known => nodes'[m] = Absent
               /\ nodes'[m].client = "second" => m \in crashed /\ (nodes'[m].loading => m \in alive)
    <3>1. ~Absent.recent
      BY DEF Absent
    <3>2. nodes[m] = Absent => nodes'[m] = Absent
      BY <1>4, <3>1, Zenon
    <3>. QED  BY <1>0, <1>4, <3>2 DEF ClientInv
  <2>2. \A i \in 1..Len(fetches) :
          fetches[i].node \notin crashed => nodes'[fetches[i].node].known
    BY <1>0, <1>4, Calls DEF ClientInv
  <2>3. \A j \in 1..Len(sets) : sets[j].node \notin crashed => nodes'[sets[j].node].known
    BY <1>0, <1>4, Calls DEF ClientInv
  <2>4. spin \notin crashed \union {NoNode} => nodes'[spin].known
    BY <1>0, <1>4 DEF ClientInv, ManagerTypeOK
  <2>. QED  BY <1>0, <2>1, <2>2, <2>3, <2>4, Calls DEF ClientInv
<1>8. NoneInv'
  BY <1>0, <1>4 DEF NoneInv
<1>9. FreshInv'
  BY <1>0, <1>4 DEF FreshInv, Fresh, Changed
<1>. QED  BY <1>5, <1>6, <1>7, <1>8, <1>9 DEF CallInv

\* The stage at which fetch i is, and what its client is.
LEMMA StageOf ==
  ASSUME ManagerTypeOK, NEW i \in DOMAIN fetches
  PROVE  /\ i \in 1..Len(fetches) /\ fetches[i] \in Fetches
         /\ At(i, "list") => fetches[i].stage = 1
         /\ At(i, "get") => fetches[i].stage = 2
         /\ At(i, "got") => fetches[i].stage = 3
         /\ At(i, "describe") => fetches[i].stage = 4
<1>1. i \in 1..Len(fetches) /\ fetches[i] \in Fetches /\ fetches[i].stage \in 1..4
  BY Calls
<1>. QED  BY <1>1, StageNames DEF At

\* A node that never crashed has one client.
LEMMA OneClient ==
  ASSUME ManagerTypeOK, ClientInv, NEW i \in 1..Len(fetches), fetches[i].node \notin crashed
  PROVE  fetches[i].client = "first" /\ nodes[fetches[i].node].client = "first"
<1>. DEFINE n == fetches[i].node
<1>1. n \in Nodes /\ fetches[i].client \in Clients /\ nodes[n] \in NodeState
      /\ DOMAIN fetches = 1..Len(fetches)
  BY Calls DEF ManagerTypeOK
<1>2. nodes[n].client \in Clients
  BY <1>1 DEF NodeState
<1>3. ~Absent.known
  BY DEF Absent
<1>4. fetches[i].client # "none" /\ fetches[i].client # "second"
  BY <1>1 DEF ClientInv
<1>5. nodes[n].known /\ nodes[n].client # "second"
  BY <1>1 DEF ClientInv
<1>6. nodes[n].client # "none"
  BY <1>1, <1>3, <1>5 DEF ClientInv
<1>. QED  BY <1>1, <1>2, <1>4, <1>5, <1>6 DEF Clients

\* list_parameters found names.
LEMMA ListedKeeps ==
  ASSUME CallInv, NEW i \in DOMAIN fetches, Listed(i)
  PROVE  CallInv'
<1>. DEFINE f == [fetches[i] EXCEPT !.stage = 2]
<1>0. ManagerTypeOK
  BY DEF CallInv
<1>1. i \in 1..Len(fetches) /\ fetches[i] \in Fetches /\ fetches[i].stage = 1
  BY <1>0, StageOf DEF Listed
<1>2. f \in Fetches /\ f.node = fetches[i].node /\ f.client = fetches[i].client /\ f.stage = 2
  BY <1>1 DEF Fetches
<1>3. fetches' = [fetches EXCEPT ![i] = f]
  BY <1>1 DEF Listed, Advance
<1>4. UNCHANGED <<nodes, sets, spin, remoteVars>> /\ Kind[f.node] # "none"
  BY <1>2 DEF Listed
<1>. HIDE DEF f
<1>5. f.stage <= 2
  BY <1>2
<1>. QED  BY <1>1, <1>2, <1>3, <1>4, <1>5, MoveKeeps

\* A node that has values reads the one it has now.
LEMMA AnswerGetKeeps ==
  ASSUME CallInv, NEW i \in DOMAIN fetches, AnswerGet(i)
  PROVE  CallInv'
<1>. DEFINE v == remote[fetches[i].node]
            g == [fetches[i] EXCEPT !.stage = 3]
            f == [g EXCEPT !.value = v]
<1>0. ManagerTypeOK /\ NoneInv
  BY DEF CallInv
<1>1. /\ i \in 1..Len(fetches) /\ fetches[i] \in Fetches /\ fetches[i].stage = 2
      /\ fetches[i].node \in Nodes /\ DOMAIN fetches = 1..Len(fetches)
  BY <1>0, StageOf, Calls DEF AnswerGet
<1>2. v \in Values \union {NoValue}
  BY <1>0, <1>1 DEF ManagerTypeOK
<1>3. g \in Fetches /\ g.node = fetches[i].node /\ g.client = fetches[i].client
  BY <1>1 DEF Fetches
<1>4. fetches' = [fetches EXCEPT ![i].stage = @ + 1, ![i].value = v]
  BY DEF AnswerGet
<1>5. fetches' = [fetches EXCEPT ![i] = f]
  <2>1. [fetches EXCEPT ![i].stage = @ + 1] = [fetches EXCEPT ![i] = g]
    BY <1>1
  <2>2. fetches' = [[fetches EXCEPT ![i].stage = @ + 1] EXCEPT ![i].value = v]
    BY <1>4
  <2>. DEFINE h == [fetches EXCEPT ![i] = g]
  <2>3. fetches' = [h EXCEPT ![i].value = v]
    BY <2>1, <2>2
  <2>4. h[i] = g
    BY <1>1
  <2>5. fetches' = [h EXCEPT ![i] = f]
    BY <2>3, <2>4
  <2>. HIDE DEF f, g
  <2>. QED  BY <1>1, <2>5
<1>. HIDE DEF g, v
<1>6. f \in Fetches /\ f.node = fetches[i].node /\ f.client = fetches[i].client /\ f.value = v
  BY <1>2, <1>3 DEF Fetches
<1>7. UNCHANGED <<nodes, sets, spin, remoteVars>>
  BY DEF AnswerGet
<1>8. Kind[fetches[i].node] # "none"
  BY <1>0, <1>1 DEF NoneInv
<1>. HIDE DEF f
<1>. QED  BY <1>1, <1>5, <1>6, <1>7, <1>8, MoveKeeps DEF v

\* The end of a fetch that has nothing to say about its node's value.
LEMMA ListedNoneKeeps ==
  ASSUME CallInv, NEW i \in DOMAIN fetches, ListedNone(i)
  PROVE  CallInv'
<1>. DEFINE n == fetches[i].node
            s == [nodes[n] EXCEPT !.params = NoValue, !.loaded = TRUE, !.loading = FALSE]
<1>0. ManagerTypeOK
  BY DEF CallInv
<1>1. i \in 1..Len(fetches) /\ n \in Nodes /\ nodes[n] \in NodeState
  BY <1>0, StageOf, Calls DEF ManagerTypeOK
<1>2. /\ s \in NodeState /\ s.known = nodes[n].known /\ s.client = nodes[n].client
      /\ s.loading = FALSE /\ s.params = NoValue
  BY <1>1 DEF NodeState
<1>3. Update(n, s) /\ Drop(i) /\ Kind[n] = "none" /\ UNCHANGED <<sets, spin, remoteVars>>
  BY DEF ListedNone
<1>4. failures' \in failures..MaxFailures
  BY <1>0, <1>3, Constants DEF ManagerTypeOK, remoteVars
<1>. HIDE DEF s
<1>5. n \in Nodes /\ n = fetches[i].node /\ UNCHANGED <<sets, spin, alive, remote, crashed>>
  BY <1>1, <1>3 DEF remoteVars
<1>. HIDE DEF n
<1>. QED  BY <1>1, <1>2, <1>3, <1>4, <1>5, DropKeeps

\* A call that fails clears the flag of its node, and counts as a failure.
LEMMA FailKeeps ==
  ASSUME CallInv, NEW i \in DOMAIN fetches, ListOrGetFails(i)
  PROVE  CallInv'
<1>. DEFINE n == fetches[i].node
            s == [nodes[n] EXCEPT !.loading = FALSE]
<1>0. ManagerTypeOK /\ NoneInv
  BY DEF CallInv
<1>1. i \in 1..Len(fetches) /\ n \in Nodes /\ nodes[n] \in NodeState
  BY <1>0, StageOf, Calls DEF ManagerTypeOK
<1>2. /\ s \in NodeState /\ s.known = nodes[n].known /\ s.client = nodes[n].client
      /\ s.loading = FALSE /\ s.params = nodes[n].params
  BY <1>1 DEF NodeState
<1>3. /\ Update(n, s) /\ Drop(i) /\ UNCHANGED <<sets, spin, alive, remote, crashed>>
      /\ failures < MaxFailures /\ failures' = failures + 1
  BY DEF ListOrGetFails
<1>4. failures' \in failures..MaxFailures /\ failures' # 0
  BY <1>0, <1>3, Constants DEF ManagerTypeOK
<1>5. Kind[n] = "none" => s.params = NoValue
  BY <1>0, <1>1, <1>2 DEF NoneInv
<1>. HIDE DEF s
<1>6. n \in Nodes /\ n = fetches[i].node
  BY <1>1
<1>. HIDE DEF n
<1>. QED  BY <1>1, <1>2, <1>3, <1>4, <1>5, <1>6, DropKeeps

\* The end of a fetch that was not overtaken: nothing older of its client is under way.
LEMMA DescribedKeeps ==
  ASSUME CallInv, NEW i \in DOMAIN fetches, Described(i)
  PROVE  CallInv'
<1>. DEFINE n == fetches[i].node
            s == [nodes[n] EXCEPT !.params = fetches[i].value, !.loaded = TRUE, !.loading = FALSE]
<1>0. ManagerTypeOK /\ NoneInv /\ ClientInv
  BY DEF CallInv
<1>1. /\ i \in 1..Len(fetches) /\ n \in Nodes /\ nodes[n] \in NodeState
      /\ fetches[i].stage = 4 /\ fetches[i].value \in Values \union {NoValue}
      /\ DOMAIN fetches = 1..Len(fetches)
  BY <1>0, StageOf, Calls DEF ManagerTypeOK, Described
<1>2. /\ s \in NodeState /\ s.known = nodes[n].known /\ s.client = nodes[n].client
      /\ s.loading = FALSE /\ s.params = fetches[i].value
  BY <1>1 DEF NodeState
<1>3. Update(n, s) /\ Drop(i) /\ Foremost(i) /\ UNCHANGED <<sets, spin, remoteVars>>
  BY DEF Described, At
<1>4. failures' \in failures..MaxFailures
  BY <1>0, <1>3, Constants DEF ManagerTypeOK, remoteVars
<1>5. Kind[n] # "none"
  BY <1>0, <1>1 DEF NoneInv
<1>6. ASSUME n \notin crashed, NEW j \in 1..Len(fetches), j < i, fetches[j].node = n
      PROVE  FALSE
  <2>1. fetches[j].client = "first" /\ fetches[i].client = "first"
    BY <1>0, <1>1, <1>6, OneClient
  <2>2. j \in 1..(i - 1)
    BY <1>1, <1>6
  <2>3. fetches[j].stage > 4 /\ fetches[j].stage \in 1..4
    BY <1>0, <1>1, <1>3, <1>6, <2>1, <2>2, Calls DEF Foremost
  <2>. QED  BY <2>3
<1>. HIDE DEF s
<1>7. n \in Nodes /\ n = fetches[i].node /\ UNCHANGED <<sets, spin, alive, remote, crashed>>
  BY <1>1, <1>3 DEF remoteVars
<1>8. n \notin crashed => /\ fetches[i].stage > 2
                          /\ \A j \in 1..Len(fetches) : j < i => fetches[j].node # n
  BY <1>1, <1>6
<1>. HIDE DEF n
<1>. QED  BY <1>1, <1>2, <1>3, <1>4, <1>5, <1>7, <1>8, DropKeeps

\* The values are taken, or lost with a client that a node of one life still holds.
LEMMA GotKeeps ==
  ASSUME CallInv, Nodes \ crashed \subseteq alive, NEW i \in DOMAIN fetches, Got(i)
  PROVE  CallInv'
<1>. DEFINE n == fetches[i].node
<1>0. ManagerTypeOK /\ NoneInv /\ ClientInv
  BY DEF CallInv
<1>1. /\ i \in 1..Len(fetches) /\ n \in Nodes /\ nodes[n] \in NodeState
      /\ fetches[i].stage = 3 /\ fetches[i] \in Fetches
      /\ DOMAIN fetches = 1..Len(fetches) /\ nodes \in [Nodes -> NodeState]
  BY <1>0, StageOf, Calls DEF ManagerTypeOK, Got
<1>2. UNCHANGED <<nodes, sets, spin, remoteVars>>
  BY DEF Got
<1>3. Kind[n] # "none"
  BY <1>0, <1>1 DEF NoneInv
<1>4. CASE Advance(i)
  <2>. DEFINE f == [fetches[i] EXCEPT !.stage = 4]
  <2>1. /\ f \in Fetches /\ f.node = n /\ f.client = fetches[i].client
        /\ f.value = fetches[i].value /\ fetches[i].stage > 2
    BY <1>1 DEF Fetches
  <2>2. fetches' = [fetches EXCEPT ![i] = f]
    BY <1>1, <1>4 DEF Advance
  <2>. HIDE DEF f
  <2>. QED  BY <1>1, <1>2, <1>3, <2>1, <2>2, MoveKeeps
<1>5. CASE Drop(i) /\ (n \in alive => nodes[n].client # fetches[i].client)
  <2>. DEFINE s == nodes[n]
  <2>1. Update(n, s)
    BY <1>1, <1>2 DEF Update
  <2>2. n \in crashed
    BY <1>0, <1>1, <1>5, OneClient
  <2>3. s.loading /\ s.client = NewClient(n) => s.client # fetches[i].client
    BY <1>0, <1>1, <1>5, <2>2 DEF NewClient, ClientInv
  <2>4. failures' \in failures..MaxFailures
    BY <1>0, <1>2, Constants DEF ManagerTypeOK, remoteVars
  <2>5. s \in NodeState /\ s.known = nodes[n].known /\ s.client = nodes[n].client
        /\ (s.loading => nodes[n].loading)
    BY <1>1
  <2>. HIDE DEF s
  <2>6. n \in Nodes /\ n = fetches[i].node /\ UNCHANGED <<sets, spin, alive, remote, crashed>>
    BY <1>1, <1>2 DEF remoteVars
  <2>. HIDE DEF n
  <2>. QED  BY <1>1, <1>3, <1>5, <2>1, <2>2, <2>3, <2>4, <2>5, <2>6, DropKeeps
<1>6. Advance(i) \/ (Drop(i) /\ (n \in alive => nodes[n].client # fetches[i].client))
  <2>0. \/ n \in alive /\ Advance(i)
        \/ ~(n \in alive /\ (nodes[n].client = fetches[i].client \/ Held(n, DOMAIN fetches \ {i})))
           /\ Drop(i)
    BY DEF Got
  <2>1. CASE n \in alive /\ nodes[n].client = fetches[i].client
    BY <2>0, <2>1, Zenon
  <2>2. CASE ~(n \in alive /\ nodes[n].client = fetches[i].client)
    BY <2>0, <2>2
  <2>. QED  BY <2>1, <2>2
<1>. QED  BY <1>4, <1>5, <1>6

\* A node that never crashed is there, and whatever the list of a tick says of it
\* stays so until the tick is over.
LEMMA Present ==
  ASSUME PInv
  PROVE  CallInv /\ ScreenTypeOK /\ PresenceInv /\ Nodes \ crashed \subseteq alive
  BY DEF PInv, CallInv, PresenceInv

\* Nothing is known, asked or shown at first.
LEMMA InitInv ==
  ASSUME PInit
  PROVE  PInv
<1>. USE Constants DEF PInit, ManagerInit
<1>1. Absent \in NodeState
  BY DEF Absent, NodeState, Clients
<1>2. ManagerTypeOK
  BY <1>1 DEF ManagerTypeOK
<1>3. ScreenTypeOK
  <2>1. names \in Seq(Nodes) /\ Len(names) = 0 /\ Len(Order) \in Nat
    BY Indices
  <2>2. Len(names) <= Len(Order)
    BY <2>1
  <2>3. graph \in SUBSET Nodes /\ range \in SUBSET Values /\ sel \in {1} \union 1..Len(Order)
    OBVIOUS
  <2>. QED  BY <2>1, <2>2, <2>3 DEF ScreenTypeOK
<1>4. LoadingIsAnswered
  BY DEF LoadingIsAnswered, Absent
<1>5. PresenceInv
  BY DEF PresenceInv
<1>6. \A n \in Nodes : nodes[n] = Absent
  OBVIOUS
<1>7. DOMAIN fetches = {} /\ DOMAIN sets = {} /\ spin = NoNode
  OBVIOUS
<1>8. ClientInv
  BY <1>6, <1>7 DEF ClientInv, Absent
<1>9. NoneInv
  BY <1>6, <1>7 DEF NoneInv, Absent
<1>10. FreshInv
  BY <1>6, <1>7 DEF FreshInv, Fresh, Absent
<1>. QED  BY <1>2, <1>3, <1>4, <1>5, <1>8, <1>9, <1>10 DEF PInv

\* The list of a tick: the nodes of the graph, sorted.
LEMMA ListOfGraph ==
  LET p == Pick(Order, {i \in DOMAIN Order : Order[i] \in graph})
  IN  p \in Seq(Nodes) /\ Len(p) <= Len(Order) /\ \A n \in Nodes \intersect graph : n \in ToSet(p)
<1>. DEFINE I == {i \in 1..Len(Order) : Order[i] \in graph}
            p == Pick(Order, I)
<1>1. Order \in Seq(Nodes) /\ DOMAIN Order = 1..Len(Order) /\ I \in SUBSET (1..Len(Order))
  BY Constants, Indices
<1>2. p \in Seq(Nodes) /\ Thins(p, Order, I)
  <2>. HIDE DEF I
  <2>. QED  BY <1>1, PickThins, Zenon
<1>3. ASSUME NEW n \in Nodes, n \in graph PROVE n \in ToSet(p)
  <2>1. PICK i \in 1..Len(Order) : Order[i] = n
    BY <1>1, OrderAssumption DEF ToSet
  <2>2. i \in I
    BY <1>3, <2>1
  <2>. HIDE DEF I, p
  <2>3. \E k \in 1..Len(p) : p[k] = Order[i]
    BY <1>2, <2>2 DEF Thins
  <2>. QED  BY <1>2, <2>1, <2>3, Indices DEF ToSet
<1>4. p = Pick(Order, {i \in DOMAIN Order : Order[i] \in graph})
  BY <1>1
<1>. HIDE DEF p, I
<1>5. Len(p) <= Len(Order)
  BY <1>2 DEF Thins
<1>. QED  BY <1>2, <1>3, <1>4, <1>5

\* A sequence of members of S has its set in S.
LEMMA SetOfSequence ==
  ASSUME NEW S, NEW s \in Seq(S)
  PROVE  ToSet(s) \in SUBSET S /\ \A i \in 1..Len(s) : s[i] \in S
  BY DEF ToSet

\* The calls of the manager stay as they are.
LEMMA CallsOnly ==
  ASSUME CallInv, UNCHANGED <<managerVars, remoteVars>>
  PROVE  CallInv'
<1>. USE DEF managerVars, remoteVars
<1>0. ManagerTypeOK /\ ClientInv /\ NoneInv /\ LoadingIsAnswered /\ FreshInv
  BY DEF CallInv
<1>1. ManagerTypeOK'
  BY <1>0 DEF ManagerTypeOK
<1>2. ClientInv'
  BY <1>0 DEF ClientInv
<1>3. NoneInv'
  BY <1>0 DEF NoneInv
<1>4. LoadingIsAnswered'
  BY <1>0 DEF LoadingIsAnswered, NewClient
<1>5. FreshInv'
  BY <1>0 DEF FreshInv, Fresh, Changed
<1>. QED  BY <1>1, <1>2, <1>3, <1>4, <1>5 DEF CallInv

\* The first part of a tick.
LEMMA TickListPreserves ==
  ASSUME PInv, TickList
  PROVE  PInv'
<1>. USE DEF TickList, TickDue
<1>0. CallInv /\ ScreenTypeOK /\ PresenceInv /\ Nodes \ crashed \subseteq alive
      /\ ManagerTypeOK
  BY Present DEF PInv
<1>1. names' \in Seq(Nodes) /\ Len(names') <= Len(Order)
      /\ \A n \in Nodes \intersect graph : n \in ToSet(names')
  BY ListOfGraph
<1>2. pending' \in BOOLEAN /\ overdue' \in BOOLEAN
  BY <1>0 DEF TimeOut, ScreenTypeOK
<1>3. ScreenTypeOK'
  BY <1>0, <1>1, <1>2 DEF ScreenTypeOK
<1>4. PresenceInv'
  BY <1>0, <1>1 DEF PresenceInv, remoteVars
<1>5. CallInv'
  <2>1. CASE sel <= Len(names')
    <3>1. names'[sel] \in Nodes
      <4>1. sel \in 1..Len(names')
        BY <1>0, <1>1, <2>1 DEF ScreenTypeOK
      <4>. QED  BY <1>1, <4>1
    <3>2. DoFetch(names'[sel], FALSE) /\ UNCHANGED <<sets, remoteVars>> /\ UNCHANGED spin
          /\ Len(fetches) < MaxFetches
      BY <2>1
    <3>. QED  BY <1>0, <3>1, <3>2, StartKeeps
  <2>2. CASE ~(sel <= Len(names'))
    <3>1. UNCHANGED <<managerVars, remoteVars>>
      BY <2>2 DEF managerVars
    <3>. QED  BY <1>0, <3>1, CallsOnly
  <2>. QED  BY <2>1, <2>2
<1>. QED  BY <1>3, <1>4, <1>5 DEF PInv, CallInv

\* The screen stays as it is.
LEMMA ScreenStays ==
  ASSUME ScreenTypeOK, UNCHANGED screenVars
  PROVE  ScreenTypeOK'
  BY DEF ScreenTypeOK, screenVars, editVars

\* Nodes, graph and list stay as they are.
LEMMA PresenceStays ==
  ASSUME PresenceInv, UNCHANGED <<alive, crashed, graph, names, ticking>>
  PROVE  PresenceInv'
  BY DEF PresenceInv

\* The second part of a tick.
LEMMA TickReadPreserves ==
  ASSUME PInv, TickRead
  PROVE  PInv'
<1>. USE DEF TickRead, managerVars, remoteVars, editVars
<1>0. CallInv /\ ScreenTypeOK /\ PresenceInv /\ ManagerTypeOK
  BY Present DEF PInv
<1>1. CallInv'
  BY <1>0, CallsOnly
<1>2. shown' \in [node : Nodes, value : Values \union {NoValue}] \union {NothingShown}
  <2>1. CASE Selected
    <3>1. names \in Seq(Nodes) /\ sel \in 1..Len(names)
      BY <1>0, <2>1 DEF Selected, ScreenTypeOK
    <3>2. names[sel] \in Nodes
      BY <3>1
    <3>3. nodes[names[sel]] \in NodeState
      BY <1>0, <3>2 DEF ManagerTypeOK
    <3>. QED  BY <2>1, <3>2, <3>3 DEF NodeState
  <2>2. CASE ~Selected
    BY <2>2
  <2>. QED  BY <2>1, <2>2
<1>3. ScreenTypeOK'
  BY <1>0, <1>2 DEF ScreenTypeOK
<1>4. PresenceInv'
  BY <1>0 DEF PresenceInv
<1>. QED  BY <1>1, <1>3, <1>4 DEF PInv, CallInv

\* The last part of a tick: what it prunes is not in the list it made.
LEMMA TickPrunePreserves ==
  ASSUME PInv, TickPrune
  PROVE  PInv'
<1>. USE DEF TickPrune, editVars
<1>0. CallInv /\ ScreenTypeOK /\ PresenceInv /\ ManagerTypeOK
  BY Present DEF PInv
<1>1. ToSet(names) \in SUBSET Nodes
  BY <1>0, SetOfSequence DEF ScreenTypeOK
<1>2. Nodes \ crashed \subseteq ToSet(names)
  BY <1>0 DEF PresenceInv
<1>3. CallInv'
  BY <1>0, <1>1, <1>2, PruneKeeps
<1>4. ScreenTypeOK'
  BY <1>0 DEF ScreenTypeOK
<1>5. PresenceInv'
  BY <1>0 DEF PresenceInv, remoteVars
<1>. QED  BY <1>3, <1>4, <1>5 DEF PInv, CallInv

\* Steps that leave the manager and the nodes alone.
LEMMA ScreenPreserves ==
  ASSUME PInv,
         \/ GraphRefreshed \/ DeadlinePasses \/ SelectTab \/ BeginEdit \/ Escape
         \/ \E i \in 1..Len(Order) : Select(i)
  PROVE  PInv'
<1>0. CallInv /\ ScreenTypeOK /\ PresenceInv /\ Nodes \ crashed \subseteq alive
  BY Present
<1>1. UNCHANGED <<managerVars, remoteVars>>
  BY DEF GraphRefreshed, DeadlinePasses, SelectTab, BeginEdit, Escape, Select
<1>2. CallInv'
  BY <1>0, <1>1, CallsOnly
<1>3. ScreenTypeOK'
  <2>1. CASE GraphRefreshed
    <3>1. alive \in SUBSET Nodes
      BY DEF PInv, ManagerTypeOK
    <3>. QED  BY <1>0, <2>1, <3>1 DEF GraphRefreshed, ScreenTypeOK, editVars
  <2>2. CASE DeadlinePasses
    BY <1>0, <2>2 DEF DeadlinePasses, ScreenTypeOK
  <2>3. CASE BeginEdit
    <3>1. shown.node \in Nodes
      BY <1>0, <2>3 DEF BeginEdit, ScreenTypeOK, NothingShown
    <3>2. Declared[shown.node] \in SUBSET Values
      BY <3>1, Constants
    <3>. QED  BY <1>0, <2>3, <3>2 DEF BeginEdit, ScreenTypeOK
  <2>4. CASE Escape
    BY <1>0, <2>4 DEF Escape, ScreenTypeOK
  <2>5. CASE \E i \in 1..Len(Order) : Select(i)
    BY <1>0, <2>5 DEF Select, ScreenTypeOK, editVars
  <2>6. CASE SelectTab
    BY <1>0, <2>6 DEF SelectTab, ScreenTypeOK, editVars
  <2>. QED  BY <2>1, <2>2, <2>3, <2>4, <2>5, <2>6
<1>4. PresenceInv'
  <2>1. CASE GraphRefreshed
    BY <1>0, <2>1 DEF GraphRefreshed, PresenceInv, remoteVars
  <2>2. CASE SelectTab
    BY <1>0, <2>2 DEF SelectTab, PresenceInv, remoteVars
  <2>3. CASE ~GraphRefreshed /\ ~SelectTab
    <3>1. UNCHANGED <<alive, crashed, graph, names, ticking>>
      BY <2>3 DEF DeadlinePasses, BeginEdit, Escape, Select, remoteVars
    <3>. QED  BY <1>0, <3>1, PresenceStays
  <2>. QED  BY <2>1, <2>2, <2>3
<1>. QED  BY <1>2, <1>3, <1>4 DEF PInv, CallInv

\* setParameter, from the key that toggles a boolean or that commits an edit.
LEMMA SetParameterKeeps ==
  ASSUME CallInv, NEW n \in Nodes, NEW value, NEW from \in {"edit", "toggle"},
         SetParameter(n, value, from), UNCHANGED <<nodes, fetches, spin, remoteVars>>,
         mutex \in {"free", "tick", "key"}
  PROVE  CallInv' /\ mutex' \in {"free", "tick", "key"}
<1>1. CASE Refused(n, value)
  <2>1. UNCHANGED <<managerVars, remoteVars>> /\ mutex' = "key"
    BY <1>1 DEF SetParameter, managerVars
  <2>. QED  BY <2>1, CallsOnly
<1>2. CASE ~Refused(n, value)
  <2>1. value \in Values
    BY <1>2 DEF Refused
  <2>2. /\ Len(sets) < MaxSets /\ Len(fetches) < MaxFetches
        /\ Send(n, value, from) /\ UNCHANGED mutex
    BY <1>2 DEF SetParameter
  <2>. QED  BY <1>2, <2>1, <2>2, SendKeeps
<1>. QED  BY <1>1, <1>2

\* The selection, when there is one, is a node.
LEMMA SelectedNode ==
  ASSUME ScreenTypeOK, Selected
  PROVE  names[sel] \in Nodes
<1>1. names \in Seq(Nodes) /\ sel \in 1..Len(names)
  BY DEF Selected, ScreenTypeOK
<1>. QED  BY <1>1

\* A boolean is toggled.
LEMMA TogglePreserves ==
  ASSUME PInv, Toggle
  PROVE  PInv'
<1>0. CallInv /\ ScreenTypeOK /\ PresenceInv
  BY Present
<1>1. /\ Selected
      /\ UNCHANGED <<nodes, fetches, spin, remoteVars, graph, names, sel, shown, editVars, displayed,
                     ticking>>
  BY DEF Toggle
<1>2. names[sel] \in Nodes
  BY <1>0, <1>1, SelectedNode
<1>3. PICK v \in Values : SetParameter(names[sel], v, "toggle")
  BY DEF Toggle
<1>4. CallInv' /\ mutex' \in {"free", "tick", "key"}
  BY <1>0, <1>1, <1>2, <1>3, SetParameterKeeps DEF ScreenTypeOK
<1>5. ScreenTypeOK'
  BY <1>0, <1>1, <1>4 DEF ScreenTypeOK, editVars
<1>6. PresenceInv'
  BY <1>0, <1>1, PresenceStays DEF remoteVars
<1>. QED  BY <1>4, <1>5, <1>6 DEF PInv, CallInv

\* An edit is committed.
LEMMA CommitPreserves ==
  ASSUME PInv, NEW t \in Texts, Commit(t)
  PROVE  PInv'
<1>0. CallInv /\ ScreenTypeOK /\ PresenceInv
  BY Present
<1>1. /\ Selected /\ SetParameter(names[sel], t, "edit")
      /\ pending' = TRUE /\ overdue' = FALSE
      /\ UNCHANGED <<nodes, fetches, spin, remoteVars, graph, names, sel, shown,
                     editing, range, displayed, ticking>>
  BY DEF Commit
<1>2. names[sel] \in Nodes
  BY <1>0, <1>1, SelectedNode
<1>4. CallInv' /\ mutex' \in {"free", "tick", "key"}
  BY <1>0, <1>1, <1>2, SetParameterKeeps DEF ScreenTypeOK
<1>5. ScreenTypeOK'
  BY <1>0, <1>1, <1>4 DEF ScreenTypeOK
<1>6. PresenceInv'
  BY <1>0, <1>1, PresenceStays DEF remoteVars
<1>. QED  BY <1>4, <1>5, <1>6 DEF PInv, CallInv

\* The callback of a set, on the manager's side and on the screen's.
LEMMA SetAnsweredPreserves ==
  ASSUME PInv, NEW i \in DOMAIN sets, SetAnswered(i)
  PROVE  PInv'
<1>0. CallInv /\ ScreenTypeOK /\ PresenceInv /\ ManagerTypeOK
  BY Present DEF PInv
<1>1. i \in 1..Len(sets)
  BY <1>0, Calls
<1>2. /\ TakeAnswer(i)
      /\ UNCHANGED <<nodes, fetches, remoteVars, graph, names, sel, shown, range, mutex,
                     displayed, ticking>>
  BY DEF SetAnswered
<1>3. CallInv'
  BY <1>0, <1>1, <1>2, TakeAnswerKeeps
<1>4. pending' \in BOOLEAN /\ overdue' \in BOOLEAN /\ editing' \in BOOLEAN
  BY <1>0 DEF SetAnswered, ScreenTypeOK
<1>5. ScreenTypeOK'
  BY <1>0, <1>2, <1>4 DEF ScreenTypeOK
<1>6. PresenceInv'
  BY <1>0, <1>2, PresenceStays DEF remoteVars
<1>. QED  BY <1>3, <1>5, <1>6 DEF PInv, CallInv

\* Steps that leave the screen alone.
LEMMA ManagerPreserves ==
  ASSUME PInv, UNCHANGED screenVars,
         \/ \E n \in Nodes : CallsOf(n)
         \/ Refresh \/ ForceRefresh
         \/ \E i \in DOMAIN fetches : ListOrGetFails(i)
         \/ \E i \in DOMAIN sets : AnswerSet(i)
         \/ \E n \in Nodes : IntervalPasses(n) \/ Crash(n) \/ ComeBack(n)
  PROVE  PInv'
<1>0. /\ CallInv /\ ScreenTypeOK /\ PresenceInv /\ Nodes \ crashed \subseteq alive
      /\ ManagerTypeOK
  BY Present DEF PInv
<1>1. CallInv'
  <2>1. CASE \E n \in Nodes : CallsOf(n)
    <3>1. PICK i \in DOMAIN fetches :
            Listed(i) \/ ListedNone(i) \/ AnswerGet(i) \/ Got(i) \/ Described(i)
      BY <2>1 DEF CallsOf
    <3>. QED  BY <1>0, <3>1, ListedKeeps, ListedNoneKeeps, AnswerGetKeeps, GotKeeps,
                 DescribedKeeps
  <2>2. CASE Refresh
    <3>1. /\ spin # NoNode /\ DoFetch(spin, TRUE) /\ spin' = NoNode
          /\ UNCHANGED <<sets, remoteVars>>
      BY <2>2 DEF Refresh, RefreshAfterSet
    <3>2. spin \in Nodes
      BY <1>0, <3>1 DEF ManagerTypeOK
    <3>. QED  BY <1>0, <3>1, <3>2, StartKeeps
  <2>3. CASE ForceRefresh
    <3>1. /\ Selected /\ Len(fetches) < MaxFetches /\ DoFetch(names[sel], TRUE)
          /\ UNCHANGED <<sets, remoteVars>> /\ UNCHANGED spin
      BY <2>3 DEF ForceRefresh
    <3>2. names[sel] \in Nodes
      BY <1>0, <3>1, SelectedNode
    <3>. QED  BY <1>0, <3>1, <3>2, StartKeeps
  <2>4. CASE \E i \in DOMAIN fetches : ListOrGetFails(i)
    BY <1>0, <2>4, FailKeeps
  <2>5. CASE \E i \in DOMAIN sets : AnswerSet(i)
    <3>1. DOMAIN sets = 1..Len(sets)
      BY <1>0, Calls
    <3>. QED  BY <1>0, <2>5, <3>1, AnswerSetKeeps
  <2>6. ASSUME NEW n \in Nodes, IntervalPasses(n) \/ Crash(n) \/ ComeBack(n)
        PROVE  CallInv'
    <3>1. ComeBack(n) => n \in crashed
      BY <1>0 DEF ComeBack
    <3>. QED  BY <1>0, <2>6, <3>1, IntervalKeeps, CrashKeeps, ComeBackKeeps
  <2>. QED  BY <2>1, <2>2, <2>3, <2>4, <2>5, <2>6
<1>2. ScreenTypeOK'
  BY <1>0, ScreenStays
<1>3. PresenceInv'
  <2>1. UNCHANGED <<graph, names, ticking>>
    BY DEF screenVars
  <2>2. crashed \subseteq crashed' /\ \A n \in Nodes : n \in alive => n \in alive' \union crashed'
    <3>1. CASE \E n \in Nodes : CallsOf(n)
      BY <3>1 DEF CallsOf, Listed, ListedNone, AnswerGet, Got, Described, remoteVars
    <3>2. CASE Refresh \/ ForceRefresh
      BY <3>2 DEF Refresh, RefreshAfterSet, ForceRefresh, remoteVars
    <3>3. CASE \E i \in DOMAIN fetches : ListOrGetFails(i)
      BY <3>3 DEF ListOrGetFails
    <3>4. CASE \E i \in DOMAIN sets : AnswerSet(i)
      BY <3>4 DEF AnswerSet
    <3>5. ASSUME NEW n \in Nodes, IntervalPasses(n) \/ Crash(n) \/ ComeBack(n)
          PROVE  crashed \subseteq crashed' /\ \A m \in Nodes : m \in alive => m \in alive' \union crashed'
      BY <3>5 DEF IntervalPasses, Crash, ComeBack, remoteVars, managerVars
    <3>. QED  BY <3>1, <3>2, <3>3, <3>4, <3>5
  <2>. QED  BY <1>0, <2>1, <2>2 DEF PresenceInv
<1>. QED  BY <1>1, <1>2, <1>3 DEF PInv, CallInv

\* Nothing happens.
LEMMA StutterPreserves ==
  ASSUME PInv, UNCHANGED pvars
  PROVE  PInv'
<1>0. CallInv /\ ScreenTypeOK /\ PresenceInv
  BY Present
<1>1. UNCHANGED <<managerVars, remoteVars>> /\ UNCHANGED screenVars
  BY DEF pvars
<1>2. UNCHANGED <<alive, crashed, graph, names, ticking>>
  BY <1>1 DEF remoteVars, screenVars
<1>. QED  BY <1>0, <1>1, <1>2, CallsOnly, ScreenStays, PresenceStays DEF PInv, CallInv

\* The threads, the keys, the nodes and their answers, in whatever order, keep the
\* invariant of the screen and of the manager it uses.
THEOREM ParametersAreRight == PSpec => []PInv
<1>1. PInit => PInv
  BY InitInv
<1>2. PInv /\ [PNext]_pvars => PInv'
  <2>. SUFFICES ASSUME PInv, [PNext]_pvars PROVE PInv'
    OBVIOUS
  <2>1. CASE UNCHANGED pvars
    BY <2>1, StutterPreserves
  <2>2. CASE Keys
    <3>1. ForceRefresh => UNCHANGED screenVars
      BY DEF ForceRefresh
    <3>. QED  BY <2>2, <3>1, ScreenPreserves, TogglePreserves, CommitPreserves, ManagerPreserves
                 DEF Keys
  <2>3. CASE Tick
    BY <2>3, TickListPreserves, TickReadPreserves, TickPrunePreserves DEF Tick
  <2>4. CASE GraphRefreshed \/ DeadlinePasses
    BY <2>4, ScreenPreserves
  <2>5. CASE Refresh
    BY <2>5, ManagerPreserves DEF Refresh
  <2>6. CASE \E n \in Nodes : CallsOf(n)
    <3>1. UNCHANGED screenVars
      BY <2>6 DEF CallsOf
    <3>. QED  BY <2>6, <3>1, ManagerPreserves
  <2>7. CASE \E i \in DOMAIN sets : SetAnswered(i)
    BY <2>7, SetAnsweredPreserves
  <2>8. CASE /\ \/ \E i \in DOMAIN fetches : ListOrGetFails(i)
                \/ \E i \in DOMAIN sets : AnswerSet(i)
                \/ \E n \in Nodes : IntervalPasses(n) \/ Crash(n) \/ ComeBack(n)
             /\ UNCHANGED screenVars
    BY <2>8, ManagerPreserves
  <2>. QED  BY <2>1, <2>2, <2>3, <2>4, <2>5, <2>6, <2>7, <2>8 DEF PNext
<1>. QED  BY <1>1, <1>2, PTL DEF PSpec

\* Nothing under way, so nothing about to be fetched: the cache is what it was last
\* told, and that is what the node has.
LEMMA QuietIsFresh ==
  ASSUME PInv
  PROVE  SetIsShown
<1>. SUFFICES ASSUME NEW n \in Nodes \ crashed, failures = 0, Quiet(n), nodes[n].loaded
              PROVE  nodes[n].params = IF Kind[n] = "none" THEN NoValue ELSE remote[n]
  BY DEF SetIsShown
<1>1. CASE Kind[n] = "none"
  BY <1>1 DEF PInv, NoneInv
<1>2. CASE Kind[n] # "none"
  <2>1. ~Changed(n)
    BY DEF Quiet, Changed
  <2>2. Fresh(n)
    BY <1>2, <2>1 DEF PInv, FreshInv
  <2>. QED  BY <1>2, <2>2 DEF Fresh, Quiet
<1>. QED  BY <1>1, <1>2

\* Once everything has been answered, the cache shows what was last set.
THEOREM SetsAreShown == PSpec => []SetIsShown
  BY ParametersAreRight, QuietIsFresh, PTL
==============================================================================
