--------------------------- MODULE SequenceLemmas ----------------------------
(***************************************************************************)
(* Facts about sequences, and about sums over finite sets, that the proofs *)
(* of several components need.                                             *)
(***************************************************************************)
EXTENDS Sequences, SequencesExt, FiniteSetTheorems, WellFoundedInduction, TLAPS

\* The length and the elements of a concatenation.
LEMMA Concatenation ==
  ASSUME NEW S, NEW s \in Seq(S), NEW t \in Seq(S)
  PROVE  /\ s \o t \in Seq(S)
         /\ Len(s \o t) = Len(s) + Len(t)
         /\ \A i \in 1..(Len(s) + Len(t)) :
               (s \o t)[i] = IF i <= Len(s) THEN s[i] ELSE t[i - Len(s)]
  OBVIOUS

\* The positions of a sequence.
LEMMA Indices ==
  ASSUME NEW S, NEW s \in Seq(S)
  PROVE  DOMAIN s = 1..Len(s) /\ Len(s) \in Nat /\ \A i \in 1..Len(s) : s[i] \in S
  OBVIOUS

\* What appending does to a sequence.
LEMMA Appending ==
  ASSUME NEW S, NEW s \in Seq(S), NEW x \in S
  PROVE  /\ Append(s, x) \in Seq(S) /\ Len(Append(s, x)) = Len(s) + 1
         /\ \A i \in 1..Len(s) : Append(s, x)[i] = s[i]
         /\ Append(s, x)[Len(s) + 1] = x
  OBVIOUS

\* How many numbers there are from one to m.
LEMMA CountOfInterval ==
  ASSUME NEW m \in Nat
  PROVE  IsFiniteSet(1..m) /\ Cardinality(1..m) = m
<1>1. 1 \in Int /\ m \in Int
  OBVIOUS
<1>2. IsFiniteSet(1..m) /\ Cardinality(1..m) = IF 1 > m THEN 0 ELSE m - 1 + 1
  BY <1>1, FS_Interval, Zenon
<1>. DEFINE c == Cardinality(1..m)
<1>3. c = IF 1 > m THEN 0 ELSE m - 1 + 1
  BY <1>2, Zenon
<1>. HIDE DEF c
<1>4. c = m
  BY <1>3
<1>. QED  BY <1>2, <1>4, Zenon DEF c

\* p has the elements of s at the positions in I, in their order.
Thins(p, s, I) ==
  /\ Len(p) <= Len(s)
  /\ \E at \in [1..Len(p) -> I] :
        /\ \A k \in 1..Len(p) : p[k] = s[at[k]]
        /\ \A k, l \in 1..Len(p) : k < l <=> at[k] < at[l]
        /\ \A i \in I : \E k \in 1..Len(p) : at[k] = i

\* Removing an element keeps the others.
LEMMA RemoveThins ==
  ASSUME NEW S, NEW s \in Seq(S), NEW i \in 1..Len(s)
  PROVE  /\ RemoveAt(s, i) \in Seq(S) /\ Len(RemoveAt(s, i)) = Len(s) - 1
         /\ Thins(RemoveAt(s, i), s, (1..Len(s)) \ {i})
<1>. DEFINE p == RemoveAt(s, i)
            at == [k \in 1..(Len(s) - 1) |-> IF k < i THEN k ELSE k + 1]
            I == (1..Len(s)) \ {i}
<1>1. SubSeq(s, 1, i - 1) \in Seq(S) /\ Len(SubSeq(s, 1, i - 1)) = i - 1
  OBVIOUS
<1>2. SubSeq(s, i + 1, Len(s)) \in Seq(S) /\ Len(SubSeq(s, i + 1, Len(s))) = Len(s) - i
  OBVIOUS
<1>. DEFINE left == SubSeq(s, 1, i - 1)
            right == SubSeq(s, i + 1, Len(s))
<1>3. /\ \A k \in 1..(i - 1) : left[k] = s[k]
      /\ \A k \in 1..(Len(s) - i) : right[k] = s[k + i]
  OBVIOUS
<1>. HIDE DEF left, right
<1>4. p = left \o right
  BY DEF RemoveAt, left, right
<1>. HIDE DEF p
<1>10. /\ p \in Seq(S) /\ Len(p) = Len(s) - 1
       /\ \A k \in 1..(Len(s) - 1) : p[k] = IF k <= i - 1 THEN left[k] ELSE right[k - (i - 1)]
  <2>1. left \in Seq(S) /\ right \in Seq(S) /\ Len(left) = i - 1 /\ Len(right) = Len(s) - i
    BY <1>1, <1>2 DEF left, right
  <2>2. /\ p \in Seq(S) /\ Len(p) = Len(left) + Len(right)
        /\ \A k \in 1..(Len(left) + Len(right)) : p[k] = IF k <= Len(left) THEN left[k] ELSE right[k - Len(left)]
    BY <1>4, <2>1, Concatenation
  <2>3. Len(left) + Len(right) = Len(s) - 1
    BY <2>1
  <2>. QED  BY <2>1, <2>2, <2>3
<1>11. \A k \in 1..(Len(s) - 1) : p[k] = s[IF k < i THEN k ELSE k + 1]
  <2>. SUFFICES ASSUME NEW k \in 1..(Len(s) - 1) PROVE p[k] = s[IF k < i THEN k ELSE k + 1]
    OBVIOUS
  <2>1. CASE k < i
    BY <1>3, <1>10, <2>1
  <2>2. CASE ~(k < i)
    <3>1. k - (i - 1) \in 1..(Len(s) - i) /\ k - (i - 1) + i = k + 1
      BY <2>2
    <3>2. p[k] = right[k - (i - 1)] /\ right[k - (i - 1)] = s[k - (i - 1) + i]
      BY <1>3, <1>10, <2>2, <3>1
    <3>. QED  BY <2>2, <3>1, <3>2
  <2>. QED  BY <2>1, <2>2
<1>5. at \in [1..(Len(s) - 1) -> I]
  OBVIOUS
<1>6. \A k, l \in 1..(Len(s) - 1) : k < l <=> at[k] < at[l]
  OBVIOUS
<1>7. \A j \in I : \E k \in 1..(Len(s) - 1) : at[k] = j
  <2>. SUFFICES ASSUME NEW j \in I PROVE \E k \in 1..(Len(s) - 1) : at[k] = j
    OBVIOUS
  <2>1. CASE j < i
    <3>1. j \in 1..(Len(s) - 1) /\ at[j] = j
      BY <2>1
    <3>. QED  BY <3>1
  <2>2. CASE j > i
    <3>1. j - 1 \in 1..(Len(s) - 1) /\ at[j - 1] = j
      BY <2>2
    <3>. QED  BY <3>1
  <2>. QED  BY <2>1, <2>2
<1>8. \A k \in 1..(Len(s) - 1) : p[k] = s[at[k]]
  BY <1>11
<1>. HIDE DEF at, I
<1>9. Len(p) <= Len(s)
  BY <1>10
<1>12. \E h \in [1..Len(p) -> I] :
        /\ \A k \in 1..Len(p) : p[k] = s[h[k]]
        /\ \A k, l2 \in 1..Len(p) : k < l2 <=> h[k] < h[l2]
        /\ \A j \in I : \E k \in 1..Len(p) : h[k] = j
  BY <1>10, <1>5, <1>6, <1>7, <1>8
<1>. QED  BY <1>10, <1>9, <1>12 DEF Thins, p, I

-----------------------------------------------------------------------------
\* A set of numbers has a least one.
LEMMA NatMin ==
  ASSUME NEW T, T \subseteq Nat, T # {}
  PROVE  \E x \in T : \A y \in T : x <= y
<1>. DEFINE R == OpToRel(<, Nat)
<1>1. \E x \in T : \A y \in T : <<y, x>> \notin R
  BY NatLessThanWellFounded, WFMin
<1>2. \A x, y \in Nat : <<y, x>> \in R <=> y < x
  BY DEF OpToRel
<1>. HIDE DEF R
<1>3. PICK x \in T : \A y \in T : <<y, x>> \notin R
  BY <1>1
<1>4. ASSUME NEW y \in T PROVE x <= y
  <2>1. x \in Nat /\ y \in Nat /\ ~(y < x)
    BY <1>2, <1>3
  <2>. QED  BY <2>1
<1>. QED  BY <1>4

\* Induction over numbers, said of a set.
LEMMA SetInduction ==
  ASSUME NEW S, 0 \in S, \A n \in Nat : n \in S => n + 1 \in S
  PROVE  Nat \subseteq S
<1>. SUFFICES ASSUME NEW n0 \in Nat, n0 \notin S PROVE FALSE
  OBVIOUS
<1>. DEFINE T == Nat \ S
<1>1. PICK x \in T : \A y \in T : x <= y
  BY NatMin
<1>2. x # 0
  OBVIOUS
<1>3. x - 1 \in Nat /\ x - 1 \notin T
  BY <1>1, <1>2
<1>4. x - 1 \in S /\ (x - 1) + 1 = x
  BY <1>3
<1>. QED  BY <1>3, <1>4

\* A function on the numbers from one to m is a sequence.
LEMMA FunctionIsSeq ==
  ASSUME NEW S, NEW m \in Nat, NEW f \in [1..m -> S]
  PROVE  f \in Seq(S) /\ Len(f) = m
  OBVIOUS

\* Sequences with the same elements are the same.
LEMMA Alike ==
  ASSUME NEW S, NEW s \in Seq(S), NEW t \in Seq(S), Len(s) = Len(t),
         \A i \in 1..Len(s) : s[i] = t[i]
  PROVE  s = t
  OBVIOUS

\* The sequences in s are cut out of the first n elements of w, one after the other.
CutOut(S, s, n, w, cut) ==
  /\ s \in Seq(Seq(S)) /\ n \in Nat /\ \A k \in 1..n : w[k] \in S
  /\ cut \in [0..Len(s) -> 0..n] /\ cut[0] = 0
  /\ \A i \in 1..Len(s) :
       /\ cut[i] = cut[i - 1] + Len(s[i])
       /\ \A k \in 1..Len(s[i]) : s[i][k] = w[cut[i - 1] + k]

\* Such sequences are together what they are cut out of.
LEMMA Flattening ==
  ASSUME NEW S, NEW s, NEW n, NEW w, NEW cut, CutOut(S, s, n, w, cut)
  PROVE  /\ FlattenSeq(s) \in Seq(S) /\ Len(FlattenSeq(s)) = cut[Len(s)]
         /\ \A k \in 1..cut[Len(s)] : FlattenSeq(s)[k] = w[k]
<1>0. /\ s \in Seq(Seq(S)) /\ n \in Nat /\ \A k \in 1..n : w[k] \in S
      /\ cut \in [0..Len(s) -> 0..n] /\ cut[0] = 0
      /\ \A i \in 1..Len(s) :
           /\ cut[i] = cut[i - 1] + Len(s[i])
           /\ \A k \in 1..Len(s[i]) : s[i][k] = w[cut[i - 1] + k]
  BY DEF CutOut
<1>. USE <1>0
<1>. DEFINE L == Len(s)
            Eqn(f) == f = [i \in 1..L |-> IF i = 1 THEN s[i] ELSE f[i - 1] \o s[i]]
            Upto(i) == [k \in 1..cut[i] |-> w[k]]
            G == [i \in 1..L |-> Upto(i)]
<1>1. L \in Nat /\ \A i \in 1..L : s[i] \in Seq(S) /\ Len(s[i]) \in Nat
  OBVIOUS
<1>2. FlattenSeq(s) = IF L = 0 THEN s ELSE (CHOOSE f : Eqn(f))[L]
  BY DEF FlattenSeq
<1>3. ASSUME NEW i \in 0..L
      PROVE  /\ cut[i] \in 0..n /\ Upto(i) \in Seq(S) /\ Len(Upto(i)) = cut[i]
             /\ \A k \in 1..cut[i] : Upto(i)[k] = w[k]
  <2>1. cut[i] \in 0..n
    OBVIOUS
  <2>2. \A k \in 1..cut[i] : w[k] \in S
    BY <2>1
  <2>3. Upto(i) \in [1..cut[i] -> S]
    BY <2>2
  <2>4. \A k \in 1..cut[i] : Upto(i)[k] = w[k]
    OBVIOUS
  <2>. HIDE DEF Upto
  <2>5. cut[i] \in Nat
    BY <2>1
  <2>6. Upto(i) \in Seq(S) /\ Len(Upto(i)) = cut[i]
    BY <2>3, <2>5, FunctionIsSeq
  <2>. QED  BY <2>1, <2>4, <2>6
<1>. HIDE DEF Upto
<1>4. ASSUME NEW i \in 1..L PROVE Upto(i - 1) \o s[i] = Upto(i)
  <2>1. i - 1 \in 0..L /\ i \in 0..L
    BY <1>1
  <2>2. /\ cut[i] = cut[i - 1] + Len(s[i]) /\ cut[i - 1] \in Nat /\ Len(s[i]) \in Nat
        /\ \A k \in 1..Len(s[i]) : s[i][k] = w[cut[i - 1] + k]
    <3>1. cut[i] = cut[i - 1] + Len(s[i]) /\ Len(s[i]) \in Nat
      BY <1>1
    <3>2. cut[i - 1] \in Nat
      BY <1>3, <2>1
    <3>. QED  BY <3>1, <3>2
  <2>. DEFINE p == Upto(i - 1) \o s[i]
  <2>3. /\ p \in Seq(S) /\ Len(p) = cut[i]
        /\ \A k \in 1..cut[i] :
              p[k] = IF k <= cut[i - 1] THEN Upto(i - 1)[k] ELSE s[i][k - cut[i - 1]]
    <3>1. /\ p \in Seq(S) /\ Len(p) = Len(Upto(i - 1)) + Len(s[i])
          /\ \A k \in 1..(Len(Upto(i - 1)) + Len(s[i])) :
                p[k] = IF k <= Len(Upto(i - 1)) THEN Upto(i - 1)[k]
                       ELSE s[i][k - Len(Upto(i - 1))]
      <4>1. s[i] \in Seq(S) /\ Upto(i - 1) \in Seq(S)
        BY <1>1, <1>3, <2>1
      <4>. DEFINE a == Upto(i - 1)
                  b == s[i]
      <4>2. a \in Seq(S) /\ b \in Seq(S) /\ p = a \o b
        BY <4>1
      <4>. HIDE DEF a, b, p
      <4>3. /\ p \in Seq(S) /\ Len(p) = Len(a) + Len(b)
            /\ \A k \in 1..(Len(a) + Len(b)) : p[k] = IF k <= Len(a) THEN a[k] ELSE b[k - Len(a)]
        BY <4>2, Concatenation
      <4>. QED  BY <4>3, Zenon DEF a, b
    <3>2. Len(Upto(i - 1)) = cut[i - 1]
      BY <1>3, <2>1
    <3>. QED  BY <2>2, <3>1, <3>2
  <2>. HIDE DEF p
  <2>4. ASSUME NEW k \in 1..cut[i] PROVE p[k] = Upto(i)[k]
    <3>1. CASE k <= cut[i - 1]
      <4>1. k \in 1..cut[i - 1]
        BY <2>2, <3>1
      <4>2. Upto(i - 1)[k] = w[k] /\ Upto(i)[k] = w[k]
        BY <1>3, <2>1, <4>1
      <4>. QED  BY <2>3, <3>1, <4>2
    <3>2. CASE ~(k <= cut[i - 1])
      <4>. DEFINE a == cut[i - 1]
                  b == Len(s[i])
      <4>3. a \in Nat /\ b \in Nat /\ k \in 1..(a + b) /\ ~(k <= a)
        BY <2>2, <3>2, Zenon
      <4>. HIDE DEF a, b
      <4>4. k - a \in 1..b /\ a + (k - a) = k
        BY <4>3
      <4>1. k - cut[i - 1] \in 1..Len(s[i]) /\ cut[i - 1] + (k - cut[i - 1]) = k
        BY <4>4, Zenon DEF a, b
      <4>2. s[i][k - cut[i - 1]] = w[k]
        BY <2>2, <4>1
      <4>. QED  BY <1>3, <2>1, <2>3, <3>2, <4>2
    <3>. QED  BY <3>1, <3>2
  <2>5. Upto(i) \in Seq(S) /\ Len(Upto(i)) = cut[i]
    BY <1>3, <2>1
  <2>6. p = Upto(i)
    BY <2>3, <2>4, <2>5, Alike
  <2>. QED  BY <2>6 DEF p
<1>5. ASSUME L # 0 PROVE Upto(1) = s[1]
  <2>1. 1 \in 1..L /\ 0 \in 0..L /\ 1 - 1 = 0
    BY <1>1, <1>5
  <2>2. Len(Upto(0)) = 0 /\ Upto(0) \in Seq(S)
    BY <1>3, <2>1
  <2>3. Upto(0) = << >>
    BY <2>2
  <2>4. << >> \o s[1] = s[1]
    BY <1>1, <2>1
  <2>. QED  BY <1>4, <2>1, <2>3, <2>4
<1>6. Eqn(G)
  <2>1. \A i \in 1..L : Upto(i) = IF i = 1 THEN s[i] ELSE G[i - 1] \o s[i]
    <3>. SUFFICES ASSUME NEW i \in 1..L
                  PROVE  Upto(i) = IF i = 1 THEN s[i] ELSE G[i - 1] \o s[i]
      OBVIOUS
    <3>1. CASE i = 1
      BY <1>1, <1>5, <3>1
    <3>2. CASE i # 1
      <4>1. i - 1 \in 1..L
        BY <1>1, <3>2
      <4>2. G[i - 1] = Upto(i - 1)
        BY <4>1
      <4>. QED  BY <1>4, <3>2, <4>2
    <3>. QED  BY <3>1, <3>2
  <2>. QED  BY <2>1, Zenon
<1>7. ASSUME NEW f, Eqn(f), NEW i \in 1..L PROVE f[i] = Upto(i)
  <2>. DEFINE T == {j \in Nat : j \in 1..L => f[j] = Upto(j)}
  <2>1. \A j \in 1..L : f[j] = IF j = 1 THEN s[j] ELSE f[j - 1] \o s[j]
    BY <1>7
  <2>2. \A j \in Nat : j \in T => j + 1 \in T
    <3>. SUFFICES ASSUME NEW j \in Nat, j \in T, j + 1 \in 1..L PROVE f[j + 1] = Upto(j + 1)
      OBVIOUS
    <3>1. CASE j = 0
      BY <1>1, <1>5, <2>1, <3>1
    <3>2. CASE j # 0
      <4>1. j \in 1..L /\ (j + 1) - 1 = j /\ j + 1 # 1
        BY <1>1, <3>2
      <4>2. f[j] = Upto(j)
        BY <4>1
      <4>3. f[j + 1] = f[j] \o s[j + 1]
        BY <2>1, <4>1
      <4>4. Upto(j) \o s[j + 1] = Upto(j + 1)
        BY <1>4, <4>1
      <4>. QED  BY <4>2, <4>3, <4>4
    <3>. QED  BY <3>1, <3>2
  <2>3. 0 \in T
    OBVIOUS
  <2>. HIDE DEF T
  <2>4. Nat \subseteq T
    BY <2>2, <2>3, SetInduction
  <2>5. i \in T
    BY <1>1, <2>4
  <2>. QED  BY <2>5 DEF T
<1>. HIDE DEF Eqn, G
<1>8. ASSUME L = 0 PROVE FlattenSeq(s) = Upto(L)
  <2>1. s = << >>
    BY <1>1, <1>8
  <2>2. Upto(0) = << >>
    <3>1. 0 \in 0..L
      BY <1>1
    <3>2. Upto(0) \in Seq(S) /\ Len(Upto(0)) = 0
      BY <1>3, <3>1
    <3>. QED  BY <3>2
  <2>. QED  BY <1>2, <1>8, <2>1, <2>2
<1>9. ASSUME L # 0 PROVE FlattenSeq(s) = Upto(L)
  <2>1. Eqn(CHOOSE f : Eqn(f))
    BY <1>6
  <2>2. L \in 1..L
    BY <1>1, <1>9
  <2>. QED  BY <1>2, <1>7, <1>9, <2>1, <2>2
<1>10. FlattenSeq(s) = Upto(L)
  BY <1>8, <1>9
<1>11. L \in 0..L
  BY <1>1
<1>. QED  BY <1>3, <1>10, <1>11, Zenon

\* A sequence that is another one from some place on is a suffix of it.
LEMMA FromSomewhereOn ==
  ASSUME NEW S, NEW s \in Seq(S), NEW t \in Seq(S), NEW c \in Nat, Len(t) = c + Len(s),
         \A k \in 1..Len(s) : s[k] = t[c + k]
  PROVE  IsSuffix(s, t)
<1>. DEFINE a == Reverse(s)
            b == Reverse(t)
            x == SubSeq(a, 1, Len(s))
            y == SubSeq(b, 1, Len(s))
<1>1. Len(s) \in Nat /\ Len(t) \in Nat
  OBVIOUS
<1>2. \A r \in Seq(S) : /\ Reverse(r) \in Seq(S) /\ Len(Reverse(r)) = Len(r)
                        /\ \A i \in 1..Len(r) : Reverse(r)[i] = r[(Len(r) - i) + 1]
  <2>. SUFFICES ASSUME NEW r \in Seq(S)
       PROVE  /\ Reverse(r) \in Seq(S) /\ Len(Reverse(r)) = Len(r)
              /\ \A i \in 1..Len(r) : Reverse(r)[i] = r[(Len(r) - i) + 1]
    OBVIOUS
  <2>1. Reverse(r) \in [1..Len(r) -> S]
    BY DEF Reverse
  <2>2. \A i \in 1..Len(r) : Reverse(r)[i] = r[(Len(r) - i) + 1]
    BY DEF Reverse
  <2>3. Len(r) \in Nat
    OBVIOUS
  <2>. QED  BY <2>1, <2>2, <2>3, FunctionIsSeq, Zenon
<1>3. /\ a \in Seq(S) /\ Len(a) = Len(s) /\ \A i \in 1..Len(s) : a[i] = s[(Len(s) - i) + 1]
      /\ b \in Seq(S) /\ Len(b) = Len(t) /\ \A i \in 1..Len(t) : b[i] = t[(Len(t) - i) + 1]
  BY <1>2, Zenon
<1>. HIDE DEF a, b
<1>4. Len(s) <= Len(t)
  BY <1>1
<1>5. /\ x \in Seq(S) /\ Len(x) = Len(s) /\ \A i \in 1..Len(s) : x[i] = a[i]
      /\ y \in Seq(S) /\ Len(y) = Len(s) /\ \A i \in 1..Len(s) : y[i] = b[i]
  BY <1>1, <1>3, <1>4
<1>. HIDE DEF x, y
<1>6. ASSUME NEW i \in 1..Len(s) PROVE a[i] = b[i]
  <2>1. (Len(s) - i) + 1 \in 1..Len(s) /\ (Len(t) - i) + 1 = c + ((Len(s) - i) + 1) /\ i \in 1..Len(t)
    BY <1>1
  <2>. QED  BY <1>3, <2>1, Zenon
<1>7. x = y
  <2>1. \A i \in 1..Len(x) : x[i] = y[i]
    BY <1>5, <1>6, Zenon
  <2>. QED  BY <1>5, <2>1, Alike, Zenon
<1>8. IsPrefix(a, b)
  BY <1>3, <1>4, <1>7, Zenon DEF IsPrefix, x, y
<1>. QED  BY <1>8, Zenon DEF IsSuffix, a, b

\* Numbers that grow by M at least from each to the one before.
LEMMA GrowingBack ==
  ASSUME NEW L \in Nat \ {0}, NEW M \in Nat, NEW n \in Nat, NEW cut \in [0..L -> 0..n],
         \A i \in 2..L : cut[i - 1] >= cut[i] + M
  PROVE  \A j \in 0..(L - 1) : cut[L - j] >= cut[L] + j * M
<1>. DEFINE S == {j \in Nat : j <= L - 1 => cut[L - j] >= cut[L] + j * M}
<1>1. 0 \in S
  <2>1. L - 0 = L /\ 0 * M = 0 /\ cut[L] \in Nat
    OBVIOUS
  <2>2. cut[L - 0] >= cut[L] + 0 * M
    BY <2>1
  <2>. QED  BY <2>2
<1>2. ASSUME NEW j \in Nat, j \in S PROVE j + 1 \in S
  <2>. SUFFICES ASSUME j + 1 <= L - 1 PROVE cut[L - (j + 1)] >= cut[L] + (j + 1) * M
    OBVIOUS
  <2>0. j <= L - 1
    OBVIOUS
  <2>1. cut[L - j] >= cut[L] + j * M
    BY <1>2, <2>0, Zenon
  <2>2. L - j \in 2..L /\ (L - j) - 1 = L - (j + 1) /\ L - j \in 0..L /\ L - (j + 1) \in 0..L
    OBVIOUS
  <2>3. cut[L - (j + 1)] >= cut[L - j] + M
    BY <2>2
  <2>. DEFINE p == j * M
              a == cut[L - (j + 1)]
              b == cut[L - j]
              d == cut[L]
  <2>4. (j + 1) * M = p + M /\ p \in Nat
    OBVIOUS
  <2>5. a \in Nat /\ b \in Nat /\ d \in Nat
    BY <2>2
  <2>6. a >= b + M /\ b >= d + p
    BY <2>1, <2>3
  <2>. HIDE DEF p, a, b, d
  <2>7. a >= d + (p + M)
    BY <2>4, <2>5, <2>6
  <2>. QED  BY <2>4, <2>7 DEF a, d
<1>. HIDE DEF S
<1>3. Nat \subseteq S
  BY <1>1, <1>2, SetInduction
<1>. QED  BY <1>3 DEF S

-----------------------------------------------------------------------------
(* Sums. *)

\* g adds up f over the subsets of T the way SumFunctionOnSet does.
AddsUp(g, f, T) ==
  g = [s \in SUBSET T |-> IF s = {} THEN 0
                          ELSE f[CHOOSE x \in s : TRUE] + g[s \ {CHOOSE x \in s : TRUE}]]

\* A sum is what a function that adds up (AddsUp) has at the whole set.
LEMMA SumDefinition ==
  ASSUME NEW f, NEW T
  PROVE  SumFunctionOnSet(f, T) = (CHOOSE g : AddsUp(g, f, T))[T]
  BY DEF SumFunctionOnSet, FoldFunctionOnSet, MapThenFoldSet, AddsUp

\* Subsets of a finite set, by the number of their elements.
LEMMA Sizing ==
  ASSUME NEW T, IsFiniteSet(T), NEW s \in SUBSET T
  PROVE  /\ IsFiniteSet(s) /\ Cardinality(s) \in Nat /\ Cardinality(s) <= Cardinality(T)
         /\ Cardinality(s) = 0 <=> s = {}
         /\ \A x \in s : Cardinality(s \ {x}) = Cardinality(s) - 1
<1>1. IsFiniteSet(s) /\ Cardinality(s) <= Cardinality(T)
  BY FS_Subset
<1>2. Cardinality(s) \in Nat
  BY <1>1, FS_CardinalityType
<1>3. Cardinality(s) = 0 <=> s = {}
  BY <1>1, FS_EmptySet
<1>4. \A x \in s : Cardinality(s \ {x}) = Cardinality(s) - 1
  BY <1>1, FS_RemoveElement
<1>. QED  BY <1>1, <1>2, <1>3, <1>4

\* There is such a function, with integers for values.
LEMMA SumExists ==
  ASSUME NEW T, IsFiniteSet(T), NEW f \in [T -> Int]
  PROVE  \E g \in [SUBSET T -> Int] : AddsUp(g, f, T)
<1>. DEFINE D(n) == {s \in SUBSET T : Cardinality(s) <= n}
            P(s) == CHOOSE x \in s : TRUE
            Ok(g, n) == \A s \in D(n) : g[s] = IF s = {} THEN 0 ELSE f[P(s)] + g[s \ {P(s)}]
            S == {n \in Nat : \E g \in [D(n) -> Int] : Ok(g, n)}
<1>1. \A s \in SUBSET T : s # {} => P(s) \in s
  OBVIOUS
<1>. HIDE DEF P
<1>2. \A n \in Nat : \A s \in D(n + 1) : s # {} => s \ {P(s)} \in D(n) /\ P(s) \in T
  BY <1>1, Sizing
<1>3. 0 \in S
  <2>. DEFINE g == [s \in D(0) |-> 0]
  <2>1. \A s \in D(0) : s = {}
    BY Sizing
  <2>2. g \in [D(0) -> Int] /\ Ok(g, 0)
    BY <2>1
  <2>. QED  BY <2>2
<1>4. ASSUME NEW n \in Nat, n \in S PROVE n + 1 \in S
  <2>1. PICK g \in [D(n) -> Int] : Ok(g, n)
    BY <1>4
  <2>. DEFINE h == [s \in D(n + 1) |-> IF s = {} THEN 0 ELSE f[P(s)] + g[s \ {P(s)}]]
  <2>2. D(n) \subseteq D(n + 1)
    BY Sizing
  <2>3. \A s \in D(n) : h[s] = g[s]
    BY <2>1, <2>2
  <2>4. h \in [D(n + 1) -> Int]
    <3>. SUFFICES ASSUME NEW s \in D(n + 1)
                  PROVE  (IF s = {} THEN 0 ELSE f[P(s)] + g[s \ {P(s)}]) \in Int
      OBVIOUS
    <3>. HIDE DEF D
    <3>. QED  BY <1>2, <2>1
  <2>5. Ok(h, n + 1)
    <3>. SUFFICES ASSUME NEW s \in D(n + 1)
                  PROVE  h[s] = IF s = {} THEN 0 ELSE f[P(s)] + h[s \ {P(s)}]
      OBVIOUS
    <3>1. h[s] = IF s = {} THEN 0 ELSE f[P(s)] + g[s \ {P(s)}]
      OBVIOUS
    <3>. HIDE DEF D, h
    <3>. QED  BY <1>2, <2>3, <3>1
  <2>6. n + 1 \in Nat
    OBVIOUS
  <2>. HIDE DEF h, D, Ok
  <2>. QED  BY <2>4, <2>5, <2>6
<1>5. Nat \subseteq S
  <2>. HIDE DEF S
  <2>. QED  BY <1>3, <1>4, SetInduction
<1>6. Cardinality(T) \in Nat /\ D(Cardinality(T)) = SUBSET T
  BY Sizing, FS_CardinalityType
<1>7. PICK g \in [SUBSET T -> Int] : Ok(g, Cardinality(T))
  BY <1>5, <1>6
<1>8. g = [s \in SUBSET T |-> IF s = {} THEN 0 ELSE f[P(s)] + g[s \ {P(s)}]]
  BY <1>6, <1>7
<1>. QED  BY <1>8 DEF AddsUp, P

\* The sum over every subset is the value of one such function.
LEMMA SumIsValue ==
  ASSUME NEW T, IsFiniteSet(T), NEW f \in [T -> Int],
         NEW g \in [SUBSET T -> Int], AddsUp(g, f, T), NEW U \in SUBSET T
  PROVE  SumFunctionOnSet(f, U) = g[U]
<1>. DEFINE P(s) == CHOOSE x \in s : TRUE
            k == CHOOSE h : AddsUp(h, f, U)
            r == [s \in SUBSET U |-> g[s]]
            S == {n \in Nat : \A s \in SUBSET U : Cardinality(s) = n => k[s] = g[s]}
<1>1. \A s \in SUBSET T : s # {} => P(s) \in s
  OBVIOUS
<1>2. \A s \in SUBSET T : g[s] = IF s = {} THEN 0 ELSE f[P(s)] + g[s \ {P(s)}]
  BY DEF AddsUp
<1>3. AddsUp(r, f, U)
  <2>1. \A s \in SUBSET U : r[s] = IF s = {} THEN 0 ELSE f[P(s)] + r[s \ {P(s)}]
    <3>. SUFFICES ASSUME NEW s \in SUBSET U
                  PROVE  r[s] = IF s = {} THEN 0 ELSE f[P(s)] + r[s \ {P(s)}]
      OBVIOUS
    <3>1. s \in SUBSET T /\ s \ {P(s)} \in SUBSET U
      OBVIOUS
    <3>2. r[s] = g[s] /\ r[s \ {P(s)}] = g[s \ {P(s)}]
      BY <3>1
    <3>. HIDE DEF r, P
    <3>. QED  BY <1>2, <3>1, <3>2
  <2>2. r = [s \in SUBSET U |-> r[s]]
    OBVIOUS
  <2>. HIDE DEF r
  <2>. QED  BY <2>1, <2>2 DEF AddsUp, P
<1>. HIDE DEF r
<1>4. AddsUp(k, f, U)
  BY <1>3, Zenon
<1>. HIDE DEF k
<1>5. \A s \in SUBSET U : k[s] = IF s = {} THEN 0 ELSE f[P(s)] + k[s \ {P(s)}]
  BY <1>4 DEF AddsUp
<1>. HIDE DEF P
<1>6. 0 \in S
  BY <1>2, <1>5, Sizing
<1>7. ASSUME NEW n \in Nat, n \in S PROVE n + 1 \in S
  <2>. SUFFICES ASSUME NEW s \in SUBSET U, Cardinality(s) = n + 1
                PROVE  k[s] = g[s]
    OBVIOUS
  <2>1. s \in SUBSET T /\ s # {}
    <3>1. n + 1 # 0
      OBVIOUS
    <3>. QED  BY <3>1, FS_EmptySet
  <2>2. P(s) \in s /\ s \ {P(s)} \in SUBSET U
    BY <1>1, <2>1
  <2>3. Cardinality(s \ {P(s)}) = n
    BY <2>1, <2>2, Sizing
  <2>4. k[s \ {P(s)}] = g[s \ {P(s)}]
    BY <1>7, <2>2, <2>3
  <2>. QED  BY <1>2, <1>5, <2>1, <2>4
<1>8. Nat \subseteq S
  <2>. HIDE DEF S
  <2>. QED  BY <1>6, <1>7, SetInduction
<1>9. Cardinality(U) \in Nat /\ U \in SUBSET U
  BY Sizing
<1>10. k[U] = g[U]
  BY <1>8, <1>9
<1>. QED  BY <1>10, SumDefinition DEF k

\* A sum over a subset of T is that over all but one element, and that element's value,
\* whichever that is.
SumsUp(f, T) ==
  /\ SumFunctionOnSet(f, {}) = 0
  /\ \A U \in SUBSET T :
       /\ SumFunctionOnSet(f, U) \in Int
       /\ \A x \in U : SumFunctionOnSet(f, U) = f[x] + SumFunctionOnSet(f, U \ {x})

\* Sums over finite sets do.
LEMMA Sums ==
  ASSUME NEW T, IsFiniteSet(T), NEW f \in [T -> Int]
  PROVE  SumsUp(f, T)
<1>1. PICK g \in [SUBSET T -> Int] : AddsUp(g, f, T)
  BY SumExists
<1>2. \A U \in SUBSET T : SumFunctionOnSet(f, U) = g[U]
  BY <1>1, SumIsValue
<1>. DEFINE P(s) == CHOOSE x \in s : TRUE
            S == {n \in Nat : \A s \in SUBSET T :
                    Cardinality(s) = n => \A x \in s : g[s] = f[x] + g[s \ {x}]}
<1>3. \A s \in SUBSET T : s # {} => P(s) \in s
  OBVIOUS
<1>4. \A s \in SUBSET T : g[s] = IF s = {} THEN 0 ELSE f[P(s)] + g[s \ {P(s)}]
  BY <1>1 DEF AddsUp
<1>. HIDE DEF P
<1>5. 0 \in S
  BY Sizing
<1>6. ASSUME NEW n \in Nat, n \in S PROVE n + 1 \in S
  <2>. SUFFICES ASSUME NEW s \in SUBSET T, Cardinality(s) = n + 1, NEW x \in s
                PROVE  g[s] = f[x] + g[s \ {x}]
    OBVIOUS
  <2>. DEFINE p == P(s)
  <2>1. p \in s /\ g[s] = f[p] + g[s \ {p}]
    BY <1>3, <1>4
  <2>. HIDE DEF p
  <2>2. CASE x = p
    BY <2>1, <2>2
  <2>3. CASE x # p
    <3>. DEFINE a == s \ {p}
                b == s \ {x}
                c == s \ {p, x}
    <3>1. /\ a \in SUBSET T /\ b \in SUBSET T /\ c \in SUBSET T
          /\ x \in a /\ p \in b /\ a \ {x} = c /\ b \ {p} = c /\ x \in T /\ p \in T
      BY <2>1, <2>3
    <3>2. Cardinality(a) = n /\ Cardinality(b) = n
      BY <2>1, Sizing
    <3>. HIDE DEF a, b, c
    <3>3. \A u \in SUBSET T : Cardinality(u) = n => \A y \in u : g[u] = f[y] + g[u \ {y}]
      BY <1>6
    <3>4. g[a] = f[x] + g[c] /\ g[b] = f[p] + g[c]
      BY <3>1, <3>2, <3>3
    <3>5. g[a] \in Int /\ g[b] \in Int /\ g[c] \in Int /\ f[x] \in Int /\ f[p] \in Int
      BY <3>1
    <3>6. g[s] = f[p] + g[a]
      BY <2>1 DEF a
    <3>7. g[s] = f[x] + g[b]
      BY <3>4, <3>5, <3>6
    <3>. QED  BY <3>7 DEF b
  <2>. QED  BY <2>2, <2>3
<1>7. Nat \subseteq S
  <2>. HIDE DEF S
  <2>. QED  BY <1>5, <1>6, SetInduction
<1>8. ASSUME NEW U \in SUBSET T, NEW x \in U PROVE g[U] = f[x] + g[U \ {x}]
  <2>1. Cardinality(U) \in Nat
    BY Sizing
  <2>. QED  BY <1>7, <2>1
<1>9. SumFunctionOnSet(f, {}) = 0
  BY <1>2, <1>4
<1>10. ASSUME NEW U \in SUBSET T
       PROVE  /\ SumFunctionOnSet(f, U) \in Int
              /\ \A x \in U : SumFunctionOnSet(f, U) = f[x] + SumFunctionOnSet(f, U \ {x})
  BY <1>1, <1>2, <1>8
<1>. QED  BY <1>9, <1>10 DEF SumsUp

\* Induction over the subsets of a finite set, said of a set of them.
LEMMA FiniteInduction ==
  ASSUME NEW K, IsFiniteSet(K), NEW S, {} \in S,
         \A A \in SUBSET K : \A k \in K \ A : A \in S => A \union {k} \in S
  PROVE  SUBSET K \subseteq S
<1>. DEFINE T == {n \in Nat : \A A \in SUBSET K : Cardinality(A) = n => A \in S}
<1>1. 0 \in T
  BY Sizing
<1>2. ASSUME NEW n \in Nat, n \in T PROVE n + 1 \in T
  <2>. SUFFICES ASSUME NEW A \in SUBSET K, Cardinality(A) = n + 1 PROVE A \in S
    OBVIOUS
  <2>1. A # {}
    <3>1. n + 1 # 0
      OBVIOUS
    <3>. QED  BY <3>1, FS_EmptySet
  <2>2. PICK x \in A : TRUE
    BY <2>1
  <2>3. Cardinality(A \ {x}) = n /\ A \ {x} \in SUBSET K
    BY Sizing
  <2>4. A \ {x} \in S
    BY <1>2, <2>3
  <2>5. x \in K \ (A \ {x}) /\ (A \ {x}) \union {x} = A
    OBVIOUS
  <2>. QED  BY <2>3, <2>4, <2>5
<1>3. Nat \subseteq T
  <2>. HIDE DEF T
  <2>. QED  BY <1>1, <1>2, SetInduction
<1>. QED
  <2>. SUFFICES ASSUME NEW A \in SUBSET K PROVE A \in S
    OBVIOUS
  <2>1. Cardinality(A) \in Nat
    BY Sizing
  <2>. QED  BY <1>3, <2>1

\* The sum over two sets without a common element is that of their sums.
LEMMA SumOfTwo ==
  ASSUME NEW T, IsFiniteSet(T), NEW f \in [T -> Int],
         NEW V \in SUBSET T, NEW W \in SUBSET T
  PROVE  V \intersect W = {} =>
           SumFunctionOnSet(f, V \union W) = SumFunctionOnSet(f, V) + SumFunctionOnSet(f, W)
<1>. DEFINE Sm(U) == SumFunctionOnSet(f, U)
            S == {U \in SUBSET W : V \intersect U = {} => Sm(V \union U) = Sm(V) + Sm(U)}
<1>1. /\ Sm({}) = 0
      /\ \A U \in SUBSET T : Sm(U) \in Int /\ \A x \in U : Sm(U) = f[x] + Sm(U \ {x})
  <2>1. SumsUp(f, T)
    BY Sums, Zenon
  <2>. QED  BY <2>1, Zenon DEF SumsUp
<1>. HIDE DEF Sm
<1>2. {} \in S
  <2>1. V \union {} = V /\ V \in SUBSET T
    OBVIOUS
  <2>2. Sm(V) = Sm(V) + 0
    BY <1>1, <2>1
  <2>. QED  BY <1>1, <2>1, <2>2
<1>3. ASSUME NEW U \in SUBSET W, NEW k \in W \ U, U \in S PROVE U \union {k} \in S
  <2>. SUFFICES ASSUME V \intersect (U \union {k}) = {}
                PROVE  Sm(V \union (U \union {k})) = Sm(V) + Sm(U \union {k})
    OBVIOUS
  <2>1. /\ V \union (U \union {k}) \in SUBSET T /\ U \union {k} \in SUBSET T /\ k \in T
        /\ (V \union (U \union {k})) \ {k} = V \union U /\ (U \union {k}) \ {k} = U
        /\ U \in SUBSET T
    OBVIOUS
  <2>2. Sm(V \union (U \union {k})) = f[k] + Sm(V \union U) /\ Sm(U \union {k}) = f[k] + Sm(U)
    <3>. DEFINE X == V \union (U \union {k})
                Y == U \union {k}
    <3>1. X \in SUBSET T /\ k \in X /\ X \ {k} = V \union U
      BY <2>1
    <3>2. Y \in SUBSET T /\ k \in Y /\ Y \ {k} = U
      BY <2>1
    <3>. HIDE DEF X, Y
    <3>3. Sm(X) = f[k] + Sm(V \union U)
      BY <1>1, <3>1
    <3>4. Sm(Y) = f[k] + Sm(U)
      BY <1>1, <3>2
    <3>. QED  BY <3>3, <3>4 DEF X, Y
  <2>3. Sm(V \union U) = Sm(V) + Sm(U)
    BY <1>3
  <2>4. f[k] \in Int /\ Sm(V) \in Int /\ Sm(U) \in Int
    BY <1>1, <2>1
  <2>. QED  BY <2>2, <2>3, <2>4
<1>4. SUBSET W \subseteq S
  <2>1. IsFiniteSet(W)
    BY FS_Subset
  <2>2. \A U \in SUBSET W : \A k \in W \ U : U \in S => U \union {k} \in S
    BY <1>3
  <2>. HIDE DEF S
  <2>. QED  BY <1>2, <2>1, <2>2, FiniteInduction
<1>5. W \in S
  BY <1>4
<1>. QED  BY <1>5 DEF Sm

\* The sum over parts without common elements is the sum of their sums.
LEMMA SumOfParts ==
  ASSUME NEW T, IsFiniteSet(T), NEW f \in [T -> Int], NEW K, IsFiniteSet(K),
         NEW part \in [K -> SUBSET T],
         \A k, l \in K : k # l => part[k] \intersect part[l] = {},
         NEW g \in [K -> Int], \A k \in K : g[k] = SumFunctionOnSet(f, part[k])
  PROVE  SumFunctionOnSet(g, K) = SumFunctionOnSet(f, UNION {part[k] : k \in K})
<1>. DEFINE Sm(U) == SumFunctionOnSet(f, U)
            Sg(U) == SumFunctionOnSet(g, U)
            All(A) == UNION {part[k] : k \in A}
            S == {A \in SUBSET K : Sg(A) = Sm(All(A))}
<1>1. Sm({}) = 0
  <2>1. SumsUp(f, T)
    BY Sums, Zenon
  <2>. QED  BY <2>1, Zenon DEF SumsUp
<1>2. /\ Sg({}) = 0
      /\ \A U \in SUBSET K : Sg(U) \in Int /\ \A x \in U : Sg(U) = g[x] + Sg(U \ {x})
  <2>1. SumsUp(g, K)
    BY Sums, Zenon
  <2>. QED  BY <2>1, Zenon DEF SumsUp
<1>3. \A A, B \in SUBSET T : A \intersect B = {} => Sm(A \union B) = Sm(A) + Sm(B)
  BY SumOfTwo
<1>4. \A k \in K : g[k] = Sm(part[k])
  OBVIOUS
<1>. HIDE DEF Sm, Sg
<1>5. {} \in S
  <2>1. All({}) = {}
    OBVIOUS
  <2>. QED  BY <1>1, <1>2, <2>1
<1>6. ASSUME NEW A \in SUBSET K, NEW k \in K \ A, A \in S PROVE A \union {k} \in S
  <2>1. /\ All(A) \in SUBSET T /\ part[k] \in SUBSET T /\ All(A) \intersect part[k] = {}
        /\ All(A \union {k}) = All(A) \union part[k]
    OBVIOUS
  <2>. HIDE DEF All
  <2>2. Sm(All(A \union {k})) = Sm(All(A)) + Sm(part[k])
    BY <1>3, <2>1
  <2>3. A \union {k} \in SUBSET K /\ k \in A \union {k} /\ (A \union {k}) \ {k} = A
    OBVIOUS
  <2>4. Sg(A \union {k}) = g[k] + Sg(A)
    BY <1>2, <2>3
  <2>5. Sg(A) = Sm(All(A)) /\ g[k] = Sm(part[k])
    BY <1>4, <1>6
  <2>6. g[k] \in Int /\ Sg(A) \in Int
    BY <1>2
  <2>7. Sg(A \union {k}) = Sm(All(A \union {k}))
    BY <2>2, <2>4, <2>5, <2>6
  <2>. QED  BY <2>3, <2>7
<1>7. SUBSET K \subseteq S
  <2>. HIDE DEF S
  <2>. QED  BY <1>5, <1>6, FiniteInduction
<1>8. K \in S
  BY <1>7
<1>. QED  BY <1>8 DEF Sm, Sg

\* Differences along a list add up to that of its ends.
LEMMA Telescoping ==
  ASSUME NEW k \in Nat, NEW n \in Nat, k <= n, NEW d, \A i \in k..n : d[i] \in Int,
         NEW f \in [(k + 1)..n -> Int], \A i \in (k + 1)..n : f[i] = d[i - 1] - d[i]
  PROVE  SumFunctionOnSet(f, (k + 1)..n) = d[k] - d[n]
<1>1. IsFiniteSet((k + 1)..n)
  BY FS_Interval
<1>2. f \in [(k + 1)..n -> Int]
  OBVIOUS
<1>3. SumsUp(f, (k + 1)..n)
  BY <1>1, <1>2, Sums, Zenon
<1>4. /\ SumFunctionOnSet(f, {}) = 0
      /\ \A U \in SUBSET ((k + 1)..n) :
           /\ SumFunctionOnSet(f, U) \in Int
           /\ \A x \in U : SumFunctionOnSet(f, U) = f[x] + SumFunctionOnSet(f, U \ {x})
  BY <1>3, Zenon DEF SumsUp
<1>. DEFINE T == (k + 1)..n
            Sm(j) == SumFunctionOnSet(f, (k + 1)..j)
            S == {j \in Nat : k + j <= n => Sm(k + j) = d[k] - d[k + j]}
<1>5. 0 \in S
  <2>1. (k + 1)..(k + 0) = {} /\ k + 0 = k /\ d[k] \in Int
    OBVIOUS
  <2>2. Sm(k + 0) = 0
    BY <1>4, <2>1
  <2>. HIDE DEF Sm
  <2>. QED  BY <2>1, <2>2
<1>6. ASSUME NEW j \in Nat, j \in S PROVE j + 1 \in S
  <2>. SUFFICES ASSUME k + (j + 1) <= n PROVE Sm(k + (j + 1)) = d[k] - d[k + (j + 1)]
    OBVIOUS
  <2>. DEFINE U == (k + 1)..(k + (j + 1))
              x == k + (j + 1)
  <2>1. /\ U \in SUBSET T /\ x \in U /\ U \ {x} = (k + 1)..(k + j) /\ x \in T /\ x - 1 = k + j
        /\ k + j <= n /\ k + j \in k..n /\ k \in k..n /\ x \in k..n
    <3>1. x \in Nat /\ x <= n /\ k + 1 <= x /\ k <= x /\ x - 1 = k + j /\ k + j <= n
      OBVIOUS
    <3>2. U \in SUBSET T /\ x \in U /\ x \in T /\ k + j \in k..n /\ k \in k..n /\ x \in k..n
      BY <3>1 DEF T
    <3>3. \A y \in Int : y \in U /\ y # x <=> y \in (k + 1)..(k + j)
      BY <3>1
    <3>4. U \subseteq Int /\ (k + 1)..(k + j) \subseteq Int
      OBVIOUS
    <3>5. U \ {x} = (k + 1)..(k + j)
      <4>. HIDE DEF U, x
      <4>. QED  BY <3>3, <3>4
    <3>. QED  BY <3>1, <3>2, <3>5
  <2>2. Sm(k + j) = d[k] - d[k + j]
    BY <1>6, <2>1
  <2>3. f[x] = d[k + j] - d[x]
    BY <2>1 DEF T
  <2>4. SumFunctionOnSet(f, U) = f[x] + SumFunctionOnSet(f, U \ {x})
    BY <1>4, <2>1
  <2>. HIDE DEF U, x
  <2>5. SumFunctionOnSet(f, U) = (d[k + j] - d[x]) + (d[k] - d[k + j])
    BY <2>1, <2>2, <2>3, <2>4
  <2>6. SumFunctionOnSet(f, U) = d[k] - d[x]
    BY <2>1, <2>5
  <2>. QED  BY <2>6 DEF U, x
<1>7. Nat \subseteq S
  <2>. HIDE DEF S
  <2>. QED  BY <1>5, <1>6, SetInduction
<1>8. n - k \in Nat /\ k + (n - k) = n
  OBVIOUS
<1>9. n - k \in S
  BY <1>7, <1>8
<1>. HIDE DEF Sm
<1>10. Sm(n) = d[k] - d[n]
  BY <1>8, <1>9
<1>. QED  BY <1>10 DEF Sm
=============================================================================
