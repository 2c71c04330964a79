-------------------------- MODULE Retrieval_proofs --------------------------
(***************************************************************************)
(* What a retrieval passes on was readable after its last wait, and the    *)
(* evidence it returns holds together, for any chunks, documents, paths,   *)
(* facets and budgets and whatever the branches and the reranker answer.   *)
(* The graph branch hands on whole paths over current graphs, for any      *)
(* entities, relations and mentions.  First what the operators on          *)
(* sequences promise, then fusion, coverage of facets and path bundles,    *)
(* then the steps of a run and those of a recall.                          *)
(***************************************************************************)
EXTENDS GraphRecall, Integers, WellFoundedInduction, FiniteSetTheorems, TLAPS

-----------------------------------------------------------------------------
(* Folds, sorted sets and picked places *)

(* Every set of naturals that is not empty has a least one.                *)
LEMMA LeastNatural ==
  ASSUME NEW T \in SUBSET Nat, T # {}
  PROVE  \E n \in T : \A m \in T : n <= m
PROOF
<1> DEFINE R == OpToRel(<, Nat)
<1>1. PICK n \in T : \A m \in T : <<m, n>> \notin R
  BY NatLessThanWellFounded, WFMin
<1>2. ASSUME NEW m \in T PROVE n <= m
  <2>1. ~ (m < n)
    BY <1>1 DEF OpToRel
  <2> QED
    BY <2>1
<1> QED
  BY <1>2

(* What holds of 0 and of every successor up to n.                         *)
LEMMA UpToN ==
  ASSUME NEW n \in Nat, NEW H, 0 \in H,
         \A i \in 1..n : i - 1 \in H => i \in H
  PROVE  \A i \in 0..n : i \in H
PROOF
<1> DEFINE T == {i \in 0..n : i \notin H}
<1>1. T \in SUBSET Nat
  OBVIOUS
<1>2. SUFFICES ASSUME T # {} PROVE FALSE
  OBVIOUS
<1>3. PICK m \in T : \A k \in T : m <= k
  <2> HIDE DEF T
  <2> QED
    BY <1>1, <1>2, LeastNatural
<1>4. m \in 0..n /\ m \notin H
  OBVIOUS
<1>5. m \in 1..n /\ m - 1 \in 0..n /\ ~ (m <= m - 1)
  BY <1>4
<1>6. m - 1 \in H
  BY <1>3, <1>5
<1> QED
  BY <1>4, <1>5, <1>6

(* g holds what is left of base after each of the first n elements.        *)
Stages(f, base, s, n, g) ==
  g = [i \in 0..n |-> IF i = 0 THEN base ELSE f[g[i - 1]][s[i]]]

(* Folded() has such stages: they are defined by recursion over the        *)
(* numbers.                                                                *)
LEMMA StagesExist ==
  ASSUME NEW f, NEW base, NEW s, NEW n \in Nat
  PROVE  \E g : Stages(f, base, s, n, g)
PROOF
<1> DEFINE Upto(g, m) == g = [i \in 0..m |-> IF i = 0 THEN base ELSE f[g[i - 1]][s[i]]]
           H == {m \in 0..n : \E g : Upto(g, m)}
<1>1. 0 \in H
  <2>1. Upto([i \in 0..0 |-> base], 0)
    OBVIOUS
  <2>2. 0 \in 0..n
    OBVIOUS
  <2> HIDE DEF Upto
  <2> QED
    BY <2>1, <2>2
<1>2. ASSUME NEW m \in 1..n, m - 1 \in H PROVE m \in H
  <2>0. PICK g : Upto(g, m - 1)
    BY <1>2
  <2> DEFINE h == [i \in 0..m |-> IF i = m THEN f[g[m - 1]][s[m]] ELSE g[i]]
  <2>1. m \in Nat /\ m # 0 /\ m \in 0..n
    OBVIOUS
  <2>2. \A i \in 0..(m - 1) : g[i] = IF i = 0 THEN base ELSE f[g[i - 1]][s[i]]
    BY <2>0
  <2>3. \A i \in 0..m : h[i] = IF i = m THEN f[g[m - 1]][s[m]] ELSE g[i]
    OBVIOUS
  <2>4. h = [i \in 0..m |-> h[i]]
    OBVIOUS
  <2> HIDE DEF h
  <2>5. ASSUME NEW i \in 0..m PROVE h[i] = IF i = 0 THEN base ELSE f[h[i - 1]][s[i]]
    <3>1. CASE i = m
      <4>1. m - 1 \in 0..m /\ m - 1 # m
        BY <2>1
      <4> QED
        BY <2>1, <2>3, <3>1, <4>1
    <3>2. CASE i # m
      <4>1. i \in 0..(m - 1) /\ h[i] = g[i]
        BY <2>1, <2>3, <3>2
      <4>2. i # 0 => i - 1 \in 0..m /\ i - 1 # m
        BY <2>1, <4>1
      <4> QED
        BY <2>2, <2>3, <4>1, <4>2
    <3> QED
      BY <3>1, <3>2
  <2>6. Upto(h, m)
    BY <2>4, <2>5
  <2> HIDE DEF Upto
  <2> QED
    BY <2>1, <2>6
<1>3. n \in H
  <2> HIDE DEF H
  <2>1. \A i \in 0..n : i \in H
    BY <1>1, <1>2, UpToN
  <2>2. n \in 0..n
    OBVIOUS
  <2> QED
    BY <2>1, <2>2
<1> QED
  BY <1>3 DEF Stages

(* Folded() is the last of its stages, and every stage follows from the    *)
(* one before.                                                             *)
LEMMA FoldedStages ==
  ASSUME NEW f, NEW base, NEW s, Len(s) \in Nat
  PROVE  \E g : /\ g[0] = base /\ Folded(f, base, s) = g[Len(s)]
                /\ \A i \in 1..Len(s) : g[i] = f[g[i - 1]][s[i]]
PROOF
<1> DEFINE g == CHOOSE h : Stages(f, base, s, Len(s), h)
<1>1. Folded(f, base, s) = g[Len(s)]
  BY DEF Folded, Stages
<1>2. Stages(f, base, s, Len(s), g)
  BY StagesExist
<1>3. g = [i \in 0..Len(s) |-> IF i = 0 THEN base ELSE f[g[i - 1]][s[i]]]
  BY <1>2 DEF Stages
<1> HIDE DEF g
<1>4. \A i \in 0..Len(s) : g[i] = IF i = 0 THEN base ELSE f[g[i - 1]][s[i]]
  BY <1>3, Zenon
<1>5. g[0] = base
  BY <1>4
<1>6. ASSUME NEW i \in 1..Len(s) PROVE g[i] = f[g[i - 1]][s[i]]
  <2>1. i \in 0..Len(s) /\ i # 0
    OBVIOUS
  <2> QED
    BY <1>4, <2>1, Zenon
<1> QED
  BY <1>1, <1>5, <1>6

(* What a fold has after i steps is in I[i], when each step keeps it there.*)
LEMMA FoldedKeeps ==
  ASSUME NEW f, NEW base, NEW s, Len(s) \in Nat, NEW I, base \in I[0],
         \A i \in 1..Len(s) : \A a \in I[i - 1] : f[a][s[i]] \in I[i]
  PROVE  Folded(f, base, s) \in I[Len(s)]
PROOF
<1>1. PICK g : /\ g[0] = base /\ Folded(f, base, s) = g[Len(s)]
               /\ \A i \in 1..Len(s) : g[i] = f[g[i - 1]][s[i]]
  BY FoldedStages
<1> DEFINE H == {i \in 0..Len(s) : g[i] \in I[i]}
<1>2. 0 \in H
  <2>1. 0 \in 0..Len(s)
    OBVIOUS
  <2> QED
    BY <1>1, <2>1
<1>3. ASSUME NEW i \in 1..Len(s), i - 1 \in H PROVE i \in H
  <2>1. g[i - 1] \in I[i - 1] /\ i \in 0..Len(s)
    BY <1>3
  <2>2. g[i] \in I[i]
    BY <1>1, <2>1
  <2> QED
    BY <2>1, <2>2
<1>4. Len(s) \in H
  <2> HIDE DEF H
  <2>1. \A i \in 0..Len(s) : i \in H
    BY <1>2, <1>3, UpToN
  <2>2. Len(s) \in 0..Len(s)
    OBVIOUS
  <2> QED
    BY <2>1, <2>2
<1> QED
  BY <1>1, <1>4


(* Tuple() changes nothing.                                                *)
LEMMA TupleIs ==
  ASSUME NEW T, NEW f \in Seq(T)
  PROVE  Tuple(f) = f
PROOF
  BY DEF Tuple

(* Sorting: when the sets of what comes before are those of a strict total *)
(* order, all of S is there once.                                          *)
Ahead(S, ahead) ==
  /\ \A c \in S : ahead[c] \subseteq S /\ c \notin ahead[c]
  /\ \A b, c \in S : b # c => \/ b \in ahead[c] /\ ahead[b] \subseteq ahead[c]
                              \/ c \in ahead[b] /\ ahead[c] \subseteq ahead[b]

(* Elements of an order differ in how many come before them, and every     *)
(* place is taken.                                                         *)
LEMMA Counted ==
  ASSUME NEW S, IsFiniteSet(S), NEW ahead, Ahead(S, ahead)
  PROVE  /\ Cardinality(S) \in Nat
         /\ \A c \in S : /\ Cardinality(ahead[c]) \in Nat
                         /\ Cardinality(ahead[c]) + 1 \in 1..Cardinality(S)
         /\ \A b, c \in S : Cardinality(ahead[b]) = Cardinality(ahead[c]) => b = c
         /\ \A i \in 1..Cardinality(S) : \E c \in S : Cardinality(ahead[c]) = i - 1
PROOF
<1> DEFINE n == Cardinality(S)
<1>1. n \in Nat
  BY FS_CardinalityType
<1>2. ASSUME NEW c \in S PROVE IsFiniteSet(ahead[c]) /\ Cardinality(ahead[c]) \in 0..(n - 1)
  <2>1. ahead[c] \subseteq S /\ ahead[c] # S
    BY DEF Ahead
  <2>2. IsFiniteSet(ahead[c]) /\ Cardinality(ahead[c]) <= n
    BY <2>1, FS_Subset
  <2>3. Cardinality(ahead[c]) # n
    BY <2>1, <2>2, FS_Subset
  <2>4. Cardinality(ahead[c]) \in Nat
    BY <2>2, FS_CardinalityType
  <2> QED
    BY <1>1, <2>2, <2>3, <2>4
<1>3. ASSUME NEW b \in S, NEW c \in S, b \in ahead[c], ahead[b] \subseteq ahead[c]
      PROVE  Cardinality(ahead[b]) # Cardinality(ahead[c])
  <2>1. ahead[b] # ahead[c]
    BY <1>3 DEF Ahead
  <2> QED
    BY <1>2, <1>3, <2>1, FS_Subset
<1>4. ASSUME NEW b \in S, NEW c \in S, b # c PROVE Cardinality(ahead[b]) # Cardinality(ahead[c])
  BY <1>3, <1>4 DEF Ahead
<1>5. ASSUME NEW i \in 1..n PROVE \E c \in S : Cardinality(ahead[c]) = i - 1
  <2> SUFFICES ASSUME \A c \in S : Cardinality(ahead[c]) # i - 1 PROVE FALSE
    OBVIOUS
  <2> DEFINE R == (1..n) \ {i}
             count == [c \in S |-> Cardinality(ahead[c]) + 1]
  <2>1. IsFiniteSet(R) /\ Cardinality(R) = n - 1
    <3>1. IsFiniteSet(1..n) /\ Cardinality(1..n) = n
      BY <1>1, FS_Interval
    <3> QED
      BY <3>1, FS_RemoveElement
  <2>2. count \in [S -> R]
    BY <1>1, <1>2
  <2>3. \A b, c \in S : b # c => count[b] # count[c]
    BY <1>2, <1>4
  <2>4. n - 1 < n
    BY <1>1
  <2> HIDE DEF count, R
  <2>5. \E b, c \in S : b # c /\ count[b] = count[c]
    BY <2>1, <2>2, <2>4, FS_PigeonHole
  <2> QED
    BY <2>3, <2>5
<1>6. \A c \in S : Cardinality(ahead[c]) \in Nat /\ Cardinality(ahead[c]) + 1 \in 1..n
  BY <1>1, <1>2
<1> QED
  BY <1>1, <1>4, <1>5, <1>6

(* SortedBy() puts every element where the elements before it leave its    *)
(* place.                                                                  *)
LEMMA Sorting ==
  ASSUME NEW S, IsFiniteSet(S), NEW ahead, Ahead(S, ahead)
  PROVE  LET s == SortedBy(S, ahead)
         IN /\ Cardinality(S) \in Nat
            /\ s \in [1..Cardinality(S) -> S]
            /\ \A i \in 1..Cardinality(S) : Cardinality(ahead[s[i]]) = i - 1
            /\ \A i, j \in 1..Cardinality(S) : s[i] = s[j] => i = j
            /\ \A c \in S : \E i \in 1..Cardinality(S) : s[i] = c
PROOF
<1> DEFINE n == Cardinality(S)
           s == [i \in 1..n |-> CHOOSE c \in S : Cardinality(ahead[c]) = i - 1]
<1>1. /\ n \in Nat
      /\ \A c \in S : Cardinality(ahead[c]) \in Nat /\ Cardinality(ahead[c]) + 1 \in 1..n
      /\ \A b, c \in S : Cardinality(ahead[b]) = Cardinality(ahead[c]) => b = c
      /\ \A i \in 1..n : \E c \in S : Cardinality(ahead[c]) = i - 1
  BY Counted
<1> HIDE DEF n
<1>2. ASSUME NEW i \in 1..n PROVE s[i] \in S /\ Cardinality(ahead[s[i]]) = i - 1
  <2>1. s[i] = CHOOSE c \in S : Cardinality(ahead[c]) = i - 1
    OBVIOUS
  <2> HIDE DEF s
  <2> QED
    BY <1>1, <2>1
<1>3. s \in [1..n -> S]
  <2>1. s = [i \in 1..n |-> s[i]]
    OBVIOUS
  <2> HIDE DEF s
  <2> QED
    BY <1>2, <2>1
<1>4. SortedBy(S, ahead) = s
  <2>1. s \in Seq(S)
    <3> HIDE DEF s
    <3> QED
      BY <1>1, <1>3
  <2>2. SortedBy(S, ahead) = Tuple(s)
    BY DEF SortedBy, n
  <2> HIDE DEF s
  <2> QED
    BY <2>1, <2>2, TupleIs
<1> HIDE DEF s
<1>5. ASSUME NEW i \in 1..n, NEW j \in 1..n, s[i] = s[j] PROVE i = j
  BY <1>1, <1>2, <1>5
<1>6. ASSUME NEW c \in S PROVE \E i \in 1..n : s[i] = c
  <2>a. /\ Cardinality(ahead[c]) + 1 \in 1..n
        /\ Cardinality(ahead[c]) = (Cardinality(ahead[c]) + 1) - 1
    BY <1>1
  <2>0. PICK k \in 1..n : Cardinality(ahead[c]) = k - 1
    BY <2>a
  <2>1. Cardinality(ahead[s[k]]) = k - 1 /\ s[k] \in S
    BY <1>2
  <2>2. s[k] = c
    BY <1>1, <2>0, <2>1
  <2> QED
    BY <2>2
<1> QED
  BY <1>1, <1>2, <1>3, <1>4, <1>5, <1>6 DEF n

(* The elements at some places: as many as places, those of the places,    *)
(* and each where it belongs.                                              *)
Placed(s, P, n, t, o) ==
  /\ o \in [1..n -> P]
  /\ \A k \in 1..n : t[k] = s[o[k]] /\ Cardinality({j \in P : j < o[k]}) = k - 1
  /\ \A i, j \in 1..n : o[i] = o[j] => i = j
  /\ \A i \in P : \E k \in 1..n : o[k] = i

(* Places of s that hold elements of T.                                    *)
PlacesIn(s, P, T) ==
  P \in SUBSET Nat /\ IsFiniteSet(P) /\ 0 \notin P /\ \A i \in P : s[i] \in T

(* Picked() takes every place once, in ascending order.                    *)
LEMMA PickedIs ==
  ASSUME NEW T, NEW s, NEW P, PlacesIn(s, P, T)
  PROVE  /\ Cardinality(P) \in Nat
         /\ Picked(s, P) \in Seq(T)
         /\ Len(Picked(s, P)) = Cardinality(P)
         /\ \E o : Placed(s, P, Cardinality(P), Picked(s, P), o)
PROOF
<1> USE DEF PlacesIn
<1> DEFINE ahead == [i \in P |-> {j \in P : j < i}]
           o == SortedBy(P, ahead)
           n == Cardinality(P)
<1>0. \A i \in P : ahead[i] = {j \in P : j < i}
  OBVIOUS
<1>1. Ahead(P, ahead)
  <2> HIDE DEF ahead
  <2>0. \A i \in P : ~ (i < i)
    OBVIOUS
  <2>1. \A i \in P : ahead[i] \subseteq P /\ i \notin ahead[i]
    BY <1>0, <2>0, Zenon
  <2>2. ASSUME NEW b \in P, NEW c \in P, b < c PROVE b \in ahead[c] /\ ahead[b] \subseteq ahead[c]
    <3>1. \A j \in P : j < b => j < c
      BY <2>2
    <3> QED
      BY <1>0, <2>2, <3>1, Zenon
  <2>3. \A b, c \in P : b # c => b < c \/ c < b
    OBVIOUS
  <2>4. ASSUME NEW b \in P, NEW c \in P, b # c
        PROVE  \/ b \in ahead[c] /\ ahead[b] \subseteq ahead[c]
               \/ c \in ahead[b] /\ ahead[c] \subseteq ahead[b]
    BY <2>2, <2>3, <2>4
  <2>5. \A b, c \in P : b # c => \/ b \in ahead[c] /\ ahead[b] \subseteq ahead[c]
                                 \/ c \in ahead[b] /\ ahead[c] \subseteq ahead[b]
    BY <2>4
  <2> QED
    BY <2>1, <2>5, Zenon DEF Ahead
<1>2. /\ n \in Nat /\ o \in [1..n -> P]
      /\ \A i \in 1..n : Cardinality(ahead[o[i]]) = i - 1
      /\ \A i, j \in 1..n : o[i] = o[j] => i = j
      /\ \A c \in P : \E i \in 1..n : o[i] = c
  <2> HIDE DEF ahead
  <2> QED
    BY <1>1, Sorting
<1> DEFINE t == [k \in 1..n |-> s[o[k]]]
<1>3. Picked(s, P) = Tuple(t)
  BY DEF Picked
<1> HIDE DEF ahead, o, n
<1>4. t \in [1..n -> T] /\ \A k \in 1..n : t[k] = s[o[k]]
  BY <1>2
<1> HIDE DEF t
<1>5. t \in Seq(T) /\ Len(t) = n
  BY <1>2, <1>4
<1>6. Picked(s, P) = t
  BY <1>3, <1>5, TupleIs
<1>7. \A k \in 1..n : Cardinality({j \in P : j < o[k]}) = k - 1
  BY <1>0, <1>2
<1>8. Placed(s, P, n, t, o)
  BY <1>2, <1>4, <1>7 DEF Placed
<1> QED
  BY <1>2, <1>5, <1>6, <1>8 DEF n

(* Nothing occurs twice in s.                                              *)
Once(s) == \A i, j \in 1..Len(s) : s[i] = s[j] => i = j

(* The elements of a sequence are those at its places.                     *)
LEMMA SeqRange ==
  ASSUME NEW T, NEW s \in Seq(T)
  PROVE  /\ Len(s) \in Nat /\ DOMAIN s = 1..Len(s)
         /\ Range(s) \subseteq T /\ IsFiniteSet(DOMAIN s)
         /\ \A i \in 1..Len(s) : s[i] \in Range(s) /\ s[i] \in T
         /\ \A c \in Range(s) : \E i \in 1..Len(s) : s[i] = c
PROOF
<1>1. Len(s) \in Nat /\ DOMAIN s = 1..Len(s) /\ \A i \in 1..Len(s) : s[i] \in T
  OBVIOUS
<1>2. IsFiniteSet(1..Len(s))
  BY <1>1, FS_Interval
<1> QED
  BY <1>1, <1>2 DEF Range

(* Among keeps the order and what is in S.                                 *)
LEMMA AmongIs ==
  ASSUME NEW T, NEW s \in Seq(T), NEW S
  PROVE  /\ Among(s, S) \in Seq(T)
         /\ Range(Among(s, S)) = Range(s) \cap S
         /\ Once(s) => Once(Among(s, S))
         /\ Len(Among(s, S)) = Cardinality({i \in DOMAIN s : s[i] \in S})
PROOF
<1> DEFINE P == {i \in DOMAIN s : s[i] \in S}
           n == Cardinality(P)
           a == Among(s, S)
<1>1. /\ PlacesIn(s, P, T) /\ P \subseteq 1..Len(s)
      /\ \A i \in P : s[i] \in Range(s) \cap S
      /\ \A c \in Range(s) \cap S : \E i \in P : s[i] = c
  <2>1. IsFiniteSet(P)
    BY SeqRange, FS_Subset
  <2> QED
    BY <2>1, SeqRange DEF PlacesIn
<1>2. a = Picked(s, P)
  BY DEF Among
<1> HIDE DEF P, a
<1>3. /\ n \in Nat /\ a \in Seq(T) /\ Len(a) = n
  BY <1>1, <1>2, PickedIs
<1>4. PICK o : Placed(s, P, n, a, o)
  BY <1>1, <1>2, PickedIs
<1> HIDE DEF n
<1>5. Range(a) = Range(s) \cap S
  <2>1. \A c \in Range(a) : \E k \in 1..n : a[k] = c
    BY <1>3, SeqRange
  <2>2. \A k \in 1..n : a[k] \in Range(a)
    BY <1>3, SeqRange
  <2>3. \A k \in 1..n : a[k] \in Range(s) \cap S
    BY <1>1, <1>4 DEF Placed
  <2>4. ASSUME NEW c \in Range(s) \cap S PROVE c \in Range(a)
    <3>1. PICK i \in P : s[i] = c
      BY <1>1
    <3>2. PICK k \in 1..n : o[k] = i
      BY <1>4 DEF Placed
    <3>3. a[k] = c
      BY <1>4, <3>1, <3>2 DEF Placed
    <3> QED
      BY <2>2, <3>3
  <2> QED
    BY <2>1, <2>3, <2>4
<1>6. ASSUME Once(s) PROVE Once(a)
  <2>1. \A k \in 1..n : o[k] \in 1..Len(s) /\ a[k] = s[o[k]]
    BY <1>1, <1>4 DEF Placed
  <2>2. \A i, j \in 1..n : o[i] = o[j] => i = j
    BY <1>4 DEF Placed
  <2> QED
    BY <1>3, <1>6, <2>1, <2>2 DEF Once
<1> QED
  BY <1>3, <1>5, <1>6 DEF a, n, P

(* What lies within the places from the first one is picked as it stands.  *)
LEMMA PickedFromTheFirst ==
  ASSUME NEW T, NEW s, NEW P, PlacesIn(s, P, T), NEW i \in Nat, i # 0,
         \A j \in 1..i : j \in P
  PROVE  i \in 1..Cardinality(P) /\ Picked(s, P)[i] = s[i]
PROOF
<1> DEFINE n == Cardinality(P)
<1>1. PICK o : Placed(s, P, n, Picked(s, P), o)
  BY PickedIs
<1> HIDE DEF n
<1>2. i \in P
  <2>1. i \in 1..i
    OBVIOUS
  <2> QED
    BY <2>1
<1>3. PICK k \in 1..n : o[k] = i
  BY <1>1, <1>2 DEF Placed
<1>4. {j \in P : j < i} = 1..(i - 1)
  <2>1. ASSUME NEW j \in P, j < i PROVE j \in 1..(i - 1)
    <3>1. j \in Nat /\ j # 0
      BY DEF PlacesIn
    <3> QED
      BY <2>1, <3>1
  <2>2. ASSUME NEW j \in 1..(i - 1) PROVE j \in P /\ j < i
    <3>1. j \in 1..i /\ j < i
      OBVIOUS
    <3> QED
      BY <3>1
  <2> QED
    BY <2>1, <2>2
<1>5. Cardinality(1..(i - 1)) = i - 1
  BY FS_Interval
<1>6. k - 1 = i - 1
  BY <1>1, <1>3, <1>4, <1>5 DEF Placed
<1>7. k = i
  BY <1>6
<1> QED
  BY <1>1, <1>3, <1>7 DEF Placed, n

(* More places behind the others change nothing before them.               *)
UpToPlace(s, P, t, Q, m) ==
  /\ m \in Nat /\ P \subseteq Q
  /\ \A i \in Q : i \in P <=> i <= m
  /\ \A i \in P : s[i] = t[i]

(* Of two sequences that agree up to a place, the one with more places to  *)
(* pick goes on where the other ends.                                      *)
LEMMA PickedBefore ==
  ASSUME NEW T, NEW s, NEW t, NEW P, NEW Q, PlacesIn(s, P, T), PlacesIn(t, Q, T),
         NEW m, UpToPlace(s, P, t, Q, m)
  PROVE  /\ Cardinality(P) \in Nat /\ Cardinality(Q) \in Nat
         /\ Cardinality(P) <= Cardinality(Q)
         /\ \A k \in 1..Cardinality(P) : Picked(t, Q)[k] = Picked(s, P)[k]
PROOF
<1>1. IsFiniteSet(P) /\ Cardinality(P) <= Cardinality(Q)
  BY FS_Subset DEF PlacesIn, UpToPlace
<1> DEFINE n == Cardinality(P)
           l == Cardinality(Q)
<1>2. PICK o : n \in Nat /\ Placed(s, P, n, Picked(s, P), o)
  BY <1>1, PickedIs
<1>3. PICK u : l \in Nat /\ Placed(t, Q, l, Picked(t, Q), u)
  BY PickedIs
<1> HIDE DEF n, l
<1>4. ASSUME NEW k \in 1..n PROVE Picked(t, Q)[k] = Picked(s, P)[k]
  <2>1. o[k] \in P /\ o[k] \in Q
    BY <1>2 DEF Placed, UpToPlace
  <2>2. PICK i \in 1..l : u[i] = o[k]
    BY <1>3, <2>1 DEF Placed
  <2>3. {j \in Q : j < o[k]} = {j \in P : j < o[k]}
    <3>1. ASSUME NEW j \in Q, j < o[k] PROVE j \in P
      <4>1. j \in Nat /\ o[k] \in Nat /\ o[k] <= m
        BY <2>1 DEF PlacesIn, UpToPlace
      <4>2. j <= m
        BY <3>1, <4>1 DEF UpToPlace
      <4> QED
        BY <4>2 DEF UpToPlace
    <3> QED
      BY <3>1 DEF UpToPlace
  <2>4. k - 1 = i - 1
    <3>1. Cardinality({j \in Q : j < u[i]}) = i - 1
      BY <1>3 DEF Placed
    <3>2. Cardinality({j \in P : j < o[k]}) = k - 1
      BY <1>2 DEF Placed
    <3>3. {j \in Q : j < u[i]} = {j \in P : j < o[k]}
      BY <2>2, <2>3
    <3> QED
      BY <3>1, <3>2, <3>3
  <2>5. k = i
    BY <2>4
  <2>6. Picked(t, Q)[k] = t[o[k]]
    BY <1>3, <2>2, <2>5 DEF Placed
  <2> QED
    BY <1>2, <2>1, <2>6 DEF Placed, UpToPlace
<1> QED
  BY <1>1, <1>2, <1>3, <1>4 DEF n, l

(* t begins with s.                                                        *)
PrefixOf(s, t) == Len(s) <= Len(t) /\ \A k \in 1..Len(s) : s[k] = t[k]

(* A sequence has the elements of its beginnings.                          *)
LEMMA PrefixRange ==
  ASSUME NEW T, NEW s \in Seq(T), NEW t \in Seq(T), PrefixOf(s, t)
  PROVE  Range(s) \subseteq Range(t)
PROOF
<1>1. ASSUME NEW c \in Range(s) PROVE c \in Range(t)
  <2>1. PICK i \in 1..Len(s) : s[i] = c
    BY SeqRange
  <2>2. i \in 1..Len(t) /\ t[i] = c
    BY <2>1, SeqRange DEF PrefixOf
  <2> QED
    BY <2>2, SeqRange
<1> QED
  BY <1>1

(* A concatenation begins with its first part.                             *)
LEMMA PrefixConcat ==
  ASSUME NEW T, NEW s \in Seq(T), NEW u \in Seq(T)
  PROVE  s \o u \in Seq(T) /\ PrefixOf(s, s \o u)
PROOF
  BY DEF PrefixOf

(* The beginning of a beginning is a beginning.                            *)
LEMMA PrefixSteps ==
  ASSUME NEW T, NEW s \in Seq(T), NEW t \in Seq(T), NEW u \in Seq(T),
         PrefixOf(s, t), PrefixOf(t, u)
  PROVE  PrefixOf(s, u)
PROOF
  BY DEF PrefixOf

(* UpTo() is a beginning of the sequence, of no more than n elements.      *)
LEMMA UpToIs ==
  ASSUME NEW T, NEW s \in Seq(T), NEW n \in Nat
  PROVE  /\ UpTo(s, n) \in Seq(T)
         /\ Len(UpTo(s, n)) = IF Len(s) < n THEN Len(s) ELSE n
         /\ \A i \in 1..Len(UpTo(s, n)) : UpTo(s, n)[i] = s[i]
         /\ PrefixOf(UpTo(s, n), s)
         /\ Once(s) => Once(UpTo(s, n))
PROOF
<1> DEFINE m == IF Len(s) < n THEN Len(s) ELSE n
           u == UpTo(s, n)
<1>1. m \in Nat /\ m <= Len(s) /\ m <= n /\ Len(s) \in Nat
  OBVIOUS
<1>2. u = SubSeq(s, 1, m)
  BY DEF UpTo
<1> HIDE DEF m, u
<1>3. u \in Seq(T) /\ Len(u) = m /\ \A i \in 1..m : u[i] = s[i]
  BY <1>1, <1>2
<1>4. PrefixOf(u, s)
  BY <1>1, <1>3 DEF PrefixOf
<1>5. Once(s) => Once(u)
  BY <1>1, <1>3 DEF Once
<1> QED
  BY <1>3, <1>4, <1>5 DEF u, m

(* Beginnings of one length are beginnings of each other, too.             *)
LEMMA UpToPrefix ==
  ASSUME NEW T, NEW s \in Seq(T), NEW t \in Seq(T), NEW n \in Nat, PrefixOf(s, t)
  PROVE  PrefixOf(UpTo(s, n), UpTo(t, n))
PROOF
<1>1. /\ Len(UpTo(s, n)) = IF Len(s) < n THEN Len(s) ELSE n
      /\ \A i \in 1..Len(UpTo(s, n)) : UpTo(s, n)[i] = s[i]
  BY UpToIs
<1>2. /\ Len(UpTo(t, n)) = IF Len(t) < n THEN Len(t) ELSE n
      /\ \A i \in 1..Len(UpTo(t, n)) : UpTo(t, n)[i] = t[i]
  BY UpToIs
<1>3. Len(s) \in Nat /\ Len(t) \in Nat
  OBVIOUS
<1> QED
  BY <1>1, <1>2, <1>3 DEF PrefixOf

(* Where an element occurs for the first time.                             *)
FirstPlaces(s) == {i \in DOMAIN s : \A j \in 1..(i - 1) : s[j] # s[i]}

(* Distinct() picks the places of first occurrence.                        *)
LEMMA FirstPlacesAre ==
  ASSUME NEW T, NEW s \in Seq(T)
  PROVE  /\ Distinct(s) = Picked(s, FirstPlaces(s))
         /\ PlacesIn(s, FirstPlaces(s), T) /\ FirstPlaces(s) \subseteq 1..Len(s)
PROOF
<1>1. FirstPlaces(s) \subseteq 1..Len(s) /\ Len(s) \in Nat
  BY SeqRange DEF FirstPlaces
<1>2. IsFiniteSet(FirstPlaces(s))
  <2>1. IsFiniteSet(1..Len(s))
    BY <1>1, FS_Interval
  <2> QED
    BY <1>1, <2>1, FS_Subset
<1>3. Distinct(s) = Picked(s, FirstPlaces(s))
  BY DEF Distinct, FirstPlaces
<1> QED
  BY <1>1, <1>2, <1>3, SeqRange DEF PlacesIn

(* Distinct() keeps every element and no repetition, and the first element *)
(* stays first.                                                            *)
LEMMA DistinctIs ==
  ASSUME NEW T, NEW s \in Seq(T)
  PROVE  /\ Distinct(s) \in Seq(T)
         /\ Once(Distinct(s))
         /\ Range(Distinct(s)) = Range(s)
         /\ Once(s) => PrefixOf(s, Distinct(s))
         /\ Len(s) > 0 => Len(Distinct(s)) > 0 /\ Distinct(s)[1] = s[1]
PROOF
<1> DEFINE P == FirstPlaces(s)
           n == Cardinality(P)
           d == Distinct(s)
<1>1. PlacesIn(s, P, T) /\ P \subseteq 1..Len(s) /\ d = Picked(s, P)
  BY FirstPlacesAre
<1>2. Len(s) \in Nat /\ DOMAIN s = 1..Len(s)
  BY SeqRange
<1>3. \A i \in 1..Len(s) : i \in P <=> \A j \in 1..(i - 1) : s[j] # s[i]
  BY <1>2 DEF FirstPlaces
<1> HIDE DEF P, d
<1>4. n \in Nat /\ d \in Seq(T) /\ Len(d) = n
  BY <1>1, PickedIs
<1>5. PICK o : Placed(s, P, n, d, o)
  BY <1>1, PickedIs
<1> HIDE DEF n
<1>6. Once(d)
  <2> SUFFICES ASSUME NEW k \in 1..n, NEW l \in 1..n, d[k] = d[l] PROVE k = l
    BY <1>4 DEF Once
  <2>1. /\ o[k] \in P /\ o[l] \in P /\ s[o[k]] = s[o[l]]
        /\ o[k] = o[l] => k = l
    BY <1>5 DEF Placed
  <2>2. o[k] \in 1..Len(s) /\ o[l] \in 1..Len(s)
    BY <1>1, <2>1
  <2>3. CASE o[k] < o[l]
    <3>1. o[k] \in 1..(o[l] - 1)
      BY <1>2, <2>2, <2>3
    <3> QED
      BY <1>3, <2>1, <2>2, <3>1
  <2>4. CASE o[l] < o[k]
    <3>1. o[l] \in 1..(o[k] - 1)
      BY <1>2, <2>2, <2>4
    <3> QED
      BY <1>3, <2>1, <2>2, <3>1
  <2>5. o[k] < o[l] \/ o[l] < o[k] \/ o[k] = o[l]
    BY <2>2
  <2> QED
    BY <2>1, <2>3, <2>4, <2>5
<1>7. ASSUME NEW c \in Range(s) PROVE c \in Range(d)
  <2> DEFINE I == {i \in 1..Len(s) : s[i] = c}
  <2>1. I \in SUBSET Nat /\ I # {}
    BY SeqRange
  <2>2. PICK i \in I : \A j \in I : i <= j
    <3> HIDE DEF I
    <3> QED
      BY <2>1, LeastNatural
  <2>3. i \in 1..Len(s) /\ s[i] = c
    OBVIOUS
  <2>4. \A j \in 1..(i - 1) : j \in 1..Len(s) /\ ~ (i <= j)
    BY <1>2, <2>3
  <2>5. i \in P
    BY <1>3, <2>2, <2>3, <2>4
  <2>6. PICK k \in 1..n : o[k] = i
    BY <1>5, <2>5 DEF Placed
  <2>7. d[k] = c
    BY <1>5, <2>3, <2>6 DEF Placed
  <2> QED
    BY <1>4, <2>7, SeqRange
<1>8. ASSUME NEW c \in Range(d) PROVE c \in Range(s)
  <2>1. PICK k \in 1..n : d[k] = c
    BY <1>4, SeqRange
  <2>2. o[k] \in 1..Len(s) /\ s[o[k]] = c
    BY <1>1, <1>5, <2>1 DEF Placed
  <2> QED
    BY <2>2, SeqRange
<1>9. ASSUME Once(s) PROVE PrefixOf(s, d)
  <2>1. ASSUME NEW i \in 1..Len(s) PROVE i \in P
    <3>1. \A j \in 1..(i - 1) : j \in 1..Len(s) /\ j # i
      BY <1>2
    <3> QED
      BY <1>3, <1>9, <3>1 DEF Once
  <2>2. ASSUME NEW i \in 1..Len(s) PROVE i \in 1..n /\ d[i] = s[i]
    <3>1. i \in Nat /\ i # 0 /\ \A j \in 1..i : j \in P
      BY <1>2, <2>1
    <3> QED
      BY <1>1, <3>1, PickedFromTheFirst DEF n
  <2>3. Len(s) <= n
    <3>1. Len(s) = 0 \/ Len(s) \in 1..Len(s)
      BY <1>2
    <3> QED
      BY <1>4, <2>2, <3>1
  <2> QED
    BY <1>4, <2>2, <2>3 DEF PrefixOf
<1>10. ASSUME Len(s) > 0 PROVE Len(d) > 0 /\ d[1] = s[1]
  <2>1. 1 \in 1..Len(s) /\ 1..(1 - 1) = {}
    BY <1>2, <1>10
  <2>2. 1 \in Nat /\ 1 # 0 /\ \A j \in 1..1 : j \in P
    BY <1>3, <2>1
  <2>3. 1 \in 1..n /\ d[1] = s[1]
    BY <1>1, <2>2, PickedFromTheFirst DEF n
  <2> QED
    BY <1>4, <2>3
<1> QED
  BY <1>4, <1>6, <1>7, <1>8, <1>9, <1>10 DEF d

(* What is appended to a sequence comes after its distinct elements.       *)
LEMMA DistinctPrefix ==
  ASSUME NEW T, NEW s \in Seq(T), NEW t \in Seq(T), PrefixOf(s, t)
  PROVE  PrefixOf(Distinct(s), Distinct(t))
PROOF
<1> DEFINE P == FirstPlaces(s)
           Q == FirstPlaces(t)
<1>1. PlacesIn(s, P, T) /\ P \subseteq 1..Len(s) /\ Distinct(s) = Picked(s, P)
  BY FirstPlacesAre
<1>2. PlacesIn(t, Q, T) /\ Q \subseteq 1..Len(t) /\ Distinct(t) = Picked(t, Q)
  BY FirstPlacesAre
<1>3. /\ Len(s) \in Nat /\ DOMAIN s = 1..Len(s) /\ Len(t) \in Nat /\ DOMAIN t = 1..Len(t)
      /\ Len(s) <= Len(t) /\ \A k \in 1..Len(s) : s[k] = t[k]
  BY SeqRange DEF PrefixOf
<1>4. ASSUME NEW i \in 1..Len(s) PROVE i \in P <=> i \in Q
  <2>1. \A j \in 1..(i - 1) : s[j] = t[j]
    BY <1>3
  <2> QED
    BY <1>3, <2>1 DEF FirstPlaces
<1> HIDE DEF P, Q
<1>5. P \subseteq Q /\ \A i \in Q : i \in P <=> i <= Len(s)
  <2>1. ASSUME NEW i \in Q, i <= Len(s) PROVE i \in P
    <3>1. i \in 1..Len(s)
      BY <1>2, <1>3, <2>1
    <3> QED
      BY <1>4, <3>1
  <2>2. ASSUME NEW i \in P PROVE i \in Q /\ i <= Len(s)
    <3>1. i \in 1..Len(s)
      BY <1>1
    <3> QED
      BY <1>3, <1>4, <3>1
  <2> QED
    BY <2>1, <2>2
<1>6. \A i \in P : s[i] = t[i]
  BY <1>1, <1>3
<1> DEFINE m == Len(s)
<1>a. UpToPlace(s, P, t, Q, m)
  BY <1>3, <1>5, <1>6 DEF UpToPlace
<1> HIDE DEF m
<1>7. /\ Cardinality(P) <= Cardinality(Q)
      /\ \A k \in 1..Cardinality(P) : Picked(t, Q)[k] = Picked(s, P)[k]
  BY <1>1, <1>2, <1>a, PickedBefore
<1>8. Len(Distinct(s)) = Cardinality(P) /\ Len(Distinct(t)) = Cardinality(Q)
  BY <1>1, <1>2, PickedIs
<1> QED
  BY <1>1, <1>2, <1>7, <1>8 DEF PrefixOf

-----------------------------------------------------------------------------
(* Path bundles *)

(* There are n places up to n.                                             *)
LEMMA PlacesAreCounted ==
  ASSUME NEW n \in Nat
  PROVE  IsFiniteSet(1..n) /\ Cardinality(1..n) = n
<1>1. 1 \in Int /\ n \in Int
  OBVIOUS
<1>2. IsFiniteSet(1..n) /\ Cardinality(1..n) = IF 1 > n THEN 0 ELSE n - 1 + 1
  BY ONLY <1>1, FS_Interval, SMTT(30)
<1> QED BY <1>2

(* A sequence without repetitions has as many elements as places.          *)
LEMMA OnceLength ==
  ASSUME NEW T, NEW s \in Seq(T), Once(s)
  PROVE  IsFiniteSet(Range(s)) /\ Cardinality(Range(s)) = Len(s)
PROOF
<1>1. Len(s) \in Nat /\ IsFiniteSet(1..Len(s)) /\ Cardinality(1..Len(s)) = Len(s)
  <2>1. Len(s) \in Nat
    OBVIOUS
  <2> QED
    BY ONLY <2>1, PlacesAreCounted
<1>2. s \in [1..Len(s) -> Range(s)] /\ DOMAIN s = 1..Len(s)
  BY SeqRange
<1>3. s \in Bijection(1..Len(s), Range(s))
  <2>1. s \in Injection(1..Len(s), Range(s))
    BY <1>2 DEF Injection, IsInjective, Once
  <2>2. s \in Surjection(1..Len(s), Range(s))
    BY <1>2, SeqRange DEF Surjection
  <2> QED
    BY <2>1, <2>2 DEF Bijection
<1> QED
  BY <1>1, <1>3, FS_Bijection DEF ExistsBijection

(* A concatenation has the elements of both parts.                         *)
LEMMA ConcatIs ==
  ASSUME NEW T, NEW s \in Seq(T), NEW t \in Seq(T)
  PROVE  /\ s \o t \in Seq(T) /\ Len(s \o t) = Len(s) + Len(t)
         /\ Range(s \o t) = Range(s) \cup Range(t)
         /\ Once(s) /\ Once(t) /\ (\A c \in Range(s) : c \notin Range(t)) => Once(s \o t)
PROOF
<1> DEFINE u == s \o t
           n == Len(s)
           m == Len(t)
<1>1. /\ n \in Nat /\ m \in Nat /\ u \in Seq(T) /\ Len(u) = n + m
      /\ \A i \in 1..(n + m) : u[i] = IF i <= n THEN s[i] ELSE t[i - n]
  OBVIOUS
<1>2. \A i \in 1..n : s[i] \in Range(s)
  BY SeqRange
<1>3. \A i \in 1..m : t[i] \in Range(t)
  BY SeqRange
<1>4. \A c \in Range(s) : \E i \in 1..n : s[i] = c
  BY SeqRange
<1>5. \A c \in Range(t) : \E i \in 1..m : t[i] = c
  BY SeqRange
<1>6. (\A i \in 1..(n + m) : u[i] \in Range(u)) /\ \A c \in Range(u) : \E i \in 1..(n + m) : u[i] = c
  BY <1>1, SeqRange
<1> HIDE DEF u, n, m
<1>7. ASSUME NEW c \in Range(s) PROVE c \in Range(u)
  <2>1. PICK i \in 1..n : s[i] = c
    BY <1>4
  <2>2. i \in 1..(n + m) /\ u[i] = c
    BY <1>1, <2>1
  <2> QED
    BY <1>6, <2>2
<1>8. ASSUME NEW c \in Range(t) PROVE c \in Range(u)
  <2>1. PICK i \in 1..m : t[i] = c
    BY <1>5
  <2>2. i + n \in 1..(n + m) /\ ~ (i + n <= n) /\ (i + n) - n = i
    BY <1>1, <2>1
  <2>3. u[i + n] = c
    BY <1>1, <2>1, <2>2
  <2> QED
    BY <1>6, <2>2, <2>3
<1>9. ASSUME NEW i \in 1..(n + m)
      PROVE  \/ i \in 1..n /\ u[i] = s[i]
             \/ i - n \in 1..m /\ u[i] = t[i - n]
  BY <1>1
<1>10. ASSUME NEW c \in Range(u) PROVE c \in Range(s) \cup Range(t)
  BY <1>2, <1>3, <1>6, <1>9
<1>11. ASSUME Once(s), Once(t), \A c \in Range(s) : c \notin Range(t) PROVE Once(u)
  <2> SUFFICES ASSUME NEW i \in 1..(n + m), NEW j \in 1..(n + m), u[i] = u[j] PROVE i = j
    BY <1>1 DEF Once
  <2>1. CASE i \in 1..n /\ u[i] = s[i] /\ j \in 1..n /\ u[j] = s[j]
    BY <1>11, <2>1 DEF Once, n
  <2>2. CASE i - n \in 1..m /\ u[i] = t[i - n] /\ j - n \in 1..m /\ u[j] = t[j - n]
    <3>1. i - n = j - n
      BY <1>11, <2>2 DEF Once, m
    <3> QED
      BY <1>1, <3>1
  <2>3. CASE i \in 1..n /\ u[i] = s[i] /\ j - n \in 1..m /\ u[j] = t[j - n]
    BY <1>2, <1>3, <1>11, <2>3
  <2>4. CASE i - n \in 1..m /\ u[i] = t[i - n] /\ j \in 1..n /\ u[j] = s[j]
    BY <1>2, <1>3, <1>11, <2>4
  <2> QED
    BY <1>9, <2>1, <2>2, <2>3, <2>4
<1> QED
  BY <1>1, <1>7, <1>8, <1>10, <1>11 DEF u, n, m

(* What every step keeps, Folded() keeps.                                  *)
LEMMA FoldedStays ==
  ASSUME NEW f, NEW base, NEW s, Len(s) \in Nat, NEW K, base \in K,
         \A i \in 1..Len(s) : \A a \in K : f[a][s[i]] \in K
  PROVE  Folded(f, base, s) \in K
PROOF
<1> DEFINE n == Len(s)
           I == [i \in 0..n |-> K]
<1>1. n \in Nat
  OBVIOUS
<1>2. I[0] = K /\ I[n] = K /\ \A i \in 1..n : I[i] = K /\ I[i - 1] = K
  <2> HIDE DEF n
  <2> QED
    BY <1>1
<1> HIDE DEF I
<1>3. base \in I[0] /\ \A i \in 1..n : \A a \in I[i - 1] : f[a][s[i]] \in I[i]
  BY <1>2
<1>4. Folded(f, base, s) \in I[Len(s)]
  BY <1>3, FoldedKeeps
<1> QED
  BY <1>2, <1>4

(* Sequences of candidates within the limit, none twice                    *)
(* (select_path_bundles).                                                  *)
Selections(order, limit) ==
  {t \in Seq(Chunks) : Once(t) /\ Len(t) <= limit /\ Range(t) \subseteq Range(order)}

(* What may be selected from, and how a step of the selection may change   *)
(* what is chosen.                                                         *)
Offered(order, paths) ==
  order \in Seq(Chunks) /\ Once(order) /\ \A p \in paths : p \subseteq Range(order)

(* A bundle leaves u of the selection t: nothing is lost, and with the     *)
(* bundle comes the candidate it was added for.                            *)
Grows(order, paths, limit, c, t, u) ==
  /\ u \in Selections(order, limit) /\ Range(t) \subseteq Range(u)
  /\ u = t \/ c \in Range(u)
  /\ paths = {} => u = t

(* One path is taken with all of its missing sources, or the selection     *)
(* stays as it is.                                                         *)
LEMMA BundlingStep ==
  ASSUME NEW order, NEW paths, Offered(order, paths), NEW limit \in Nat,
         NEW c \in Chunks, NEW t \in Selections(order, limit), NEW p \in SUBSET Chunks
  PROVE  Grows(order, paths, limit, c, t, Bundling(order, paths, limit, c)[t][p])
PROOF
<1> DEFINE u == Bundling(order, paths, limit, c)[t][p]
           missing == p \ Range(t)
           a == Among(order, missing)
<1>1. /\ t \in Seq(Chunks) /\ Once(t) /\ Len(t) <= limit /\ Range(t) \subseteq Range(order)
      /\ order \in Seq(Chunks) /\ Once(order) /\ \A q \in paths : q \subseteq Range(order)
  BY DEF Selections, Offered
<1>2. u = IF p \in paths /\ c \in p /\ Len(t) + Cardinality(missing) <= limit
          THEN t \o a ELSE t
  BY <1>1 DEF Bundling
<1> SUFFICES Grows(order, paths, limit, c, t, u)
  OBVIOUS
<1> HIDE DEF u
<1>3. CASE ~ (p \in paths /\ c \in p /\ Len(t) + Cardinality(missing) <= limit)
  BY <1>2, <1>3 DEF Grows
<1>4. CASE p \in paths /\ c \in p /\ Len(t) + Cardinality(missing) <= limit
  <2>1. u = t \o a
    BY <1>2, <1>4
  <2>2. a \in Seq(Chunks) /\ Once(a) /\ Range(a) = Range(order) \cap missing
    BY <1>1, AmongIs
  <2>3. Range(a) = missing
    BY <1>1, <1>4, <2>2
  <2>4. Len(a) = Cardinality(missing)
    BY <2>2, <2>3, OnceLength
  <2> HIDE DEF a
  <2>5. /\ u \in Seq(Chunks) /\ Len(u) = Len(t) + Len(a)
        /\ Range(u) = Range(t) \cup Range(a) /\ Once(u)
    BY <1>1, <2>1, <2>2, <2>3, ConcatIs
  <2>6. Range(u) \subseteq Range(order) /\ c \in Range(u)
    BY <1>1, <1>4, <2>2, <2>3, <2>5
  <2>7. Len(u) <= limit
    BY <1>4, <2>4, <2>5
  <2> QED
    BY <1>4, <2>5, <2>6, <2>7 DEF Grows, Selections
<1> QED
  BY <1>3, <1>4

(* So it is when every path of a candidate has had its turn.               *)
LEMMA BundledIs ==
  ASSUME NEW order, NEW paths, Offered(order, paths), NEW limit \in Nat,
         NEW c \in Chunks, NEW t \in Selections(order, limit)
  PROVE  Grows(order, paths, limit, c, t, Folded(Bundling(order, paths, limit, c), t, PathSeq))
PROOF
<1> DEFINE u == Folded(Bundling(order, paths, limit, c), t, PathSeq)
           K == {v \in Selections(order, limit) : Grows(order, paths, limit, c, t, v)}
<1>1. Len(PathSeq) \in Nat /\ \A i \in 1..Len(PathSeq) : PathSeq[i] \in SUBSET Chunks
  BY RetrievalConstantsAssumption
<1>2. t \in K
  BY DEF Grows
<1>3. ASSUME NEW i \in 1..Len(PathSeq), NEW v \in K
      PROVE  Bundling(order, paths, limit, c)[v][PathSeq[i]] \in K
  <2> DEFINE w == Bundling(order, paths, limit, c)[v][PathSeq[i]]
  <2>1. v \in Selections(order, limit) /\ Grows(order, paths, limit, c, t, v)
    OBVIOUS
  <2>2. Grows(order, paths, limit, c, v, w)
    BY <1>1, <2>1, BundlingStep
  <2> HIDE DEF w
  <2>3. w \in Selections(order, limit) /\ Grows(order, paths, limit, c, t, w)
    BY <2>1, <2>2 DEF Grows
  <2> QED
    BY <2>3 DEF w
<1> HIDE DEF K
<1>4. u \in K
  BY <1>1, <1>2, <1>3, FoldedStays
<1> HIDE DEF u
<1> QED
  BY <1>4 DEF u, K

(* One candidate after the other: it or the path it completes.             *)
LEMMA TakingStep ==
  ASSUME NEW order, NEW paths, Offered(order, paths), NEW limit \in Nat \ {0},
         NEW c \in Range(order), NEW t \in Selections(order, limit)
  PROVE  LET u == Taking(order, paths, limit)[t][c]
         IN /\ u \in Selections(order, limit) /\ Range(t) \subseteq Range(u)
            /\ t = <<>> => c \in Range(u)
            /\ paths = {} => u = IF c \in Range(t) \/ Len(t) >= limit THEN t ELSE Append(t, c)
PROOF
<1> DEFINE u == Taking(order, paths, limit)[t][c]
           b == Folded(Bundling(order, paths, limit, c), t, PathSeq)
<1>1. /\ t \in Seq(Chunks) /\ order \in Seq(Chunks) /\ c \in Chunks
      /\ limit \in Nat /\ limit > 0 /\ \A p \in paths : p \subseteq Range(order)
  BY SeqRange DEF Selections, Offered
<1>2. u = IF c \in Range(t) THEN t
          ELSE IF c \in Range(b) \/ Len(b) >= limit THEN b ELSE Append(b, c)
  BY <1>1 DEF Taking
<1> SUFFICES /\ u \in Selections(order, limit) /\ Range(t) \subseteq Range(u)
             /\ t = <<>> => c \in Range(u)
             /\ paths = {} => u = IF c \in Range(t) \/ Len(t) >= limit THEN t ELSE Append(t, c)
  OBVIOUS
<1> HIDE DEF u
<1>3. Grows(order, paths, limit, c, t, b)
  BY <1>1, BundledIs
<1> HIDE DEF b
<1>4. /\ b \in Seq(Chunks) /\ Once(b) /\ Len(b) <= limit /\ Range(b) \subseteq Range(order)
      /\ Range(t) \subseteq Range(b) /\ (b = t \/ c \in Range(b)) /\ (paths = {} => b = t)
      /\ Len(b) \in Nat
  BY <1>3 DEF Grows, Selections
<1>5. CASE c \in Range(t)
  <2>1. t # <<>>
    BY <1>5 DEF Range
  <2> QED
    BY <1>2, <1>5, <2>1
<1>6. CASE c \notin Range(t) /\ (c \in Range(b) \/ Len(b) >= limit)
  <2>1. u = b /\ b \in Selections(order, limit)
    BY <1>2, <1>4, <1>6 DEF Selections
  <2>2. t = <<>> /\ b = t => Len(b) = 0
    OBVIOUS
  <2>3. t = <<>> => c \in Range(u)
    BY <1>1, <1>4, <1>6, <2>1, <2>2
  <2>4. paths = {} => Len(t) >= limit
    BY <1>4, <1>6
  <2> QED
    BY <1>4, <1>6, <2>1, <2>3, <2>4
<1>7. CASE c \notin Range(t) /\ c \notin Range(b) /\ ~ (Len(b) >= limit)
  <2>1. u = Append(b, c)
    BY <1>2, <1>7
  <2>2. Append(b, c) = b \o <<c>> /\ <<c>> \in Seq(Chunks) /\ Len(<<c>>) = 1
    BY <1>1, <1>4
  <2>3. Range(<<c>>) = {c} /\ Once(<<c>>)
    BY DEF Range, Once
  <2>4. /\ u \in Seq(Chunks) /\ Len(u) = Len(b) + 1 /\ Range(u) = Range(b) \cup {c} /\ Once(u)
    <3> DEFINE d == <<c>>
    <3>1. d \in Seq(Chunks) /\ Len(d) = 1 /\ Range(d) = {c} /\ Once(d) /\ u = b \o d
      BY <2>1, <2>2, <2>3
    <3> HIDE DEF d
    <3>2. \A x \in Range(b) : x \notin Range(d)
      BY <1>7, <3>1
    <3>3. b \in Seq(Chunks) /\ Once(b) /\ d \in Seq(Chunks) /\ Once(d)
      BY <1>4, <3>1
    <3>4. /\ b \o d \in Seq(Chunks) /\ Len(b \o d) = Len(b) + Len(d)
          /\ Range(b \o d) = Range(b) \cup Range(d) /\ Once(b \o d)
      <4>1. b \o d \in Seq(Chunks) /\ Len(b \o d) = Len(b) + Len(d)
        BY <3>3, ConcatIs
      <4>2. Range(b \o d) = Range(b) \cup Range(d)
        BY <3>3, ConcatIs
      <4>3. Once(b \o d)
        BY <3>2, <3>3, ConcatIs
      <4> QED
        BY <4>1, <4>2, <4>3
    <3> QED
      BY <3>1, <3>4
  <2>5. Len(u) <= limit
    BY <1>1, <1>4, <1>7, <2>4
  <2>6. u \in Selections(order, limit)
    BY <1>4, <2>4, <2>5 DEF Selections
  <2>7. paths = {} => ~ (Len(t) >= limit) /\ u = Append(t, c)
    BY <1>4, <1>7, <2>1
  <2> QED
    BY <1>4, <1>7, <2>4, <2>6, <2>7
<1> QED
  BY <1>5, <1>6, <1>7

(* What is selected: of the candidates, no more than the limit, none twice,*)
(* always the first; without paths the first ones.                         *)
LEMMA SelectedIs ==
  ASSUME NEW order, NEW paths, Offered(order, paths), NEW limit \in Nat \ {0}
  PROVE  /\ SelectBundles(order, paths, limit) \in Selections(order, limit)
         /\ Len(order) > 0 => order[1] \in Range(SelectBundles(order, paths, limit))
         /\ paths = {} => PrefixOf(UpTo(order, limit), SelectBundles(order, paths, limit))
PROOF
<1> DEFINE n == Len(order)
           f == Taking(order, paths, limit)
           u == SelectBundles(order, paths, limit)
           Of(i) == {t \in Selections(order, limit) :
                       /\ i = 0 => t = <<>>
                       /\ i > 0 => order[1] \in Range(t)
                       /\ paths = {} => /\ Len(t) = IF i < limit THEN i ELSE limit
                                        /\ \A k \in 1..Len(t) : t[k] = order[k]}
           I == [i \in 0..n |-> Of(i)]
<1>1. /\ order \in Seq(Chunks) /\ Once(order) /\ n \in Nat /\ DOMAIN order = 1..n
      /\ limit \in Nat /\ limit > 0 /\ \A i \in 1..n : order[i] \in Range(order)
  BY SeqRange DEF Offered
<1>2. <<>> \in Of(0)
  <2>1. /\ <<>> \in Seq(Chunks) /\ Len(<<>>) = 0 /\ Once(<<>>) /\ Range(<<>>) = {}
    BY DEF Once, Range
  <2> QED
    BY <1>1, <2>1 DEF Selections
<1>3. ASSUME NEW i \in 1..n, NEW t \in Of(i - 1) PROVE f[t][order[i]] \in Of(i)
  <2> DEFINE w == f[t][order[i]]
             c == order[i]
  <2>1. /\ w \in Selections(order, limit) /\ Range(t) \subseteq Range(w)
        /\ t = <<>> => c \in Range(w)
        /\ paths = {} => w = IF c \in Range(t) \/ Len(t) >= limit THEN t ELSE Append(t, c)
    BY <1>1, TakingStep
  <2> HIDE DEF w
  <2>2. i > 0 /\ i # 0 /\ i \in Nat /\ (i - 1 > 0 \/ i = 1)
    BY <1>1
  <2>3. order[1] \in Range(w)
    BY <2>1, <2>2
  <2>4. ASSUME paths = {}
        PROVE  /\ Len(w) = IF i < limit THEN i ELSE limit
               /\ \A k \in 1..Len(w) : w[k] = order[k]
    <3>1. /\ t \in Seq(Chunks) /\ Len(t) = IF i - 1 < limit THEN i - 1 ELSE limit
          /\ \A k \in 1..Len(t) : t[k] = order[k]
      BY <2>4 DEF Selections
    <3>2. c \notin Range(t)
      <4> SUFFICES ASSUME c \in Range(t) PROVE FALSE
        OBVIOUS
      <4>1. PICK k \in 1..Len(t) : t[k] = c
        BY <3>1, SeqRange
      <4>2. k \in 1..n /\ k # i /\ order[k] = order[i]
        BY <1>1, <2>2, <3>1, <4>1
      <4> QED
        BY <1>1, <4>2 DEF Once
    <3>3. CASE Len(t) >= limit
      BY <1>1, <2>1, <2>2, <2>4, <3>1, <3>3
    <3>4. CASE ~ (Len(t) >= limit)
      <4>1. w = Append(t, c) /\ Len(t) = i - 1 /\ i <= limit
        BY <1>1, <2>1, <2>2, <2>4, <3>1, <3>2, <3>4
      <4>2. Len(w) = i /\ \A k \in 1..i : w[k] = IF k = i THEN c ELSE t[k]
        BY <1>1, <2>2, <3>1, <4>1
      <4> QED
        BY <1>1, <2>2, <3>1, <4>1, <4>2
    <3> QED
      BY <3>3, <3>4
  <2> QED
    BY <2>1, <2>2, <2>3, <2>4 DEF w
<1> HIDE DEF Of
<1>4. \A i \in 0..n : I[i] = Of(i)
  OBVIOUS
<1> HIDE DEF I
<1>5. <<>> \in I[0] /\ \A i \in 1..n : \A t \in I[i - 1] : f[t][order[i]] \in I[i]
  BY <1>1, <1>2, <1>3, <1>4
<1> HIDE DEF f
<1>6. Folded(f, <<>>, order) \in I[n]
  BY <1>1, <1>5, FoldedKeeps
<1>7. u \in Of(n)
  <2>1. u = Folded(f, <<>>, order)
    BY DEF SelectBundles, f
  <2>2. n \in 0..n
    BY <1>1
  <2> QED
    BY <1>4, <1>6, <2>1, <2>2
<1> HIDE DEF u
<1>8. ASSUME paths = {} PROVE PrefixOf(UpTo(order, limit), u)
  <2>1. /\ Len(u) = IF n < limit THEN n ELSE limit
        /\ \A k \in 1..Len(u) : u[k] = order[k]
    BY <1>7, <1>8 DEF Of
  <2>2. /\ Len(UpTo(order, limit)) = IF n < limit THEN n ELSE limit
        /\ \A k \in 1..Len(UpTo(order, limit)) : UpTo(order, limit)[k] = order[k]
    BY <1>1, UpToIs
  <2> QED
    BY <1>1, <2>1, <2>2 DEF PrefixOf
<1>9. u \in Selections(order, limit) /\ (n > 0 => order[1] \in Range(u))
  BY <1>7 DEF Of
<1> QED
  BY <1>8, <1>9 DEF u, n

-----------------------------------------------------------------------------
(* Fusion *)

(* Rankings are sequences of chunks without repetitions.                   *)
LEMMA RankingsAre ==
  \A s : s \in Rankings <=> s \in Seq(Chunks) /\ Once(s)
PROOF
<1>0. IsFiniteSet(Chunks) /\ Cardinality(Chunks) \in Nat
  BY RetrievalConstantsAssumption, FS_CardinalityType
<1>1. ASSUME NEW s \in Rankings PROVE s \in Seq(Chunks) /\ Once(s)
  <2>1. PICK n \in 0..Cardinality(Chunks) : s \in [1..n -> Chunks]
    BY DEF Rankings
  <2>2. n \in Nat /\ s \in Seq(Chunks) /\ Len(s) = n /\ DOMAIN s = 1..n
    BY <1>0, <2>1
  <2>3. \A i, j \in DOMAIN s : i # j => s[i] # s[j]
    BY DEF Rankings
  <2> QED
    BY <2>2, <2>3 DEF Once
<1>2. ASSUME NEW s \in Seq(Chunks), Once(s) PROVE s \in Rankings
  <2>1. Len(s) \in Nat /\ DOMAIN s = 1..Len(s) /\ s \in [1..Len(s) -> Chunks]
    OBVIOUS
  <2>2. Range(s) \subseteq Chunks /\ Cardinality(Range(s)) = Len(s)
    BY <1>2, OnceLength, SeqRange
  <2>3. Len(s) <= Cardinality(Chunks)
    BY <1>0, <2>2, FS_Subset
  <2>4. Len(s) \in 0..Cardinality(Chunks)
    BY <1>0, <2>1, <2>3
  <2>5. s \in UNION {[1..n -> Chunks] : n \in 0..Cardinality(Chunks)}
    BY <2>1, <2>4
  <2>6. \A i, j \in DOMAIN s : i # j => s[i] # s[j]
    BY <1>2, <2>1 DEF Once
  <2> QED
    BY <2>5, <2>6 DEF Rankings
<1> QED
  BY <1>1, <1>2

(* Picked() repeats nothing that did not repeat before.                    *)
LEMMA PickedOnce ==
  ASSUME NEW T, NEW s \in Seq(T), Once(s), NEW P \in SUBSET (DOMAIN s)
  PROVE  /\ Picked(s, P) \in Seq(T) /\ Once(Picked(s, P))
         /\ Range(Picked(s, P)) \subseteq Range(s)
PROOF
<1> DEFINE n == Cardinality(P)
           a == Picked(s, P)
<1>0. IsFiniteSet(P)
  BY SeqRange, FS_Subset
<1>1. PlacesIn(s, P, T) /\ P \subseteq 1..Len(s)
  BY <1>0, SeqRange DEF PlacesIn
<1>2. n \in Nat /\ a \in Seq(T) /\ Len(a) = n
  BY <1>1, PickedIs
<1>3. PICK o : Placed(s, P, n, a, o)
  BY <1>1, PickedIs
<1> HIDE DEF n, a
<1>4. /\ \A k \in 1..n : o[k] \in 1..Len(s) /\ a[k] = s[o[k]]
      /\ \A i, j \in 1..n : o[i] = o[j] => i = j
  BY <1>1, <1>3 DEF Placed
<1>5. Once(a)
  BY <1>2, <1>4 DEF Once
<1>6. ASSUME NEW c \in Range(a) PROVE c \in Range(s)
  <2>1. PICK k \in 1..n : a[k] = c
    BY <1>2, SeqRange
  <2> QED
    BY <1>4, <2>1, SeqRange
<1> QED
  BY <1>2, <1>5, <1>6 DEF a

(* Rank() is the place of the chunk in the ranking.                        *)
LEMMA RankIs ==
  ASSUME NEW T, NEW s \in Seq(T), NEW c \in Range(s)
  PROVE  Rank(s, c) \in 1..Len(s) /\ s[Rank(s, c)] = c
PROOF
  BY SeqRange DEF Rank

(* Reciprocal ranks are numbers, so that they can be added and compared.   *)
LEMMA RRFIs ==
  ASSUME NEW r \in Nat
  PROVE  RRF(r) \in Nat
PROOF
  BY DEF RRF

(* Ordered by a number, and among equal ones by another that tells them    *)
(* apart.                                                                  *)
Keyed(S, high, low) ==
  [c \in S |-> {b \in S : \/ high[b] > high[c]
                          \/ high[b] = high[c] /\ low[b] < low[c]}]

(* Higher scores first and, among equal ones, the lower key: an order when *)
(* the two keys tell all elements apart.                                   *)
LEMMA TwoKeys ==
  ASSUME NEW S, NEW high, NEW low,
         \A c \in S : high[c] \in Int /\ low[c] \in Int,
         \A b, c \in S : high[b] = high[c] /\ low[b] = low[c] => b = c
  PROVE  Ahead(S, Keyed(S, high, low))
PROOF
<1> DEFINE before(b, c) == \/ high[b] > high[c]
                           \/ high[b] = high[c] /\ low[b] < low[c]
           ahead == [c \in S |-> {b \in S : before(b, c)}]
<1>1. \A b, c \in S : before(b, c) <=> b \in ahead[c]
  OBVIOUS
<1>2. \A c \in S : ahead[c] \subseteq S
  OBVIOUS
<1>3. \A c \in S : ~ before(c, c)
  OBVIOUS
<1>4. \A b, c \in S : b # c => before(b, c) \/ before(c, b)
  OBVIOUS
<1>5. \A a, b, c \in S : before(a, b) /\ before(b, c) => before(a, c)
  OBVIOUS
<1> SUFFICES Ahead(S, ahead)
  BY DEF Keyed
<1> HIDE DEF ahead, before
<1>6. \A b, c \in S : b \in ahead[c] => ahead[b] \subseteq ahead[c]
  BY <1>1, <1>2, <1>5
<1>7. \A c \in S : c \notin ahead[c]
  BY <1>1, <1>3
<1>8. \A b, c \in S : b # c => b \in ahead[c] \/ c \in ahead[b]
  BY <1>1, <1>4
<1> QED
  BY <1>2, <1>6, <1>7, <1>8 DEF Ahead

(* Sorting repeats nothing.                                                *)
LEMMA SortedOnce ==
  ASSUME NEW S, IsFiniteSet(S), NEW ahead, Ahead(S, ahead)
  PROVE  SortedBy(S, ahead) \in Seq(S) /\ Once(SortedBy(S, ahead))
PROOF
<1> DEFINE n == Cardinality(S)
           s == SortedBy(S, ahead)
<1>1. n \in Nat /\ s \in [1..n -> S] /\ \A i, j \in 1..n : s[i] = s[j] => i = j
  BY Sorting
<1> HIDE DEF n, s
<1>2. s \in Seq(S) /\ Len(s) = n
  BY <1>1
<1> QED
  BY <1>1, <1>2 DEF Once, s

(* Fusion gives a ranking of the recalled chunks (fuse_candidates).        *)
LEMMA FuseIs ==
  ASSUME NEW hits \in [Channels -> Rankings], NEW paths \in SUBSET KnownPaths,
         NEW limit \in Nat \ {0}
  PROVE  Fuse(hits, paths, limit) \in Rankings
PROOF
<1> DEFINE recalled == UNION {Range(hits[ch]) : ch \in Channels}
           score == [c \in recalled |-> Reciprocal(hits["dense"], c) + Reciprocal(hits["bm25"], c)
                                          + Reciprocal(hits["graph"], c)]
           ahead == [c \in recalled |-> {b \in recalled : \/ score[b] > score[c]
                                                          \/ score[b] = score[c] /\ b < c}]
           sorted == SortedBy(recalled, ahead)
           P == {i \in DOMAIN sorted :
                   \/ sorted[i] \in UNION paths
                   \/ \A j \in 1..(i - 1) : TextOf[sorted[j]] # TextOf[sorted[i]]}
           unique == Picked(sorted, P)
           complete == CompletePaths(paths, unique, Range(hits["graph"]))
<1>1. /\ \A ch \in Channels : hits[ch] \in Seq(Chunks) /\ Range(hits[ch]) \subseteq Chunks
      /\ "dense" \in Channels /\ "bm25" \in Channels /\ "graph" \in Channels
  BY RankingsAre, SeqRange DEF Channels
<1>2. recalled \subseteq Chunks /\ IsFiniteSet(recalled) /\ \A c \in recalled : c \in Nat
  <2>1. recalled \subseteq Chunks
    BY <1>1
  <2> HIDE DEF recalled
  <2> QED
    BY <2>1, RetrievalConstantsAssumption, FS_Subset
<1> HIDE DEF recalled
<1>3. \A c \in recalled : score[c] \in Nat
  <2>1. ASSUME NEW ch \in Channels, NEW c \in recalled PROVE Reciprocal(hits[ch], c) \in Nat
    <3>1. c \in Range(hits[ch]) => Rank(hits[ch], c) \in Nat
      BY <1>1, RankIs
    <3> QED
      BY <3>1, RRFIs DEF Reciprocal
  <2> QED
    BY <1>1, <2>1
<1> HIDE DEF score
<1>4. Ahead(recalled, ahead)
  <2> DEFINE low == [c \in recalled |-> c]
  <2>1. \A c \in recalled : low[c] = c
    OBVIOUS
  <2> HIDE DEF low
  <2>2. Ahead(recalled, Keyed(recalled, score, low))
    <3>1. \A c \in recalled : score[c] \in Int /\ low[c] \in Int
      BY <1>2, <1>3, <2>1
    <3>2. \A b, c \in recalled : score[b] = score[c] /\ low[b] = low[c] => b = c
      BY <2>1
    <3> QED
      BY <3>1, <3>2, TwoKeys
  <2>3. Keyed(recalled, score, low) = ahead
    BY <2>1 DEF Keyed
  <2> QED
    BY <2>2, <2>3
<1> HIDE DEF ahead
<1>5. sorted \in Seq(Chunks) /\ Once(sorted)
  <2>1. sorted \in Seq(recalled) /\ Once(sorted)
    BY <1>2, <1>4, SortedOnce
  <2> HIDE DEF sorted
  <2> QED
    BY <1>2, <2>1
<1>6. unique \in Seq(Chunks) /\ Once(unique)
  <2>1. P \in SUBSET (DOMAIN sorted)
    OBVIOUS
  <2> HIDE DEF P, sorted
  <2> QED
    BY <1>5, <2>1, PickedOnce
<1>7. Fuse(hits, paths, limit) = SelectBundles(unique, complete, limit)
  BY DEF Fuse, recalled, score, ahead
<1> HIDE DEF sorted, P, unique
<1>8. Offered(unique, complete)
  BY <1>6 DEF Offered, CompletePaths
<1> HIDE DEF complete
<1>9. SelectBundles(unique, complete, limit) \in Selections(unique, limit)
  BY <1>8, SelectedIs
<1> QED
  BY <1>7, <1>9, RankingsAre DEF Selections

(* The order of a facet is a sequence of chunks (fuse_facet_rankings).     *)
LEMMA FacetOrderIs ==
  ASSUME NEW fused \in Rankings, NEW facet \in Rankings, Range(facet) \subseteq Range(fused)
  PROVE  FacetOrder(fused, facet) \in Seq(Chunks)
PROOF
<1> DEFINE S == Range(facet)
           score == [c \in S |-> RRF(Rank(fused, c)) + RRF(Rank(facet, c))]
           low == [c \in S |-> Rank(fused, c)]
           ahead == [c \in S |-> {b \in S : \/ score[b] > score[c]
                                            \/ score[b] = score[c] /\ Rank(fused, b) < Rank(fused, c)}]
<1>1. fused \in Seq(Chunks) /\ Once(fused) /\ facet \in Seq(Chunks) /\ S \subseteq Chunks
  BY RankingsAre, SeqRange
<1>2. IsFiniteSet(S)
  BY <1>1, RetrievalConstantsAssumption, FS_Subset
<1>3. \A c \in S : /\ Rank(fused, c) \in Nat /\ fused[Rank(fused, c)] = c
                   /\ Rank(facet, c) \in Nat
  BY <1>1, RankIs
<1> HIDE DEF S
<1>4. \A c \in S : score[c] \in Nat /\ low[c] \in Nat
  BY <1>3, RRFIs
<1>5. \A c \in S : low[c] = Rank(fused, c)
  OBVIOUS
<1>6. \A b, c \in S : low[b] = low[c] => b = c
  BY <1>3, <1>5
<1> HIDE DEF score, low
<1>7. Ahead(S, ahead)
  <2>1. Ahead(S, Keyed(S, score, low))
    <3>1. \A c \in S : score[c] \in Int /\ low[c] \in Int
      BY <1>4
    <3>2. \A b, c \in S : score[b] = score[c] /\ low[b] = low[c] => b = c
      BY <1>6
    <3> QED
      BY <3>1, <3>2, TwoKeys
  <2>2. Keyed(S, score, low) = ahead
    BY <1>5 DEF Keyed
  <2> QED
    BY <2>1, <2>2
<1> HIDE DEF ahead
<1>8. FacetOrder(fused, facet) = SortedBy(S, ahead)
  BY DEF FacetOrder, S, ahead, score
<1>9. SortedBy(S, ahead) \in Seq(S)
  BY <1>2, <1>7, SortedOnce
<1> QED
  BY <1>1, <1>8, <1>9 DEF S

-----------------------------------------------------------------------------
(* Coverage of facets *)

(* Rankings taken in turn make a sequence of their elements (zip_longest   *)
(* of cover_facets).                                                       *)
LEMMA InTurnIs ==
  ASSUME NEW T, NEW rankings \in Seq(Seq(T))
  PROVE  InTurn(rankings) \in Seq(T)
PROOF
<1> DEFINE places == {p \in (1..Cardinality(Chunks)) \X (DOMAIN rankings) :
                        p[1] <= Len(rankings[p[2]])}
           ahead == [p \in places |-> {q \in places : \/ q[1] < p[1]
                                                      \/ q[1] = p[1] /\ q[2] < p[2]}]
           sorted == SortedBy(places, ahead)
           n == Cardinality(places)
           t == [k \in 1..n |-> rankings[sorted[k][2]][sorted[k][1]]]
<1>1. Cardinality(Chunks) \in Nat /\ Len(rankings) \in Nat /\ DOMAIN rankings = 1..Len(rankings)
  BY RetrievalConstantsAssumption, FS_CardinalityType, SeqRange
<1>2. IsFiniteSet(places)
  <2>1. IsFiniteSet(1..Cardinality(Chunks)) /\ IsFiniteSet(1..Len(rankings))
    BY <1>1, FS_Interval
  <2>2. IsFiniteSet((1..Cardinality(Chunks)) \X (DOMAIN rankings))
    BY <1>1, <2>1, FS_Product
  <2> QED
    BY <2>2, FS_Subset
<1>3. \A p \in places : /\ p[1] \in Int /\ p[2] \in Int /\ p = <<p[1], p[2]>>
                        /\ rankings[p[2]][p[1]] \in T
  <2>1. ASSUME NEW p \in places PROVE /\ p[1] \in Int /\ p[2] \in Int /\ p = <<p[1], p[2]>>
                                      /\ rankings[p[2]][p[1]] \in T
    <3>1. /\ p[1] \in 1..Cardinality(Chunks) /\ p[2] \in 1..Len(rankings) /\ p = <<p[1], p[2]>>
          /\ p[1] <= Len(rankings[p[2]])
      BY <1>1
    <3>2. rankings[p[2]] \in Seq(T) /\ p[1] \in 1..Len(rankings[p[2]])
      BY <1>1, <3>1
    <3>3. rankings[p[2]][p[1]] \in T
      BY <3>2, SeqRange
    <3> QED
      BY <1>1, <3>1, <3>3
  <2> QED
    BY <2>1
<1> HIDE DEF places
<1>4. Ahead(places, ahead)
  <2> DEFINE high == [p \in places |-> - p[1]]
             low == [p \in places |-> p[2]]
  <2>1. \A p \in places : high[p] = - p[1] /\ low[p] = p[2]
    OBVIOUS
  <2> HIDE DEF high, low
  <2>2. \A p \in places : high[p] \in Int /\ low[p] \in Int
    BY <1>3, <2>1
  <2>3. \A b, c \in places : high[b] = high[c] /\ low[b] = low[c] => b = c
    <3>1. ASSUME NEW b \in places, NEW c \in places, high[b] = high[c], low[b] = low[c]
          PROVE  b = c
      <4>1. b[1] = c[1] /\ b[2] = c[2]
        BY <1>3, <2>1, <3>1
      <4> QED
        BY <1>3, <4>1
    <3> QED
      BY <3>1
  <2>4. Ahead(places, Keyed(places, high, low))
    BY <2>2, <2>3, TwoKeys
  <2>5. ASSUME NEW c \in places
        PROVE  {b \in places : \/ high[b] > high[c]
                               \/ high[b] = high[c] /\ low[b] < low[c]}
               = {q \in places : \/ q[1] < c[1]
                                 \/ q[1] = c[1] /\ q[2] < c[2]}
    BY <1>3, <2>1
  <2>6. Keyed(places, high, low) = ahead
    BY <2>5 DEF Keyed
  <2> QED
    BY <2>4, <2>6
<1> HIDE DEF ahead
<1>5. n \in Nat /\ sorted \in [1..n -> places]
  BY <1>2, <1>4, Sorting
<1>6. InTurn(rankings) = Tuple(t)
  BY DEF InTurn, places, ahead
<1> HIDE DEF sorted, n
<1>7. t \in Seq(T)
  <2>1. \A k \in 1..n : rankings[sorted[k][2]][sorted[k][1]] \in T
    BY <1>3, <1>5
  <2> QED
    BY <1>5, <2>1
<1> HIDE DEF t
<1> QED
  BY <1>6, <1>7, TupleIs

(* A sequence is one over any set that holds its elements.                 *)
LEMMA SeqWithin ==
  ASSUME NEW T, NEW U, NEW s \in Seq(T), Range(s) \subseteq U
  PROVE  s \in Seq(U)
PROOF
<1>1. Len(s) \in Nat /\ s = [i \in 1..Len(s) |-> s[i]] /\ \A i \in 1..Len(s) : s[i] \in U
  BY SeqRange
<1> QED
  BY <1>1

(* The best of the question and of every facet.                            *)
Best(ranked, facets, S) ==
  UpTo(ranked, 1) \o Among([i \in DOMAIN facets |-> facets[i][1]], S)

(* Rankings for the facets, of candidates that the fusion ranked.          *)
FacetsOf(facets, fused) ==
  facets \in Seq(Rankings)
  /\ \A i \in 1..Len(facets) : facets[i] # <<>> /\ Range(facets[i]) \subseteq Range(fused)

(* Distinct() adds nothing to a sequence without repetitions.              *)
LEMMA DistinctOfOnce ==
  ASSUME NEW T, NEW s \in Seq(T), Once(s)
  PROVE  PrefixOf(Distinct(s), s)
PROOF
<1>1. Len(s) = Cardinality(Range(s)) /\ PrefixOf(s, Distinct(s))
  BY OnceLength, DistinctIs
<1>2. Len(Distinct(s)) = Cardinality(Range(Distinct(s)))
  BY OnceLength, DistinctIs
<1>3. Len(Distinct(s)) = Len(s)
  BY <1>1, <1>2, DistinctIs
<1> QED
  BY <1>1, <1>3 DEF PrefixOf

(* The best for the question comes first, then the best of each facet, as  *)
(* far as it is left.                                                      *)
LEMMA BestIs ==
  ASSUME NEW ranked \in Seq(Chunks), NEW fused \in Rankings, NEW facets, FacetsOf(facets, fused), NEW S
  PROVE  /\ Best(ranked, facets, S) \in Seq(Chunks)
         /\ Range(ranked) \subseteq S => Range(Best(ranked, facets, S)) \subseteq S
         /\ facets = <<>> => Best(ranked, facets, S) = UpTo(ranked, 1)
         /\ Len(ranked) > 0 => Len(Best(ranked, facets, S)) > 0 /\ Best(ranked, facets, S)[1] = ranked[1]
PROOF
<1> DEFINE firsts == [i \in DOMAIN facets |-> facets[i][1]]
           a == Among(firsts, S)
           u == UpTo(ranked, 1)
           b == Best(ranked, facets, S)
<1>1. Len(facets) \in Nat /\ DOMAIN facets = 1..Len(facets)
  BY SeqRange DEF FacetsOf
<1>2. ASSUME NEW i \in 1..Len(facets) PROVE facets[i][1] \in Chunks
  <2>1. facets[i] \in Seq(Chunks) /\ facets[i] # <<>>
    BY <1>1, RankingsAre DEF FacetsOf
  <2>2. 1 \in 1..Len(facets[i])
    BY <2>1
  <2> QED
    BY <2>1, <2>2, SeqRange
<1>3. firsts \in Seq(Chunks) /\ Len(firsts) = Len(facets)
  BY <1>1, <1>2
<1> HIDE DEF firsts
<1>4. a \in Seq(Chunks) /\ Range(a) = Range(firsts) \cap S
  BY <1>3, AmongIs
<1>5. /\ u \in Seq(Chunks) /\ Len(u) = IF Len(ranked) < 1 THEN Len(ranked) ELSE 1
      /\ \A i \in 1..Len(u) : u[i] = ranked[i]
      /\ PrefixOf(u, ranked)
  <2>1. ranked \in Seq(Chunks) /\ 1 \in Nat
    OBVIOUS
  <2> QED BY ONLY <2>1, UpToIs
<1>6. b = u \o a
  BY DEF Best, firsts
<1> HIDE DEF a, u, b
<1>7. ASSUME facets = <<>> PROVE b = u
  <2>1. Len(firsts) = 0
    BY <1>3, <1>7
  <2>2. Range(firsts) = {}
    <3>1. 1..Len(firsts) = {}
      BY <2>1
    <3>2. \A c : c \notin Range(firsts)
      BY <1>3, <3>1, SeqRange
    <3> QED
      BY <3>2
  <2>3. a = <<>>
    <3>1. \A i \in 1..Len(a) : a[i] \in Range(a)
      BY <1>4, SeqRange
    <3>2. Len(a) = 0
      BY <1>4, <2>2, <3>1
    <3> QED
      BY <1>4, <3>2
  <2> QED
    BY <1>5, <1>6, <2>3
<1>8. ASSUME Len(ranked) > 0 PROVE Len(b) > 0 /\ b[1] = ranked[1]
  BY <1>4, <1>5, <1>6, <1>8
<1>9. ASSUME Range(ranked) \subseteq S PROVE Range(b) \subseteq S
  <2>1. Range(u) \subseteq Range(ranked)
    BY <1>5, PrefixRange
  <2>2. Range(b) = Range(u) \cup Range(a)
    BY <1>4, <1>5, <1>6, ConcatIs
  <2> QED
    BY <1>4, <1>9, <2>1, <2>2
<1> QED
  BY <1>4, <1>5, <1>6, <1>7, <1>8, <1>9 DEF b, u

(* cover_facets() gives candidates that are left, each once, the best ones *)
(* in front.                                                               *)
LEMMA CoveredIs ==
  ASSUME NEW ranked \in Rankings, NEW fused \in Rankings, NEW facets, FacetsOf(facets, fused),
         NEW S, Range(ranked) \subseteq S, NEW limit \in Nat \ {0}
  PROVE  LET covered == CoverFacets(ranked, fused, facets, S, limit)
         IN /\ covered \in Seq(Chunks) /\ Once(covered) /\ Range(covered) \subseteq S
            /\ PrefixOf(UpTo(Distinct(Best(ranked, facets, S)), limit), covered)
            /\ Len(ranked) > 0 => Len(covered) > 0 /\ covered[1] = ranked[1]
PROOF
<1> DEFINE covered == CoverFacets(ranked, fused, facets, S, limit)
           best == Best(ranked, facets, S)
           orders == [i \in DOMAIN facets |-> Among(FacetOrder(fused, facets[i]), S)]
           all == best \o InTurn(Tuple(orders)) \o ranked
<1>1. ranked \in Seq(Chunks) /\ Once(ranked) /\ limit \in Nat /\ limit > 0
  BY RankingsAre
<1>2. /\ best \in Seq(Chunks) /\ Range(best) \subseteq S /\ (facets = <<>> => best = UpTo(ranked, 1))
      /\ Len(ranked) > 0 => Len(best) > 0 /\ best[1] = ranked[1]
  BY <1>1, BestIs
<1> SUFFICES /\ covered \in Seq(Chunks) /\ Once(covered) /\ Range(covered) \subseteq S
             /\ PrefixOf(UpTo(Distinct(best), limit), covered)
             /\ Len(ranked) > 0 => Len(covered) > 0 /\ covered[1] = ranked[1]
  OBVIOUS
<1>3. CASE facets = <<>>
  <2>1. covered = UpTo(ranked, limit)
    BY <1>3 DEF CoverFacets
  <2> HIDE DEF covered, best
  <2>2. PrefixOf(best, ranked)
    BY <1>1, <1>2, <1>3, UpToIs
  <2>3. Distinct(best) \in Seq(Chunks) /\ Distinct(ranked) \in Seq(Chunks)
    BY <1>1, <1>2, DistinctIs
  <2>4. PrefixOf(Distinct(best), Distinct(ranked)) /\ PrefixOf(Distinct(ranked), ranked)
    BY <1>1, <1>2, <2>2, DistinctPrefix, DistinctOfOnce
  <2>5. PrefixOf(Distinct(best), ranked)
    BY <1>1, <2>3, <2>4, PrefixSteps
  <2>6. PrefixOf(UpTo(Distinct(best), limit), UpTo(ranked, limit))
    BY <1>1, <2>3, <2>5, UpToPrefix
  <2>7. /\ UpTo(ranked, limit) \in Seq(Chunks) /\ Once(UpTo(ranked, limit))
        /\ Len(UpTo(ranked, limit)) = IF Len(ranked) < limit THEN Len(ranked) ELSE limit
        /\ \A i \in 1..Len(UpTo(ranked, limit)) : UpTo(ranked, limit)[i] = ranked[i]
    BY <1>1, UpToIs
  <2>8. Len(ranked) > 0 => Len(covered) > 0 /\ covered[1] = ranked[1]
    BY <1>1, <2>1, <2>7
  <2>9. Range(covered) \subseteq S
    <3>1. PrefixOf(UpTo(ranked, limit), ranked)
      BY <1>1, UpToIs
    <3> QED
      BY <1>1, <2>1, <2>7, <3>1, PrefixRange
  <2> QED
    BY <2>1, <2>6, <2>7, <2>8, <2>9
<1>4. CASE facets # <<>>
  <2>1. covered = UpTo(Distinct(all), limit)
    BY <1>4 DEF CoverFacets, Best
  <2>2. orders \in Seq(Seq(Chunks \cap S))
    <3>1. Len(facets) \in Nat /\ DOMAIN facets = 1..Len(facets)
      BY SeqRange DEF FacetsOf
    <3>2. ASSUME NEW i \in 1..Len(facets)
          PROVE  Among(FacetOrder(fused, facets[i]), S) \in Seq(Chunks \cap S)
      <4>1. facets[i] \in Rankings /\ Range(facets[i]) \subseteq Range(fused)
        BY <3>1 DEF FacetsOf
      <4>2. FacetOrder(fused, facets[i]) \in Seq(Chunks)
        BY <4>1, FacetOrderIs
      <4>3. /\ Among(FacetOrder(fused, facets[i]), S) \in Seq(Chunks)
            /\ Range(Among(FacetOrder(fused, facets[i]), S)) \subseteq S
        BY <4>2, AmongIs
      <4> QED
        BY <4>3, SeqWithin
    <3> QED
      BY <3>1, <3>2
  <2>3. InTurn(Tuple(orders)) \in Seq(Chunks \cap S)
    <3> HIDE DEF orders
    <3> QED
      BY <2>2, TupleIs, InTurnIs
  <2> DEFINE row == InTurn(Tuple(orders))
  <2> HIDE DEF row, covered, best, orders
  <2>4. all \in Seq(Chunks) /\ PrefixOf(best, all) /\ Range(all) \subseteq S
    <3>1. all = best \o row \o ranked
      BY DEF row
    <3>2. row \in Seq(Chunks) /\ Range(row) \subseteq S
      <4>1. row \in Seq(Chunks \cap S)
        BY <2>3 DEF row
      <4>2. Range(row) \subseteq Chunks \cap S
        BY <4>1, SeqRange
      <4> QED
        BY <4>1, <4>2, SeqWithin
    <3>3. best \o row \in Seq(Chunks) /\ PrefixOf(best, best \o row)
      BY <1>2, <3>2, PrefixConcat
    <3>6. Range(best \o row) \subseteq S
      BY <1>2, <3>2, ConcatIs
    <3> DEFINE start == best \o row
    <3>a. /\ start \in Seq(Chunks) /\ PrefixOf(best, start) /\ Range(start) \subseteq S
          /\ all = start \o ranked
      BY <3>1, <3>3, <3>6
    <3> HIDE DEF start, all
    <3>4. start \o ranked \in Seq(Chunks) /\ PrefixOf(start, start \o ranked)
      BY <1>1, <3>a, PrefixConcat
    <3>5. all \in Seq(Chunks) /\ PrefixOf(start, all)
      BY <3>a, <3>4
    <3>7. Range(all) \subseteq S
      BY <1>1, <3>a, ConcatIs
    <3> QED
      BY <1>2, <3>a, <3>5, <3>7, PrefixSteps
  <2> HIDE DEF all
  <2>5. /\ Distinct(all) \in Seq(Chunks) /\ Once(Distinct(all)) /\ Range(Distinct(all)) = Range(all)
        /\ Distinct(best) \in Seq(Chunks)
        /\ PrefixOf(Distinct(best), Distinct(all))
    BY <1>2, <2>4, DistinctIs, DistinctPrefix
  <2>6. PrefixOf(UpTo(Distinct(best), limit), UpTo(Distinct(all), limit))
    BY <1>1, <2>5, UpToPrefix
  <2>7. /\ covered \in Seq(Chunks) /\ Once(covered)
        /\ Len(covered) = IF Len(Distinct(all)) < limit THEN Len(Distinct(all)) ELSE limit
        /\ \A i \in 1..Len(covered) : covered[i] = Distinct(all)[i]
        /\ PrefixOf(covered, Distinct(all))
    BY <1>1, <2>1, <2>5, UpToIs
  <2>8. ASSUME Len(ranked) > 0 PROVE Len(covered) > 0 /\ covered[1] = ranked[1]
    <3>1. Len(best) > 0 /\ best[1] = ranked[1]
      BY <1>2, <2>8
    <3>2. Len(all) > 0 /\ all[1] = best[1]
      BY <1>2, <2>4, <3>1 DEF PrefixOf
    <3>3. Len(Distinct(all)) > 0 /\ Distinct(all)[1] = all[1]
      BY <2>4, <3>2, DistinctIs
    <3>4. Len(covered) > 0
      BY <1>1, <2>5, <2>7, <3>3
    <3>5. 1 \in 1..Len(covered)
      BY <2>7, <3>4
    <3> QED
      BY <2>7, <3>1, <3>2, <3>3, <3>4, <3>5
  <2>9. Range(covered) \subseteq S
    BY <2>4, <2>5, <2>7, PrefixRange
  <2> QED
    BY <2>1, <2>6, <2>7, <2>8, <2>9
<1> QED
  BY <1>3, <1>4

-----------------------------------------------------------------------------
(* The steps of one retrieval *)

(* Sequences of facets as they are typed, and what ties them to the order  *)
(* of the fusion.                                                          *)
FacetsComeFromTheFusion ==
  /\ Range(run.order) \subseteq Range(run.fusedOrder)
  /\ FacetsOf(run.facets, run.fusedOrder)
  /\ At("recall") => run.facets = <<>>
  /\ At("reranking") => Len(run.order) > 1

(* Graphs that are current: without a graph plan there are no relations,   *)
(* and relations that were traced belong to graphs that were READY.        *)
RelationsAreCurrent ==
  /\ ~ run.graphPlan => /\ "graph" \notin run.waiting /\ run.hits["graph"] = <<>>
                        /\ run.related = {}
  /\ At("traced") => \A c \in run.related : DocumentOf[c] \in since.projected

(* What the world may look like.                                           *)
WorldTyped ==
  /\ readable \subseteq Documents /\ projected \subseteq Documents
  /\ signedIn \in BOOLEAN /\ worldChanges \in 0..MaxWorldChanges
  /\ since \in [readable : SUBSET Documents, projected : SUBSET Documents]

(* What holds now has held since the last answer.                          *)
SinceCovers == readable \subseteq since.readable /\ projected \subseteq since.projected

(* The inductive invariant of a retrieval.                                 *)
RetrievalInv ==
  /\ WorldTyped
  /\ SinceCovers
  /\ run \in Run
  /\ FacetsComeFromTheFusion
  /\ RelationsAreCurrent

(* An opinion ranks every chunk once: it is as long as there are chunks.   *)
LEMMA OpinionsAre ==
  \A o \in Opinions : o \in Rankings /\ Range(o) = Chunks
<1>1. ASSUME NEW o \in Opinions PROVE o \in Rankings /\ Range(o) = Chunks
  <2>1. o \in Seq(Chunks) /\ Range(o) = Chunks /\ Len(o) = Cardinality(Chunks)
        /\ IsFiniteSet(Chunks)
    BY <1>1, RetrievalConstantsAssumption
  <2>2. Len(o) \in Nat /\ DOMAIN o = 1..Len(o) /\ o \in [1..Len(o) -> Chunks]
    BY <2>1
  <2>3. IsFiniteSet(1..Len(o)) /\ Cardinality(1..Len(o)) = Len(o)
    BY ONLY <2>2, PlacesAreCounted
  <2>4. \A c \in Chunks : \E i \in 1..Len(o) : o[i] = c
    BY <2>1, SeqRange
  <2>5. o \in Surjection(1..Len(o), Chunks)
    BY <2>2, <2>4 DEF Surjection
  <2>6. o \in Injection(1..Len(o), Chunks)
    BY <2>1, <2>3, <2>5, FS_SurjSameCardinalityImpliesInj
  <2>7. Once(o)
    BY <2>2, <2>6 DEF Injection, IsInjective, Once
  <2> QED
    BY <2>1, <2>7, RankingsAre
<1> QED BY <1>1

(* What a branch or the reranker answers ranks chunks once.                *)
LEMMA AnswersRankOnce ==
  ASSUME NEW o \in Opinions, NEW S
  PROVE  Among(o, S) \in Rankings /\ Range(Among(o, S)) = Chunks \cap S
<1>1. o \in Seq(Chunks) /\ Once(o) /\ Range(o) = Chunks
  BY OpinionsAre, RankingsAre
<1>2. Among(o, S) \in Seq(Chunks) /\ Once(Among(o, S)) /\ Range(Among(o, S)) = Chunks \cap S
  BY <1>1, AmongIs
<1> QED BY <1>2, RankingsAre

(* What a branch answers ranks chunks once.                                *)
LEMMA AnsweredAre ==
  ASSUME NEW ranking \in Answered
  PROVE  ranking \in Rankings
<1>1. PICK o \in Opinions, S \in SUBSET Chunks : ranking = Among(o, S)
  BY DEF Answered
<1> QED BY <1>1, AnswersRankOnce

(* A check keeps what is readable, in its order.                           *)
LEMMA AuthorizedIs ==
  ASSUME NEW order \in Rankings
  PROVE  /\ Authorized(order) \in Rankings
         /\ Range(Authorized(order)) \subseteq Range(order)
         /\ \A c \in Range(Authorized(order)) : DocumentOf[c] \in readable
<1> DEFINE S == {c \in Chunks : DocumentOf[c] \in readable}
<1>1. order \in Seq(Chunks) /\ Once(order)
  BY RankingsAre
<1>2. Authorized(order) = Among(order, S)
  BY DEF Authorized
<1>3. Among(order, S) \in Seq(Chunks) /\ Range(Among(order, S)) = Range(order) \cap S
      /\ Once(Among(order, S))
  BY <1>1, AmongIs
<1> QED BY <1>2, <1>3, RankingsAre

(* What Continues() selects from the candidates that are left.             *)
Selected(order, fused, facets, paths, limit) ==
  SelectBundles(Distinct(CoverFacets(order, fused, facets, Range(order), limit) \o order),
                paths, limit)

(* The selection after a check: candidates that were left, each once, no   *)
(* more than asked for, the best one always, and without paths the best of *)
(* the facets too.                                                         *)
LEMMA SelectionIs ==
  ASSUME NEW order \in Rankings, NEW fused \in Rankings, NEW facets, FacetsOf(facets, fused),
         NEW paths, \A p \in paths : p \subseteq Range(order), NEW limit \in Nat \ {0}
  PROVE  LET selected == Selected(order, fused, facets, paths, limit)
         IN /\ selected \in Rankings /\ Len(selected) <= limit
            /\ Range(selected) \subseteq Range(order)
            /\ Range(UpTo(order, 1)) \subseteq Range(selected)
            /\ paths = {} => Range(UpTo(Distinct(Best(order, facets, Range(order))), limit))
                               \subseteq Range(selected)
<1> DEFINE S == Range(order)
           covered == CoverFacets(order, fused, facets, S, limit)
           all == Distinct(covered \o order)
           best == UpTo(Distinct(Best(order, facets, S)), limit)
           selected == SelectBundles(all, paths, limit)
<1>1. order \in Seq(Chunks) /\ Once(order) /\ Len(order) \in Nat
  BY RankingsAre, SeqRange
<1>2. /\ covered \in Seq(Chunks) /\ Once(covered) /\ Range(covered) \subseteq S
      /\ PrefixOf(best, covered)
      /\ Len(order) > 0 => Len(covered) > 0 /\ covered[1] = order[1]
  BY CoveredIs
<1>3. best \in Seq(Chunks)
  <2>1. Best(order, facets, S) \in Seq(Chunks)
    BY <1>1, BestIs
  <2>2. Distinct(Best(order, facets, S)) \in Seq(Chunks)
    BY <2>1, DistinctIs
  <2> QED BY <2>2, UpToIs
<1> HIDE DEF covered, best, S
<1>4. /\ covered \o order \in Seq(Chunks) /\ Range(covered \o order) = Range(covered) \cup Range(order)
      /\ Len(covered \o order) = Len(covered) + Len(order)
  BY <1>1, <1>2, ConcatIs
<1>5. /\ all \in Seq(Chunks) /\ Once(all) /\ Range(all) = Range(covered \o order)
      /\ Len(covered \o order) > 0 => Len(all) > 0 /\ all[1] = (covered \o order)[1]
  BY <1>4, DistinctIs
<1>6. Range(all) = Range(order)
  BY <1>2, <1>4, <1>5 DEF S
<1>7. Len(order) > 0 => Len(all) > 0 /\ all[1] = order[1]
  <2> SUFFICES ASSUME Len(order) > 0 PROVE Len(all) > 0 /\ all[1] = order[1]
    OBVIOUS
  <2>1. Len(covered) \in Nat /\ Len(covered) > 0 /\ covered[1] = order[1]
    BY <1>2, SeqRange
  <2>2. (covered \o order)[1] = covered[1]
    BY <1>1, <1>2, <2>1
  <2>3. Len(covered \o order) > 0
    BY <1>1, <1>4, <2>1
  <2> QED BY <1>5, <2>1, <2>2, <2>3
<1>8. PrefixOf(best, all)
  <2>1. PrefixOf(covered, covered \o order)
    BY <1>1, <1>2, PrefixConcat
  <2>2. PrefixOf(Distinct(covered), all)
    BY <1>2, <1>4, <2>1, DistinctPrefix
  <2>3. PrefixOf(covered, Distinct(covered)) /\ Distinct(covered) \in Seq(Chunks)
    BY <1>2, DistinctIs
  <2>4. PrefixOf(covered, all)
    BY <1>2, <1>5, <2>2, <2>3, PrefixSteps
  <2> QED BY <1>2, <1>3, <1>5, <2>4, PrefixSteps
<1> HIDE DEF all
<1>9. Offered(all, paths)
  BY <1>5, <1>6 DEF Offered
<1>10. /\ selected \in Selections(all, limit)
       /\ Len(all) > 0 => all[1] \in Range(selected)
       /\ paths = {} => PrefixOf(UpTo(all, limit), selected)
  BY <1>9, SelectedIs
<1>11. selected \in Seq(Chunks) /\ Once(selected) /\ Len(selected) <= limit
       /\ Range(selected) \subseteq Range(order)
  BY <1>6, <1>10 DEF Selections
<1> HIDE DEF selected
<1>12. Range(UpTo(order, 1)) \subseteq Range(selected)
  <2> SUFFICES ASSUME NEW c \in Range(UpTo(order, 1)) PROVE c \in Range(selected)
    OBVIOUS
  <2>1. /\ UpTo(order, 1) \in Seq(Chunks)
        /\ Len(UpTo(order, 1)) = IF Len(order) < 1 THEN Len(order) ELSE 1
        /\ \A i \in 1..Len(UpTo(order, 1)) : UpTo(order, 1)[i] = order[i]
    <3>1. order \in Seq(Chunks) /\ 1 \in Nat
      BY <1>1
    <3> QED BY ONLY <3>1, UpToIs
  <2>2. PICK i \in 1..Len(UpTo(order, 1)) : UpTo(order, 1)[i] = c
    BY <2>1, SeqRange
  <2>3. Len(order) > 0 /\ c = order[1]
    BY <1>1, <2>1, <2>2
  <2> QED BY <1>7, <1>10, <2>3
<1>13. ASSUME paths = {} PROVE Range(best) \subseteq Range(selected)
  <2>1. PrefixOf(UpTo(best, limit), UpTo(all, limit)) /\ UpTo(all, limit) \in Seq(Chunks)
        /\ UpTo(best, limit) \in Seq(Chunks)
    BY <1>3, <1>5, <1>8, UpToPrefix, UpToIs
  <2>2. PrefixOf(UpTo(best, limit), selected)
    BY <1>10, <1>11, <1>13, <2>1, PrefixSteps
  <2>3. Range(UpTo(best, limit)) \subseteq Range(selected)
    BY <1>11, <2>1, <2>2, PrefixRange
  <2>4. PrefixOf(best, UpTo(best, limit))
    <3>1. Distinct(Best(order, facets, S)) \in Seq(Chunks)
      BY <1>1, BestIs, DistinctIs
    <3>2. Len(best) <= limit /\ Len(best) \in Nat
      BY <3>1, UpToIs, SeqRange, <1>3 DEF best
    <3>3. Len(UpTo(best, limit)) = Len(best) /\ \A i \in 1..Len(best) : UpTo(best, limit)[i] = best[i]
      BY <1>3, <3>2, UpToIs
    <3> QED BY <3>2, <3>3 DEF PrefixOf
  <2> QED BY <1>3, <2>1, <2>3, <2>4, PrefixRange
<1> QED
  BY <1>11, <1>12, <1>13, RankingsAre DEF Selected, covered, best, S, all, selected

(* Channels are told apart by their names.                                 *)
LEMMA ChannelsAre ==
  "dense" \in Channels /\ "bm25" \in Channels /\ "graph" \in Channels
BY DEF Channels

(* A change of the run alone, which keeps the invariant if the run does.   *)
WorldStands ==
  UNCHANGED <<readable, projected, signedIn, worldChanges>>

(* A step of the run leaves the world as it is, or takes note of what it   *)
(* sees now.                                                               *)
LEMMA RunMoves ==
  ASSUME RetrievalInv, WorldStands, since' = since \/ since' = Now,
         run' \in Run, FacetsComeFromTheFusion', RelationsAreCurrent'
  PROVE  RetrievalInv'
<1>1. WorldTyped'
  BY DEF RetrievalInv, WorldTyped, WorldStands, Now
<1>2. SinceCovers'
  BY DEF RetrievalInv, SinceCovers, WorldStands, Now
<1> QED BY <1>1, <1>2 DEF RetrievalInv

(* A run starts with empty rankings.                                       *)
LEMMA RetrievalStarts ==
  ASSUME RetrievalInit
  PROVE  RetrievalInv
<1>1. <<>> \in Rankings
  <2>1. <<>> \in Seq(Chunks) /\ Once(<<>>)
    BY DEF Once
  <2> QED BY <2>1, RankingsAre
<1>2. WorldTyped /\ SinceCovers
  BY RetrievalConstantsAssumption DEF RetrievalInit, WorldTyped, SinceCovers, Now
<1>3. PICK graphPlan \in BOOLEAN, rerank \in BOOLEAN, topK \in TopKs, candidateK \in CandidateKs :
        run = [stage |-> "recall", graphPlan |-> graphPlan, rerank |-> rerank,
               topK |-> topK, candidateK |-> candidateK,
               waiting |-> IF graphPlan THEN Channels ELSE Channels \ {"graph"},
               unavailable |-> {}, hits |-> [ch \in Channels |-> <<>>], order |-> <<>>,
               fusedOrder |-> <<>>, facets |-> <<>>, related |-> {}, paths |-> {}]
  BY DEF RetrievalInit
<1>4. [ch \in Channels |-> <<>>] \in [Channels -> Rankings]
  BY <1>1
<1>5. run \in Run
  BY <1>1, <1>3, <1>4 DEF Run
<1>6. FacetsComeFromTheFusion
  BY <1>1, <1>3 DEF FacetsComeFromTheFusion, FacetsOf, At, Range
<1>7. RelationsAreCurrent
  BY <1>3, ChannelsAre DEF RelationsAreCurrent, At
<1> QED BY <1>2, <1>5, <1>6, <1>7 DEF RetrievalInv

(* An AuthError ends the run.                                              *)
LEMMA GiveUpKeeps ==
  ASSUME RetrievalInv, GiveUp
  PROVE  RetrievalInv'
<1>1. run \in Run /\ run' = [run EXCEPT !.stage = "failed"]
      /\ UNCHANGED <<readable, projected, signedIn, worldChanges, since>>
  BY DEF RetrievalInv, GiveUp
<1>2. run' \in Run
  BY <1>1 DEF Run
<1>3. FacetsComeFromTheFusion'
  BY <1>1 DEF RetrievalInv, FacetsComeFromTheFusion, At, Run
<1>4. RelationsAreCurrent'
  BY <1>1 DEF RetrievalInv, RelationsAreCurrent, At, Run
<1> QED BY <1>1, <1>2, <1>3, <1>4, RunMoves DEF WorldStands

(* A branch answers with a ranking, and paths over it.                     *)
LEMMA RecallKeeps ==
  ASSUME RetrievalInv, NEW ch \in run.waiting, NEW ranking \in Answered,
         NEW paths \in SUBSET Whole(KnownPaths, Range(ranking)), Recall(ch, ranking, paths)
  PROVE  RetrievalInv'
<1>1. /\ run \in Run /\ At("recall")
      /\ run' = [run EXCEPT !.waiting = @ \ {ch}, !.hits[ch] = ranking, !.paths = @ \cup paths]
      /\ UNCHANGED <<readable, projected, signedIn, worldChanges>> /\ since' = Now
  BY DEF RetrievalInv, Recall
<1>2. ranking \in Rankings /\ paths \subseteq KnownPaths
  BY AnsweredAre DEF Whole
<1>3. ch \in Channels
  BY <1>1 DEF Run
<1>4. [run.hits EXCEPT ![ch] = ranking] \in [Channels -> Rankings]
  BY <1>1, <1>2, <1>3 DEF Run
<1>5. run' \in Run
  BY <1>1, <1>2, <1>4 DEF Run
<1>6. FacetsComeFromTheFusion'
  BY <1>1 DEF RetrievalInv, FacetsComeFromTheFusion, At, Run
<1>7. RelationsAreCurrent'
  BY <1>1, <1>3, ChannelsAre DEF RetrievalInv, RelationsAreCurrent, At, Run
<1> QED BY <1>1, <1>5, <1>6, <1>7, RunMoves DEF WorldStands

(* A branch that fails leaves nothing.                                     *)
LEMMA BranchFailsKeeps ==
  ASSUME RetrievalInv, NEW ch \in run.waiting, BranchFails(ch)
  PROVE  RetrievalInv'
<1>1. /\ run \in Run /\ At("recall")
      /\ run' = [run EXCEPT !.waiting = @ \ {ch}, !.unavailable = @ \cup {ch}]
      /\ UNCHANGED <<readable, projected, signedIn, worldChanges, since>>
  BY DEF RetrievalInv, BranchFails
<1>2. ch \in Channels
  BY <1>1 DEF Run
<1>3. run' \in Run
  BY <1>1, <1>2 DEF Run
<1>4. FacetsComeFromTheFusion'
  BY <1>1 DEF RetrievalInv, FacetsComeFromTheFusion, At, Run
<1>5. RelationsAreCurrent'
  BY <1>1 DEF RetrievalInv, RelationsAreCurrent, At, Run
<1> QED BY <1>1, <1>3, <1>4, <1>5, RunMoves DEF WorldStands

(* Complete paths are paths the run knows, over chunks of the order.       *)
LEMMA CompletePathsAre ==
  ASSUME NEW paths \in SUBSET KnownPaths, NEW order, NEW related
  PROVE  /\ CompletePaths(paths, order, related) \subseteq KnownPaths
         /\ \A p \in CompletePaths(paths, order, related) : p \subseteq Range(order) \cap related
BY DEF CompletePaths

(* The budgets of a plan allow at least one candidate.                     *)
LEMMA BudgetsAre ==
  ASSUME run \in Run
  PROVE  /\ run.topK \in Nat \ {0} /\ run.candidateK \in Nat \ {0}
         /\ run.order \in Rankings /\ run.fusedOrder \in Rankings
         /\ run.hits \in [Channels -> Rankings] /\ run.paths \in SUBSET KnownPaths
         /\ run.related \in SUBSET Chunks
BY RetrievalConstantsAssumption DEF Run

(* What the fusion and the first check leave of a run.                     *)
FusedTo(order, chosen) ==
  /\ order \in Rankings /\ \A c \in Range(order) : DocumentOf[c] \in readable
  /\ chosen \in Rankings /\ Range(chosen) \subseteq Range(order)
  /\ run'.order = chosen /\ run'.fusedOrder = order
  /\ run'.stage \in {"reranking", "provenance", "done"}
  /\ run'.stage = "reranking" => chosen = order /\ Len(order) > 1
  /\ run'.stage = "done" => ~ run.graphPlan
  /\ run'.related \subseteq Range(run.hits["graph"]) \cap Range(order)
  /\ run'.paths \subseteq KnownPaths /\ \A p \in run'.paths : p \subseteq run'.related

(* The run after fusion and the first check.                               *)
FusedRun(order, chosen) ==
  [run EXCEPT
     !.stage = IF run.rerank /\ Len(order) > 1 THEN "reranking" ELSE AfterRanking,
     !.hits = [ch \in Channels |-> <<>>], !.fusedOrder = order,
     !.related = Range(run.hits["graph"]) \cap Range(order), !.order = chosen,
     !.paths = CompletePaths(run.paths, order, Range(run.hits["graph"]) \cap Range(order))]

(* Fusion leaves a ranking that the check has read, and no relation beyond *)
(* the graph branch's.                                                     *)
LEMMA FuseAndCheckIs ==
  ASSUME RetrievalInv, FuseAndCheck
  PROVE  \E order, chosen : FusedTo(order, chosen) /\ run' = FusedRun(order, chosen)
<1>1. run \in Run /\ At("recall")
  BY DEF RetrievalInv, FuseAndCheck
<1> DEFINE fused == Fuse(run.hits, run.paths, run.candidateK)
           order == Authorized(fused)
           reranks == run.rerank /\ Len(order) > 1
           related == Range(run.hits["graph"]) \cap Range(order)
           chosen == IF reranks \/ run.graphPlan THEN order
                     ELSE SelectBundles(order, {}, run.topK)
<1>2. Fused(order)
  BY DEF FuseAndCheck
<1>3. fused \in Rankings
  BY <1>1, BudgetsAre, FuseIs
<1> HIDE DEF fused
<1>4. /\ order \in Rankings
      /\ \A c \in Range(order) : DocumentOf[c] \in readable
  BY <1>3, AuthorizedIs
<1> HIDE DEF order
<1>5. SelectBundles(order, {}, run.topK) \in Rankings
      /\ Range(SelectBundles(order, {}, run.topK)) \subseteq Range(order)
  <2>1. Offered(order, {})
    BY <1>4, RankingsAre DEF Offered
  <2>2. run.topK \in Nat \ {0}
    BY <1>1, BudgetsAre
  <2>3. SelectBundles(order, {}, run.topK) \in Selections(order, run.topK)
    BY <2>1, <2>2, SelectedIs
  <2> QED BY <2>3, RankingsAre DEF Selections
<1>6. chosen \in Rankings /\ Range(chosen) \subseteq Range(order)
  BY <1>4, <1>5
<1>7. run' = FusedRun(order, chosen)
  BY <1>2 DEF Fused, FusedRun
<1>8. /\ run'.order = chosen /\ run'.fusedOrder = order /\ run'.related = related
      /\ run'.stage = (IF reranks THEN "reranking" ELSE AfterRanking)
      /\ run'.paths = CompletePaths(run.paths, order, related)
  BY <1>1, <1>7 DEF FusedRun, Run
<1>9. run'.paths \subseteq KnownPaths /\ \A p \in run'.paths : p \subseteq run'.related
  <2>1. run.paths \in SUBSET KnownPaths
    BY <1>1, BudgetsAre
  <2>2. /\ CompletePaths(run.paths, order, related) \subseteq KnownPaths
        /\ \A p \in CompletePaths(run.paths, order, related) : p \subseteq Range(order) \cap related
    BY ONLY <2>1, CompletePathsAre
  <2> QED BY <1>8, <2>2
<1>10. /\ run'.stage \in {"reranking", "provenance", "done"}
       /\ run'.stage = "reranking" => chosen = order /\ Len(order) > 1
       /\ run'.stage = "done" => ~ run.graphPlan
  BY <1>8 DEF AfterRanking
<1> HIDE DEF chosen
<1>11. FusedTo(order, chosen)
  BY <1>4, <1>6, <1>8, <1>9, <1>10 DEF FusedTo
<1> QED BY <1>7, <1>11

(* The fused order is the one all later orders and facets come from.       *)
LEMMA FuseAndCheckKeeps ==
  ASSUME RetrievalInv, FuseAndCheck
  PROVE  RetrievalInv'
<1>1. run \in Run /\ At("recall") /\ UNCHANGED <<readable, projected, signedIn, worldChanges, since>>
  BY DEF RetrievalInv, FuseAndCheck
<1>2. PICK order, chosen : FusedTo(order, chosen) /\ run' = FusedRun(order, chosen)
  BY FuseAndCheckIs
<1>3. <<>> \in Rankings
  <2>1. <<>> \in Seq(Chunks) /\ Once(<<>>)
    BY DEF Once
  <2> QED BY <2>1, RankingsAre
<1>4. run.hits["graph"] \in Rankings
  BY <1>1, BudgetsAre, ChannelsAre
<1>5. Range(run.hits["graph"]) \subseteq Chunks
  BY <1>4, RankingsAre, SeqRange
<1>6. run' \in Run
  <2> DEFINE none == [ch \in Channels |-> <<>>]
             stage == IF run.rerank /\ Len(order) > 1 THEN "reranking" ELSE AfterRanking
             related == Range(run.hits["graph"]) \cap Range(order)
             paths == CompletePaths(run.paths, order, related)
  <2>1. none \in [Channels -> Rankings]
    BY <1>3
  <2>2. stage \in {"reranking", "provenance", "done"}
    BY DEF AfterRanking
  <2>3. related \subseteq Chunks
    BY <1>5
  <2>4. paths \subseteq KnownPaths
    <3>1. run.paths \in SUBSET KnownPaths
      BY <1>1, BudgetsAre
    <3> QED BY ONLY <3>1, CompletePathsAre
  <2>5. order \in Rankings /\ chosen \in Rankings
    BY <1>2 DEF FusedTo
  <2>6. run' = [run EXCEPT !.stage = stage, !.hits = none, !.fusedOrder = order,
                           !.related = related, !.order = chosen, !.paths = paths]
    BY <1>2 DEF FusedRun
  <2> HIDE DEF none, stage, related, paths
  <2> QED BY <1>1, <2>1, <2>2, <2>3, <2>4, <2>5, <2>6 DEF Run
<1>7. run'.facets = <<>> /\ run'.graphPlan = run.graphPlan /\ run'.waiting = run.waiting
      /\ run'.hits = [ch \in Channels |-> <<>>]
  BY <1>1, <1>2 DEF RetrievalInv, FacetsComeFromTheFusion, FusedRun, Run
<1>8. FacetsComeFromTheFusion'
  <2>1. FacetsOf(<<>>, run'.fusedOrder)
    BY DEF FacetsOf
  <2>2. Range(run'.order) \subseteq Range(run'.fusedOrder) /\ run'.stage # "recall"
        /\ (run'.stage = "reranking" => Len(run'.order) > 1)
    BY <1>2 DEF FusedTo
  <2> QED BY <1>7, <2>1, <2>2 DEF FacetsComeFromTheFusion, At
<1>9. RelationsAreCurrent'
  <2>1. run'.stage # "traced"
    BY <1>2 DEF FusedTo
  <2>2. ~ run.graphPlan => "graph" \notin run.waiting /\ run.hits["graph"] = <<>>
    BY DEF RetrievalInv, RelationsAreCurrent
  <2>3. ~ run.graphPlan => run'.related = {}
    BY <1>2, <2>2 DEF FusedTo, Range
  <2> QED BY <1>7, <2>1, <2>2, <2>3, ChannelsAre DEF RelationsAreCurrent, At
<1> QED BY <1>1, <1>6, <1>8, <1>9, RunMoves DEF WorldStands

(* An answer of the reranker only reorders candidates.                     *)
LEMMA RerankedKeeps ==
  ASSUME RetrievalInv, NEW ranking \in Rankings, Range(ranking) \subseteq Range(run.order),
         NEW facets, FacetsOf(facets, run.fusedOrder), Reranked(ranking, facets)
  PROVE  RetrievalInv'
<1>1. /\ run \in Run /\ At("reranking")
      /\ run' = [run EXCEPT !.stage = "reranked", !.order = ranking, !.facets = facets]
      /\ UNCHANGED <<readable, projected, signedIn, worldChanges>> /\ since' = Now
  BY DEF RetrievalInv, Reranked
<1>2. facets \in Seq(Rankings)
  BY DEF FacetsOf
<1>3. run' \in Run
  BY <1>1, <1>2 DEF Run
<1>4. /\ run'.fusedOrder = run.fusedOrder /\ run'.order = ranking /\ run'.facets = facets
      /\ run'.stage = "reranked" /\ run'.graphPlan = run.graphPlan
      /\ run'.waiting = run.waiting /\ run'.hits = run.hits /\ run'.related = run.related
  BY <1>1 DEF Run
<1>5. FacetsComeFromTheFusion'
  BY <1>4 DEF RetrievalInv, FacetsComeFromTheFusion, At
<1>6. RelationsAreCurrent'
  BY <1>4 DEF RetrievalInv, RelationsAreCurrent, At
<1> QED BY <1>1, <1>3, <1>5, <1>6, RunMoves DEF WorldStands

(* The reranker ranks all candidates, for the question and for each facet. *)
LEMMA RerankerAnswersKeeps ==
  ASSUME RetrievalInv, RerankerAnswers
  PROVE  RetrievalInv'
<1> DEFINE orders == {Among(opinion, Range(run.order)) : opinion \in Opinions}
<1>1. run \in Run /\ At("reranking") /\ Len(run.order) > 1
      /\ Range(run.order) \subseteq Range(run.fusedOrder)
  BY DEF RetrievalInv, RerankerAnswers, FacetsComeFromTheFusion
<1>2. run.order \in Seq(Chunks)
  BY <1>1, BudgetsAre, RankingsAre
<1>3. Range(run.order) \subseteq Chunks /\ \E c : c \in Range(run.order)
  <2>1. 1 \in 1..Len(run.order)
    BY <1>1, <1>2, SeqRange
  <2> QED BY <1>2, <2>1, SeqRange
<1>4. \A r \in orders : r \in Rankings /\ Range(r) = Range(run.order)
  BY <1>3, AnswersRankOnce
<1>5. \A r \in orders : r # <<>>
  <2> SUFFICES ASSUME NEW r \in orders, r = <<>> PROVE FALSE
    OBVIOUS
  <2>1. PICK c : c \in Range(r)
    BY <1>3, <1>4
  <2>2. <<>> \in Seq(Chunks) /\ Len(<<>>) = 0
    OBVIOUS
  <2>3. \A d \in Range(<<>>) : \E i \in 1..Len(<<>>) : <<>>[i] = d
    BY ONLY <2>2, SeqRange
  <2> QED BY <2>1, <2>2, <2>3
<1>6. FacetsOf(<<>>, run.fusedOrder)
  BY DEF FacetsOf
<1>7. ASSUME NEW first \in orders, NEW second \in orders
      PROVE  FacetsOf(<<first, second>>, run.fusedOrder)
  BY <1>1, <1>4, <1>5, <1>7 DEF FacetsOf
<1>8. \/ \E ranking \in orders : Reranked(ranking, <<>>)
      \/ \E ranking, first, second \in orders : Reranked(ranking, <<first, second>>)
  BY DEF RerankerAnswers
<1> HIDE DEF orders
<1>9. CASE \E ranking \in orders : Reranked(ranking, <<>>)
  BY <1>4, <1>6, <1>9, RerankedKeeps
<1>10. CASE \E ranking, first, second \in orders : Reranked(ranking, <<first, second>>)
  <2>1. PICK ranking \in orders, first \in orders, second \in orders :
          Reranked(ranking, <<first, second>>)
    BY <1>10
  <2>2. FacetsOf(<<first, second>>, run.fusedOrder)
    BY <1>7
  <2> QED BY <1>4, <2>1, <2>2, RerankedKeeps
<1> QED BY <1>8, <1>9, <1>10

(* Without an answer the order of the fusion stays.                        *)
LEMMA RerankerFailsKeeps ==
  ASSUME RetrievalInv, RerankerFails
  PROVE  RetrievalInv'
<1>1. FacetsOf(<<>>, run.fusedOrder)
  BY DEF FacetsOf
<1>2. run.order \in Rankings
  BY BudgetsAre DEF RetrievalInv
<1> QED BY <1>1, <1>2, RerankedKeeps DEF RerankerFails

(* What a check makes of the candidates it left: an order of them and the  *)
(* paths that are complete in it.                                          *)
ChosenFrom(left, order, paths) ==
  /\ order \in Rankings /\ Range(order) \subseteq Range(left)
  /\ paths \subseteq KnownPaths /\ \A p \in paths : p \subseteq Range(order) \cap run.related

(* What the last selection owes the candidates that were left.             *)
KeepsTheBest(left, order) ==
  /\ Len(order) <= run.topK
  /\ Range(UpTo(left, 1)) \subseteq Range(order)
  /\ CompletePaths(run.paths, left, run.related) = {}
       => Range(UpTo(Distinct(Best(left, run.facets, Range(left))), run.topK))
            \subseteq Range(order)

(* A check leaves readable candidates and complete paths; the last one     *)
(* also selects.                                                           *)
LEMMA ContinuesIs ==
  ASSUME RetrievalInv, NEW next, Continues(Authorized(run.order), next)
  PROVE  \E order, paths :
           /\ ChosenFrom(Authorized(run.order), order, paths)
           /\ run' = [run EXCEPT !.stage = next, !.order = order, !.paths = paths]
           /\ next = "done" => KeepsTheBest(Authorized(run.order), order)
<1> DEFINE left == Authorized(run.order)
           paths == CompletePaths(run.paths, left, run.related)
           selected == Selected(left, run.fusedOrder, run.facets, paths, run.topK)
<1>1. run \in Run /\ FacetsOf(run.facets, run.fusedOrder)
  BY DEF RetrievalInv, FacetsComeFromTheFusion
<1>2. /\ run.topK \in Nat \ {0} /\ run.order \in Rankings /\ run.fusedOrder \in Rankings
      /\ run.paths \in SUBSET KnownPaths
  BY <1>1, BudgetsAre
<1>3. run' = IF next = "done"
             THEN [run EXCEPT !.stage = "done", !.order = selected,
                              !.paths = CompletePaths(paths, selected, run.related)]
             ELSE [run EXCEPT !.stage = next, !.order = left, !.paths = paths]
  BY DEF Continues, Selected
<1>4. left \in Rankings
  BY <1>2, AuthorizedIs
<1> HIDE DEF left
<1>5. paths \subseteq KnownPaths /\ \A p \in paths : p \subseteq Range(left) \cap run.related
  BY ONLY <1>2, CompletePathsAre
<1> HIDE DEF paths
<1>6. CASE next # "done"
  <2>1. ChosenFrom(left, left, paths)
    BY <1>4, <1>5 DEF ChosenFrom
  <2> QED BY <1>3, <1>6, <2>1 DEF left
<1>7. CASE next = "done"
  <2>1. \A p \in paths : p \subseteq Range(left)
    BY <1>5
  <2>2. /\ selected \in Rankings /\ Len(selected) <= run.topK
        /\ Range(selected) \subseteq Range(left)
        /\ Range(UpTo(left, 1)) \subseteq Range(selected)
        /\ paths = {} => Range(UpTo(Distinct(Best(left, run.facets, Range(left))), run.topK))
                           \subseteq Range(selected)
    BY ONLY <1>1, <1>2, <1>4, <2>1, SelectionIs
  <2> HIDE DEF selected
  <2> DEFINE whole == CompletePaths(paths, selected, run.related)
  <2>3. whole \subseteq KnownPaths /\ \A p \in whole : p \subseteq Range(selected) \cap run.related
    <3>1. paths \in SUBSET KnownPaths
      BY <1>5
    <3> QED BY ONLY <3>1, CompletePathsAre
  <2> HIDE DEF whole
  <2>4. ChosenFrom(left, selected, whole)
    BY <2>2, <2>3 DEF ChosenFrom
  <2>5. KeepsTheBest(left, selected)
    BY <2>2 DEF KeepsTheBest, paths
  <2>6. run' = [run EXCEPT !.stage = next, !.order = selected, !.paths = whole]
    BY <1>3, <1>7 DEF whole
  <2> QED BY <2>4, <2>5, <2>6 DEF left
<1> QED BY <1>6, <1>7

(* A check takes candidates away and adds none.                            *)
LEMMA ContinuesKeeps ==
  ASSUME RetrievalInv, NEW next \in {"provenance", "done"},
         Continues(Authorized(run.order), next),
         UNCHANGED <<readable, projected, signedIn, worldChanges, since>>
  PROVE  RetrievalInv'
<1>1. PICK order, paths :
        /\ ChosenFrom(Authorized(run.order), order, paths)
        /\ run' = [run EXCEPT !.stage = next, !.order = order, !.paths = paths]
  BY ContinuesIs
<1>2. run \in Run /\ run.order \in Rankings
  BY BudgetsAre DEF RetrievalInv
<1>3. run' \in Run
  BY <1>1, <1>2 DEF ChosenFrom, Run
<1>4. /\ run'.fusedOrder = run.fusedOrder /\ run'.order = order /\ run'.facets = run.facets
      /\ run'.stage = next /\ run'.graphPlan = run.graphPlan
      /\ run'.waiting = run.waiting /\ run'.hits = run.hits /\ run'.related = run.related
  BY <1>1, <1>2 DEF Run
<1>5. Range(order) \subseteq Range(run.order)
  BY <1>1, <1>2, AuthorizedIs DEF ChosenFrom
<1>6. FacetsComeFromTheFusion'
  BY <1>4, <1>5 DEF RetrievalInv, FacetsComeFromTheFusion, At
<1>7. RelationsAreCurrent'
  BY <1>4 DEF RetrievalInv, RelationsAreCurrent, At
<1> QED BY <1>3, <1>6, <1>7, RunMoves DEF WorldStands

(* Only relations of readable documents with a READY graph remain.         *)
LEMMA TraceGraphKeeps ==
  ASSUME RetrievalInv, NEW answered \in BOOLEAN, TraceGraph(answered)
  PROVE  RetrievalInv'
<1> DEFINE allowed == {c \in run.related : answered /\ DocumentOf[c] \in readable \cap projected}
           paths == CompletePaths(run.paths, run.order, allowed)
<1>1. /\ run \in Run
      /\ run' = [run EXCEPT !.stage = "traced", !.related = allowed, !.paths = paths]
      /\ UNCHANGED <<readable, projected, signedIn, worldChanges, since>>
  BY DEF RetrievalInv, TraceGraph
<1>2. allowed \subseteq run.related /\ \A c \in allowed : DocumentOf[c] \in since.projected
  BY DEF RetrievalInv, SinceCovers
<1>3. run.paths \in SUBSET KnownPaths /\ run.related \in SUBSET Chunks
  BY <1>1, BudgetsAre
<1> HIDE DEF allowed
<1>4. paths \subseteq KnownPaths
  BY ONLY <1>3, CompletePathsAre
<1> HIDE DEF paths
<1>5. run' \in Run
  BY <1>1, <1>2, <1>3, <1>4 DEF Run
<1>6. /\ run'.fusedOrder = run.fusedOrder /\ run'.order = run.order /\ run'.facets = run.facets
      /\ run'.stage = "traced" /\ run'.graphPlan = run.graphPlan
      /\ run'.waiting = run.waiting /\ run'.hits = run.hits /\ run'.related = allowed
  BY <1>1 DEF Run
<1>7. FacetsComeFromTheFusion'
  BY <1>6 DEF RetrievalInv, FacetsComeFromTheFusion, At
<1>8. RelationsAreCurrent'
  BY <1>1, <1>2, <1>6 DEF RetrievalInv, RelationsAreCurrent, At
<1> QED BY <1>1, <1>5, <1>7, <1>8, RunMoves DEF WorldStands

(* What changes is still a world.                                          *)
LEMMA WorldChangesAreTyped ==
  ASSUME WorldTyped, ChangeWorld
  PROVE  WorldTyped'
<1>1. worldChanges' \in 0..MaxWorldChanges
  BY RetrievalConstantsAssumption DEF WorldTyped, ChangeWorld
<1>2. readable' \subseteq Documents /\ projected' \subseteq Documents /\ signedIn' \in BOOLEAN
  BY DEF WorldTyped, ChangeWorld
<1>3. since'.readable \subseteq Documents /\ since'.projected \subseteq Documents
  BY <1>2 DEF WorldTyped, ChangeWorld
<1>4. since' \in [readable : SUBSET Documents, projected : SUBSET Documents]
  BY <1>2, <1>3 DEF WorldTyped, ChangeWorld
<1> QED BY <1>1, <1>2, <1>4 DEF WorldTyped

(* What the world was is remembered when it changes.                       *)
LEMMA ChangeWorldKeeps ==
  ASSUME RetrievalInv, ChangeWorld, UNCHANGED run
  PROVE  RetrievalInv'
<1>1. WorldTyped'
  BY WorldChangesAreTyped DEF RetrievalInv
<1>2. since' = [readable |-> since.readable \cup readable',
                projected |-> since.projected \cup projected']
  BY DEF ChangeWorld
<1>3. SinceCovers'
  BY <1>2 DEF SinceCovers
<1>4. FacetsComeFromTheFusion' /\ run' \in Run
  BY DEF RetrievalInv, FacetsComeFromTheFusion, At
<1>5. RelationsAreCurrent'
  BY <1>2 DEF RetrievalInv, RelationsAreCurrent, At
<1> QED BY <1>1, <1>3, <1>4, <1>5 DEF RetrievalInv

(* Nothing changes.                                                        *)
LEMMA StutterKeeps ==
  ASSUME RetrievalInv, UNCHANGED retrievalVars
  PROVE  RetrievalInv'
<1>1. WorldTyped' /\ SinceCovers'
  BY DEF RetrievalInv, WorldTyped, SinceCovers, retrievalVars
<1>2. FacetsComeFromTheFusion' /\ run' \in Run /\ RelationsAreCurrent'
  BY DEF RetrievalInv, FacetsComeFromTheFusion, RelationsAreCurrent, At, retrievalVars
<1> QED BY <1>1, <1>2 DEF RetrievalInv

(* The check after the reranker.                                           *)
LEMMA CheckRankedKeeps ==
  ASSUME RetrievalInv, CheckRanked
  PROVE  RetrievalInv'
<1>1. AfterRanking \in {"provenance", "done"}
  BY DEF AfterRanking
<1>2. Continues(Authorized(run.order), AfterRanking)
      /\ UNCHANGED <<readable, projected, signedIn, worldChanges, since>>
  BY DEF CheckRanked
<1> QED BY <1>1, <1>2, ContinuesKeeps

(* The check after the graph was traced.                                   *)
LEMMA CheckTracedKeeps ==
  ASSUME RetrievalInv, CheckTraced
  PROVE  RetrievalInv'
<1>1. Continues(Authorized(run.order), "done")
      /\ UNCHANGED <<readable, projected, signedIn, worldChanges, since>>
  BY DEF CheckTraced
<1> QED BY <1>1, ContinuesKeeps

(* Every step keeps RetrievalInv.                                          *)
LEMMA RetrievalSteps ==
  ASSUME RetrievalInv, [RetrievalNext]_retrievalVars
  PROVE  RetrievalInv'
<1>1. CASE \E ch \in run.waiting : \E ranking \in Answered :
             \E paths \in SUBSET Whole(KnownPaths, Range(ranking)) : Recall(ch, ranking, paths)
  BY <1>1, RecallKeeps
<1>2. CASE \E ch \in run.waiting : BranchFails(ch)
  BY <1>2, BranchFailsKeeps
<1>3. CASE FuseAndCheck
  BY <1>3, FuseAndCheckKeeps
<1>4. CASE RerankerAnswers
  BY <1>4, RerankerAnswersKeeps
<1>5. CASE RerankerFails
  BY <1>5, RerankerFailsKeeps
<1>6. CASE CheckRanked
  BY <1>6, CheckRankedKeeps
<1>7. CASE \E answered \in BOOLEAN : TraceGraph(answered)
  BY <1>7, TraceGraphKeeps
<1>8. CASE CheckTraced
  BY <1>8, CheckTracedKeeps
<1>9. CASE GiveUp
  BY <1>9, GiveUpKeeps
<1>10. CASE ChangeWorld /\ UNCHANGED run
  BY <1>10, ChangeWorldKeeps
<1>11. CASE UNCHANGED retrievalVars
  BY <1>11, StutterKeeps
<1> QED
  BY <1>1, <1>2, <1>3, <1>4, <1>5, <1>6, <1>7, <1>8, <1>9, <1>10, <1>11 DEF RetrievalNext

-----------------------------------------------------------------------------
(* Theorems *)

(* The candidates of a retrieval are chunks the branches ranked, each      *)
(* once, its facets are orders of these candidates, and its relations are  *)
(* from graphs that are current.                                           *)
THEOREM RetrievalInductive == RetrievalSpec => []RetrievalInv
<1>1. RetrievalInit => RetrievalInv
  BY RetrievalStarts
<1>2. RetrievalInv /\ [RetrievalNext]_retrievalVars => RetrievalInv'
  BY RetrievalSteps
<1> QED BY <1>1, <1>2, PTL DEF RetrievalSpec

(* Every part of a retrieval keeps its type (query_retrieval/service.py).  *)
THEOREM RetrievalTypeCorrect == RetrievalSpec => []RetrievalTypeOK
<1>1. RetrievalInv => RetrievalTypeOK
  BY DEF RetrievalInv, WorldTyped, RetrievalTypeOK, Run
<1> QED BY <1>1, RetrievalInductive, PTL

(* Steps that leave the run at its stage, or end it without a result.      *)
Silent == run'.stage = run.stage \/ run'.stage \notin {"reranking", "done"}

(* Only three steps send text to the reranker or end a run with evidence.  *)
LEMMA RetrievalStepIs ==
  ASSUME RetrievalInv, RetrievalNext
  PROVE  Silent \/ FuseAndCheck \/ CheckRanked \/ CheckTraced
<1>1. run \in Run
  BY DEF RetrievalInv
<1>2. ASSUME NEW ch \in run.waiting, NEW ranking \in Answered,
             NEW paths \in SUBSET Whole(KnownPaths, Range(ranking)), Recall(ch, ranking, paths)
      PROVE  Silent
  BY <1>1, <1>2 DEF Recall, Silent, Run
<1>3. ASSUME NEW ch \in run.waiting, BranchFails(ch) PROVE Silent
  BY <1>1, <1>3 DEF BranchFails, Silent, Run
<1>4. ASSUME NEW ranking, NEW facets, Reranked(ranking, facets) PROVE Silent
  BY <1>1, <1>4 DEF Reranked, Silent, Run
<1>5. ASSUME NEW answered \in BOOLEAN, TraceGraph(answered) PROVE Silent
  BY <1>1, <1>5 DEF TraceGraph, Silent, Run
<1>6. ASSUME GiveUp PROVE Silent
  BY <1>1, <1>6 DEF GiveUp, Silent, Run
<1>7. ASSUME UNCHANGED run PROVE Silent
  BY <1>7 DEF Silent
<1>8. ASSUME RerankerAnswers \/ RerankerFails PROVE Silent
  BY <1>4, <1>8 DEF RerankerAnswers, RerankerFails
<1> QED BY <1>2, <1>3, <1>5, <1>6, <1>7, <1>8 DEF RetrievalNext

(* The last check of a run ends it with what it chose.                     *)
LEMMA CheckEnds ==
  ASSUME RetrievalInv, CheckRanked \/ CheckTraced, run'.stage = "done"
  PROVE  /\ \E order, paths : /\ ChosenFrom(Authorized(run.order), order, paths)
                              /\ KeepsTheBest(Authorized(run.order), order)
                              /\ run' = [run EXCEPT !.stage = "done", !.order = order,
                                                    !.paths = paths]
         /\ \A c \in run.related : DocumentOf[c] \in since.projected
<1>1. PICK next : /\ next \in {"provenance", "done"}
                  /\ Continues(Authorized(run.order), next)
                  /\ \/ At("traced")
                     \/ next = AfterRanking
  BY DEF CheckRanked, CheckTraced, AfterRanking
<1>2. PICK order, paths :
        /\ ChosenFrom(Authorized(run.order), order, paths)
        /\ run' = [run EXCEPT !.stage = next, !.order = order, !.paths = paths]
        /\ next = "done" => KeepsTheBest(Authorized(run.order), order)
  BY <1>1, ContinuesIs
<1>3. next = "done"
  BY <1>2 DEF RetrievalInv, Run
<1>4. \A c \in run.related : DocumentOf[c] \in since.projected
  BY <1>1, <1>3 DEF RetrievalInv, RelationsAreCurrent, AfterRanking
<1> QED BY <1>2, <1>3, <1>4

(* The text the reranker gets and the evidence of a run was readable after *)
(* the last answer from outside, the graphs behind its paths were READY:   *)
(* every wait is followed by a check (service.py).                         *)
THEOREM WithdrawnTextStays == RetrievalSpec => WithdrawnTextIsNotPassedOn
<1> DEFINE Passes ==
             run.stage # run'.stage /\ run'.stage \in {"reranking", "done"} =>
               /\ \A c \in Range(run'.order) : DocumentOf[c] \in since.readable
               /\ run'.stage = "done" =>
                    \A c \in UNION run'.paths : DocumentOf[c] \in since.projected
<1>1. ASSUME RetrievalInv, Silent PROVE Passes
  BY <1>1 DEF Silent
<1>2. ASSUME RetrievalInv, FuseAndCheck PROVE Passes
  <2>1. PICK order, chosen : FusedTo(order, chosen)
    BY <1>2, FuseAndCheckIs
  <2>2. readable \subseteq since.readable
    BY <1>2 DEF RetrievalInv, SinceCovers
  <2>3. \A c \in Range(run'.order) : DocumentOf[c] \in since.readable
    BY <2>1, <2>2 DEF FusedTo
  <2>4. ASSUME run'.stage = "done", NEW c \in UNION run'.paths PROVE FALSE
    <3>1. ~ run.graphPlan
      BY <2>1, <2>4 DEF FusedTo
    <3>2. run.hits["graph"] = <<>>
      BY <1>2, <3>1 DEF RetrievalInv, RelationsAreCurrent
    <3>3. c \in Range(run.hits["graph"])
      BY <2>1, <2>4 DEF FusedTo
    <3> QED BY <3>2, <3>3 DEF Range
  <2> QED BY <2>3, <2>4
<1>3. ASSUME RetrievalInv, CheckRanked \/ CheckTraced PROVE Passes
  <2> SUFFICES ASSUME run'.stage \in {"reranking", "done"}
               PROVE  /\ \A c \in Range(run'.order) : DocumentOf[c] \in since.readable
                      /\ \A c \in UNION run'.paths : DocumentOf[c] \in since.projected
    OBVIOUS
  <2>1. run \in Run /\ run.order \in Rankings /\ readable \subseteq since.readable
    BY <1>3, BudgetsAre DEF RetrievalInv, SinceCovers
  <2>2. run'.stage = "done"
    <3>1. PICK next : next \in {"provenance", "done"} /\ Continues(Authorized(run.order), next)
      BY <1>3 DEF CheckRanked, CheckTraced, AfterRanking
    <3>2. PICK order, paths :
            run' = [run EXCEPT !.stage = next, !.order = order, !.paths = paths]
      BY <1>3, <3>1, ContinuesIs
    <3>3. run'.stage = next
      BY <2>1, <3>2 DEF Run
    <3> QED BY <3>1, <3>3
  <2>3. PICK order, paths :
          /\ ChosenFrom(Authorized(run.order), order, paths)
          /\ run' = [run EXCEPT !.stage = "done", !.order = order, !.paths = paths]
    BY <1>3, <2>2, CheckEnds
  <2>4. run'.order = order /\ run'.paths = paths
    BY <2>1, <2>3 DEF Run
  <2>5. \A c \in Range(order) : DocumentOf[c] \in readable
    BY <2>1, <2>3, AuthorizedIs DEF ChosenFrom
  <2>6. \A c \in run.related : DocumentOf[c] \in since.projected
    BY <1>3, <2>2, CheckEnds
  <2>7. \A c \in UNION paths : c \in run.related
    BY <2>3 DEF ChosenFrom
  <2> QED BY <2>1, <2>4, <2>5, <2>6, <2>7
<1>4. ASSUME UNCHANGED retrievalVars PROVE Passes
  BY <1>4 DEF retrievalVars
<1> HIDE DEF Passes
<1>5. RetrievalInv /\ [RetrievalNext]_retrievalVars => [Passes]_retrievalVars
  BY <1>1, <1>2, <1>3, <1>4, RetrievalStepIs
<1>6. RetrievalSpec => [][Passes]_retrievalVars
  BY <1>5, RetrievalInductive, PTL DEF RetrievalSpec
<1> QED BY <1>6 DEF WithdrawnTextIsNotPassedOn, Passes

(* The evidence of a run holds together: as much as was asked for, nothing *)
(* twice, paths with all of their sources, the best candidate, and without *)
(* a path the best of every facet (cover_facets, select_path_bundles).     *)
THEOREM EvidenceIsWhole == RetrievalSpec => EvidenceHoldsTogether
<1> DEFINE Holds ==
             ~ At("recall") /\ ~ At("done") /\ run'.stage = "done" =>
               LET left == Authorized(run.order)
                   best == UpTo(left, 1) \o Among([i \in DOMAIN run.facets |-> run.facets[i][1]],
                                                  Range(left))
               IN /\ Len(run'.order) <= run.topK
                  /\ Cardinality(Range(run'.order)) = Len(run'.order)
                  /\ \A p \in run'.paths : p \subseteq Range(run'.order) \cap run'.related
                  /\ Range(UpTo(left, 1)) \subseteq Range(run'.order)
                  /\ CompletePaths(run.paths, left, run.related) = {}
                       => Range(UpTo(Distinct(best), run.topK)) \subseteq Range(run'.order)
<1>1. ASSUME RetrievalInv, Silent PROVE Holds
  BY <1>1 DEF Silent, At
<1>2. ASSUME RetrievalInv, FuseAndCheck PROVE Holds
  BY <1>2 DEF FuseAndCheck
<1>3. ASSUME RetrievalInv, CheckRanked \/ CheckTraced PROVE Holds
  <2> SUFFICES ASSUME run'.stage = "done" PROVE Holds
    OBVIOUS
  <2>1. run \in Run
    BY <1>3 DEF RetrievalInv
  <2>2. PICK order, paths :
          /\ ChosenFrom(Authorized(run.order), order, paths)
          /\ KeepsTheBest(Authorized(run.order), order)
          /\ run' = [run EXCEPT !.stage = "done", !.order = order, !.paths = paths]
    BY <1>3, CheckEnds
  <2>3. run'.order = order /\ run'.paths = paths /\ run'.related = run.related
    BY <2>1, <2>2 DEF Run
  <2>4. Cardinality(Range(order)) = Len(order)
    <3>1. order \in Seq(Chunks) /\ Once(order)
      BY <2>2, RankingsAre DEF ChosenFrom
    <3> QED BY <3>1, OnceLength
  <2>5. \A p \in paths : p \subseteq Range(order) \cap run.related
    BY <2>2 DEF ChosenFrom
  <2> QED BY <2>2, <2>3, <2>4, <2>5 DEF KeepsTheBest, Best
<1>4. ASSUME UNCHANGED retrievalVars PROVE Holds
  BY <1>4 DEF retrievalVars, At
<1> HIDE DEF Holds
<1>5. RetrievalInv /\ [RetrievalNext]_retrievalVars => [Holds]_retrievalVars
  BY <1>1, <1>2, <1>3, <1>4, RetrievalStepIs
<1>6. RetrievalSpec => [][Holds]_retrievalVars
  BY <1>5, RetrievalInductive, PTL DEF RetrievalSpec
<1> QED BY <1>6, PTL DEF EvidenceHoldsTogether, Holds

-----------------------------------------------------------------------------
(* The graph branch *)

(* Facts with different numbers have an order.                             *)
LEMMA InOrderIs ==
  ASSUME NEW S \in SUBSET Relations
  PROVE  InOrder(S) \in Seq(S)
<1> DEFINE number == [s \in S |-> s.id]
           ahead == [s \in S |-> {t \in S : t.id < s.id}]
<1>1. IsFiniteSet(S)
  BY RecallConstantsAssumption, FS_Subset
<1>2. \A s \in S : s.id \in Nat
  BY RecallConstantsAssumption DEF Relation
<1>3. \A b, c \in S : b # c => b.id # c.id
  BY RecallConstantsAssumption
<1>4. Ahead(S, ahead)
  <2>1. \A c \in S : ahead[c] \subseteq S /\ c \notin ahead[c]
    BY <1>2
  <2>2. ASSUME NEW b \in S, NEW c \in S, b # c
        PROVE  \/ b \in ahead[c] /\ ahead[b] \subseteq ahead[c]
               \/ c \in ahead[b] /\ ahead[c] \subseteq ahead[b]
    <3>1. b.id < c.id \/ c.id < b.id
      BY <1>2, <1>3, <2>2
    <3>2. CASE b.id < c.id
      BY <1>2, <3>2
    <3>3. CASE c.id < b.id
      BY <1>2, <3>3
    <3> QED BY <3>1, <3>2, <3>3
  <2> QED BY <2>1, <2>2 DEF Ahead
<1>5. SortedBy(S, ahead) \in Seq(S)
  <2> HIDE DEF ahead
  <2> QED BY <1>1, <1>4, SortedOnce
<1> QED BY <1>5 DEF InOrder

(* The texts of some paths, each once, are the texts of every one of them. *)
LEMMA TextsOfAre ==
  ASSUME NEW paths \in Seq(Seq(Chunks))
  PROVE  /\ TextsOf(paths) \in Seq(Chunks) /\ Once(TextsOf(paths))
         /\ \A i \in 1..Len(paths) : Range(paths[i]) \subseteq Range(TextsOf(paths))
<1> DEFINE n == Len(paths)
           Holding(i) == {t \in Seq(Chunks) : /\ Once(t)
                            /\ \A j \in 1..i : Range(paths[j]) \subseteq Range(t)}
           I == [i \in 0..n |-> Holding(i)]
<1>1. n \in Nat /\ \A i \in 1..n : paths[i] \in Seq(Chunks)
  OBVIOUS
<1>2. <<>> \in Holding(0)
  BY DEF Once
<1>3. ASSUME NEW i \in 1..n, NEW t \in Holding(i - 1)
      PROVE  Gathering[t][paths[i]] \in Holding(i)
  <2>1. t \in Seq(Chunks) /\ paths[i] \in Seq(Chunks)
    BY <1>1
  <2>2. t \o paths[i] \in Seq(Chunks) /\ Range(t \o paths[i]) = Range(t) \cup Range(paths[i])
    BY ONLY <2>1, ConcatIs
  <2>3. /\ Distinct(t \o paths[i]) \in Seq(Chunks) /\ Once(Distinct(t \o paths[i]))
        /\ Range(Distinct(t \o paths[i])) = Range(t \o paths[i])
    BY ONLY <2>2, DistinctIs
  <2>4. Gathering[t][paths[i]] = Distinct(t \o paths[i])
    BY <2>1 DEF Gathering
  <2>5. ASSUME NEW j \in 1..i PROVE Range(paths[j]) \subseteq Range(Distinct(t \o paths[i]))
    <3>1. j \in 1..(i - 1) \/ j = i
      BY <1>1
    <3> QED BY <2>2, <2>3, <3>1
  <2> QED BY <2>3, <2>4, <2>5
<1>4. <<>> \in I[0] /\ \A i \in 1..n : \A t \in I[i - 1] : Gathering[t][paths[i]] \in I[i]
  <2> HIDE DEF Holding
  <2> QED BY <1>1, <1>2, <1>3
<1>5. Folded(Gathering, <<>>, paths) \in I[n]
  <2> HIDE DEF I
  <2> QED BY <1>1, <1>4, FoldedKeeps
<1> QED BY <1>1, <1>5 DEF TextsOf

(* Some pair is the earliest: mentions have numbers of their own.          *)
LEMMA EarliestIs ==
  ASSUME NEW mentions \in SUBSET Mentions, NEW pairs \in SUBSET (mentions \X mentions),
         pairs # {}
  PROVE  Earliest(pairs) \in pairs
<1>1. \A m \in mentions : m.id \in Nat
  BY RecallConstantsAssumption DEF Mention
<1>2. \A m, n \in mentions : m.id = n.id => m = n
  BY RecallConstantsAssumption
<1>3. \A p \in pairs : p[1] \in mentions /\ p[2] \in mentions
  OBVIOUS
<1> DEFINE lefts == {p[1].id : p \in pairs}
<1>4. PICK a \in lefts : \A b \in lefts : a <= b
  <2>1. lefts \in SUBSET Nat /\ lefts # {}
    BY <1>1, <1>3
  <2> HIDE DEF lefts
  <2> QED BY <2>1, LeastNatural
<1> DEFINE rights == {p[2].id : p \in {q \in pairs : q[1].id = a}}
<1>5. PICK c \in rights : \A d \in rights : c <= d
  <2>1. rights \in SUBSET Nat
    BY <1>1, <1>3
  <2>2. rights # {}
    BY <1>4
  <2> HIDE DEF rights
  <2> QED BY <2>1, <2>2, LeastNatural
<1>6. PICK p \in pairs : p[1].id = a /\ p[2].id = c
  BY <1>5
<1>7. ASSUME NEW q \in pairs
      PROVE  p[1].id < q[1].id \/ (p[1] = q[1] /\ p[2].id <= q[2].id)
  <2>1. q[1].id \in Nat /\ a \in Nat /\ a <= q[1].id
    BY <1>1, <1>3, <1>4, <1>6
  <2>2. CASE a < q[1].id
    BY <1>6, <2>2
  <2>3. CASE a = q[1].id
    <3>1. p[1] = q[1]
      BY <1>2, <1>3, <1>6, <2>3
    <3>2. q[2].id \in rights
      BY <2>3
    <3> QED BY <1>5, <1>6, <3>1, <3>2
  <2> QED BY <2>1, <2>2, <2>3
<1>8. \E s \in pairs : \A q \in pairs : s[1].id < q[1].id \/ (s[1] = q[1] /\ s[2].id <= q[2].id)
  BY <1>7
<1> QED BY <1>8 DEF Earliest

(* The texts that prove a path are those of its relations and mentions.    *)
LEMMA SourcesAre ==
  ASSUME NEW first \in Relations, NEW second \in Relations, NEW mentions \in SUBSET Mentions,
         NEW C \in SUBSET Chunks, first.chunk \in C, second.chunk \in C,
         \A m \in mentions : m.chunk \in C
  PROVE  SourcesOf(first, second, mentions) \in Seq(C)
<1> DEFINE bridges == BridgesOf(first, second, mentions)
<1>1. bridges \in SUBSET (mentions \X mentions)
  BY DEF BridgesOf
<1> HIDE DEF bridges
<1>2. bridges # {} => Earliest(bridges) \in mentions \X mentions
  BY <1>1, EarliestIs
<1>3. bridges # {} => Earliest(bridges)[1].chunk \in C /\ Earliest(bridges)[2].chunk \in C
  BY <1>2
<1>4. <<first.chunk, second.chunk>> \in Seq(C) /\ <<>> \in Seq(C)
  OBVIOUS
<1>5. bridges # {} => <<first.chunk, second.chunk>>
                        \o <<Earliest(bridges)[1].chunk, Earliest(bridges)[2].chunk>> \in Seq(C)
  BY <1>3
<1> QED BY <1>4, <1>5 DEF SourcesOf, bridges

(* Paths over the texts C whose texts fit into the limit.                  *)
Fitting(C, limit) ==
  {ps \in Seq(Seq(Chunks)) :
     /\ Len(ps) <= PathLimit /\ \A i \in 1..Len(ps) : Range(ps[i]) \subseteq C
     /\ ps = <<>> \/ Len(TextsOf(ps)) <= limit}

(* One more path is added only when its texts fit.                         *)
LEMMA AddingKeeps ==
  ASSUME NEW first \in Relations, NEW second \in Relations, NEW mentions \in SUBSET Mentions,
         NEW C \in SUBSET Chunks, first.chunk \in C, second.chunk \in C,
         \A m \in mentions : m.chunk \in C, NEW limit, NEW ps \in Fitting(C, limit)
  PROVE  Adding(first, mentions, limit)[ps][second] \in Fitting(C, limit)
<1> DEFINE sources == SourcesOf(first, second, mentions)
           more == Append(ps, sources)
<1>1. sources \in Seq(C)
  BY SourcesAre
<1>2. sources \in Seq(Chunks) /\ Range(sources) \subseteq C
  BY <1>1, SeqRange
<1>3. ps \in Seq(Seq(Chunks)) /\ Len(ps) \in Nat
  BY DEF Fitting
<1>4. Adding(first, mentions, limit)[ps][second] =
        IF sources # <<>> /\ Len(ps) < PathLimit /\ Len(TextsOf(more)) <= limit
        THEN more ELSE ps
  BY <1>3 DEF Adding
<1> HIDE DEF sources
<1>5. CASE sources # <<>> /\ Len(ps) < PathLimit /\ Len(TextsOf(more)) <= limit
  <2>1. more \in Seq(Seq(Chunks)) /\ Len(more) = Len(ps) + 1
    BY <1>2, <1>3
  <2>2. Len(more) <= PathLimit
    <3>1. PathLimit \in Nat
      BY RecallConstantsAssumption
    <3> QED BY <1>3, <1>5, <2>1, <3>1
  <2>3. ASSUME NEW i \in 1..Len(more) PROVE Range(more[i]) \subseteq C
    <3>1. CASE i \in 1..Len(ps)
      BY <1>2, <1>3, <3>1 DEF Fitting
    <3>2. CASE i = Len(ps) + 1
      BY <1>2, <1>3, <3>2
    <3> QED BY <1>3, <2>1, <3>1, <3>2
  <2> HIDE DEF more
  <2>4. more \in Fitting(C, limit)
    BY <1>5, <2>1, <2>2, <2>3 DEF Fitting
  <2> QED BY <1>4, <1>5, <2>4
<1>6. CASE ~ (sources # <<>> /\ Len(ps) < PathLimit /\ Len(TextsOf(more)) <= limit)
  BY <1>4, <1>6
<1> QED BY <1>5, <1>6

(* The paths of two hops fit, and their texts are among those that were    *)
(* read.                                                                   *)
LEMMA PathsOfFit ==
  ASSUME NEW firsts \in SUBSET Relations, NEW seconds \in SUBSET Relations,
         NEW mentions \in SUBSET Mentions, NEW C \in SUBSET Chunks,
         \A x \in firsts \cup seconds \cup mentions : x.chunk \in C, NEW limit
  PROVE  PathsOf(firsts, seconds, mentions, limit) \in Fitting(C, limit)
<1> DEFINE K == Fitting(C, limit)
           A == InOrder(firsts)
           B == InOrder(seconds)
<1>1. /\ A \in Seq(firsts) /\ Len(A) \in Nat /\ \A i \in 1..Len(A) : A[i] \in firsts
      /\ B \in Seq(seconds) /\ Len(B) \in Nat /\ \A i \in 1..Len(B) : B[i] \in seconds
  BY InOrderIs
<1>2. <<>> \in K
  BY RecallConstantsAssumption DEF Fitting
<1> HIDE DEF A, B
<1>3. ASSUME NEW first \in firsts, NEW ps \in K
      PROVE  Folded(Adding(first, mentions, limit), ps, B) \in K
  <2> DEFINE f == Adding(first, mentions, limit)
  <2>1. \A i \in 1..Len(B) : \A a \in K : f[a][B[i]] \in K
    BY <1>1, AddingKeeps
  <2> HIDE DEF f, K
  <2> QED BY <1>1, <1>3, <2>1, FoldedStays DEF f
<1> DEFINE g == Joining(seconds, mentions, limit)
<1>4. \A first \in firsts : \A ps \in K : g[ps][first] \in K
  <2> SUFFICES ASSUME NEW first \in firsts, NEW ps \in K PROVE g[ps][first] \in K
    OBVIOUS
  <2>1. ps \in Seq(Seq(Chunks)) /\ first \in Relations
    BY DEF Fitting
  <2>2. g[ps][first] = Folded(Adding(first, mentions, limit), ps, B)
    BY <2>1 DEF Joining, B
  <2> QED BY <1>3, <2>2
<1> HIDE DEF K, g
<1>5. \A i \in 1..Len(A) : \A a \in K : g[a][A[i]] \in K
  BY <1>1, <1>4
<1>6. Folded(g, <<>>, A) \in K
  BY <1>1, <1>2, <1>5, FoldedStays
<1> QED BY <1>6 DEF PathsOf, K, g, A

(* The candidates of one hop are a ranking within the limit.               *)
LEMMA OneHopIs ==
  ASSUME NEW rows \in SUBSET Relations, recall.limit \in Nat
  PROVE  OneHop(rows) \in Rankings /\ Len(OneHop(rows)) <= recall.limit
<1> DEFINE chunks == {r.chunk : r \in rows}
           count == [c \in chunks |-> Cardinality({r \in rows : r.chunk = c})]
           low == [c \in chunks |-> c]
<1>1. chunks \subseteq Chunks /\ Chunks \subseteq Nat /\ IsFiniteSet(chunks)
  <2>1. chunks \subseteq Chunks /\ Chunks \subseteq Nat /\ IsFiniteSet(Chunks)
    BY RecallConstantsAssumption, RetrievalConstantsAssumption DEF Relation
  <2> QED BY <2>1, FS_Subset
<1>2. \A c \in chunks : count[c] \in Int /\ low[c] \in Int
  <2>1. ASSUME NEW c \in chunks PROVE Cardinality({r \in rows : r.chunk = c}) \in Nat
    <3>1. {r \in rows : r.chunk = c} \subseteq Relations /\ IsFiniteSet(Relations)
      BY RecallConstantsAssumption
    <3> QED BY <3>1, FS_Subset, FS_CardinalityType
  <2>2. \A c \in chunks : count[c] \in Nat
    BY <2>1
  <2>3. \A c \in chunks : low[c] \in Nat
    BY <1>1
  <2> HIDE DEF count, low, chunks
  <2> QED BY <2>2, <2>3
<1>3. \A b, c \in chunks : count[b] = count[c] /\ low[b] = low[c] => b = c
  OBVIOUS
<1> DEFINE sorted == SortedBy(chunks, Keyed(chunks, count, low))
<1>4. OneHop(rows) = UpTo(sorted, recall.limit)
  <2>1. Keyed(chunks, count, low) = [c \in chunks |->
            {b \in chunks : count[b] > count[c] \/ (count[b] = count[c] /\ b < c)}]
    BY DEF Keyed
  <2> QED BY <2>1 DEF OneHop
<1> HIDE DEF count, low, chunks
<1>5. Ahead(chunks, Keyed(chunks, count, low))
  BY <1>2, <1>3, TwoKeys
<1>6. sorted \in Seq(chunks) /\ Once(sorted)
  BY <1>1, <1>5, SortedOnce
<1> HIDE DEF sorted
<1>7. sorted \in Seq(Chunks)
  <2>1. sorted \in Seq(chunks) /\ Range(sorted) \subseteq chunks
    BY <1>6, SeqRange
  <2>2. Range(sorted) \subseteq Chunks
    BY <1>1, <2>1
  <2> QED BY ONLY <2>1, <2>2, SeqWithin
<1>8. /\ UpTo(sorted, recall.limit) \in Seq(Chunks) /\ Once(UpTo(sorted, recall.limit))
      /\ Len(UpTo(sorted, recall.limit)) <= recall.limit
  <2>1. recall.limit \in Nat /\ Len(sorted) \in Nat
    BY <1>7
  <2> QED BY <1>6, <1>7, <2>1, UpToIs
<1> QED BY <1>4, <1>8, RankingsAre

(* What a graph recall remembers.                                          *)
Recalls ==
  [phase : Questions \cup {"planned", "unplanned", "done", "failed"}, planning : BOOLEAN,
   limit : Limits, hops : {1, 2}, names : SUBSET Names, planned : SUBSET Documents,
   seeds : SUBSET Entities, projections : SUBSET Documents, found : SUBSET Entities,
   mentions : SUBSET Mentions, rows : SUBSET Relations, second : SUBSET Relations,
   hits : Rankings, paths : Seq(Seq(Chunks))]

(* Only planned graphs are asked, and the results stay within the limits.  *)
RecallIsBounded ==
  /\ recall.projections \subseteq recall.planned
  /\ Len(recall.hits) <= recall.limit /\ Len(recall.paths) <= PathLimit

(* The inductive invariant of a graph recall.                              *)
RecallInv ==
  /\ WorldTyped
  /\ SinceCovers
  /\ recall \in Recalls
  /\ RecallIsBounded

(* A plan or a branch may end with these candidates and paths.             *)
SoundResult(hits, paths) ==
  /\ hits \in Rankings /\ Len(hits) <= recall.limit
  /\ paths \in Seq(Seq(Chunks)) /\ Len(paths) <= PathLimit
  /\ \A i \in 1..Len(paths) :
       /\ Range(paths[i]) \subseteq Range(hits)
       /\ \A c \in Range(paths[i]) :
            DocumentOf[c] \in since.readable \cap since.projected \cap recall.planned

(* A step ends a plan or a branch, or it goes on.                          *)
Ends == \E hits, paths : Returns(hits, paths) /\ SoundResult(hits, paths)

GoesOn ==
  recall' \in Recalls /\ RecallIsBounded' /\ recall'.phase \notin {"planned", "done"}

(* Without a candidate there is nothing to prove.                          *)
LEMMA NothingIsSound ==
  ASSUME recall \in Recalls
  PROVE  SoundResult(<<>>, <<>>)
<1>1. <<>> \in Rankings
  <2>1. <<>> \in Seq(Chunks) /\ Once(<<>>)
    BY DEF Once
  <2> QED BY <2>1, RankingsAre
<1>2. recall.limit \in Nat /\ PathLimit \in Nat
  BY RecallConstantsAssumption DEF Recalls
<1> QED BY <1>1, <1>2 DEF SoundResult

(* Candidates without paths need only be few enough.                       *)
LEMMA CandidatesAreSound ==
  ASSUME NEW hits \in Rankings, Len(hits) <= recall.limit
  PROVE  SoundResult(hits, <<>>)
<1>1. PathLimit \in Nat
  BY RecallConstantsAssumption
<1> QED BY <1>1 DEF SoundResult

(* What a plan or a branch ends with is within its bounds.                 *)
LEMMA EndsKeeps ==
  ASSUME RecallInv, Ends
  PROVE  recall' \in Recalls /\ RecallIsBounded'
<1>1. PICK hits, paths : Returns(hits, paths) /\ SoundResult(hits, paths)
  BY DEF Ends
<1>2. recall \in Recalls
  BY DEF RecallInv
<1> DEFINE phase == IF ~ recall.planning THEN "done" ELSE IF hits = <<>> THEN "unplanned"
                    ELSE "planned"
           hops == IF recall.planning /\ paths = <<>> THEN 1 ELSE recall.hops
<1>3. recall' = [recall EXCEPT !.phase = phase, !.hops = hops, !.hits = hits, !.paths = paths,
                               !.rows = {}, !.second = {}, !.mentions = {}, !.found = {}]
  BY <1>1, <1>2 DEF Returns
<1>4. phase \in Questions \cup {"planned", "unplanned", "done", "failed"} /\ hops \in {1, 2}
      /\ hits \in Rankings /\ paths \in Seq(Seq(Chunks))
  BY <1>1, <1>2 DEF SoundResult, Recalls
<1> HIDE DEF phase, hops
<1>5. recall' \in Recalls
  BY <1>2, <1>3, <1>4 DEF Recalls
<1>6. /\ recall'.hits = hits /\ recall'.paths = paths /\ recall'.limit = recall.limit
      /\ recall'.projections = recall.projections /\ recall'.planned = recall.planned
  BY <1>2, <1>3 DEF Recalls
<1>7. RecallIsBounded'
  BY <1>1, <1>6 DEF RecallInv, RecallIsBounded, SoundResult
<1> QED BY <1>5, <1>7

(* A step of the recall leaves the world as it is, or takes note of it.    *)
LEMMA RecallMoves ==
  ASSUME RecallInv, RecallRemains, since' = since \/ since' = Now, Ends \/ GoesOn
  PROVE  RecallInv'
<1>1. WorldTyped'
  BY DEF RecallInv, WorldTyped, RecallRemains, Now
<1>2. SinceCovers'
  BY DEF RecallInv, SinceCovers, RecallRemains, Now
<1>3. recall' \in Recalls /\ RecallIsBounded'
  BY EndsKeeps DEF GoesOn
<1> QED BY <1>1, <1>2, <1>3 DEF RecallInv

(* A recall begins with nothing found.                                     *)
LEMMA RecallStarts ==
  ASSUME RecallInit
  PROVE  RecallInv
<1>1. <<>> \in Rankings
  <2>1. <<>> \in Seq(Chunks) /\ Once(<<>>)
    BY DEF Once
  <2> QED BY <2>1, RankingsAre
<1>2. WorldTyped /\ SinceCovers
  BY RetrievalConstantsAssumption DEF RecallInit, WorldTyped, SinceCovers, Now
<1>3. PICK names \in (SUBSET Names) \ {{}}, limit \in Limits, hops \in {1, 2} :
        recall = [phase |-> "projections", planning |-> TRUE, limit |-> limit, hops |-> hops,
                  names |-> names, planned |-> {}, seeds |-> {}, projections |-> {},
                  found |-> {}, mentions |-> {}, rows |-> {}, second |-> {}, hits |-> <<>>,
                  paths |-> <<>>]
  BY DEF RecallInit
<1>4. "projections" \in Questions
  BY DEF Questions
<1>5. recall \in Recalls
  BY <1>1, <1>3, <1>4 DEF Recalls
<1>6. RecallIsBounded
  <2>1. limit \in Nat /\ PathLimit \in Nat
    BY RecallConstantsAssumption
  <2> QED BY <1>3, <2>1 DEF RecallIsBounded
<1> QED BY <1>2, <1>5, <1>6 DEF RecallInv

(* The step asks on: nothing is decided but what is found.                 *)
AskedOn ==
  /\ recall'.phase \in Questions
  /\ recall'.hits = recall.hits /\ recall'.paths = recall.paths
  /\ recall'.limit = recall.limit /\ recall'.projections = recall.projections
  /\ recall'.planned = recall.planned

(* Nothing but the phase and what is found changes.                        *)
LEMMA AsksOn ==
  ASSUME RecallInv, recall' \in Recalls, AskedOn
  PROVE  GoesOn
<1>1. "planned" \notin Questions /\ "done" \notin Questions
  BY DEF Questions
<1> QED BY <1>1 DEF GoesOn, RecallInv, RecallIsBounded, AskedOn

(* A plan is carried out on its own graphs.                                *)
LEMMA ReadProjectionsIs ==
  ASSUME RecallInv, ReadProjections
  PROVE  Ends \/ GoesOn
<1> DEFINE current == IF recall.planning THEN Usable ELSE Usable \cap recall.planned
           planned == IF recall.planning THEN current ELSE recall.planned
<1>1. recall \in Recalls
  BY DEF RecallInv
<1>2. CASE ReturnsNothing
  BY <1>1, <1>2, NothingIsSound DEF ReturnsNothing, Ends
<1>3. CASE recall' = [recall EXCEPT !.phase = "seeds", !.projections = current,
                                    !.planned = planned]
  <2>1. current \in SUBSET Documents /\ planned \in SUBSET Documents /\ current \subseteq planned
    BY <1>1 DEF RecallInv, WorldTyped, Usable, Recalls
  <2> HIDE DEF current, planned
  <2>2. recall' \in Recalls
    BY <1>1, <1>3, <2>1 DEF Recalls, Questions
  <2>3. RecallIsBounded' /\ recall'.phase = "seeds"
    BY <1>1, <1>3, <2>1 DEF RecallInv, RecallIsBounded, Recalls
  <2> QED BY <2>2, <2>3 DEF GoesOn
<1> QED BY <1>2, <1>3 DEF ReadProjections

(* Neo4j names entities.                                                   *)
LEMMA FindSeedsIs ==
  ASSUME RecallInv, NEW gone, FindSeeds(gone)
  PROVE  Ends \/ GoesOn
<1>1. recall \in Recalls
  BY DEF RecallInv
<1>2. CASE ReturnsNothing
  BY <1>1, <1>2, NothingIsSound DEF ReturnsNothing, Ends
<1>3. CASE \E found \in SUBSET Entities :
             recall' = [recall EXCEPT !.phase = "mentions", !.found = found]
  <2>1. PICK found \in SUBSET Entities :
          recall' = [recall EXCEPT !.phase = "mentions", !.found = found]
    BY <1>3
  <2>2. recall' \in Recalls
    BY <1>1, <2>1 DEF Recalls, Questions
  <2> QED
    <3>1. recall'.phase \in Questions
      BY <1>1, <2>1 DEF Recalls, Questions
    <3>2. AskedOn
      BY <1>1, <2>1, <3>1 DEF AskedOn, Recalls
    <3> QED BY <2>2, <3>2, AsksOn
<1>4. {e \in MentionedIn(Left(gone)) : NameOf[e] \in recall.names} \in SUBSET Entities
      /\ recall.seeds \in SUBSET Entities
  BY <1>1 DEF MentionedIn, Recalls
<1> QED BY <1>2, <1>3, <1>4 DEF FindSeeds

(* The seeds of a plan are entities.                                       *)
LEMMA PlanSeedsIs ==
  ASSUME RecallInv, NEW mentions \in SUBSET Mentions, PlanSeeds(mentions)
  PROVE  Ends \/ GoesOn
<1> DEFINE seeds == UNION {Matches(n, recall.found, mentions) : n \in recall.names}
<1>1. recall \in Recalls
  BY DEF RecallInv
<1>2. CASE ReturnsNothing
  BY <1>1, <1>2, NothingIsSound DEF ReturnsNothing, Ends
<1>3. CASE recall' = [recall EXCEPT !.phase = "relations", !.seeds = seeds]
  <2>1. \A n : Matches(n, recall.found, mentions) \subseteq Entities
    <3>1. recall.found \subseteq Entities
      BY <1>1 DEF Recalls
    <3>2. \A m \in mentions : m.entity \in Entities
      BY RecallConstantsAssumption DEF Mention
    <3> QED BY <3>1, <3>2 DEF Matches
  <2>2. seeds \in SUBSET Entities
    BY <2>1
  <2> HIDE DEF seeds
  <2>3. recall' \in Recalls
    BY <1>1, <1>3, <2>2 DEF Recalls, Questions
  <2> QED
    <3>1. AskedOn
      BY <1>1, <1>3, <2>3 DEF AskedOn, Recalls, Questions
    <3> QED BY <1>1, <1>3, <2>3, <3>1, AsksOn
<1> QED BY <1>2, <1>3 DEF PlanSeeds

(* The seeds are settled without a change of what was found.               *)
LEMMA RelationsNext ==
  ASSUME RecallInv, recall' = [recall EXCEPT !.phase = "relations"]
  PROVE  GoesOn
<1>1. recall \in Recalls
  BY DEF RecallInv
<1>2. recall' \in Recalls
  BY <1>1 DEF Recalls, Questions
<1> QED
  <2>1. AskedOn
    BY <1>1, <1>2 DEF AskedOn, Recalls, Questions
  <2> QED BY <1>1, <1>2, <2>1, AsksOn

(* The names alone settle the seeds.                                       *)
LEMMA SettleSeedsIs ==
  ASSUME RecallInv, SettleSeeds
  PROVE  Ends \/ GoesOn
<1>1. CASE PlanSeeds({})
  BY <1>1, PlanSeedsIs
<1> QED BY <1>1, RelationsNext DEF SettleSeeds

(* The texts settle the seeds, or there is no plan.                        *)
LEMMA ReadSeedTextsIs ==
  ASSUME RecallInv, ReadSeedTexts
  PROVE  Ends \/ GoesOn
<1>1. recall \in Recalls
  BY DEF RecallInv
<1>2. Supported(recall.mentions) \in SUBSET Mentions
  BY <1>1 DEF Supported, Recalls
<1>3. CASE PlanSeeds(Supported(recall.mentions))
  BY <1>2, <1>3, PlanSeedsIs
<1>4. CASE ReturnsNothing
  BY <1>1, <1>4, NothingIsSound DEF ReturnsNothing, Ends
<1> QED BY <1>3, <1>4, RelationsNext DEF ReadSeedTexts

(* Mentions are found, or too many.                                        *)
LEMMA FindMentionsIs ==
  ASSUME RecallInv, NEW phase, NEW next \in Questions, NEW entities, NEW names, NEW gone,
         FindMentions(phase, next, entities, names, gone)
  PROVE  GoesOn
<1>1. recall \in Recalls
  BY DEF RecallInv
<1>2. PICK mentions \in SUBSET Mentions :
        recall' = [recall EXCEPT !.phase = next, !.mentions = mentions]
  BY DEF FindMentions
<1>3. recall' \in Recalls
  BY <1>1, <1>2 DEF Recalls
<1> QED
  <2>1. AskedOn
    BY <1>1, <1>2, <1>3 DEF AskedOn, Recalls
  <2> QED BY <1>1, <1>2, <1>3, <2>1, AsksOn

(* Neo4j names relations.                                                  *)
LEMMA FindRelationsIs ==
  ASSUME RecallInv, NEW gone, FindRelations(gone)
  PROVE  Ends \/ GoesOn
<1> DEFINE rows == RelationsOf(recall.seeds, gone)
<1>1. recall \in Recalls
  BY DEF RecallInv
<1>2. CASE ReturnsNothing
  BY <1>1, <1>2, NothingIsSound DEF ReturnsNothing, Ends
<1>3. CASE recall' = [recall EXCEPT !.phase = "texts", !.rows = rows]
  <2>1. rows \in SUBSET Relations
    BY DEF RelationsOf
  <2> HIDE DEF rows
  <2>2. recall' \in Recalls
    BY <1>1, <1>3, <2>1 DEF Recalls, Questions
  <2> QED
    <3>1. AskedOn
      BY <1>1, <1>3, <2>2 DEF AskedOn, Recalls, Questions
    <3> QED BY <1>1, <1>3, <2>2, <3>1, AsksOn
<1> QED BY <1>2, <1>3 DEF FindRelations

(* The texts of one hop make candidates.                                   *)
LEMMA ReadTextsIs ==
  ASSUME RecallInv, ReadTexts
  PROVE  Ends \/ GoesOn
<1> DEFINE rows == Confirmed(recall.rows)
           firsts == {r \in rows : StartsPath(r)}
           hits == OneHop(rows)
<1>1. recall \in Recalls /\ recall.limit \in Nat
  BY RecallConstantsAssumption DEF RecallInv, Recalls
<1>2. rows \in SUBSET Relations /\ firsts \in SUBSET Relations
  BY <1>1 DEF Confirmed, Recalls
<1> HIDE DEF rows
<1>3. hits \in Rankings /\ Len(hits) <= recall.limit
  BY <1>1, <1>2, OneHopIs
<1> HIDE DEF firsts, hits
<1>4. CASE Returns(hits, <<>>)
  BY <1>3, <1>4, CandidatesAreSound DEF Ends
<1>5. CASE recall' = [recall EXCEPT !.phase = "fresh projections", !.rows = firsts, !.hits = hits]
  <2>1. recall' \in Recalls
    BY <1>1, <1>2, <1>3, <1>5 DEF Recalls, Questions
  <2>2. RecallIsBounded' /\ recall'.phase = "fresh projections"
    BY <1>1, <1>3, <1>5 DEF RecallInv, RecallIsBounded, Recalls
  <2> QED BY <2>1, <2>2 DEF GoesOn
<1> QED BY <1>4, <1>5 DEF ReadTexts, rows, firsts, hits

(* The graphs of the second hop are those still usable.                    *)
LEMMA ReadFreshProjectionsIs ==
  ASSUME RecallInv, ReadFreshProjections
  PROVE  Ends \/ GoesOn
<1> DEFINE current == Usable \cap recall.planned
<1>1. recall \in Recalls /\ recall.hits \in Rankings /\ Len(recall.hits) <= recall.limit
  BY DEF RecallInv, Recalls, RecallIsBounded
<1>2. CASE Returns(recall.hits, <<>>)
  BY <1>1, <1>2, CandidatesAreSound DEF Ends
<1>3. CASE recall' = [recall EXCEPT !.phase = "path mentions", !.projections = current]
  <2>1. current \in SUBSET Documents /\ current \subseteq recall.planned
    BY <1>1 DEF Recalls
  <2> HIDE DEF current
  <2>2. recall' \in Recalls
    BY <1>1, <1>3, <2>1 DEF Recalls, Questions
  <2>3. RecallIsBounded' /\ recall'.phase = "path mentions"
    BY <1>1, <1>3, <2>1 DEF RecallInv, RecallIsBounded, Recalls
  <2> QED BY <2>2, <2>3 DEF GoesOn
<1> QED BY <1>2, <1>3 DEF ReadFreshProjections

(* The texts say how to go on from the middle.                             *)
LEMMA ReadMiddleTextsIs ==
  ASSUME RecallInv, ReadMiddleTexts
  PROVE  Ends \/ GoesOn
<1> DEFINE mentions == Supported(recall.mentions)
           found == Middles \cup {r.entity : r \in {m \in mentions :
                        \E l \in mentions : l.entity \in Middles /\ Bridges(l, m)}}
<1>1. recall \in Recalls
  BY DEF RecallInv
<1>2. mentions \in SUBSET Mentions
  BY <1>1 DEF Supported, Recalls
<1>3. found \in SUBSET Entities
  <2>1. \A m \in mentions : m.entity \in Entities
    BY <1>2, RecallConstantsAssumption DEF Mention
  <2>2. Middles \subseteq Entities
    BY <1>1, RecallConstantsAssumption DEF Middles, Relation, Recalls
  <2> HIDE DEF mentions
  <2> QED BY <2>1, <2>2
<1>4. recall' = [recall EXCEPT !.phase = "path relations", !.mentions = mentions, !.found = found]
  BY DEF ReadMiddleTexts
<1> HIDE DEF mentions, found
<1>5. recall' \in Recalls
  BY <1>1, <1>2, <1>3, <1>4 DEF Recalls, Questions
<1>6. GoesOn
  <2>1. AskedOn
    BY <1>1, <1>4, <1>5 DEF AskedOn, Recalls, Questions
  <2> QED BY <1>1, <1>4, <1>5, <2>1, AsksOn
<1> QED BY <1>6

(* Neo4j names the relations of the second hop.                            *)
LEMMA FindSecondsIs ==
  ASSUME RecallInv, NEW gone, FindSeconds(gone)
  PROVE  GoesOn
<1> DEFINE second == RelationsOf(recall.found, gone)
<1>1. recall \in Recalls
  BY DEF RecallInv
<1>2. second \in SUBSET Relations
  BY DEF RelationsOf
<1>3. recall' = [recall EXCEPT !.phase = "path texts", !.second = second]
  BY DEF FindSeconds
<1> HIDE DEF second
<1>4. recall' \in Recalls
  BY <1>1, <1>2, <1>3 DEF Recalls, Questions
<1> QED
  <2>1. AskedOn
    BY <1>1, <1>3, <1>4 DEF AskedOn, Recalls, Questions
  <2> QED BY <1>1, <1>3, <1>4, <2>1, AsksOn

(* The last texts are read: a path whose texts all came is complete, and   *)
(* its texts come before the other candidates.                             *)
LEMMA ReadPathTextsIs ==
  ASSUME RecallInv, ReadPathTexts
  PROVE  Ends
<1> DEFINE C == PathTexts({x.chunk : x \in recall.rows \cup recall.second \cup recall.mentions})
           Strict(rows) == {r \in rows : r.verbatim /\ r.strict /\ r.chunk \in C}
           firsts == Strict(recall.rows)
           seconds == Strict(recall.second)
           mentions == {m \in recall.mentions : m.chunk \in C}
           paths == PathsOf(firsts, seconds, mentions, recall.limit)
           texts == TextsOf(paths)
           all == Distinct(texts \o recall.hits)
           hits == UpTo(all, recall.limit)
<1>1. recall \in Recalls /\ recall.limit \in Nat
  BY RecallConstantsAssumption DEF RecallInv, Recalls
<1>2. Returns(hits, paths)
  BY DEF ReadPathTexts
<1>3. C \in SUBSET Chunks
      /\ \A c \in C : DocumentOf[c] \in since.readable \cap since.projected \cap recall.planned
  <2>1. \A x \in recall.rows \cup recall.second \cup recall.mentions : x.chunk \in Chunks
    BY <1>1, RecallConstantsAssumption DEF Recalls, Relation, Mention
  <2>2. C \subseteq {x.chunk : x \in recall.rows \cup recall.second \cup recall.mentions}
        /\ \A c \in C : DocumentOf[c] \in Usable \cap recall.projections
    BY DEF PathTexts, Texts
  <2>3. Usable \subseteq since.readable /\ Usable \subseteq since.projected
        /\ recall.projections \subseteq recall.planned
    BY DEF RecallInv, SinceCovers, RecallIsBounded, Usable
  <2> HIDE DEF C
  <2> QED BY <2>1, <2>2, <2>3
<1> HIDE DEF C
<1>4. /\ firsts \in SUBSET Relations /\ seconds \in SUBSET Relations
      /\ mentions \in SUBSET Mentions
      /\ \A x \in firsts \cup seconds \cup mentions : x.chunk \in C
  BY <1>1 DEF Recalls
<1> HIDE DEF firsts, seconds, mentions
<1>5. paths \in Fitting(C, recall.limit)
  BY <1>3, <1>4, PathsOfFit
<1> HIDE DEF paths
<1>6. /\ paths \in Seq(Seq(Chunks)) /\ Len(paths) <= PathLimit
      /\ \A i \in 1..Len(paths) : Range(paths[i]) \subseteq C
      /\ paths = <<>> \/ Len(texts) <= recall.limit
  BY <1>5 DEF Fitting
<1>7. /\ texts \in Seq(Chunks) /\ Once(texts)
      /\ \A i \in 1..Len(paths) : Range(paths[i]) \subseteq Range(texts)
  BY <1>6, TextsOfAre
<1> HIDE DEF texts
<1>8. recall.hits \in Seq(Chunks)
  BY <1>1, RankingsAre DEF Recalls
<1>9. texts \o recall.hits \in Seq(Chunks) /\ PrefixOf(texts, texts \o recall.hits)
  BY <1>7, <1>8, PrefixConcat
<1>10. all \in Seq(Chunks) /\ Once(all)
  BY <1>9, DistinctIs
<1>11. PrefixOf(texts, all)
  <2>1. PrefixOf(Distinct(texts), all)
    BY <1>7, <1>9, DistinctPrefix
  <2>2. PrefixOf(texts, Distinct(texts)) /\ Distinct(texts) \in Seq(Chunks)
    BY <1>7, DistinctIs
  <2> QED BY <1>7, <1>10, <2>1, <2>2, PrefixSteps
<1> HIDE DEF all
<1>12. /\ hits \in Seq(Chunks) /\ Once(hits) /\ Len(hits) <= recall.limit
       /\ Len(hits) = (IF Len(all) < recall.limit THEN Len(all) ELSE recall.limit)
       /\ \A i \in 1..Len(hits) : hits[i] = all[i]
  <2>1. Len(all) \in Nat
    BY <1>10
  <2> QED BY <1>1, <1>10, <2>1, UpToIs
<1> HIDE DEF hits
<1>13. ASSUME Len(texts) <= recall.limit PROVE Range(texts) \subseteq Range(hits)
  <2>1. PrefixOf(texts, hits)
    <3>1. Len(texts) \in Nat /\ Len(all) \in Nat
      BY <1>7, <1>10
    <3>2. Len(texts) <= Len(all) /\ \A k \in 1..Len(texts) : texts[k] = all[k]
      BY <1>11 DEF PrefixOf
    <3>3. Len(texts) <= Len(hits)
      BY <1>1, <1>12, <1>13, <3>1, <3>2
    <3>4. \A k \in 1..Len(texts) : k \in 1..Len(hits)
      BY <1>12, <3>1, <3>3
    <3> QED BY <1>12, <3>2, <3>3, <3>4 DEF PrefixOf
  <2> QED BY <1>7, <1>12, <2>1, PrefixRange
<1>14. hits \in Rankings
  BY <1>12, RankingsAre
<1>15. ASSUME NEW i \in 1..Len(paths) PROVE Range(paths[i]) \subseteq Range(hits)
  <2>1. paths # <<>>
    BY <1>6, <1>15
  <2> QED BY <1>6, <1>7, <1>13, <2>1
<1>16. SoundResult(hits, paths)
  BY <1>3, <1>6, <1>12, <1>14, <1>15 DEF SoundResult
<1> QED BY <1>2, <1>16 DEF Ends, hits, all, texts

(* A plan is carried out from the beginning.                               *)
LEMMA CarryOutIs ==
  ASSUME RecallInv, CarryOut
  PROVE  GoesOn
<1>1. recall \in Recalls
  BY DEF RecallInv
<1>2. <<>> \in Rankings /\ recall.limit \in Nat /\ PathLimit \in Nat
  <2>1. SoundResult(<<>>, <<>>)
    BY <1>1, NothingIsSound
  <2> QED BY <1>1, <2>1, RecallConstantsAssumption DEF SoundResult, Recalls
<1>3. recall' = [recall EXCEPT !.phase = "projections", !.planning = FALSE, !.hits = <<>>,
                               !.paths = <<>>, !.projections = {}]
  BY DEF CarryOut
<1>4. recall' \in Recalls
  <2>1. ASSUME NEW hits \in Rankings, NEW paths \in Seq(Seq(Chunks)), NEW none \in SUBSET Documents
        PROVE  [recall EXCEPT !.phase = "projections", !.planning = FALSE, !.hits = hits,
                              !.paths = paths, !.projections = none] \in Recalls
    BY <1>1 DEF Recalls, Questions
  <2>2. <<>> \in Seq(Seq(Chunks)) /\ {} \in SUBSET Documents
    OBVIOUS
  <2> QED BY <1>2, <1>3, <2>1, <2>2
<1>5. RecallIsBounded' /\ recall'.phase = "projections"
  BY <1>1, <1>2, <1>3 DEF RecallIsBounded, Recalls
<1> QED BY <1>4, <1>5 DEF GoesOn

(* A recall that fails ends without a result.                              *)
LEMMA RecallFailsIs ==
  ASSUME RecallInv, RecallFails
  PROVE  GoesOn
<1>1. recall \in Recalls /\ recall' = [recall EXCEPT !.phase = "failed"]
  BY DEF RecallInv, RecallFails
<1>2. recall' \in Recalls
  BY <1>1 DEF Recalls
<1>3. RecallIsBounded' /\ recall'.phase = "failed"
  BY <1>1 DEF RecallInv, RecallIsBounded, Recalls
<1> QED BY <1>2, <1>3 DEF GoesOn

(* Every step of the recall itself ends it soundly or goes on.             *)
LEMMA RecallStepsAre ==
  ASSUME RecallInv, RecallNext
  PROVE  \/ RecallRemains /\ (since' = since \/ since' = Now) /\ (Ends \/ GoesOn)
         \/ ChangeWorld /\ UNCHANGED <<run, recall>>
<1>1. CASE ReadProjections
  BY <1>1, ReadProjectionsIs DEF ReadProjections, Reads
<1>2. CASE SettleSeeds
  BY <1>2, SettleSeedsIs DEF SettleSeeds
<1>3. CASE ReadSeedTexts
  BY <1>3, ReadSeedTextsIs DEF ReadSeedTexts, Reads
<1>4. CASE ReadTexts
  BY <1>4, ReadTextsIs DEF ReadTexts, Reads
<1>5. CASE ReadFreshProjections
  BY <1>5, ReadFreshProjectionsIs DEF ReadFreshProjections, Reads
<1>6. CASE ReadMiddleTexts
  BY <1>6, ReadMiddleTextsIs DEF ReadMiddleTexts, Reads
<1>7. CASE ReadPathTexts
  BY <1>7, ReadPathTextsIs DEF ReadPathTexts, Reads
<1>8. ASSUME NEW gone \in Gone, FindSeeds(gone)
      PROVE  RecallRemains /\ since' = Now /\ (Ends \/ GoesOn)
  BY <1>8, FindSeedsIs DEF FindSeeds, Answers
<1>9. ASSUME NEW gone \in Gone, MentionSeeds(gone)
      PROVE  RecallRemains /\ since' = Now /\ (Ends \/ GoesOn)
  <2>1. "mention texts" \in Questions
    BY DEF Questions
  <2>2. PICK entities :
          FindMentions("mentions", "mention texts", entities, recall.names, gone)
    BY <1>9 DEF MentionSeeds
  <2>3. GoesOn
    BY <2>1, <2>2, FindMentionsIs
  <2> QED BY <2>2, <2>3 DEF FindMentions, Answers
<1>10. ASSUME NEW gone \in Gone, FindRelations(gone)
       PROVE  RecallRemains /\ since' = Now /\ (Ends \/ GoesOn)
  BY <1>10, FindRelationsIs DEF FindRelations, Answers
<1>11. ASSUME NEW gone \in Gone, MentionMiddles(gone)
       PROVE  RecallRemains /\ since' = Now /\ (Ends \/ GoesOn)
  <2>1. "path mention texts" \in Questions
    BY DEF Questions
  <2>2. PICK entities, names :
          FindMentions("path mentions", "path mention texts", entities, names, gone)
    BY <1>11 DEF MentionMiddles
  <2>3. GoesOn
    BY <2>1, <2>2, FindMentionsIs
  <2> QED BY <2>2, <2>3 DEF FindMentions, Answers
<1>12. ASSUME NEW gone \in Gone, FindSeconds(gone)
       PROVE  RecallRemains /\ since' = Now /\ (Ends \/ GoesOn)
  BY <1>12, FindSecondsIs DEF FindSeconds, Answers
<1>13. CASE CarryOut
  BY <1>13, CarryOutIs DEF CarryOut
<1>14. CASE RecallFails
  BY <1>14, RecallFailsIs DEF RecallFails
<1> QED BY <1>1, <1>2, <1>3, <1>4, <1>5, <1>6, <1>7, <1>8, <1>9, <1>10, <1>11, <1>12, <1>13, <1>14
        DEF RecallNext

(* Every step keeps RecallInv.                                             *)
LEMMA RecallSteps ==
  ASSUME RecallInv, [RecallNext]_recallVars
  PROVE  RecallInv'
<1>1. CASE RecallRemains /\ (since' = since \/ since' = Now) /\ (Ends \/ GoesOn)
  BY <1>1, RecallMoves
<1>2. CASE ChangeWorld /\ UNCHANGED <<run, recall>>
  <2>1. WorldTyped'
    BY <1>2, WorldChangesAreTyped DEF RecallInv
  <2>2. SinceCovers'
    BY <1>2 DEF ChangeWorld, SinceCovers
  <2>3. recall' \in Recalls /\ RecallIsBounded'
    BY <1>2 DEF RecallInv, RecallIsBounded
  <2> QED BY <2>1, <2>2, <2>3 DEF RecallInv
<1>3. CASE UNCHANGED recallVars
  BY <1>3 DEF RecallInv, RecallIsBounded, WorldTyped, SinceCovers, recallVars
<1> QED BY <1>1, <1>2, <1>3, RecallStepsAre

(* Only graphs of the plan are asked, and what a recall holds stays within *)
(* its limits.                                                             *)
THEOREM RecallInductive == RecallSpec => []RecallInv
<1>1. RecallInit => RecallInv
  BY RecallStarts
<1>2. RecallInv /\ [RecallNext]_recallVars => RecallInv'
  BY RecallSteps
<1> QED BY <1>1, <1>2, PTL DEF RecallSpec

(* Every part of a graph recall keeps its type.                            *)
THEOREM RecallTypeCorrect == RecallSpec => []RecallTypeOK
<1>1. RecallInv => RecallTypeOK
  BY DEF RecallInv, RecallTypeOK, RecallIsBounded, Recalls
<1> QED BY <1>1, RecallInductive, PTL

(* What the graph branch hands on is within the limit, and its paths come  *)
(* with all of their texts, which could be read and whose graphs were the  *)
(* planned ones after the last answer of Neo4j (graph.py, _paths).         *)
THEOREM PathsAreWholeAndCurrent == RecallSpec => PathsComeWholeAndCurrent
<1> DEFINE Sound ==
             recall.phase # recall'.phase /\ recall'.phase \in {"planned", "done"} =>
               /\ Len(recall'.hits) <= recall.limit
               /\ \A i \in DOMAIN recall'.paths :
                    /\ Range(recall'.paths[i]) \subseteq Range(recall'.hits)
                    /\ \A c \in Range(recall'.paths[i]) :
                         DocumentOf[c] \in since.readable \cap since.projected \cap recall.planned
<1>1. ASSUME RecallInv, Ends PROVE Sound
  <2>1. PICK hits, paths : Returns(hits, paths) /\ SoundResult(hits, paths)
    BY <1>1 DEF Ends
  <2>2. recall \in Recalls
    BY <1>1 DEF RecallInv
  <2>3. recall'.hits = hits /\ recall'.paths = paths
    BY <2>1, <2>2 DEF Returns, Recalls
  <2>4. DOMAIN paths = 1..Len(paths)
    BY <2>1 DEF SoundResult
  <2> QED BY <2>1, <2>3, <2>4 DEF SoundResult
<1>2. ASSUME RecallInv, GoesOn PROVE Sound
  BY <1>2 DEF GoesOn
<1>3. ASSUME UNCHANGED recall PROVE Sound
  BY <1>3
<1> HIDE DEF Sound
<1>4. RecallInv /\ [RecallNext]_recallVars => [Sound]_recallVars
  BY <1>1, <1>2, <1>3, RecallStepsAre DEF recallVars
<1>5. RecallSpec => [][Sound]_recallVars
  BY <1>4, RecallInductive, PTL DEF RecallSpec
<1> QED BY <1>5, PTL DEF PathsComeWholeAndCurrent, Sound
=============================================================================
