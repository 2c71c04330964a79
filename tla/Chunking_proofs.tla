-------------------------- MODULE Chunking_proofs --------------------------
(***************************************************************************)
(* Chunks carry their document, of any number of blocks, rows and          *)
(* characters and under every configuration of the chunker.                *)
(*                                                                         *)
(* No library theorem can do the inductions over texts, rows, elements and *)
(* drafts, as the provers cannot instantiate one; UpToN does, for a set    *)
(* instead of a predicate.  Every fold is unrolled once to its stages, and *)
(* a fact about a fold is a set of the stages that have it.                *)
(*                                                                         *)
(* What is followed through all of it are the numbers of the characters:   *)
(* Said() of an element and Solids() of a text are the numbers they have,  *)
(* About() says that drafts fit, have what elements from one to another    *)
(* say, each number first in the order of the document, and name where it  *)
(* is from.  Drafts() keeps this while texts are pending (Ready), so do    *)
(* the merges (Carried), and cleaning and parsing keep the order and the   *)
(* numbers of the blocks (CleanDocumentIs, Parsed).                        *)
(***************************************************************************)
EXTENDS Chunking, Integers, WellFoundedInduction, TLAPS

-----------------------------------------------------------------------------
(* Numbers and sequences *)

(* Every set of naturals that is not empty has a least one.                *)
LEMMA LeastNatural ==
  ASSUME NEW T \in SUBSET Nat, T # {}
  PROVE  \E n \in T : \A m \in T : n <= m
PROOF
<1> DEFINE R == OpToRel(<, Nat)
<1>1. PICK n \in T : \A m \in T : <<m, n>> \notin R
  BY NatLessThanWellFounded, WFMin
<1>2. ASSUME NEW m \in T PROVE n <= m
  <2>1. ~ (m < n)
    BY <1>1 DEF OpToRel
  <2> QED
    BY <2>1
<1> QED
  BY <1>2

(* What holds of 0 and of every successor up to n.                         *)
LEMMA UpToN ==
  ASSUME NEW n \in Nat, NEW H, 0 \in H,
         \A i \in 1..n : i - 1 \in H => i \in H
  PROVE  \A i \in 0..n : i \in H
PROOF
<1> DEFINE T == {i \in 0..n : i \notin H}
<1>1. T \in SUBSET Nat
  OBVIOUS
<1>2. SUFFICES ASSUME T # {} PROVE FALSE
  OBVIOUS
<1>3. PICK m \in T : \A k \in T : m <= k
  <2> HIDE DEF T
  <2> QED
    BY <1>1, <1>2, LeastNatural
<1>4. m \in 0..n /\ m \notin H
  OBVIOUS
<1>5. m \in 1..n /\ m - 1 \in 0..n /\ ~ (m <= m - 1)
  BY <1>4
<1>6. m - 1 \in H
  BY <1>3, <1>5
<1> QED
  BY <1>4, <1>5, <1>6

(* Every set of naturals with a bound has a greatest one.                  *)
LEMMA GreatestNatural ==
  ASSUME NEW bound \in Nat, NEW T \in SUBSET (0..bound), T # {}
  PROVE  \E n \in T : \A m \in T : n >= m
PROOF
<1> DEFINE B == {k \in Nat : \A m \in T : m <= k}
<1>1. PICK k \in B : \A l \in B : k <= l
  <2>1. B \in SUBSET Nat /\ bound \in B
    OBVIOUS
  <2>2. B # {}
    BY <2>1
  <2> HIDE DEF B
  <2> QED
    BY <2>1, <2>2, LeastNatural
<1>2. CASE k = 0
  <2>1. PICK n \in T : n \in 0..bound
    OBVIOUS
  <2>2. \A m \in T : m \in Nat /\ m <= 0
    BY <1>1, <1>2
  <2>3. \A m \in T : n >= m
    BY <2>1, <2>2
  <2> QED
    BY <2>3
<1>3. CASE k # 0
  <2>1. k - 1 \in Nat /\ ~ (k <= k - 1)
    BY <1>1, <1>3
  <2>2. k - 1 \notin B
    <3> HIDE DEF B
    <3> QED
      BY <1>1, <2>1
  <2>3. PICK n \in T : ~ (n <= k - 1)
    BY <2>1, <2>2
  <2>4. n <= k /\ \A m \in T : m <= k
    BY <1>1
  <2>5. n = k
    BY <1>1, <2>1, <2>3, <2>4
  <2> QED
    BY <1>1, <2>4, <2>5
<1> QED
  BY <1>2, <1>3

-----------------------------------------------------------------------------
(* Folds: each as a sequence of stages, the last of which is its result.   *)

(* What the folds begin with, and what that of the groups runs over.       *)
NoDrafts == [done |-> << >>, pending |-> << >>, headings |-> << >>]
RowsAfterHeader(element) ==
  [i \in 1..(Len(element.rows) - element.header) |-> element.header + i]
NoRegions == [done |-> << >>, open |-> << >>]
NoElements == [above |-> << >>, elements |-> << >>]

(* Flattened() in stages.                                                  *)
LEMMA FlattenedStages ==
  ASSUME NEW seqs, NEW n \in Nat, n = Len(seqs)
  PROVE  \E g : /\ g[0] = << >>
               /\ Flattened(seqs) = g[n]
               /\ \A i \in 1..n :
                    g[i] = g[i - 1] \o seqs[i]
PROOF
<1> DEFINE Upto(g, m) == g = [i \in 0..m |->
             IF i = 0 THEN << >>
             ELSE g[i - 1] \o seqs[i]]
           H == {m \in 0..n : \E g : Upto(g, m)}
<1>1. 0 \in H
  <2>1. Upto([i \in 0..0 |-> << >>], 0) /\ 0 \in 0..n
    OBVIOUS
  <2> HIDE DEF Upto
  <2> QED
    BY <2>1
<1>2. ASSUME NEW m \in 1..n, m - 1 \in H PROVE m \in H
  <2>0. m \in Nat /\ m # 0 /\ m \in 0..n
    OBVIOUS
  <2>1. PICK g : Upto(g, m - 1)
    BY <1>2
  <2> DEFINE v == g[m - 1] \o seqs[m]
  <2> DEFINE h == [i \in 0..m |-> IF i = m THEN v ELSE g[i]]
  <2>2. /\ h = [i \in 0..m |-> h[i]] /\ h[m] = v
        /\ \A i \in 0..(m - 1) : h[i] = g[i]
    <3> HIDE DEF v, Upto, H
    <3> QED
      BY <2>0
  <2> HIDE DEF h
  <2>3. \A i \in 0..(m - 1) : g[i] = IF i = 0 THEN << >>
          ELSE g[i - 1] \o seqs[i]
    BY <2>1, Zenon
  <2>4. ASSUME NEW i \in 0..m
        PROVE  h[i] = IF i = 0 THEN << >>
                      ELSE h[i - 1] \o seqs[i]
    <3>1. /\ i = 0 => i \in 0..(m - 1)
          /\ i # 0 => i - 1 \in 0..(m - 1)
          /\ i # m => i \in 0..(m - 1)
      BY <2>0
    <3>2. i # 0 => h[i - 1] = g[i - 1]
      BY <2>2, <3>1, Zenon
    <3>3. CASE i = m
      BY <2>0, <2>2, <3>2, <3>3, Zenon
    <3>4. CASE i # m
      BY <2>2, <2>3, <3>1, <3>2, <3>4, Zenon
    <3> QED
      BY <3>3, <3>4
  <2>5. Upto(h, m)
    BY <2>2, <2>4, Zenon
  <2> HIDE DEF Upto
  <2> QED
    BY <2>0, <2>5
<1>3. \E h : Upto(h, n)
  <2> HIDE DEF Upto
  <2>1. \A m \in 0..n : m \in H
    <3> HIDE DEF H
    <3> QED
      BY <1>1, <1>2, UpToN
  <2>2. n \in 0..n
    OBVIOUS
  <2> QED
    BY <2>1, <2>2
<1> DEFINE g == CHOOSE h : Upto(h, Len(seqs))
<1>4. Flattened(seqs) = g[Len(seqs)]
  BY DEF Flattened, Fold
<1>5. Upto(g, n)
  <2> HIDE DEF Upto
  <2> QED
    BY <1>3, Zenon
<1> HIDE DEF g
<1>6. \A i \in 0..n : g[i] = IF i = 0 THEN << >>
        ELSE g[i - 1] \o seqs[i]
  BY <1>5, Zenon
<1>7. g[0] = << >>
  BY <1>6
<1>8. ASSUME NEW i \in 1..n
      PROVE  g[i] = g[i - 1] \o seqs[i]
  <2>1. i \in 0..n /\ i # 0
    OBVIOUS
  <2> QED
    BY <1>6, <2>1, Zenon
<1> QED
  BY <1>4, <1>7, <1>8

(* Selected() in stages.                                                   *)
LEMMA SelectedStages ==
  ASSUME NEW s, NEW S, NEW n \in Nat, n = Len(s)
  PROVE  \E g : /\ g[0] = << >>
               /\ Selected(s, S) = g[n]
               /\ \A i \in 1..n :
                    g[i] = IF s[i] \in S THEN Append(g[i - 1], s[i]) ELSE g[i - 1]
PROOF
<1> DEFINE Upto(g, m) == g = [i \in 0..m |->
             IF i = 0 THEN << >>
             ELSE IF s[i] \in S THEN Append(g[i - 1], s[i]) ELSE g[i - 1]]
           H == {m \in 0..n : \E g : Upto(g, m)}
<1>1. 0 \in H
  <2>1. Upto([i \in 0..0 |-> << >>], 0) /\ 0 \in 0..n
    OBVIOUS
  <2> HIDE DEF Upto
  <2> QED
    BY <2>1
<1>2. ASSUME NEW m \in 1..n, m - 1 \in H PROVE m \in H
  <2>0. m \in Nat /\ m # 0 /\ m \in 0..n
    OBVIOUS
  <2>1. PICK g : Upto(g, m - 1)
    BY <1>2
  <2> DEFINE v == IF s[m] \in S THEN Append(g[m - 1], s[m]) ELSE g[m - 1]
  <2> DEFINE h == [i \in 0..m |-> IF i = m THEN v ELSE g[i]]
  <2>2. /\ h = [i \in 0..m |-> h[i]] /\ h[m] = v
        /\ \A i \in 0..(m - 1) : h[i] = g[i]
    <3> HIDE DEF v, Upto, H
    <3> QED
      BY <2>0
  <2> HIDE DEF h
  <2>3. \A i \in 0..(m - 1) : g[i] = IF i = 0 THEN << >>
          ELSE IF s[i] \in S THEN Append(g[i - 1], s[i]) ELSE g[i - 1]
    BY <2>1, Zenon
  <2>4. ASSUME NEW i \in 0..m
        PROVE  h[i] = IF i = 0 THEN << >>
                      ELSE IF s[i] \in S THEN Append(h[i - 1], s[i]) ELSE h[i - 1]
    <3>1. /\ i = 0 => i \in 0..(m - 1)
          /\ i # 0 => i - 1 \in 0..(m - 1)
          /\ i # m => i \in 0..(m - 1)
      BY <2>0
    <3>2. i # 0 => h[i - 1] = g[i - 1]
      BY <2>2, <3>1, Zenon
    <3>3. CASE i = m
      BY <2>0, <2>2, <3>2, <3>3, Zenon
    <3>4. CASE i # m
      BY <2>2, <2>3, <3>1, <3>2, <3>4, Zenon
    <3> QED
      BY <3>3, <3>4
  <2>5. Upto(h, m)
    BY <2>2, <2>4, Zenon
  <2> HIDE DEF Upto
  <2> QED
    BY <2>0, <2>5
<1>3. \E h : Upto(h, n)
  <2> HIDE DEF Upto
  <2>1. \A m \in 0..n : m \in H
    <3> HIDE DEF H
    <3> QED
      BY <1>1, <1>2, UpToN
  <2>2. n \in 0..n
    OBVIOUS
  <2> QED
    BY <2>1, <2>2
<1> DEFINE g == CHOOSE h : Upto(h, Len(s))
<1>4. Selected(s, S) = g[Len(s)]
  BY DEF Selected, Fold
<1>5. Upto(g, n)
  <2> HIDE DEF Upto
  <2> QED
    BY <1>3, Zenon
<1> HIDE DEF g
<1>6. \A i \in 0..n : g[i] = IF i = 0 THEN << >>
        ELSE IF s[i] \in S THEN Append(g[i - 1], s[i]) ELSE g[i - 1]
  BY <1>5, Zenon
<1>7. g[0] = << >>
  BY <1>6
<1>8. ASSUME NEW i \in 1..n
      PROVE  g[i] = IF s[i] \in S THEN Append(g[i - 1], s[i]) ELSE g[i - 1]
  <2>1. i \in 0..n /\ i # 0
    OBVIOUS
  <2> QED
    BY <1>6, <2>1, Zenon
<1> QED
  BY <1>4, <1>7, <1>8

(* Join() in stages.                                                       *)
LEMMA JoinStages ==
  ASSUME NEW texts, NEW separator, NEW n \in Nat, n = Len(texts)
  PROVE  \E g : /\ g[0] = << >>
               /\ Join(texts, separator) = g[n]
               /\ \A i \in 1..n :
                    g[i] = IF g[i - 1] = << >> THEN texts[i] ELSE g[i - 1] \o separator \o texts[i]
PROOF
<1> DEFINE Upto(g, m) == g = [i \in 0..m |->
             IF i = 0 THEN << >>
             ELSE IF g[i - 1] = << >> THEN texts[i] ELSE g[i - 1] \o separator \o texts[i]]
           H == {m \in 0..n : \E g : Upto(g, m)}
<1>1. 0 \in H
  <2>1. Upto([i \in 0..0 |-> << >>], 0) /\ 0 \in 0..n
    OBVIOUS
  <2> HIDE DEF Upto
  <2> QED
    BY <2>1
<1>2. ASSUME NEW m \in 1..n, m - 1 \in H PROVE m \in H
  <2>0. m \in Nat /\ m # 0 /\ m \in 0..n
    OBVIOUS
  <2>1. PICK g : Upto(g, m - 1)
    BY <1>2
  <2> DEFINE v == IF g[m - 1] = << >> THEN texts[m] ELSE g[m - 1] \o separator \o texts[m]
  <2> DEFINE h == [i \in 0..m |-> IF i = m THEN v ELSE g[i]]
  <2>2. /\ h = [i \in 0..m |-> h[i]] /\ h[m] = v
        /\ \A i \in 0..(m - 1) : h[i] = g[i]
    <3> HIDE DEF v, Upto, H
    <3> QED
      BY <2>0
  <2> HIDE DEF h
  <2>3. \A i \in 0..(m - 1) : g[i] = IF i = 0 THEN << >>
          ELSE IF g[i - 1] = << >> THEN texts[i] ELSE g[i - 1] \o separator \o texts[i]
    BY <2>1, Zenon
  <2>4. ASSUME NEW i \in 0..m
        PROVE  h[i] = IF i = 0 THEN << >>
                      ELSE IF h[i - 1] = << >> THEN texts[i] ELSE h[i - 1] \o separator \o texts[i]
    <3>1. /\ i = 0 => i \in 0..(m - 1)
          /\ i # 0 => i - 1 \in 0..(m - 1)
          /\ i # m => i \in 0..(m - 1)
      BY <2>0
    <3>2. i # 0 => h[i - 1] = g[i - 1]
      BY <2>2, <3>1, Zenon
    <3>3. CASE i = m
      BY <2>0, <2>2, <3>2, <3>3, Zenon
    <3>4. CASE i # m
      BY <2>2, <2>3, <3>1, <3>2, <3>4, Zenon
    <3> QED
      BY <3>3, <3>4
  <2>5. Upto(h, m)
    BY <2>2, <2>4, Zenon
  <2> HIDE DEF Upto
  <2> QED
    BY <2>0, <2>5
<1>3. \E h : Upto(h, n)
  <2> HIDE DEF Upto
  <2>1. \A m \in 0..n : m \in H
    <3> HIDE DEF H
    <3> QED
      BY <1>1, <1>2, UpToN
  <2>2. n \in 0..n
    OBVIOUS
  <2> QED
    BY <2>1, <2>2
<1> DEFINE g == CHOOSE h : Upto(h, Len(texts))
<1>4. Join(texts, separator) = g[Len(texts)]
  BY DEF Join, Fold
<1>5. Upto(g, n)
  <2> HIDE DEF Upto
  <2> QED
    BY <1>3, Zenon
<1> HIDE DEF g
<1>6. \A i \in 0..n : g[i] = IF i = 0 THEN << >>
        ELSE IF g[i - 1] = << >> THEN texts[i] ELSE g[i - 1] \o separator \o texts[i]
  BY <1>5, Zenon
<1>7. g[0] = << >>
  BY <1>6
<1>8. ASSUME NEW i \in 1..n
      PROVE  g[i] = IF g[i - 1] = << >> THEN texts[i] ELSE g[i - 1] \o separator \o texts[i]
  <2>1. i \in 0..n /\ i # 0
    OBVIOUS
  <2> QED
    BY <1>6, <2>1, Zenon
<1> QED
  BY <1>4, <1>7, <1>8

(* Pieces() in stages.                                                     *)
LEMMA PiecesStages ==
  ASSUME NEW text, NEW separator, NEW n \in Nat, n = Len(text)
  PROVE  \E g : /\ g[0] = NoPieces
               /\ Pieces(text, separator) = Split(g[n])
               /\ \A i \in 1..n :
                    g[i] = AddCharacter(g[i - 1], text[i], separator)
PROOF
<1> DEFINE Upto(g, m) == g = [i \in 0..m |->
             IF i = 0 THEN NoPieces
             ELSE AddCharacter(g[i - 1], text[i], separator)]
           H == {m \in 0..n : \E g : Upto(g, m)}
<1>1. 0 \in H
  <2>1. Upto([i \in 0..0 |-> NoPieces], 0) /\ 0 \in 0..n
    OBVIOUS
  <2> HIDE DEF Upto
  <2> QED
    BY <2>1
<1>2. ASSUME NEW m \in 1..n, m - 1 \in H PROVE m \in H
  <2>0. m \in Nat /\ m # 0 /\ m \in 0..n
    OBVIOUS
  <2>1. PICK g : Upto(g, m - 1)
    BY <1>2
  <2> DEFINE v == AddCharacter(g[m - 1], text[m], separator)
  <2> DEFINE h == [i \in 0..m |-> IF i = m THEN v ELSE g[i]]
  <2>2. /\ h = [i \in 0..m |-> h[i]] /\ h[m] = v
        /\ \A i \in 0..(m - 1) : h[i] = g[i]
    <3> HIDE DEF v, Upto, H
    <3> QED
      BY <2>0
  <2> HIDE DEF h
  <2>3. \A i \in 0..(m - 1) : g[i] = IF i = 0 THEN NoPieces
          ELSE AddCharacter(g[i - 1], text[i], separator)
    BY <2>1, Zenon
  <2>4. ASSUME NEW i \in 0..m
        PROVE  h[i] = IF i = 0 THEN NoPieces
                      ELSE AddCharacter(h[i - 1], text[i], separator)
    <3>1. /\ i = 0 => i \in 0..(m - 1)
          /\ i # 0 => i - 1 \in 0..(m - 1)
          /\ i # m => i \in 0..(m - 1)
      BY <2>0
    <3>2. i # 0 => h[i - 1] = g[i - 1]
      BY <2>2, <3>1, Zenon
    <3>3. CASE i = m
      BY <2>0, <2>2, <3>2, <3>3, Zenon
    <3>4. CASE i # m
      BY <2>2, <2>3, <3>1, <3>2, <3>4, Zenon
    <3> QED
      BY <3>3, <3>4
  <2>5. Upto(h, m)
    BY <2>2, <2>4, Zenon
  <2> HIDE DEF Upto
  <2> QED
    BY <2>0, <2>5
<1>3. \E h : Upto(h, n)
  <2> HIDE DEF Upto
  <2>1. \A m \in 0..n : m \in H
    <3> HIDE DEF H
    <3> QED
      BY <1>1, <1>2, UpToN
  <2>2. n \in 0..n
    OBVIOUS
  <2> QED
    BY <2>1, <2>2
<1> DEFINE g == CHOOSE h : Upto(h, Len(text))
<1>4. Pieces(text, separator) = Split(g[Len(text)])
  BY DEF Pieces, Fold
<1>5. Upto(g, n)
  <2> HIDE DEF Upto
  <2> QED
    BY <1>3, Zenon
<1> HIDE DEF g
<1>6. \A i \in 0..n : g[i] = IF i = 0 THEN NoPieces
        ELSE AddCharacter(g[i - 1], text[i], separator)
  BY <1>5, Zenon
<1>7. g[0] = NoPieces
  BY <1>6
<1>8. ASSUME NEW i \in 1..n
      PROVE  g[i] = AddCharacter(g[i - 1], text[i], separator)
  <2>1. i \in 0..n /\ i # 0
    OBVIOUS
  <2> QED
    BY <1>6, <2>1, Zenon
<1> QED
  BY <1>4, <1>7, <1>8

(* Gathered() in stages.                                                   *)
LEMMA GatheredStages ==
  ASSUME NEW cuts, NEW budget, NEW n \in Nat, n = Len(cuts)
  PROVE  \E g : /\ g[0] = NoPieces
               /\ Gathered(cuts, budget) = Split(g[n])
               /\ \A i \in 1..n :
                    g[i] = AddPiece(g[i - 1], cuts[i], budget)
PROOF
<1> DEFINE Upto(g, m) == g = [i \in 0..m |->
             IF i = 0 THEN NoPieces
             ELSE AddPiece(g[i - 1], cuts[i], budget)]
           H == {m \in 0..n : \E g : Upto(g, m)}
<1>1. 0 \in H
  <2>1. Upto([i \in 0..0 |-> NoPieces], 0) /\ 0 \in 0..n
    OBVIOUS
  <2> HIDE DEF Upto
  <2> QED
    BY <2>1
<1>2. ASSUME NEW m \in 1..n, m - 1 \in H PROVE m \in H
  <2>0. m \in Nat /\ m # 0 /\ m \in 0..n
    OBVIOUS
  <2>1. PICK g : Upto(g, m - 1)
    BY <1>2
  <2> DEFINE v == AddPiece(g[m - 1], cuts[m], budget)
  <2> DEFINE h == [i \in 0..m |-> IF i = m THEN v ELSE g[i]]
  <2>2. /\ h = [i \in 0..m |-> h[i]] /\ h[m] = v
        /\ \A i \in 0..(m - 1) : h[i] = g[i]
    <3> HIDE DEF v, Upto, H
    <3> QED
      BY <2>0
  <2> HIDE DEF h
  <2>3. \A i \in 0..(m - 1) : g[i] = IF i = 0 THEN NoPieces
          ELSE AddPiece(g[i - 1], cuts[i], budget)
    BY <2>1, Zenon
  <2>4. ASSUME NEW i \in 0..m
        PROVE  h[i] = IF i = 0 THEN NoPieces
                      ELSE AddPiece(h[i - 1], cuts[i], budget)
    <3>1. /\ i = 0 => i \in 0..(m - 1)
          /\ i # 0 => i - 1 \in 0..(m - 1)
          /\ i # m => i \in 0..(m - 1)
      BY <2>0
    <3>2. i # 0 => h[i - 1] = g[i - 1]
      BY <2>2, <3>1, Zenon
    <3>3. CASE i = m
      BY <2>0, <2>2, <3>2, <3>3, Zenon
    <3>4. CASE i # m
      BY <2>2, <2>3, <3>1, <3>2, <3>4, Zenon
    <3> QED
      BY <3>3, <3>4
  <2>5. Upto(h, m)
    BY <2>2, <2>4, Zenon
  <2> HIDE DEF Upto
  <2> QED
    BY <2>0, <2>5
<1>3. \E h : Upto(h, n)
  <2> HIDE DEF Upto
  <2>1. \A m \in 0..n : m \in H
    <3> HIDE DEF H
    <3> QED
      BY <1>1, <1>2, UpToN
  <2>2. n \in 0..n
    OBVIOUS
  <2> QED
    BY <2>1, <2>2
<1> DEFINE g == CHOOSE h : Upto(h, Len(cuts))
<1>4. Gathered(cuts, budget) = Split(g[Len(cuts)])
  BY DEF Gathered, Fold
<1>5. Upto(g, n)
  <2> HIDE DEF Upto
  <2> QED
    BY <1>3, Zenon
<1> HIDE DEF g
<1>6. \A i \in 0..n : g[i] = IF i = 0 THEN NoPieces
        ELSE AddPiece(g[i - 1], cuts[i], budget)
  BY <1>5, Zenon
<1>7. g[0] = NoPieces
  BY <1>6
<1>8. ASSUME NEW i \in 1..n
      PROVE  g[i] = AddPiece(g[i - 1], cuts[i], budget)
  <2>1. i \in 0..n /\ i # 0
    OBVIOUS
  <2> QED
    BY <1>6, <2>1, Zenon
<1> QED
  BY <1>4, <1>7, <1>8

(* Rejoined() in stages.                                                   *)
LEMMA RejoinedStages ==
  ASSUME NEW pieces, NEW path, NEW n \in Nat, n = Len(pieces)
  PROVE  \E g : /\ g[0] = << >>
               /\ Rejoined(pieces, path) = g[n]
               /\ \A i \in 1..n :
                    g[i] = Rejoin(g[i - 1], pieces[i], path)
PROOF
<1> DEFINE Upto(g, m) == g = [i \in 0..m |->
             IF i = 0 THEN << >>
             ELSE Rejoin(g[i - 1], pieces[i], path)]
           H == {m \in 0..n : \E g : Upto(g, m)}
<1>1. 0 \in H
  <2>1. Upto([i \in 0..0 |-> << >>], 0) /\ 0 \in 0..n
    OBVIOUS
  <2> HIDE DEF Upto
  <2> QED
    BY <2>1
<1>2. ASSUME NEW m \in 1..n, m - 1 \in H PROVE m \in H
  <2>0. m \in Nat /\ m # 0 /\ m \in 0..n
    OBVIOUS
  <2>1. PICK g : Upto(g, m - 1)
    BY <1>2
  <2> DEFINE v == Rejoin(g[m - 1], pieces[m], path)
  <2> DEFINE h == [i \in 0..m |-> IF i = m THEN v ELSE g[i]]
  <2>2. /\ h = [i \in 0..m |-> h[i]] /\ h[m] = v
        /\ \A i \in 0..(m - 1) : h[i] = g[i]
    <3> HIDE DEF v, Upto, H
    <3> QED
      BY <2>0
  <2> HIDE DEF h
  <2>3. \A i \in 0..(m - 1) : g[i] = IF i = 0 THEN << >>
          ELSE Rejoin(g[i - 1], pieces[i], path)
    BY <2>1, Zenon
  <2>4. ASSUME NEW i \in 0..m
        PROVE  h[i] = IF i = 0 THEN << >>
                      ELSE Rejoin(h[i - 1], pieces[i], path)
    <3>1. /\ i = 0 => i \in 0..(m - 1)
          /\ i # 0 => i - 1 \in 0..(m - 1)
          /\ i # m => i \in 0..(m - 1)
      BY <2>0
    <3>2. i # 0 => h[i - 1] = g[i - 1]
      BY <2>2, <3>1, Zenon
    <3>3. CASE i = m
      BY <2>0, <2>2, <3>2, <3>3, Zenon
    <3>4. CASE i # m
      BY <2>2, <2>3, <3>1, <3>2, <3>4, Zenon
    <3> QED
      BY <3>3, <3>4
  <2>5. Upto(h, m)
    BY <2>2, <2>4, Zenon
  <2> HIDE DEF Upto
  <2> QED
    BY <2>0, <2>5
<1>3. \E h : Upto(h, n)
  <2> HIDE DEF Upto
  <2>1. \A m \in 0..n : m \in H
    <3> HIDE DEF H
    <3> QED
      BY <1>1, <1>2, UpToN
  <2>2. n \in 0..n
    OBVIOUS
  <2> QED
    BY <2>1, <2>2
<1> DEFINE g == CHOOSE h : Upto(h, Len(pieces))
<1>4. Rejoined(pieces, path) = g[Len(pieces)]
  BY DEF Rejoined, Fold
<1>5. Upto(g, n)
  <2> HIDE DEF Upto
  <2> QED
    BY <1>3, Zenon
<1> HIDE DEF g
<1>6. \A i \in 0..n : g[i] = IF i = 0 THEN << >>
        ELSE Rejoin(g[i - 1], pieces[i], path)
  BY <1>5, Zenon
<1>7. g[0] = << >>
  BY <1>6
<1>8. ASSUME NEW i \in 1..n
      PROVE  g[i] = Rejoin(g[i - 1], pieces[i], path)
  <2>1. i \in 0..n /\ i # 0
    OBVIOUS
  <2> QED
    BY <1>6, <2>1, Zenon
<1> QED
  BY <1>4, <1>7, <1>8

(* ChunkDocument() in stages.                                              *)
LEMMA ChunkDocumentStages ==
  ASSUME NEW elements, NEW n \in Nat, n = Len(Drafts(elements))
  PROVE  \E g : /\ g[0] = << >>
               /\ ChunkDocument(elements) = g[n]
               /\ \A i \in 1..n :
                    g[i] = AddChunk(g[i - 1], Drafts(elements)[i])
PROOF
<1> DEFINE Upto(g, m) == g = [i \in 0..m |->
             IF i = 0 THEN << >>
             ELSE AddChunk(g[i - 1], Drafts(elements)[i])]
           H == {m \in 0..n : \E g : Upto(g, m)}
<1>1. 0 \in H
  <2>1. Upto([i \in 0..0 |-> << >>], 0) /\ 0 \in 0..n
    OBVIOUS
  <2> HIDE DEF Upto
  <2> QED
    BY <2>1
<1>2. ASSUME NEW m \in 1..n, m - 1 \in H PROVE m \in H
  <2>0. m \in Nat /\ m # 0 /\ m \in 0..n
    OBVIOUS
  <2>1. PICK g : Upto(g, m - 1)
    BY <1>2
  <2> DEFINE v == AddChunk(g[m - 1], Drafts(elements)[m])
  <2> DEFINE h == [i \in 0..m |-> IF i = m THEN v ELSE g[i]]
  <2>2. /\ h = [i \in 0..m |-> h[i]] /\ h[m] = v
        /\ \A i \in 0..(m - 1) : h[i] = g[i]
    <3> HIDE DEF v, Upto, H
    <3> QED
      BY <2>0
  <2> HIDE DEF h
  <2>3. \A i \in 0..(m - 1) : g[i] = IF i = 0 THEN << >>
          ELSE AddChunk(g[i - 1], Drafts(elements)[i])
    BY <2>1, Zenon
  <2>4. ASSUME NEW i \in 0..m
        PROVE  h[i] = IF i = 0 THEN << >>
                      ELSE AddChunk(h[i - 1], Drafts(elements)[i])
    <3>1. /\ i = 0 => i \in 0..(m - 1)
          /\ i # 0 => i - 1 \in 0..(m - 1)
          /\ i # m => i \in 0..(m - 1)
      BY <2>0
    <3>2. i # 0 => h[i - 1] = g[i - 1]
      BY <2>2, <3>1, Zenon
    <3>3. CASE i = m
      BY <2>0, <2>2, <3>2, <3>3, Zenon
    <3>4. CASE i # m
      BY <2>2, <2>3, <3>1, <3>2, <3>4, Zenon
    <3> QED
      BY <3>3, <3>4
  <2>5. Upto(h, m)
    BY <2>2, <2>4, Zenon
  <2> HIDE DEF Upto
  <2> QED
    BY <2>0, <2>5
<1>3. \E h : Upto(h, n)
  <2> HIDE DEF Upto
  <2>1. \A m \in 0..n : m \in H
    <3> HIDE DEF H
    <3> QED
      BY <1>1, <1>2, UpToN
  <2>2. n \in 0..n
    OBVIOUS
  <2> QED
    BY <2>1, <2>2
<1> DEFINE g == CHOOSE h : Upto(h, Len(Drafts(elements)))
<1>4. ChunkDocument(elements) = g[Len(Drafts(elements))]
  BY DEF ChunkDocument, Fold
<1>5. Upto(g, n)
  <2> HIDE DEF Upto
  <2> QED
    BY <1>3, Zenon
<1> HIDE DEF g
<1>6. \A i \in 0..n : g[i] = IF i = 0 THEN << >>
        ELSE AddChunk(g[i - 1], Drafts(elements)[i])
  BY <1>5, Zenon
<1>7. g[0] = << >>
  BY <1>6
<1>8. ASSUME NEW i \in 1..n
      PROVE  g[i] = AddChunk(g[i - 1], Drafts(elements)[i])
  <2>1. i \in 0..n /\ i # 0
    OBVIOUS
  <2> QED
    BY <1>6, <2>1, Zenon
<1> QED
  BY <1>4, <1>7, <1>8

(* Drafts() in stages.                                                     *)
LEMMA DraftsStages ==
  ASSUME NEW elements, NEW n \in Nat, n = Len(elements)
  PROVE  \E g : /\ g[0] = NoDrafts
               /\ Drafts(elements) = WithHeadings(Flushed(g[n]))
               /\ \A i \in 1..n :
                    g[i] = AddElement(g[i - 1], elements[i])
PROOF
<1> DEFINE Upto(g, m) == g = [i \in 0..m |->
             IF i = 0 THEN NoDrafts
             ELSE AddElement(g[i - 1], elements[i])]
           H == {m \in 0..n : \E g : Upto(g, m)}
<1>1. 0 \in H
  <2>1. Upto([i \in 0..0 |-> NoDrafts], 0) /\ 0 \in 0..n
    OBVIOUS
  <2> HIDE DEF Upto
  <2> QED
    BY <2>1
<1>2. ASSUME NEW m \in 1..n, m - 1 \in H PROVE m \in H
  <2>0. m \in Nat /\ m # 0 /\ m \in 0..n
    OBVIOUS
  <2>1. PICK g : Upto(g, m - 1)
    BY <1>2
  <2> DEFINE v == AddElement(g[m - 1], elements[m])
  <2> DEFINE h == [i \in 0..m |-> IF i = m THEN v ELSE g[i]]
  <2>2. /\ h = [i \in 0..m |-> h[i]] /\ h[m] = v
        /\ \A i \in 0..(m - 1) : h[i] = g[i]
    <3> HIDE DEF v, Upto, H
    <3> QED
      BY <2>0
  <2> HIDE DEF h
  <2>3. \A i \in 0..(m - 1) : g[i] = IF i = 0 THEN NoDrafts
          ELSE AddElement(g[i - 1], elements[i])
    BY <2>1, Zenon
  <2>4. ASSUME NEW i \in 0..m
        PROVE  h[i] = IF i = 0 THEN NoDrafts
                      ELSE AddElement(h[i - 1], elements[i])
    <3>1. /\ i = 0 => i \in 0..(m - 1)
          /\ i # 0 => i - 1 \in 0..(m - 1)
          /\ i # m => i \in 0..(m - 1)
      BY <2>0
    <3>2. i # 0 => h[i - 1] = g[i - 1]
      BY <2>2, <3>1, Zenon
    <3>3. CASE i = m
      BY <2>0, <2>2, <3>2, <3>3, Zenon
    <3>4. CASE i # m
      BY <2>2, <2>3, <3>1, <3>2, <3>4, Zenon
    <3> QED
      BY <3>3, <3>4
  <2>5. Upto(h, m)
    BY <2>2, <2>4, Zenon
  <2> HIDE DEF Upto
  <2> QED
    BY <2>0, <2>5
<1>3. \E h : Upto(h, n)
  <2> HIDE DEF Upto
  <2>1. \A m \in 0..n : m \in H
    <3> HIDE DEF H
    <3> QED
      BY <1>1, <1>2, UpToN
  <2>2. n \in 0..n
    OBVIOUS
  <2> QED
    BY <2>1, <2>2
<1> DEFINE g == CHOOSE h : Upto(h, Len(elements))
<1>4. Drafts(elements) = WithHeadings(Flushed(g[Len(elements)]))
  BY DEF Drafts, Fold, NoDrafts
<1>5. Upto(g, n)
  <2> HIDE DEF Upto
  <2> QED
    BY <1>3, Zenon
<1> HIDE DEF g
<1>6. \A i \in 0..n : g[i] = IF i = 0 THEN NoDrafts
        ELSE AddElement(g[i - 1], elements[i])
  BY <1>5, Zenon
<1>7. g[0] = NoDrafts
  BY <1>6
<1>8. ASSUME NEW i \in 1..n
      PROVE  g[i] = AddElement(g[i - 1], elements[i])
  <2>1. i \in 0..n /\ i # 0
    OBVIOUS
  <2> QED
    BY <1>6, <2>1, Zenon
<1> QED
  BY <1>4, <1>7, <1>8

(* GroupStarts() in stages.                                                *)
LEMMA GroupStartsStages ==
  ASSUME NEW element, NEW n \in Nat, n = Len(RowsAfterHeader(element))
  PROVE  \E g : /\ g[0] = <<element.header + 1>>
               /\ GroupStarts(element) = g[n]
               /\ \A i \in 1..n :
                    g[i] = AddStart(g[i - 1], RowsAfterHeader(element)[i], element)
PROOF
<1> DEFINE Upto(g, m) == g = [i \in 0..m |->
             IF i = 0 THEN <<element.header + 1>>
             ELSE AddStart(g[i - 1], RowsAfterHeader(element)[i], element)]
           H == {m \in 0..n : \E g : Upto(g, m)}
<1>1. 0 \in H
  <2>1. Upto([i \in 0..0 |-> <<element.header + 1>>], 0) /\ 0 \in 0..n
    OBVIOUS
  <2> HIDE DEF Upto
  <2> QED
    BY <2>1
<1>2. ASSUME NEW m \in 1..n, m - 1 \in H PROVE m \in H
  <2>0. m \in Nat /\ m # 0 /\ m \in 0..n
    OBVIOUS
  <2>1. PICK g : Upto(g, m - 1)
    BY <1>2
  <2> DEFINE v == AddStart(g[m - 1], RowsAfterHeader(element)[m], element)
  <2> DEFINE h == [i \in 0..m |-> IF i = m THEN v ELSE g[i]]
  <2>2. /\ h = [i \in 0..m |-> h[i]] /\ h[m] = v
        /\ \A i \in 0..(m - 1) : h[i] = g[i]
    <3> HIDE DEF v, Upto, H
    <3> QED
      BY <2>0
  <2> HIDE DEF h
  <2>3. \A i \in 0..(m - 1) : g[i] = IF i = 0 THEN <<element.header + 1>>
          ELSE AddStart(g[i - 1], RowsAfterHeader(element)[i], element)
    BY <2>1, Zenon
  <2>4. ASSUME NEW i \in 0..m
        PROVE  h[i] = IF i = 0 THEN <<element.header + 1>>
                      ELSE AddStart(h[i - 1], RowsAfterHeader(element)[i], element)
    <3>1. /\ i = 0 => i \in 0..(m - 1)
          /\ i # 0 => i - 1 \in 0..(m - 1)
          /\ i # m => i \in 0..(m - 1)
      BY <2>0
    <3>2. i # 0 => h[i - 1] = g[i - 1]
      BY <2>2, <3>1, Zenon
    <3>3. CASE i = m
      BY <2>0, <2>2, <3>2, <3>3, Zenon
    <3>4. CASE i # m
      BY <2>2, <2>3, <3>1, <3>2, <3>4, Zenon
    <3> QED
      BY <3>3, <3>4
  <2>5. Upto(h, m)
    BY <2>2, <2>4, Zenon
  <2> HIDE DEF Upto
  <2> QED
    BY <2>0, <2>5
<1>3. \E h : Upto(h, n)
  <2> HIDE DEF Upto
  <2>1. \A m \in 0..n : m \in H
    <3> HIDE DEF H
    <3> QED
      BY <1>1, <1>2, UpToN
  <2>2. n \in 0..n
    OBVIOUS
  <2> QED
    BY <2>1, <2>2
<1> DEFINE g == CHOOSE h : Upto(h, Len(RowsAfterHeader(element)))
<1>4. GroupStarts(element) = g[Len(RowsAfterHeader(element))]
  BY DEF GroupStarts, Fold, RowsAfterHeader
<1>5. Upto(g, n)
  <2> HIDE DEF Upto
  <2> QED
    BY <1>3, Zenon
<1> HIDE DEF g
<1>6. \A i \in 0..n : g[i] = IF i = 0 THEN <<element.header + 1>>
        ELSE AddStart(g[i - 1], RowsAfterHeader(element)[i], element)
  BY <1>5, Zenon
<1>7. g[0] = <<element.header + 1>>
  BY <1>6
<1>8. ASSUME NEW i \in 1..n
      PROVE  g[i] = AddStart(g[i - 1], RowsAfterHeader(element)[i], element)
  <2>1. i \in 0..n /\ i # 0
    OBVIOUS
  <2> QED
    BY <1>6, <2>1, Zenon
<1> QED
  BY <1>4, <1>7, <1>8

(* Regions() in stages.                                                    *)
LEMMA RegionsStages ==
  ASSUME NEW rows, NEW limit, NEW n \in Nat, n = Len(rows)
  PROVE  \E g : /\ g[0] = NoRegions
               /\ Regions(rows, limit) = g[n].done \o NonEmpty(g[n].open)
               /\ \A i \in 1..n :
                    g[i] = AddRow(g[i - 1], rows[i], limit)
PROOF
<1> DEFINE Upto(g, m) == g = [i \in 0..m |->
             IF i = 0 THEN NoRegions
             ELSE AddRow(g[i - 1], rows[i], limit)]
           H == {m \in 0..n : \E g : Upto(g, m)}
<1>1. 0 \in H
  <2>1. Upto([i \in 0..0 |-> NoRegions], 0) /\ 0 \in 0..n
    OBVIOUS
  <2> HIDE DEF Upto
  <2> QED
    BY <2>1
<1>2. ASSUME NEW m \in 1..n, m - 1 \in H PROVE m \in H
  <2>0. m \in Nat /\ m # 0 /\ m \in 0..n
    OBVIOUS
  <2>1. PICK g : Upto(g, m - 1)
    BY <1>2
  <2> DEFINE v == AddRow(g[m - 1], rows[m], limit)
  <2> DEFINE h == [i \in 0..m |-> IF i = m THEN v ELSE g[i]]
  <2>2. /\ h = [i \in 0..m |-> h[i]] /\ h[m] = v
        /\ \A i \in 0..(m - 1) : h[i] = g[i]
    <3> HIDE DEF v, Upto, H
    <3> QED
      BY <2>0
  <2> HIDE DEF h
  <2>3. \A i \in 0..(m - 1) : g[i] = IF i = 0 THEN NoRegions
          ELSE AddRow(g[i - 1], rows[i], limit)
    BY <2>1, Zenon
  <2>4. ASSUME NEW i \in 0..m
        PROVE  h[i] = IF i = 0 THEN NoRegions
                      ELSE AddRow(h[i - 1], rows[i], limit)
    <3>1. /\ i = 0 => i \in 0..(m - 1)
          /\ i # 0 => i - 1 \in 0..(m - 1)
          /\ i # m => i \in 0..(m - 1)
      BY <2>0
    <3>2. i # 0 => h[i - 1] = g[i - 1]
      BY <2>2, <3>1, Zenon
    <3>3. CASE i = m
      BY <2>0, <2>2, <3>2, <3>3, Zenon
    <3>4. CASE i # m
      BY <2>2, <2>3, <3>1, <3>2, <3>4, Zenon
    <3> QED
      BY <3>3, <3>4
  <2>5. Upto(h, m)
    BY <2>2, <2>4, Zenon
  <2> HIDE DEF Upto
  <2> QED
    BY <2>0, <2>5
<1>3. \E h : Upto(h, n)
  <2> HIDE DEF Upto
  <2>1. \A m \in 0..n : m \in H
    <3> HIDE DEF H
    <3> QED
      BY <1>1, <1>2, UpToN
  <2>2. n \in 0..n
    OBVIOUS
  <2> QED
    BY <2>1, <2>2
<1> DEFINE g == CHOOSE h : Upto(h, Len(rows))
<1>4. Regions(rows, limit) = g[Len(rows)].done \o NonEmpty(g[Len(rows)].open)
  BY DEF Regions, Fold, NoRegions
<1>5. Upto(g, n)
  <2> HIDE DEF Upto
  <2> QED
    BY <1>3, Zenon
<1> HIDE DEF g
<1>6. \A i \in 0..n : g[i] = IF i = 0 THEN NoRegions
        ELSE AddRow(g[i - 1], rows[i], limit)
  BY <1>5, Zenon
<1>7. g[0] = NoRegions
  BY <1>6
<1>8. ASSUME NEW i \in 1..n
      PROVE  g[i] = AddRow(g[i - 1], rows[i], limit)
  <2>1. i \in 0..n /\ i # 0
    OBVIOUS
  <2> QED
    BY <1>6, <2>1, Zenon
<1> QED
  BY <1>4, <1>7, <1>8

(* ParseBlocks() in stages.                                                *)
LEMMA ParseBlocksStages ==
  ASSUME NEW d, NEW n \in Nat, n = Len(d.blocks)
  PROVE  \E g : /\ g[0] = NoElements
               /\ ParseBlocks(d) = g[n].elements
               /\ \A i \in 1..n :
                    g[i] = AddBlock(d.format, g[i - 1], d.blocks[i])
PROOF
<1> DEFINE Upto(g, m) == g = [i \in 0..m |->
             IF i = 0 THEN NoElements
             ELSE AddBlock(d.format, g[i - 1], d.blocks[i])]
           H == {m \in 0..n : \E g : Upto(g, m)}
<1>1. 0 \in H
  <2>1. Upto([i \in 0..0 |-> NoElements], 0) /\ 0 \in 0..n
    OBVIOUS
  <2> HIDE DEF Upto
  <2> QED
    BY <2>1
<1>2. ASSUME NEW m \in 1..n, m - 1 \in H PROVE m \in H
  <2>0. m \in Nat /\ m # 0 /\ m \in 0..n
    OBVIOUS
  <2>1. PICK g : Upto(g, m - 1)
    BY <1>2
  <2> DEFINE v == AddBlock(d.format, g[m - 1], d.blocks[m])
  <2> DEFINE h == [i \in 0..m |-> IF i = m THEN v ELSE g[i]]
  <2>2. /\ h = [i \in 0..m |-> h[i]] /\ h[m] = v
        /\ \A i \in 0..(m - 1) : h[i] = g[i]
    <3> HIDE DEF v, Upto, H
    <3> QED
      BY <2>0
  <2> HIDE DEF h
  <2>3. \A i \in 0..(m - 1) : g[i] = IF i = 0 THEN NoElements
          ELSE AddBlock(d.format, g[i - 1], d.blocks[i])
    BY <2>1, Zenon
  <2>4. ASSUME NEW i \in 0..m
        PROVE  h[i] = IF i = 0 THEN NoElements
                      ELSE AddBlock(d.format, h[i - 1], d.blocks[i])
    <3>1. /\ i = 0 => i \in 0..(m - 1)
          /\ i # 0 => i - 1 \in 0..(m - 1)
          /\ i # m => i \in 0..(m - 1)
      BY <2>0
    <3>2. i # 0 => h[i - 1] = g[i - 1]
      BY <2>2, <3>1, Zenon
    <3>3. CASE i = m
      BY <2>0, <2>2, <3>2, <3>3, Zenon
    <3>4. CASE i # m
      BY <2>2, <2>3, <3>1, <3>2, <3>4, Zenon
    <3> QED
      BY <3>3, <3>4
  <2>5. Upto(h, m)
    BY <2>2, <2>4, Zenon
  <2> HIDE DEF Upto
  <2> QED
    BY <2>0, <2>5
<1>3. \E h : Upto(h, n)
  <2> HIDE DEF Upto
  <2>1. \A m \in 0..n : m \in H
    <3> HIDE DEF H
    <3> QED
      BY <1>1, <1>2, UpToN
  <2>2. n \in 0..n
    OBVIOUS
  <2> QED
    BY <2>1, <2>2
<1> DEFINE g == CHOOSE h : Upto(h, Len(d.blocks))
<1>4. ParseBlocks(d) = g[Len(d.blocks)].elements
  BY DEF ParseBlocks, Fold, NoElements
<1>5. Upto(g, n)
  <2> HIDE DEF Upto
  <2> QED
    BY <1>3, Zenon
<1> HIDE DEF g
<1>6. \A i \in 0..n : g[i] = IF i = 0 THEN NoElements
        ELSE AddBlock(d.format, g[i - 1], d.blocks[i])
  BY <1>5, Zenon
<1>7. g[0] = NoElements
  BY <1>6
<1>8. ASSUME NEW i \in 1..n
      PROVE  g[i] = AddBlock(d.format, g[i - 1], d.blocks[i])
  <2>1. i \in 0..n /\ i # 0
    OBVIOUS
  <2> QED
    BY <1>6, <2>1, Zenon
<1> QED
  BY <1>4, <1>7, <1>8

-----------------------------------------------------------------------------
(* Texts: their solid characters, and whether these rise                   *)

(* What a character carries of the document: not a line break, not added.  *)
IsSolid(c) == c.kind # "line" /\ c.at # 0
Solids(text) == Solid(Range(text))
Before(A, B) == \A a \in A, b \in B : a < b

(* The solid characters of a text come in the order of their numbers.      *)
Rising(text) ==
  \A i, j \in DOMAIN text :
    i < j /\ IsSolid(text[i]) /\ IsSolid(text[j]) => text[i].at < text[j].at

(* A number is that of a solid character of the text.                      *)
LEMMA SolidsAre ==
  ASSUME NEW text \in Text, NEW x
  PROVE  x \in Solids(text) <=> \E i \in DOMAIN text : IsSolid(text[i]) /\ text[i].at = x
PROOF
  BY DEF Solids, Solid, Range, IsSolid

(* Numbers are natural.                                                    *)
LEMMA SolidsAreNumbers ==
  ASSUME NEW text \in Text
  PROVE  Solids(text) \subseteq Nat
PROOF
<1> SUFFICES ASSUME NEW x \in Solids(text) PROVE x \in Nat
  OBVIOUS
<1>1. PICK i \in DOMAIN text : text[i].at = x
  BY SolidsAre
<1>2. text[i] \in Character
  BY DEF Text
<1> QED
  BY <1>1, <1>2 DEF Character

(* What an empty text and a line break have.                               *)
LEMMA SolidsOfNothing ==
  /\ << >> \in Text /\ Solids(<< >>) = {} /\ Rising(<< >>)
  /\ <<LineBreak>> \in Text /\ Solids(<<LineBreak>>) = {} /\ Rising(<<LineBreak>>)
  /\ <<LineBreak, LineBreak>> \in Text /\ Solids(<<LineBreak, LineBreak>>) = {}
  /\ Rising(<<LineBreak, LineBreak>>)
  /\ <<Word>> \in Text /\ Solids(<<Word>>) = {} /\ Rising(<<Word>>)
  /\ <<Word, LineBreak>> \in Text /\ Solids(<<Word, LineBreak>>) = {}
PROOF
<1>1. LineBreak \in Character /\ Word \in Character /\ ~ IsSolid(LineBreak) /\ ~ IsSolid(Word)
  BY DEF LineBreak, Word, Character, IsSolid
<1> HIDE DEF LineBreak, Word
<1>2. /\ << >> \in Text /\ <<LineBreak>> \in Text /\ <<LineBreak, LineBreak>> \in Text
      /\ <<Word>> \in Text /\ <<Word, LineBreak>> \in Text
  BY <1>1 DEF Text
<1>3. Solids(<< >>) = {} /\ Rising(<< >>)
  BY DEF Solids, Solid, Range, Rising
<1>4. Solids(<<LineBreak>>) = {} /\ Rising(<<LineBreak>>)
  BY <1>1, <1>2, SolidsAre DEF Rising
<1>5. Solids(<<LineBreak, LineBreak>>) = {} /\ Rising(<<LineBreak, LineBreak>>)
  BY <1>1, <1>2, SolidsAre DEF Rising
<1>6. Solids(<<Word>>) = {} /\ Rising(<<Word>>)
  BY <1>1, <1>2, SolidsAre DEF Rising
<1>7. Solids(<<Word, LineBreak>>) = {}
  BY <1>1, <1>2, SolidsAre
<1> QED
  BY <1>2, <1>3, <1>4, <1>5, <1>6, <1>7

(* A concatenation has the solid characters of both texts, and rises when  *)
(* both do and those of the first come before those of the second.         *)
LEMMA Concatenated ==
  ASSUME NEW a \in Text, NEW b \in Text
  PROVE  /\ a \o b \in Text /\ Len(a \o b) = Len(a) + Len(b)
         /\ Solids(a \o b) = Solids(a) \cup Solids(b)
         /\ Rising(a \o b) <=> Rising(a) /\ Rising(b) /\ Before(Solids(a), Solids(b))
PROOF
<1>1. a \o b \in Text /\ Len(a \o b) = Len(a) + Len(b)
  BY DEF Text
<1>2. /\ DOMAIN a = 1..Len(a) /\ DOMAIN b = 1..Len(b) /\ DOMAIN (a \o b) = 1..(Len(a) + Len(b))
      /\ Len(a) \in Nat /\ Len(b) \in Nat
  BY <1>1 DEF Text
<1>3. /\ \A i \in 1..Len(a) : (a \o b)[i] = a[i]
      /\ \A i \in 1..Len(b) : (a \o b)[Len(a) + i] = b[i]
  BY DEF Text
<1>4. \A i \in 1..(Len(a) + Len(b)) : i \notin 1..Len(a) =>
        i - Len(a) \in 1..Len(b) /\ i = Len(a) + (i - Len(a))
  BY <1>2
<1>5. \A i \in 1..Len(b) : Len(a) + i \in 1..(Len(a) + Len(b))
  BY <1>2
<1>6. \A i \in 1..Len(a) : i \in 1..(Len(a) + Len(b))
  BY <1>2
<1>7. ASSUME NEW x \in Solids(a \o b) PROVE x \in Solids(a) \cup Solids(b)
  <2>1. PICK i \in 1..(Len(a) + Len(b)) : IsSolid((a \o b)[i]) /\ (a \o b)[i].at = x
    BY <1>1, <1>2, <1>7, SolidsAre
  <2>2. CASE i \in 1..Len(a)
    BY <1>2, <1>3, <2>1, <2>2, SolidsAre
  <2>3. CASE i \notin 1..Len(a)
    BY <1>2, <1>3, <1>4, <2>1, <2>3, SolidsAre
  <2> QED
    BY <2>2, <2>3
<1>8. ASSUME NEW x \in Solids(a) PROVE x \in Solids(a \o b)
  <2>1. PICK i \in 1..Len(a) : IsSolid(a[i]) /\ a[i].at = x
    BY <1>2, <1>8, SolidsAre
  <2> QED
    BY <1>1, <1>2, <1>3, <1>6, <2>1, SolidsAre
<1>9. ASSUME NEW x \in Solids(b) PROVE x \in Solids(a \o b)
  <2>1. PICK i \in 1..Len(b) : IsSolid(b[i]) /\ b[i].at = x
    BY <1>2, <1>9, SolidsAre
  <2>2. /\ Len(a) + i \in DOMAIN (a \o b)
        /\ IsSolid((a \o b)[Len(a) + i]) /\ (a \o b)[Len(a) + i].at = x
    BY <1>2, <1>3, <1>5, <2>1
  <2> QED
    BY <1>1, <2>2, SolidsAre
<1>10. ASSUME Rising(a \o b)
       PROVE  Rising(a) /\ Rising(b) /\ Before(Solids(a), Solids(b))
  <2>1. Rising(a)
    BY <1>2, <1>3, <1>6, <1>10 DEF Rising
  <2>2. ASSUME NEW i \in 1..Len(b), NEW j \in 1..Len(b), i < j, IsSolid(b[i]), IsSolid(b[j])
        PROVE  b[i].at < b[j].at
    <3>1. Len(a) + i < Len(a) + j
      BY <1>2, <2>2
    <3> QED
      BY <1>2, <1>3, <1>5, <1>10, <2>2, <3>1 DEF Rising
  <2>3. ASSUME NEW x \in Solids(a), NEW y \in Solids(b) PROVE x < y
    <3>1. PICK i \in 1..Len(a) : IsSolid(a[i]) /\ a[i].at = x
      BY <1>2, <2>3, SolidsAre
    <3>2. PICK j \in 1..Len(b) : IsSolid(b[j]) /\ b[j].at = y
      BY <1>2, <2>3, SolidsAre
    <3>3. i < Len(a) + j
      BY <1>2
    <3> QED
      BY <1>2, <1>3, <1>5, <1>6, <1>10, <3>1, <3>2, <3>3 DEF Rising
  <2> QED
    BY <1>2, <2>1, <2>2, <2>3 DEF Rising, Before
<1>11. ASSUME Rising(a), Rising(b), Before(Solids(a), Solids(b))
       PROVE  Rising(a \o b)
  <2>1. SUFFICES ASSUME NEW i \in 1..(Len(a) + Len(b)), NEW j \in 1..(Len(a) + Len(b)), i < j,
                        IsSolid((a \o b)[i]), IsSolid((a \o b)[j])
                 PROVE  (a \o b)[i].at < (a \o b)[j].at
    BY <1>2 DEF Rising
  <2>2. CASE j \in 1..Len(a)
    <3>1. i \in 1..Len(a)
      BY <1>2, <2>1, <2>2
    <3> QED
      BY <1>2, <1>3, <1>11, <2>1, <2>2, <3>1 DEF Rising
  <2>3. CASE i \notin 1..Len(a)
    <3>1. j \notin 1..Len(a)
      BY <1>2, <2>1, <2>3
    <3>2. i - Len(a) < j - Len(a)
      BY <1>2, <2>1
    <3>3. (a \o b)[i] = b[i - Len(a)] /\ (a \o b)[j] = b[j - Len(a)]
      BY <1>3, <1>4, <2>3, <3>1
    <3> QED
      BY <1>2, <1>4, <1>11, <2>1, <2>3, <3>1, <3>2, <3>3 DEF Rising
  <2>4. CASE i \in 1..Len(a) /\ j \notin 1..Len(a)
    <3>1. (a \o b)[i] = a[i] /\ (a \o b)[j] = b[j - Len(a)]
      BY <1>3, <1>4, <2>4
    <3>2. a[i].at \in Solids(a) /\ b[j - Len(a)].at \in Solids(b)
      BY <1>2, <1>4, <2>1, <2>4, <3>1, SolidsAre
    <3> QED
      BY <1>11, <3>1, <3>2 DEF Before
  <2> QED
    BY <2>2, <2>3, <2>4
<1> QED
  BY <1>1, <1>7, <1>8, <1>9, <1>10, <1>11

(* A part of a text.                                                       *)
LEMMA PartOf ==
  ASSUME NEW text \in Text, NEW m \in Nat, NEW n \in Nat, 1 <= m, n <= Len(text)
  PROVE  /\ SubSeq(text, m, n) \in Text
         /\ Len(SubSeq(text, m, n)) = IF m <= n THEN n - m + 1 ELSE 0
         /\ Solids(SubSeq(text, m, n)) \subseteq Solids(text)
         /\ Rising(text) => Rising(SubSeq(text, m, n))
PROOF
<1> DEFINE part == SubSeq(text, m, n)
<1>1. /\ part \in Text /\ Len(part) = IF m <= n THEN n - m + 1 ELSE 0
      /\ \A i \in DOMAIN part : part[i] = text[m + i - 1] /\ m + i - 1 \in DOMAIN text
  BY SMTT(30) DEF Text
<1> HIDE DEF part
<1>2. Solids(part) \subseteq Solids(text)
  BY <1>1, SolidsAre
<1>3. ASSUME Rising(text) PROVE Rising(part)
  <2>1. SUFFICES ASSUME NEW i \in DOMAIN part, NEW j \in DOMAIN part, i < j,
                        IsSolid(part[i]), IsSolid(part[j])
                 PROVE  part[i].at < part[j].at
    BY DEF Rising
  <2>2. i \in Nat /\ j \in Nat /\ m + i - 1 < m + j - 1
    BY <1>1, <2>1, SMTT(30) DEF Text
  <2> QED
    BY <1>1, <1>3, <2>1, <2>2 DEF Rising
<1> QED
  BY <1>1, <1>2, <1>3 DEF part

(* Strip() takes no solid character away.                                  *)
LEMMA Stripping ==
  ASSUME NEW text \in Text
  PROVE  /\ Strip(text) \in Text /\ Len(Strip(text)) <= Len(text)
         /\ Solids(Strip(text)) = Solids(text)
         /\ Rising(text) => Rising(Strip(text))
PROOF
<1> DEFINE solid == {i \in DOMAIN text : text[i].kind # "line"}
<1>1. DOMAIN text = 1..Len(text) /\ Len(text) \in Nat
  BY DEF Text
<1>2. CASE solid = {}
  <2>1. Strip(text) = << >>
    BY <1>2 DEF Strip
  <2>2. Solids(text) = {}
    BY <1>2, SolidsAre DEF IsSolid
  <2> QED
    BY <1>1, <2>1, <2>2, SolidsOfNothing
<1>3. CASE solid # {}
  <2>1. \E m \in solid : \A i \in solid : m <= i
    <3>1. solid \in SUBSET Nat
      BY <1>1
    <3> HIDE DEF solid
    <3> QED
      BY <1>3, <3>1, LeastNatural
  <2>2. \E n \in solid : \A i \in solid : n >= i
    <3>1. solid \in SUBSET (0..Len(text))
      BY <1>1
    <3> HIDE DEF solid
    <3> QED
      BY <1>1, <1>3, <3>1, GreatestNatural
  <2> DEFINE m == Min(solid)
             n == Max(solid)
  <2>3. m \in solid /\ \A i \in solid : m <= i
    BY <2>1 DEF Min
  <2>4. n \in solid /\ \A i \in solid : n >= i
    BY <2>2 DEF Max
  <2>5. Strip(text) = SubSeq(text, m, n)
    BY <1>3 DEF Strip
  <2> HIDE DEF m, n
  <2>6. m \in Nat /\ n \in Nat /\ 1 <= m /\ n <= Len(text) /\ m <= n
    BY <1>1, <2>3, <2>4
  <2>7. /\ Strip(text) \in Text /\ Len(Strip(text)) <= Len(text)
        /\ Solids(Strip(text)) \subseteq Solids(text)
        /\ Rising(text) => Rising(Strip(text))
    BY <1>1, <2>5, <2>6, PartOf
  <2>8. ASSUME NEW x \in Solids(text) PROVE x \in Solids(Strip(text))
    <3>1. PICK i \in DOMAIN text : IsSolid(text[i]) /\ text[i].at = x
      BY <2>8, SolidsAre
    <3>2. i \in solid
      BY <3>1 DEF IsSolid
    <3>3. m <= i /\ i <= n
      BY <1>1, <2>3, <2>4, <2>6, <3>2
    <3>4. i - m + 1 \in DOMAIN Strip(text) /\ Strip(text)[i - m + 1] = text[i]
      BY <1>1, <2>5, <2>6, <3>3, SMTT(30) DEF Text
    <3> QED
      BY <2>7, <3>1, <3>4, SolidsAre
  <2> QED
    BY <2>7, <2>8
<1> QED
  BY <1>2, <1>3

-----------------------------------------------------------------------------
(* Sequences of sets of numbers: what is new in each comes after what is   *)
(* new in those before.                                                    *)

All(sets) == UNION {sets[k] : k \in DOMAIN sets}
(* What set i has that those before do not.                                *)
New(sets, i) == sets[i] \ UNION {sets[j] : j \in 1..(i - 1)}
InOrder(sets) ==
  \A i, j \in DOMAIN sets : i < j => Before(New(sets, i), New(sets, j))

Sets == Seq(SUBSET Nat)

(* Every place of a sequence holds an element of its set.                  *)
LEMMA ElementsOf ==
  ASSUME NEW T, NEW s \in Seq(T)
  PROVE  \A i \in DOMAIN s : s[i] \in T
PROOF
  OBVIOUS

(* A sequence of one element.                                              *)
LEMMA SingleElement ==
  ASSUME NEW T, NEW s \in Seq(T), s # << >>, ~ (Len(s) > 1)
  PROVE  s = <<s[1]>> /\ s[1] \in T
PROOF
<1>1. Len(s) = 1 /\ DOMAIN s = 1..1
  OBVIOUS
<1>2. s[1] \in T
  BY <1>1
<1>3. <<s[1]>> \in Seq(T) /\ Len(<<s[1]>>) = 1 /\ <<s[1]>>[1] = s[1]
  BY <1>2
<1> QED
  BY <1>1, <1>2, <1>3

(* Texts can be put together in any grouping.                              *)
LEMMA OneAfterAnother ==
  ASSUME NEW a \in Text, NEW b \in Text, NEW c \in Text
  PROVE  a \o (b \o c) = (a \o b) \o c
PROOF
  BY SMTT(30) DEF Text

(* A function on 1..n is a sequence.                                       *)
LEMMA FunctionIsSequence ==
  ASSUME NEW T, NEW n \in Nat, NEW f, f = [i \in 1..n |-> f[i]], \A i \in 1..n : f[i] \in T
  PROVE  f \in Seq(T) /\ Len(f) = n /\ DOMAIN f = 1..n
PROOF
<1>1. f \in [1..n -> T]
  OBVIOUS
<1> QED
  BY <1>1

(* A sequence and what it ends with.                                       *)
LEMMA FrontAndLast ==
  ASSUME NEW T, NEW s \in Seq(T), s # << >>
  PROVE  /\ Front(s) \in Seq(T) /\ Last(s) \in T /\ s = Append(Front(s), Last(s))
         /\ Len(s) \in Nat /\ Len(s) > 0 /\ Len(Front(s)) = Len(s) - 1
         /\ DOMAIN s = 1..Len(s) /\ DOMAIN Front(s) = 1..(Len(s) - 1)
         /\ s[Len(s)] = Last(s) /\ \A i \in 1..(Len(s) - 1) : Front(s)[i] = s[i]
PROOF
<1>1. Len(s) \in Nat /\ Len(s) > 0 /\ DOMAIN s = 1..Len(s) /\ Last(s) = s[Len(s)]
  BY DEF Last
<1>2. Last(s) \in T
  BY <1>1
<1> DEFINE f == SubSeq(s, 1, Len(s) - 1)
<1>3. f \in Seq(T) /\ Len(f) = Len(s) - 1 /\ DOMAIN f = 1..(Len(s) - 1)
  BY <1>1
<1>4. \A i \in 1..(Len(s) - 1) : f[i] = s[i]
  BY <1>1
<1> DEFINE l == Last(s)
           c == Append(f, l)
<1> HIDE DEF f, l
<1>5. /\ c \in Seq(T) /\ Len(c) = Len(f) + 1 /\ c[Len(f) + 1] = l
      /\ \A i \in 1..Len(f) : c[i] = f[i]
  BY <1>2, <1>3 DEF l
<1>6. c = s
  <2> HIDE DEF c
  <2>1. Len(c) = Len(s) /\ Len(f) + 1 = Len(s) /\ c[Len(s)] = s[Len(s)]
    BY <1>1, <1>3, <1>5 DEF l
  <2>2. \A i \in 1..Len(s) : c[i] = s[i]
    BY <1>1, <1>3, <1>4, <1>5, <2>1
  <2> QED
    BY <1>5, <2>1, <2>2
<1>7. Front(s) = f
  BY DEF Front, f
<1> QED
  BY <1>1, <1>2, <1>3, <1>4, <1>6, <1>7 DEF l

(* The part of a sequence up to an element.                                *)
LEMMA PartUpTo ==
  ASSUME NEW T, NEW s \in Seq(T), NEW i \in 1..Len(s)
  PROVE  SubSeq(s, 1, i) = Append(SubSeq(s, 1, i - 1), s[i])
PROOF
<1>1. Len(s) \in Nat
  OBVIOUS
<1> DEFINE a == SubSeq(s, 1, i)
           b == SubSeq(s, 1, i - 1)
           c == Append(b, s[i])
<1>2. a \in Seq(T) /\ Len(a) = i /\ \A k \in 1..i : a[k] = s[k]
  BY <1>1
<1>3. b \in Seq(T) /\ Len(b) = i - 1 /\ \A k \in 1..(i - 1) : b[k] = s[k]
  BY <1>1
<1> HIDE DEF b
<1>4. /\ c \in Seq(T) /\ Len(c) = Len(b) + 1 /\ c[Len(b) + 1] = s[i]
      /\ \A k \in 1..Len(b) : c[k] = b[k]
  BY <1>3
<1> HIDE DEF a, c
<1>5. Len(c) = i /\ \A k \in 1..i : c[k] = s[k]
  BY <1>1, <1>3, <1>4
<1>6. a = c
  BY <1>2, <1>4, <1>5
<1> QED
  BY <1>6 DEF a, b, c

(* A sequence after another.                                               *)
LEMMA JoinedSets ==
  ASSUME NEW T, NEW a \in Seq(T), NEW b \in Seq(T)
  PROVE  /\ a \o b \in Seq(T) /\ Len(a \o b) = Len(a) + Len(b)
         /\ DOMAIN (a \o b) = 1..(Len(a) + Len(b))
         /\ DOMAIN a = 1..Len(a) /\ DOMAIN b = 1..Len(b) /\ Len(a) \in Nat /\ Len(b) \in Nat
         /\ \A i \in 1..Len(a) : i \in DOMAIN (a \o b) /\ (a \o b)[i] = a[i]
         /\ \A i \in 1..Len(b) : Len(a) + i \in DOMAIN (a \o b) /\ (a \o b)[Len(a) + i] = b[i]
         /\ \A i \in 1..(Len(a) + Len(b)) : i \notin 1..Len(a) =>
              /\ i - Len(a) \in 1..Len(b) /\ i = Len(a) + (i - Len(a))
              /\ (a \o b)[i] = b[i - Len(a)]
PROOF
<1>1. /\ a \o b \in Seq(T) /\ Len(a \o b) = Len(a) + Len(b)
      /\ DOMAIN a = 1..Len(a) /\ DOMAIN b = 1..Len(b) /\ Len(a) \in Nat /\ Len(b) \in Nat
  OBVIOUS
<1>2. DOMAIN (a \o b) = 1..(Len(a) + Len(b))
  OBVIOUS
<1>3. \A i \in 1..Len(a) : i \in DOMAIN (a \o b) /\ (a \o b)[i] = a[i]
  BY <1>1, <1>2
<1>4. \A i \in 1..Len(b) : Len(a) + i \in DOMAIN (a \o b) /\ (a \o b)[Len(a) + i] = b[i]
  BY <1>1, <1>2
<1>5. ASSUME NEW i \in 1..(Len(a) + Len(b)), i \notin 1..Len(a)
      PROVE  /\ i - Len(a) \in 1..Len(b) /\ i = Len(a) + (i - Len(a))
             /\ (a \o b)[i] = b[i - Len(a)]
  <2>1. i - Len(a) \in 1..Len(b) /\ i = Len(a) + (i - Len(a))
    BY <1>1, <1>5
  <2> QED
    BY <1>4, <2>1
<1> QED
  BY <1>1, <1>2, <1>3, <1>4, <1>5

(* The elements of two sequences are those of their concatenation.         *)
LEMMA RangeOfBoth ==
  ASSUME NEW T, NEW a \in Seq(T), NEW b \in Seq(T), NEW x
  PROVE  x \in Range(a \o b) <=> x \in Range(a) \/ x \in Range(b)
PROOF
<1> DEFINE c == a \o b
<1>1. /\ DOMAIN c = 1..(Len(a) + Len(b))
      /\ DOMAIN a = 1..Len(a) /\ DOMAIN b = 1..Len(b)
      /\ \A i \in 1..Len(a) : i \in DOMAIN c /\ c[i] = a[i]
      /\ \A i \in 1..Len(b) : Len(a) + i \in DOMAIN c /\ c[Len(a) + i] = b[i]
      /\ \A i \in 1..(Len(a) + Len(b)) : i \notin 1..Len(a) =>
           i - Len(a) \in 1..Len(b) /\ c[i] = b[i - Len(a)]
  BY JoinedSets
<1> HIDE DEF c
<1>2. ASSUME x \in Range(c) PROVE x \in Range(a) \/ x \in Range(b)
  <2>1. PICK i \in 1..(Len(a) + Len(b)) : c[i] = x
    BY <1>1, <1>2 DEF Range
  <2>2. CASE i \in 1..Len(a)
    BY <1>1, <2>1, <2>2 DEF Range
  <2>3. CASE i \notin 1..Len(a)
    BY <1>1, <2>1, <2>3 DEF Range
  <2> QED
    BY <2>2, <2>3
<1>3. ASSUME x \in Range(a) PROVE x \in Range(c)
  BY <1>1, <1>3 DEF Range
<1>4. ASSUME x \in Range(b) PROVE x \in Range(c)
  <2>1. PICK i \in 1..Len(b) : b[i] = x
    BY <1>1, <1>4 DEF Range
  <2>2. Len(a) + i \in DOMAIN c /\ c[Len(a) + i] = x
    BY <1>1, <2>1
  <2> QED
    BY <2>2 DEF Range
<1> QED
  BY <1>2, <1>3, <1>4 DEF c

(* A number of a sequence is new somewhere.                                *)
LEMMA FirstOf ==
  ASSUME NEW sets \in Sets, NEW x \in All(sets)
  PROVE  \E i \in DOMAIN sets : x \in New(sets, i)
PROOF
<1> DEFINE T == {i \in DOMAIN sets : x \in sets[i]}
<1>1. DOMAIN sets = 1..Len(sets) /\ Len(sets) \in Nat
  BY DEF Sets
<1>2. PICK i \in T : \A j \in T : i <= j
  <2>1. T # {} /\ T \in SUBSET Nat
    BY <1>1 DEF All
  <2> HIDE DEF T
  <2> QED
    BY <2>1, LeastNatural
<1>3. \A j \in 1..(i - 1) : j \in DOMAIN sets /\ ~ (i <= j)
  BY <1>1
<1>4. \A j \in 1..(i - 1) : x \notin sets[j]
  BY <1>2, <1>3
<1> QED
  BY <1>4 DEF New

(* The numbers of two sequences of sets.                                   *)
LEMMA AllOfBoth ==
  ASSUME NEW a \in Sets, NEW b \in Sets
  PROVE  All(a \o b) = All(a) \cup All(b)
PROOF
<1> USE JoinedSets DEF Sets
<1>1. ASSUME NEW x \in All(a \o b) PROVE x \in All(a) \cup All(b)
  <2>1. PICK i \in DOMAIN (a \o b) : x \in (a \o b)[i]
    BY <1>1 DEF All
  <2>2. CASE i \in 1..Len(a)
    BY <2>1, <2>2 DEF All
  <2>3. CASE i \notin 1..Len(a)
    BY <2>1, <2>3 DEF All
  <2> QED
    BY <2>2, <2>3
<1>2. ASSUME NEW x \in All(a) PROVE x \in All(a \o b)
  <2>1. PICK i \in DOMAIN a : x \in a[i]
    BY <1>2 DEF All
  <2> QED
    BY <2>1 DEF All
<1>3. ASSUME NEW x \in All(b) PROVE x \in All(a \o b)
  <2>1. PICK i \in DOMAIN b : x \in b[i]
    BY <1>3 DEF All
  <2>2. Len(a) + i \in DOMAIN (a \o b) /\ x \in (a \o b)[Len(a) + i]
    BY <2>1
  <2> QED
    BY <2>2 DEF All
<1> QED
  BY <1>1, <1>2, <1>3

(* Two sequences in order are so together, when what the second has more   *)
(* comes after all the first has.                                          *)
LEMMA OrderOfBoth ==
  ASSUME NEW a \in Sets, NEW b \in Sets, InOrder(a), InOrder(b),
         Before(All(a), All(b) \ All(a))
  PROVE  InOrder(a \o b)
PROOF
<1> DEFINE c == a \o b
<1>1. /\ DOMAIN c = 1..(Len(a) + Len(b))
      /\ DOMAIN a = 1..Len(a) /\ DOMAIN b = 1..Len(b) /\ Len(a) \in Nat /\ Len(b) \in Nat
      /\ \A i \in 1..Len(a) : c[i] = a[i]
      /\ \A i \in 1..(Len(a) + Len(b)) : i \notin 1..Len(a) =>
           i - Len(a) \in 1..Len(b) /\ c[i] = b[i - Len(a)]
  BY JoinedSets DEF Sets
<1> HIDE DEF c
<1>2. ASSUME NEW i \in 1..Len(a) PROVE New(c, i) \subseteq New(a, i) /\ New(c, i) \subseteq All(a)
  <2>1. \A j \in 1..(i - 1) : j \in 1..Len(a)
    BY <1>1
  <2>2. c[i] = a[i] /\ \A j \in 1..(i - 1) : c[j] = a[j]
    BY <1>1, <2>1
  <2> QED
    BY <1>1, <2>2 DEF New, All
<1>3. ASSUME NEW i \in 1..(Len(a) + Len(b)), i \notin 1..Len(a)
      PROVE  New(c, i) \subseteq New(b, i - Len(a)) /\ New(c, i) \subseteq All(b) \ All(a)
  <2>1. \A j \in 1..(i - Len(a) - 1) : Len(a) + j \in 1..(i - 1) /\ c[Len(a) + j] = b[j]
    <3> SUFFICES ASSUME NEW j \in 1..(i - Len(a) - 1)
                 PROVE  Len(a) + j \in 1..(i - 1) /\ c[Len(a) + j] = b[j]
      OBVIOUS
    <3>1. /\ Len(a) + j \in 1..(i - 1) /\ Len(a) + j \in 1..(Len(a) + Len(b))
          /\ Len(a) + j \notin 1..Len(a) /\ Len(a) + j - Len(a) = j
      BY <1>1, <1>3
    <3> QED
      BY <1>1, <3>1
  <2>2. \A j \in 1..Len(a) : j \in 1..(i - 1) /\ c[j] = a[j]
    BY <1>1, <1>3
  <2>3. c[i] = b[i - Len(a)] /\ i - Len(a) \in DOMAIN b
    BY <1>1, <1>3
  <2>4. New(c, i) \subseteq New(b, i - Len(a))
    BY <2>1, <2>3 DEF New
  <2>5. New(c, i) \cap All(a) = {}
    BY <1>1, <2>2 DEF New, All
  <2>6. New(c, i) \subseteq All(b)
    BY <2>3 DEF New, All
  <2> QED
    BY <2>4, <2>5, <2>6
<1>4. SUFFICES ASSUME NEW i \in DOMAIN c, NEW j \in DOMAIN c, i < j
               PROVE  Before(New(c, i), New(c, j))
  BY DEF InOrder, c
<1>5. CASE j \in 1..Len(a)
  <2>1. i \in 1..Len(a)
    BY <1>1, <1>4, <1>5
  <2>2. Before(New(a, i), New(a, j))
    BY <1>1, <1>4, <1>5, <2>1 DEF InOrder
  <2> QED
    BY <1>2, <1>5, <2>1, <2>2 DEF Before
<1>6. CASE i \notin 1..Len(a)
  <2>1. j \notin 1..Len(a)
    BY <1>1, <1>4, <1>6
  <2>2. i - Len(a) < j - Len(a) /\ i - Len(a) \in DOMAIN b /\ j - Len(a) \in DOMAIN b
    BY <1>1, <1>4, <1>6, <2>1
  <2>3. Before(New(b, i - Len(a)), New(b, j - Len(a)))
    BY <2>2 DEF InOrder
  <2> QED
    BY <1>1, <1>3, <1>6, <2>1, <2>3 DEF Before
<1>7. CASE i \in 1..Len(a) /\ j \notin 1..Len(a)
  BY <1>1, <1>2, <1>3, <1>7 DEF Before
<1> QED
  BY <1>5, <1>6, <1>7

(* A sequence with one more set.                                           *)
LEMMA OrderWithMore ==
  ASSUME NEW a \in Sets, NEW S \in SUBSET Nat
  PROVE  /\ Append(a, S) \in Sets /\ All(Append(a, S)) = All(a) \cup S
         /\ InOrder(a) /\ Before(All(a), S \ All(a)) => InOrder(Append(a, S))
PROOF
<1>1. <<S>> \in Sets /\ Append(a, S) = a \o <<S>> /\ Append(a, S) \in Sets
  BY DEF Sets
<1>2. All(<<S>>) = S
  BY DEF All
<1>3. InOrder(<<S>>)
  BY DEF InOrder
<1> QED
  BY <1>1, <1>2, <1>3, AllOfBoth, OrderOfBoth

(* A sequence whose last set has more.                                     *)
LEMMA OrderWithLarger ==
  ASSUME NEW a \in Sets, a # << >>, NEW S \in SUBSET Nat
  PROVE  LET b == Append(Front(a), Last(a) \cup S)
         IN /\ b \in Sets /\ All(b) = All(a) \cup S
            /\ InOrder(a) /\ Before(All(a), S \ All(a)) => InOrder(b)
PROOF
<1> DEFINE f == Front(a)
           L == Last(a)
           b == Append(f, L \cup S)
<1>1. /\ f \in Sets /\ L \in SUBSET Nat /\ a = Append(f, L) /\ Len(a) \in Nat
      /\ Len(f) = Len(a) - 1 /\ DOMAIN a = 1..Len(a) /\ DOMAIN f = 1..(Len(a) - 1)
      /\ a[Len(a)] = L /\ \A i \in 1..(Len(a) - 1) : f[i] = a[i]
  BY FrontAndLast DEF Sets
<1> HIDE DEF f, L
<1>2. All(a) = All(f) \cup L
  BY <1>1, OrderWithMore
<1>3. b \in Sets /\ All(b) = All(f) \cup (L \cup S)
  BY <1>1, OrderWithMore
<1>4. ASSUME InOrder(a), Before(All(a), S \ All(a)) PROVE InOrder(b)
  <2>1. \A i \in DOMAIN f : i \in DOMAIN a /\ New(f, i) = New(a, i)
    <3> SUFFICES ASSUME NEW i \in DOMAIN f PROVE i \in DOMAIN a /\ New(f, i) = New(a, i)
      OBVIOUS
    <3>1. i \in 1..(Len(a) - 1) /\ i \in DOMAIN a /\ \A j \in 1..(i - 1) : j \in 1..(Len(a) - 1)
      BY <1>1
    <3>2. f[i] = a[i] /\ \A j \in 1..(i - 1) : f[j] = a[j]
      BY <1>1, <3>1
    <3> QED
      BY <3>1, <3>2 DEF New
  <2>2. InOrder(f)
    BY <1>4, <2>1 DEF InOrder
  <2>3. Before(All(f), (L \cup S) \ All(f))
    <3> SUFFICES ASSUME NEW x \in All(f), NEW y \in L \cup S, y \notin All(f) PROVE x < y
      BY DEF Before
    <3>1. CASE y \in L
      <4>1. PICK i \in DOMAIN f : x \in New(f, i)
        BY <1>1, FirstOf
      <4>2. i \in 1..(Len(a) - 1) /\ Len(a) \in DOMAIN a /\ i < Len(a)
        BY <1>1
      <4>3. \A j \in 1..(Len(a) - 1) : y \notin a[j]
        BY <1>1 DEF All
      <4>4. a[Len(a)] = L
        BY <1>1
      <4>5. y \in New(a, Len(a))
        BY <3>1, <4>3, <4>4 DEF New
      <4>6. Before(New(a, i), New(a, Len(a)))
        BY <1>4, <2>1, <4>2 DEF InOrder
      <4> QED
        BY <2>1, <4>1, <4>5, <4>6 DEF Before
    <3>2. CASE y \notin L
      BY <1>2, <1>4, <3>2 DEF Before
    <3> QED
      BY <3>1, <3>2
  <2> QED
    BY <1>1, <2>2, <2>3, OrderWithMore
<1>5. b \in Sets /\ All(b) = All(a) \cup S /\ (InOrder(a) /\ Before(All(a), S \ All(a)) => InOrder(b))
  BY <1>2, <1>3, <1>4
<1> QED
  BY <1>5 DEF f, L

(* The sets of texts and of chunks.                                        *)
TextSets(texts) == [k \in DOMAIN texts |-> Solids(texts[k])]

(* Texts have a sequence of sets.                                          *)
LEMMA TextSetsOf ==
  ASSUME NEW texts \in Seq(Text)
  PROVE  TextSets(texts) \in Sets /\ Len(TextSets(texts)) = Len(texts)
PROOF
<1>1. \A k \in 1..Len(texts) : texts[k] \in Text
  OBVIOUS
<1>2. \A k \in 1..Len(texts) : Solids(texts[k]) \in SUBSET Nat
  BY <1>1, SolidsAreNumbers
<1>3. TextSets(texts) = [k \in 1..Len(texts) |-> Solids(texts[k])] /\ Len(texts) \in Nat
  BY DEF TextSets
<1>4. TextSets(texts) \in [1..Len(texts) -> SUBSET Nat]
  BY <1>2, <1>3
<1> QED
  BY <1>3, <1>4 DEF Sets

(* One more text has one more set.                                         *)
LEMMA TextSetsMore ==
  ASSUME NEW texts \in Seq(Text), NEW text \in Text
  PROVE  TextSets(Append(texts, text)) = Append(TextSets(texts), Solids(text))
PROOF
<1> DEFINE more == Append(texts, text)
<1>1. /\ more \in Seq(Text) /\ Len(more) = Len(texts) + 1 /\ Len(texts) \in Nat
      /\ DOMAIN texts = 1..Len(texts) /\ DOMAIN more = 1..(Len(texts) + 1)
      /\ more[Len(texts) + 1] = text /\ \A k \in 1..Len(texts) : more[k] = texts[k]
  OBVIOUS
<1> HIDE DEF more
<1> DEFINE ts == TextSets(texts)
<1>2. ts \in Sets /\ Len(ts) = Len(texts) /\ \A k \in 1..Len(texts) : ts[k] = Solids(texts[k])
  BY <1>1, TextSetsOf DEF TextSets
<1>3. TextSets(more) \in Sets /\ Len(TextSets(more)) = Len(texts) + 1
      /\ \A k \in 1..(Len(texts) + 1) : TextSets(more)[k] = Solids(more[k])
  BY <1>1, TextSetsOf DEF TextSets
<1> HIDE DEF ts
<1>4. Solids(text) \in SUBSET Nat
  BY SolidsAreNumbers
<1>5. /\ Append(ts, Solids(text)) \in Sets /\ Len(Append(ts, Solids(text))) = Len(texts) + 1
      /\ \A k \in 1..(Len(texts) + 1) : Append(ts, Solids(text))[k] = Solids(more[k])
  BY <1>1, <1>2, <1>4 DEF Sets
<1> QED
  BY <1>1, <1>3, <1>5 DEF Sets, more, ts

-----------------------------------------------------------------------------
(* Texts one after another *)

(* What holds of the empty sequence and of every longer one by one element *)
(* holds of all.                                                           *)
LEMMA BySequences ==
  ASSUME NEW T, NEW H, << >> \in H,
         \A s \in Seq(T), x \in T : s \in H => Append(s, x) \in H
  PROVE  \A s \in Seq(T) : s \in H
PROOF
<1> SUFFICES ASSUME NEW s \in Seq(T), NEW n \in Nat, n = Len(s) PROVE s \in H
  OBVIOUS
<1> DEFINE G == {i \in 0..n : SubSeq(s, 1, i) \in H}
<1>1. 0 \in G
  <2>1. SubSeq(s, 1, 0) = << >> /\ 0 \in 0..n
    OBVIOUS
  <2> QED
    BY <2>1, Zenon
<1>2. ASSUME NEW i \in 1..n, i - 1 \in G PROVE i \in G
  <2>1. SubSeq(s, 1, i - 1) \in Seq(T) /\ s[i] \in T /\ i \in 1..Len(s)
    OBVIOUS
  <2>2. SubSeq(s, 1, i) = Append(SubSeq(s, 1, i - 1), s[i])
    BY <2>1, PartUpTo
  <2>3. SubSeq(s, 1, i) \in H
    BY <1>2, <2>1, <2>2
  <2> QED
    BY <2>3
<1>3. n \in G
  <2> HIDE DEF G
  <2>1. \A i \in 0..n : i \in G
    BY <1>1, <1>2, UpToN
  <2> QED
    BY <2>1
<1>4. SubSeq(s, 1, n) = s
  OBVIOUS
<1> QED
  BY <1>3, <1>4

(* No texts are an empty text.                                             *)
LEMMA FlattenedNone == Flattened(<< >>) = << >>
PROOF
<1>1. 0 = Len(<< >>) /\ 0 \in Nat
  OBVIOUS
<1>2. PICK g : g[0] = << >> /\ Flattened(<< >>) = g[0]
  BY <1>1, FlattenedStages, ZenonT(60)
<1> QED
  BY <1>2

(* A sequence and one more.                                                *)
LEMMA FlattenedMore ==
  ASSUME NEW T, NEW s \in Seq(T), NEW x \in T
  PROVE  Flattened(Append(s, x)) = Flattened(s) \o x
PROOF
<1> SUFFICES ASSUME NEW n \in Nat, n = Len(s) PROVE Flattened(Append(s, x)) = Flattened(s) \o x
  OBVIOUS
<1> DEFINE c == Append(s, x)
<1>1. n + 1 = Len(c) /\ c[n + 1] = x /\ \A i \in 1..n : c[i] = s[i]
  OBVIOUS
<1>2. PICK g : /\ g[0] = << >> /\ Flattened(s) = g[n]
               /\ \A i \in 1..n : g[i] = g[i - 1] \o s[i]
  BY FlattenedStages
<1> HIDE DEF c
<1>3. PICK h : /\ h[0] = << >> /\ Flattened(c) = h[n + 1]
               /\ \A i \in 1..(n + 1) : h[i] = h[i - 1] \o c[i]
  <2>1. n + 1 \in Nat
    OBVIOUS
  <2> QED
    BY <1>1, <2>1, FlattenedStages
<1> DEFINE H == {i \in 0..n : g[i] = h[i]}
<1>4. 0 \in H
  BY <1>2, <1>3
<1>5. ASSUME NEW i \in 1..n, i - 1 \in H PROVE i \in H
  <2>1. i \in 1..(n + 1) /\ i \in 0..n
    OBVIOUS
  <2>2. g[i] = h[i]
    BY <1>1, <1>2, <1>3, <1>5, <2>1, Zenon
  <2> QED
    BY <2>1, <2>2
<1>6. n \in H
  <2> HIDE DEF H
  <2>1. \A i \in 0..n : i \in H
    BY <1>4, <1>5, UpToN
  <2> QED
    BY <2>1
<1>7. n + 1 \in 1..(n + 1) /\ (n + 1) - 1 = n
  OBVIOUS
<1>8. Flattened(c) = g[n] \o x
  BY <1>1, <1>3, <1>6, <1>7
<1> QED
  BY <1>2, <1>8 DEF c

(* A sequence by itself.                                                   *)
LEMMA FlattenedOne ==
  ASSUME NEW T, NEW x \in Seq(T)
  PROVE  Flattened(<<x>>) = x
PROOF
<1>1. <<x>> = Append(<< >>, x) /\ << >> \in Seq(Seq(T))
  OBVIOUS
<1>2. Flattened(<<x>>) = << >> \o x
  BY <1>1, FlattenedNone, FlattenedMore
<1> QED
  BY <1>2

(* What is flattened has elements of the same set.                         *)
LEMMA FlattenedType ==
  ASSUME NEW T
  PROVE  \A s \in Seq(Seq(T)) : Flattened(s) \in Seq(T)
PROOF
<1> DEFINE H == {s \in Seq(Seq(T)) : Flattened(s) \in Seq(T)}
<1>1. << >> \in H
  <2>1. << >> \in Seq(T) /\ << >> \in Seq(Seq(T))
    OBVIOUS
  <2> QED
    BY <2>1, FlattenedNone, Zenon
<1>2. ASSUME NEW s \in Seq(Seq(T)), NEW x \in Seq(T), s \in H PROVE Append(s, x) \in H
  <2>1. Flattened(Append(s, x)) = Flattened(s) \o x
    BY FlattenedMore
  <2>2. Flattened(Append(s, x)) \in Seq(T) /\ Append(s, x) \in Seq(Seq(T))
    BY <1>2, <2>1
  <2> QED
    BY <2>2
<1> HIDE DEF H
<1>3. \A s \in Seq(Seq(T)) : s \in H
  BY <1>1, <1>2, BySequences
<1> QED
  BY <1>3 DEF H

(* Flattening two sequences of sequences.                                  *)
LEMMA FlattenedBoth ==
  ASSUME NEW T, NEW a \in Seq(Seq(T)), NEW b \in Seq(Seq(T))
  PROVE  Flattened(a \o b) = Flattened(a) \o Flattened(b)
PROOF
<1> DEFINE H == {s \in Seq(Seq(T)) : Flattened(a \o s) = Flattened(a) \o Flattened(s)}
<1>1. << >> \in H
  <2>1. Flattened(a) \in Seq(T)
    BY FlattenedType
  <2>2. a \o << >> = a /\ Flattened(a) \o << >> = Flattened(a)
    BY <2>1
  <2>3. << >> \in Seq(Seq(T))
    OBVIOUS
  <2> QED
    BY <2>2, <2>3, FlattenedNone, Zenon
<1>2. ASSUME NEW s \in Seq(Seq(T)), NEW x \in Seq(T), s \in H PROVE Append(s, x) \in H
  <2>1. a \o s \in Seq(Seq(T)) /\ a \o Append(s, x) = Append(a \o s, x)
    BY SMTT(30)
  <2>2. Flattened(a \o Append(s, x)) = Flattened(a \o s) \o x
    BY <2>1, FlattenedMore
  <2>3. Flattened(a) \in Seq(T) /\ Flattened(s) \in Seq(T)
    BY FlattenedType
  <2>4. (Flattened(a) \o Flattened(s)) \o x = Flattened(a) \o (Flattened(s) \o x)
    BY <2>3, SMTT(30)
  <2>5. Flattened(Append(s, x)) = Flattened(s) \o x
    BY FlattenedMore
  <2>6. Flattened(a \o Append(s, x)) = Flattened(a) \o Flattened(Append(s, x))
    BY <1>2, <2>2, <2>4, <2>5
  <2> QED
    BY <2>6
<1> HIDE DEF H
<1>3. \A s \in Seq(Seq(T)) : s \in H
  BY <1>1, <1>2, BySequences
<1> QED
  BY <1>3 DEF H

(* The elements of a flattened sequence.                                   *)
LEMMA FlattenedElements ==
  ASSUME NEW T, NEW x
  PROVE  \A s \in Seq(Seq(T)) :
           x \in Range(Flattened(s)) <=> \E k \in DOMAIN s : x \in Range(s[k])
PROOF
<1> DEFINE H == {s \in Seq(Seq(T)) :
                   x \in Range(Flattened(s)) <=> \E k \in DOMAIN s : x \in Range(s[k])}
<1>1. << >> \in H
  BY FlattenedNone DEF Range
<1>2. ASSUME NEW s \in Seq(Seq(T)), NEW y \in Seq(T), s \in H PROVE Append(s, y) \in H
  <2>1. Flattened(Append(s, y)) = Flattened(s) \o y /\ Flattened(s) \in Seq(T)
    BY FlattenedMore, FlattenedType
  <2>2. x \in Range(Flattened(s) \o y) <=> x \in Range(Flattened(s)) \/ x \in Range(y)
    BY <2>1, RangeOfBoth
  <2>3. (\E k \in DOMAIN Append(s, y) : x \in Range(Append(s, y)[k]))
          <=> (\E k \in DOMAIN s : x \in Range(s[k])) \/ x \in Range(y)
    <3> DEFINE c == Append(s, y)
    <3>1. /\ Len(s) \in Nat /\ DOMAIN s = 1..Len(s) /\ DOMAIN c = 1..(Len(s) + 1)
          /\ c[Len(s) + 1] = y /\ \A k \in 1..Len(s) : c[k] = s[k]
      OBVIOUS
    <3> HIDE DEF c
    <3>2. \A k \in 1..(Len(s) + 1) : k \in 1..Len(s) \/ k = Len(s) + 1
      BY <3>1
    <3>3. Len(s) + 1 \in 1..(Len(s) + 1) /\ \A k \in 1..Len(s) : k \in 1..(Len(s) + 1)
      BY <3>1
    <3>4. (\E k \in DOMAIN c : x \in Range(c[k]))
            <=> (\E k \in DOMAIN s : x \in Range(s[k])) \/ x \in Range(y)
      BY <3>1, <3>2, <3>3
    <3> QED
      BY <3>4 DEF c
  <2>4. x \in Range(Flattened(Append(s, y)))
          <=> \E k \in DOMAIN Append(s, y) : x \in Range(Append(s, y)[k])
    BY <1>2, <2>1, <2>2, <2>3
  <2>5. Append(s, y) \in Seq(Seq(T))
    OBVIOUS
  <2> QED
    BY <2>4, <2>5
<1> HIDE DEF H
<1>3. \A s \in Seq(Seq(T)) : s \in H
  BY <1>1, <1>2, BySequences
<1> QED
  BY <1>3 DEF H

(* Texts that rise, each after the one before.                             *)
TextsRise(texts) ==
  /\ \A k \in DOMAIN texts : Rising(texts[k])
  /\ \A j, k \in DOMAIN texts : j < k => Before(Solids(texts[j]), Solids(texts[k]))

(* Texts and one more.                                                     *)
LEMMA TextsRiseMore ==
  ASSUME NEW texts \in Seq(Text), NEW text \in Text
  PROVE  /\ All(TextSets(Append(texts, text))) = All(TextSets(texts)) \cup Solids(text)
         /\ TextsRise(Append(texts, text))
              <=> /\ TextsRise(texts) /\ Rising(text)
                  /\ Before(All(TextSets(texts)), Solids(text))
PROOF
<1> DEFINE c == Append(texts, text)
           n == Len(texts)
<1>1. /\ n \in Nat /\ DOMAIN texts = 1..n /\ DOMAIN c = 1..(n + 1)
      /\ c[n + 1] = text /\ \A k \in 1..n : c[k] = texts[k]
  OBVIOUS
<1>2. All(TextSets(c)) = All(TextSets(texts)) \cup Solids(text)
  BY TextSetsOf, TextSetsMore, OrderWithMore, SolidsAreNumbers
<1> HIDE DEF c, n
<1>3. n + 1 \in 1..(n + 1) /\ \A k \in 1..n : k \in 1..(n + 1) /\ k < n + 1
  BY <1>1
<1>4. \A k \in 1..(n + 1) : k \in 1..n \/ k = n + 1
  BY <1>1
<1>5. \A j, k \in 1..(n + 1) : j < k => j \in 1..n
  BY <1>1
<1>6. ASSUME TextsRise(c)
      PROVE  TextsRise(texts) /\ Rising(text) /\ Before(All(TextSets(texts)), Solids(text))
  <2>1. TextsRise(texts) /\ Rising(text)
    BY <1>1, <1>3, <1>6 DEF TextsRise
  <2>2. ASSUME NEW x \in All(TextSets(texts)) PROVE \A y \in Solids(text) : x < y
    <3>1. PICK k \in 1..n : x \in Solids(texts[k])
      BY <1>1, <2>2 DEF All, TextSets
    <3>2. Before(Solids(c[k]), Solids(c[n + 1]))
      BY <1>1, <1>3, <1>6 DEF TextsRise
    <3> QED
      BY <1>1, <3>1, <3>2 DEF Before
  <2> QED
    BY <2>1, <2>2 DEF Before
<1>7. ASSUME TextsRise(texts), Rising(text), Before(All(TextSets(texts)), Solids(text))
      PROVE  TextsRise(c)
  <2>1. \A k \in 1..(n + 1) : Rising(c[k])
    BY <1>1, <1>4, <1>7 DEF TextsRise
  <2>2. ASSUME NEW j \in 1..(n + 1), NEW k \in 1..(n + 1), j < k
        PROVE  Before(Solids(c[j]), Solids(c[k]))
    <3>1. j \in 1..n
      BY <1>5, <2>2
    <3>2. CASE k \in 1..n
      BY <1>1, <1>7, <2>2, <3>1, <3>2 DEF TextsRise
    <3>3. CASE k = n + 1
      <4>1. Solids(c[j]) \subseteq All(TextSets(texts))
        BY <1>1, <3>1 DEF All, TextSets
      <4> QED
        BY <1>1, <1>7, <3>3, <4>1 DEF Before
    <3> QED
      BY <1>4, <3>2, <3>3
  <2> QED
    BY <1>1, <2>1, <2>2 DEF TextsRise
<1> QED
  BY <1>2, <1>6, <1>7 DEF c

(* No texts say nothing.                                                   *)
LEMMA NoTexts ==
  << >> \in Seq(Text) /\ All(TextSets(<< >>)) = {} /\ TextsRise(<< >>)
PROOF
  BY DEF All, TextSets, TextsRise

(* A flattened sequence of texts has what these have, and rises as they do. *)
LEMMA FlattenedTexts ==
  ASSUME NEW texts \in Seq(Text)
  PROVE  /\ Flattened(texts) \in Text /\ Solids(Flattened(texts)) = All(TextSets(texts))
         /\ Rising(Flattened(texts)) <=> TextsRise(texts)
PROOF
<1> DEFINE H == {s \in Seq(Text) :
                   /\ Flattened(s) \in Text /\ Solids(Flattened(s)) = All(TextSets(s))
                   /\ Rising(Flattened(s)) <=> TextsRise(s)}
<1>1. << >> \in H
  BY FlattenedNone, NoTexts, SolidsOfNothing
<1>2. ASSUME NEW s \in Seq(Text), NEW x \in Text, s \in H PROVE Append(s, x) \in H
  <2>1. Flattened(Append(s, x)) = Flattened(s) \o x
    BY FlattenedMore
  <2>2. /\ Flattened(s) \in Text /\ Solids(Flattened(s)) = All(TextSets(s))
        /\ Rising(Flattened(s)) <=> TextsRise(s)
    BY <1>2
  <2>3. /\ Flattened(Append(s, x)) \in Text
        /\ Solids(Flattened(Append(s, x))) = All(TextSets(s)) \cup Solids(x)
        /\ Rising(Flattened(Append(s, x)))
             <=> TextsRise(s) /\ Rising(x) /\ Before(All(TextSets(s)), Solids(x))
    BY <2>1, <2>2, Concatenated
  <2>4. Append(s, x) \in Seq(Text)
    OBVIOUS
  <2> QED
    BY <2>3, <2>4, TextsRiseMore
<1> HIDE DEF H
<1>3. \A s \in Seq(Text) : s \in H
  BY <1>1, <1>2, BySequences
<1> QED
  BY <1>3 DEF H

(* So do joined texts, if the separator has no solid characters.           *)
LEMMA JoinedTexts ==
  ASSUME NEW texts \in Seq(Text), NEW separator \in Text, Solids(separator) = {}, Rising(separator)
  PROVE  /\ Join(texts, separator) \in Text
         /\ Solids(Join(texts, separator)) = All(TextSets(texts))
         /\ TextsRise(texts) => Rising(Join(texts, separator))
PROOF
<1> SUFFICES ASSUME NEW n \in Nat, n = Len(texts)
             PROVE  /\ Join(texts, separator) \in Text
                    /\ Solids(Join(texts, separator)) = All(TextSets(texts))
                    /\ TextsRise(texts) => Rising(Join(texts, separator))
  OBVIOUS
<1>1. PICK g : /\ g[0] = << >> /\ Join(texts, separator) = g[n]
               /\ \A i \in 1..n :
                    g[i] = IF g[i - 1] = << >> THEN texts[i] ELSE g[i - 1] \o separator \o texts[i]
  BY JoinStages
<1> DEFINE Upto(i) == SubSeq(texts, 1, i)
           H == {i \in 0..n : /\ g[i] \in Text /\ Solids(g[i]) = All(TextSets(Upto(i)))
                              /\ TextsRise(Upto(i)) => Rising(g[i])}
<1>2. 0 \in H
  <2>1. Upto(0) = << >> /\ 0 \in 0..n
    OBVIOUS
  <2> QED
    BY <1>1, <2>1, NoTexts, SolidsOfNothing, Zenon
<1>3. ASSUME NEW i \in 1..n, i - 1 \in H PROVE i \in H
  <2> DEFINE s == Upto(i - 1)
             x == texts[i]
  <2>1. s \in Seq(Text) /\ x \in Text /\ i \in 1..Len(texts) /\ i \in 0..n
    OBVIOUS
  <2>2. Upto(i) = Append(s, x)
    BY <2>1, PartUpTo
  <2>3. /\ g[i - 1] \in Text /\ Solids(g[i - 1]) = All(TextSets(s))
        /\ TextsRise(s) => Rising(g[i - 1])
    BY <1>3
  <2> HIDE DEF s, Upto
  <2>4. /\ All(TextSets(Upto(i))) = All(TextSets(s)) \cup Solids(x)
        /\ TextsRise(Upto(i))
              <=> TextsRise(s) /\ Rising(x) /\ Before(All(TextSets(s)), Solids(x))
    BY <2>1, <2>2, TextsRiseMore
  <2>5. g[i] = IF g[i - 1] = << >> THEN x ELSE g[i - 1] \o separator \o x
    BY <1>1
  <2> DEFINE p == g[i - 1]
  <2> HIDE DEF p, x
  <2>6. /\ g[i] \in Text /\ Solids(g[i]) = All(TextSets(s)) \cup Solids(x)
        /\ Rising(p) /\ Rising(x) /\ Before(Solids(p), Solids(x)) => Rising(g[i])
    <3>1. CASE p = << >>
      BY <2>1, <2>3, <2>5, <3>1, SolidsOfNothing DEF p
    <3>2. CASE p # << >>
      <4>1. /\ p \o separator \in Text /\ Solids(p \o separator) = Solids(p)
            /\ Rising(p) => Rising(p \o separator)
        <5>1. Before(Solids(p), Solids(separator))
          BY DEF Before
        <5>2. /\ p \o separator \in Text /\ Solids(p \o separator) = Solids(p) \cup Solids(separator)
              /\ Rising(p) => Rising(p \o separator)
          <6>1. p \in Text
            BY <2>3 DEF p
          <6> QED
            BY <5>1, <6>1, Concatenated
        <5> QED
          BY <5>2
      <4>2. g[i] = (p \o separator) \o x
        BY <2>5, <3>2 DEF p
      <4> QED
        BY <2>1, <2>3, <4>1, <4>2, Concatenated DEF p
    <3> QED
      BY <3>1, <3>2
  <2>7. /\ g[i] \in Text /\ Solids(g[i]) = All(TextSets(Upto(i)))
        /\ TextsRise(Upto(i)) => Rising(g[i])
    BY <2>3, <2>4, <2>6 DEF p
  <2> QED
    BY <2>1, <2>7
<1>4. n \in H
  <2> HIDE DEF H
  <2>1. \A i \in 0..n : i \in H
    BY <1>2, <1>3, UpToN
  <2> QED
    BY <2>1
<1>5. Upto(n) = texts
  OBVIOUS
<1> QED
  BY <1>1, <1>4, <1>5

-----------------------------------------------------------------------------
(* Cutting a text *)

(* Texts within a budget.                                                  *)
Short(budget) == {text \in Text : Len(text) <= budget}

(* Texts within a budget that are, one after another, the text.            *)
Cuts(cut, text, budget) ==
  cut \in Seq(Short(budget)) /\ cut # << >> /\ Flattened(cut) = text

(* A sequence over a set is one over every larger set.                     *)
LEMMA Widened ==
  ASSUME NEW T, NEW U, T \subseteq U, NEW s \in Seq(T)
  PROVE  s \in Seq(U)
PROOF
  OBVIOUS

(* Texts within a budget are texts.                                        *)
LEMMA ShortAreTexts ==
  ASSUME NEW budget, NEW s \in Seq(Short(budget))
  PROVE  s \in Seq(Text)
PROOF
<1>1. Short(budget) \subseteq Text
  BY DEF Short
<1> QED
  BY <1>1, Widened

(* What is left of texts, each made of texts.                              *)
LEMMA FlattenedTwice ==
  ASSUME NEW cuts \in Seq(Seq(Text))
  PROVE  Flattened(Flattened(cuts)) = Flattened([k \in DOMAIN cuts |-> Flattened(cuts[k])])
PROOF
<1> DEFINE Each(s) == [k \in DOMAIN s |-> Flattened(s[k])]
           H == {s \in Seq(Seq(Text)) : Flattened(Flattened(s)) = Flattened(Each(s))}
<1>1. << >> \in H
  <2>1. << >> \in Seq(Seq(Text)) /\ Each(<< >>) = << >>
    OBVIOUS
  <2> QED
    BY <2>1, FlattenedNone, Zenon
<1>2. ASSUME NEW s \in Seq(Seq(Text)), NEW x \in Seq(Text), s \in H PROVE Append(s, x) \in H
  <2>1. /\ Flattened(Append(s, x)) = Flattened(s) \o x /\ Flattened(s) \in Seq(Text)
        /\ Flattened(x) \in Text
    BY FlattenedMore, FlattenedType, FlattenedTexts
  <2>2. Flattened(Flattened(s) \o x) = Flattened(Flattened(s)) \o Flattened(x)
    <3>1. Flattened(s) \in Seq(Seq(Character)) /\ x \in Seq(Seq(Character))
      BY <2>1 DEF Text
    <3> QED
      BY <3>1, FlattenedBoth
  <2>3. Each(s) \in Seq(Text) /\ Each(Append(s, x)) = Append(Each(s), Flattened(x))
    <3> DEFINE c == Append(s, x)
               n == Len(s)
    <3>1. /\ n \in Nat /\ DOMAIN s = 1..n /\ DOMAIN c = 1..(n + 1) /\ s \in [1..n -> Seq(Text)]
          /\ c[n + 1] = x /\ \A k \in 1..n : c[k] = s[k]
      OBVIOUS
    <3> HIDE DEF c, n
    <3>2. \A k \in 1..n : Flattened(s[k]) \in Text
      BY <3>1, FlattenedTexts
    <3>3. Each(s) \in Seq(Text) /\ Len(Each(s)) = n /\ \A k \in 1..n : Each(s)[k] = Flattened(s[k])
      BY <3>1, <3>2
    <3> DEFINE e == Each(s)
               w == Each(c)
    <3>4. /\ DOMAIN w = 1..(n + 1) /\ w = [k \in DOMAIN w |-> w[k]]
          /\ \A k \in 1..(n + 1) : w[k] = Flattened(c[k])
      BY <3>1
    <3>5. e \in Seq(Text) /\ Len(e) = n /\ \A k \in 1..n : e[k] = Flattened(s[k])
      BY <3>3
    <3> HIDE DEF e, w
    <3>6. /\ Append(e, Flattened(x)) \in Seq(Text)
          /\ DOMAIN Append(e, Flattened(x)) = 1..(n + 1)
          /\ \A k \in 1..(n + 1) : Append(e, Flattened(x))[k] = Flattened(c[k])
      BY <2>1, <3>1, <3>5, SMTT(30)
    <3>7. w \in Seq(Text) /\ Len(w) = n + 1
      <4>1. \A k \in 1..(n + 1) : w[k] \in Text
        BY <3>1, <3>4, <3>6, SMTT(30)
      <4>2. w \in [1..(n + 1) -> Text]
        BY <3>4, <4>1
      <4> QED
        BY <3>1, <4>2
    <3>8. w = Append(e, Flattened(x))
      BY <3>1, <3>4, <3>6, <3>7
    <3> QED
      BY <3>3, <3>8 DEF c, e, w
  <2> HIDE DEF Each
  <2>4. Flattened(Each(Append(s, x))) = Flattened(Each(s)) \o Flattened(x)
    BY <2>1, <2>3, FlattenedMore
  <2>5. Append(s, x) \in Seq(Seq(Text))
    OBVIOUS
  <2> QED
    BY <1>2, <2>1, <2>2, <2>4, <2>5
<1> HIDE DEF H
<1>3. \A s \in Seq(Seq(Text)) : s \in H
  BY <1>1, <1>2, BySequences
<1>4. Flattened(Flattened(cuts)) = Flattened(Each(cuts))
  BY <1>3 DEF H
<1> QED
  BY <1>4

(* A text is its characters.                                               *)
LEMMA CharacterByCharacter ==
  ASSUME NEW text \in Text
  PROVE  /\ [i \in DOMAIN text |-> <<text[i]>>] \in Seq(Text)
         /\ Flattened([i \in DOMAIN text |-> <<text[i]>>]) = text
PROOF
<1> DEFINE Each(s) == [i \in DOMAIN s |-> <<s[i]>>]
           H == {s \in Seq(Character) : Each(s) \in Seq(Text) /\ Flattened(Each(s)) = s}
<1>1. << >> \in H
  <2>1. << >> \in Seq(Character) /\ << >> \in Seq(Text) /\ Each(<< >>) = << >>
    OBVIOUS
  <2> QED
    BY <2>1, FlattenedNone, Zenon
<1>2. ASSUME NEW s \in Seq(Character), NEW x \in Character, s \in H PROVE Append(s, x) \in H
  <2> DEFINE c == Append(s, x)
             n == Len(s)
  <2>1. /\ n \in Nat /\ DOMAIN s = 1..n /\ DOMAIN c = 1..(n + 1)
        /\ c[n + 1] = x /\ \A k \in 1..n : c[k] = s[k]
        /\ c \in Seq(Character) /\ c = s \o <<x>> /\ <<x>> \in Text
    BY DEF Text
  <2> HIDE DEF c, n
  <2> DEFINE e == Each(s)
             w == Each(c)
  <2>2. e \in Seq(Text) /\ Flattened(e) = s
    BY <1>2
  <2>3. Len(e) = n /\ \A k \in 1..n : e[k] = <<s[k]>>
    BY <2>1
  <2>4. /\ DOMAIN w = 1..(n + 1) /\ w = [k \in DOMAIN w |-> w[k]]
        /\ \A k \in 1..(n + 1) : w[k] = <<c[k]>>
    BY <2>1
  <2> HIDE DEF e, w
  <2>5. /\ Append(e, <<x>>) \in Seq(Text) /\ DOMAIN Append(e, <<x>>) = 1..(n + 1)
        /\ \A k \in 1..(n + 1) : Append(e, <<x>>)[k] = <<c[k]>>
    BY <2>1, <2>2, <2>3
  <2> DEFINE v == Append(e, <<x>>)
  <2> HIDE DEF v
  <2>6. w \in Seq(Text) /\ Len(w) = n + 1
    <3>1. \A k \in 1..(n + 1) : w[k] \in Text
      <4>1. v \in Seq(Text) /\ DOMAIN v = 1..(n + 1)
        BY <2>5 DEF v
      <4>2. \A k \in 1..(n + 1) : v[k] \in Text
        BY <4>1, ElementsOf
      <4>3. \A k \in 1..(n + 1) : w[k] = v[k]
        BY <2>4, <2>5 DEF v
      <4> QED
        BY <4>2, <4>3
    <3>2. w \in [1..(n + 1) -> Text]
      BY <2>4, <3>1
    <3> QED
      BY <2>1, <3>2
  <2>7. w = Append(e, <<x>>)
    <3>1. /\ v \in Seq(Text) /\ DOMAIN v = 1..(n + 1)
          /\ \A k \in 1..(n + 1) : v[k] = w[k]
      BY <2>4, <2>5 DEF v
    <3>2. v = w
      BY <2>1, <2>6, <3>1
    <3> QED
      BY <3>2 DEF v
  <2>8. w \in Seq(Text) /\ Flattened(w) = c
    BY <2>1, <2>2, <2>5, <2>7, FlattenedMore
  <2> QED
    BY <2>1, <2>8 DEF c, w
<1> HIDE DEF H
<1>3. \A s \in Seq(Character) : s \in H
  BY <1>1, <1>2, BySequences
<1>4. text \in H
  BY <1>3 DEF Text
<1>5. Each(text) \in Seq(Text) /\ Flattened(Each(text)) = text
  BY <1>4 DEF H
<1> QED
  BY <1>5

(* The pieces so far, with the one that could still grow.                  *)
LEMMA SplitIs ==
  ASSUME NEW T, T \subseteq Text, NEW state \in [done : Seq(T), pending : T]
  PROVE  /\ Split(state) \in Seq(T) /\ state.done \in Seq(T) /\ state.pending \in T
         /\ Flattened(Split(state)) = Flattened(state.done) \o state.pending
PROOF
<1>1. state.done \in Seq(T) /\ state.pending \in T
  OBVIOUS
<1>2. state.done \in Seq(Text) /\ state.pending \in Text
  BY <1>1, Widened
<1>3. Flattened(state.done) \in Text
  BY <1>2, FlattenedTexts
<1>4. CASE state.pending = << >>
  <2>1. Split(state) = state.done
    BY <1>1, <1>4 DEF Split, NonEmpty
  <2>2. Flattened(state.done) \o << >> = Flattened(state.done)
    BY <1>3 DEF Text
  <2> QED
    BY <1>1, <1>4, <2>1, <2>2
<1>5. CASE state.pending # << >>
  <2>1. Split(state) = Append(state.done, state.pending) /\ Split(state) \in Seq(T)
    BY <1>1, <1>5 DEF Split, NonEmpty
  <2> QED
    BY <1>1, <2>1, FlattenedMore
<1> QED
  BY <1>4, <1>5

(* A text is its pieces.                                                   *)
LEMMA PiecesOf ==
  ASSUME NEW text \in Text, NEW separator
  PROVE  /\ Pieces(text, separator) \in Seq(Text)
         /\ Flattened(Pieces(text, separator)) = text
PROOF
<1> SUFFICES ASSUME NEW n \in Nat, n = Len(text)
             PROVE  /\ Pieces(text, separator) \in Seq(Text)
                    /\ Flattened(Pieces(text, separator)) = text
  BY DEF Text
<1>1. PICK g : /\ g[0] = NoPieces /\ Pieces(text, separator) = Split(g[n])
               /\ \A i \in 1..n : g[i] = AddCharacter(g[i - 1], text[i], separator)
  BY PiecesStages
<1> DEFINE State == [done : Seq(Text), pending : Text]
           Upto(i) == SubSeq(text, 1, i)
           H == {i \in 0..n : g[i] \in State /\ Flattened(g[i].done) \o g[i].pending = Upto(i)}
<1>2. 0 \in H
  <2>1. Upto(0) = << >> /\ 0 \in 0..n /\ << >> \in Seq(Text) /\ << >> \in Text
    BY DEF Text
  <2>2. NoPieces \in State /\ NoPieces.done = << >> /\ NoPieces.pending = << >>
    BY <2>1 DEF NoPieces
  <2>3. << >> \o << >> = << >>
    OBVIOUS
  <2> QED
    BY <1>1, <2>1, <2>2, <2>3, FlattenedNone, Zenon
<1>3. ASSUME NEW i \in 1..n, i - 1 \in H PROVE i \in H
  <2> DEFINE p == g[i - 1]
             c == text[i]
  <2>1. /\ Upto(i - 1) \in Text /\ c \in Character /\ i \in 1..Len(text) /\ i \in 0..n
        /\ text \in Seq(Character)
    BY DEF Text
  <2>2. Upto(i) = Append(Upto(i - 1), c)
    BY <2>1, PartUpTo
  <2>3. /\ p.done \in Seq(Text) /\ p.pending \in Text
        /\ Flattened(p.done) \o p.pending = Upto(i - 1)
        /\ p \in State
    BY <1>3
  <2>4. g[i] = AddCharacter(p, c, separator)
    BY <1>1
  <2>5. Flattened(p.done) \in Text
    BY <2>3, FlattenedTexts
  <2> HIDE DEF Upto, c, p
  <2>6. /\ Append(p.pending, c) \in Text
        /\ Flattened(p.done) \o Append(p.pending, c) = Upto(i)
    <3>1. \A a, b \in Seq(Character) : a \o Append(b, c) = Append(a \o b, c)
      BY <2>1
    <3>2. Flattened(p.done) \o Append(p.pending, c) = Append(Flattened(p.done) \o p.pending, c)
      BY <2>3, <2>5, <3>1 DEF Text
    <3> QED
      BY <2>1, <2>2, <2>3, <3>2 DEF Text
  <2>7. CASE c.kind = separator
    <3>1. g[i] = [done |-> Append(p.done, Append(p.pending, c)), pending |-> << >>]
      BY <2>4, <2>7 DEF AddCharacter
    <3>2. Flattened(Append(p.done, Append(p.pending, c)))
            = Flattened(p.done) \o Append(p.pending, c)
      BY <2>3, <2>6, FlattenedMore
    <3>3. Upto(i) \in Text /\ Upto(i) \o << >> = Upto(i)
      BY <2>1, <2>2 DEF Text
    <3>4. g[i].pending = << >> /\ Flattened(g[i].done) \o << >> = Upto(i)
      BY <2>6, <3>1, <3>2, <3>3
    <3>5. g[i] \in State
      BY <2>3, <2>6, <3>1, SolidsOfNothing
    <3> QED
      BY <2>1, <3>4, <3>5
  <2>8. CASE c.kind # separator
    <3>1. g[i] = [p EXCEPT !.pending = Append(@, c)]
      BY <2>4, <2>8 DEF AddCharacter
    <3>2. g[i] \in State /\ g[i].done = p.done /\ g[i].pending = Append(p.pending, c)
      BY <2>3, <2>6, <3>1
    <3> QED
      BY <2>1, <2>6, <3>2
  <2> QED
    BY <2>7, <2>8
<1>4. n \in H
  <2> HIDE DEF H
  <2>1. \A i \in 0..n : i \in H
    BY <1>2, <1>3, UpToN
  <2> QED
    BY <2>1
<1>5. Upto(n) = text
  BY DEF Text
<1>6. g[n] \in State /\ Flattened(g[n].done) \o g[n].pending = text
  BY <1>4, <1>5
<1> HIDE DEF H, Upto
<1> QED
  BY <1>1, <1>6, SplitIs

(* Whatever is gathered is within the budget, and all of it is there.      *)
LEMMA GatheredCuts ==
  ASSUME NEW budget \in Nat, NEW cuts \in Seq(Seq(Short(budget))),
         \A k \in DOMAIN cuts : cuts[k] # << >>
  PROVE  /\ Gathered(cuts, budget) \in Seq(Short(budget))
         /\ Flattened(Gathered(cuts, budget)) = Flattened(Flattened(cuts))
PROOF
<1> DEFINE S == Short(budget)
<1> SUFFICES ASSUME NEW n \in Nat, n = Len(cuts)
             PROVE  /\ Gathered(cuts, budget) \in Seq(S)
                    /\ Flattened(Gathered(cuts, budget)) = Flattened(Flattened(cuts))
  OBVIOUS
<1>0. S \subseteq Text /\ << >> \in S /\ \A t \in S : Len(t) <= budget
  BY SolidsOfNothing DEF Short
<1>1. PICK g : /\ g[0] = NoPieces /\ Gathered(cuts, budget) = Split(g[n])
               /\ \A i \in 1..n : g[i] = AddPiece(g[i - 1], cuts[i], budget)
  BY GatheredStages
<1>2. \A t \in Text : Len(t) <= budget => t \in S
  BY DEF Short
<1> HIDE DEF S
<1> DEFINE State == [done : Seq(S), pending : S]
           Upto(i) == SubSeq(cuts, 1, i)
           H == {i \in 0..n : /\ g[i] \in State
                              /\ Flattened(Split(g[i])) = Flattened(Flattened(Upto(i)))}
<1>3. 0 \in H
  <2>1. Upto(0) = << >> /\ 0 \in 0..n
    OBVIOUS
  <2>2. NoPieces \in State /\ Split(NoPieces) = << >>
    BY <1>0 DEF NoPieces, Split, NonEmpty
  <2> QED
    BY <1>1, <2>1, <2>2, FlattenedNone, Zenon
<1>4. ASSUME NEW i \in 1..n, i - 1 \in H PROVE i \in H
  <2> DEFINE p == g[i - 1]
             c == cuts[i]
             s == Upto(i - 1)
  <2>1. /\ s \in Seq(Seq(S)) /\ c \in Seq(S) /\ c # << >> /\ i \in 1..Len(cuts) /\ i \in 0..n
        /\ cuts \in Seq(Seq(S))
    BY DEF S
  <2>2. Upto(i) = Append(s, c)
    BY <2>1, PartUpTo
  <2>3. p \in State /\ Flattened(Split(p)) = Flattened(Flattened(s))
    BY <1>4
  <2>4. g[i] = AddPiece(p, c, budget)
    BY <1>1
  <2> HIDE DEF Upto, s, c, p
  <2>5. Flattened(Flattened(Upto(i))) = Flattened(Flattened(s)) \o Flattened(c)
    <3>1. Flattened(Upto(i)) = Flattened(s) \o c /\ Flattened(s) \in Seq(S)
      BY <2>1, <2>2, FlattenedMore, FlattenedType
    <3>2. Flattened(s) \in Seq(Seq(Character)) /\ c \in Seq(Seq(Character))
      <4>1. S \subseteq Seq(Character)
        BY <1>0 DEF Text
      <4> QED
        BY <2>1, <3>1, <4>1, Widened
    <3> QED
      BY <3>1, <3>2, FlattenedBoth
  <2>6. /\ p.done \in Seq(S) /\ p.pending \in S /\ Split(p) \in Seq(S)
        /\ Flattened(Split(p)) = Flattened(p.done) \o p.pending
        /\ Flattened(p.done) \in Seq(Character) /\ Flattened(Split(p)) \in Seq(Character)
    <3>1. /\ p.done \in Seq(S) /\ p.pending \in S /\ Split(p) \in Seq(S)
          /\ Flattened(Split(p)) = Flattened(p.done) \o p.pending
      BY <1>0, <2>3, SplitIs
    <3>2. p.done \in Seq(Text) /\ Split(p) \in Seq(Text)
      BY <1>0, <3>1, Widened
    <3> QED
      BY <3>1, <3>2, FlattenedTexts DEF Text
  <2> DEFINE whole == Flattened(Split(p)) \o Flattened(c)
  <2>7. CASE Len(c) > 1
    <3>1. g[i] = [done |-> Split(p) \o c, pending |-> << >>]
      BY <2>4, <2>7 DEF AddPiece
    <3>2. g[i] \in State
      <4>1. Split(p) \o c \in Seq(S)
        BY <2>1, <2>6, JoinedSets
      <4> QED
        BY <1>0, <3>1, <4>1
    <3>3. Split(g[i]) = Split(p) \o c
      <4> DEFINE d == Split(p) \o c
      <4>1. d \in Seq(S)
        BY <2>1, <2>6, JoinedSets
      <4> HIDE DEF d
      <4>2. g[i].done = d /\ g[i].pending = << >>
        BY <3>1 DEF d
      <4>3. Split(g[i]) = d \o << >>
        BY <4>2 DEF Split, NonEmpty
      <4> QED
        BY <4>1, <4>3 DEF d
    <3>4. Flattened(Split(p) \o c) = whole
      <4>1. S \subseteq Seq(Character)
        BY <1>0 DEF Text
      <4>2. Split(p) \in Seq(Seq(Character)) /\ c \in Seq(Seq(Character))
        BY <2>1, <2>6, <4>1, Widened
      <4> QED
        BY <4>2, FlattenedBoth
    <3> QED
      BY <2>1, <2>3, <2>5, <3>2, <3>3, <3>4
  <2>8. CASE ~ (Len(c) > 1)
    <3> DEFINE t == c[1]
    <3>1. c = <<t>> /\ t \in S
      BY <2>1, <2>8, SingleElement
    <3>2. Flattened(c) = t /\ t \in Seq(Character) /\ t \in Text
      BY <1>0, <3>1, FlattenedOne DEF Text
    <3> HIDE DEF t
    <3>3. CASE Len(p.pending \o t) > budget
      <4>1. g[i] = [done |-> Split(p), pending |-> t]
        BY <2>4, <2>8, <3>3 DEF AddPiece, t
      <4>2. g[i] \in State /\ g[i].done = Split(p) /\ g[i].pending = t
        BY <2>6, <3>1, <4>1
      <4>3. Flattened(Split(g[i])) = Flattened(Split(p)) \o t
        BY <1>0, <4>2, SplitIs
      <4> QED
        BY <2>1, <2>3, <2>5, <3>2, <4>2, <4>3
    <3>4. CASE ~ (Len(p.pending \o t) > budget)
      <4>1. g[i] = [p EXCEPT !.pending = @ \o t]
        BY <2>4, <2>8, <3>4 DEF AddPiece, t
      <4>2. p.pending \o t \in S
        <5>1. p.pending \in Text
          BY <1>0, <2>6
        <5>2. p.pending \o t \in Text /\ Len(p.pending \o t) \in Nat
          BY <3>2, <5>1 DEF Text
        <5>3. Len(p.pending \o t) <= budget
          BY <3>4, <5>2
        <5> QED
          BY <1>2, <5>2, <5>3
      <4>3. g[i] \in State /\ g[i].done = p.done /\ g[i].pending = p.pending \o t
        BY <2>3, <2>6, <4>1, <4>2
      <4>4. Flattened(Split(g[i])) = Flattened(p.done) \o (p.pending \o t)
        BY <1>0, <4>3, SplitIs
      <4>5. Flattened(p.done) \o (p.pending \o t) = (Flattened(p.done) \o p.pending) \o t
        <5>1. p.pending \in Seq(Character)
          BY <1>0, <2>6 DEF Text
        <5>2. Flattened(p.done) \in Text /\ p.pending \in Text /\ t \in Text
          BY <2>6, <3>2, <5>1 DEF Text
        <5> QED
          BY <5>2, OneAfterAnother
      <4> QED
        BY <2>1, <2>3, <2>5, <2>6, <3>2, <4>3, <4>4, <4>5
    <3> QED
      BY <3>3, <3>4
  <2> QED
    BY <2>7, <2>8
<1>5. n \in H
  <2> HIDE DEF H
  <2>1. \A i \in 0..n : i \in H
    BY <1>3, <1>4, UpToN
  <2> QED
    BY <2>1
<1>6. Upto(n) = cuts
  BY DEF S
<1>7. g[n] \in State /\ Flattened(Split(g[n])) = Flattened(Flattened(cuts))
  BY <1>5, <1>6
<1>8. Split(g[n]) \in Seq(S)
  BY <1>0, <1>7, SplitIs
<1> QED
  BY <1>1, <1>7, <1>8

(* The cuts of the pieces of a text are gathered to cuts of the text.      *)
LEMMA GatheredPieces ==
  ASSUME NEW budget \in Nat, NEW text \in Text, text # << >>,
         NEW pieces \in Seq(Text), Flattened(pieces) = text,
         NEW cuts, cuts = [k \in DOMAIN pieces |-> cuts[k]],
         \A k \in DOMAIN pieces : Cuts(cuts[k], pieces[k], budget)
  PROVE  Cuts(Gathered(cuts, budget), text, budget)
PROOF
<1>1. /\ cuts \in Seq(Seq(Short(budget))) /\ DOMAIN cuts = DOMAIN pieces
      /\ \A k \in DOMAIN cuts : cuts[k] # << >> /\ Flattened(cuts[k]) = pieces[k]
  <2>1. DOMAIN pieces = 1..Len(pieces) /\ Len(pieces) \in Nat
    OBVIOUS
  <2>2. \A k \in DOMAIN pieces : cuts[k] \in Seq(Short(budget))
    BY DEF Cuts
  <2>3. cuts \in [1..Len(pieces) -> Seq(Short(budget))]
    BY <2>1, <2>2
  <2>4. cuts \in Seq(Seq(Short(budget))) /\ DOMAIN cuts = DOMAIN pieces
    BY <2>1, <2>3
  <2> QED
    BY <2>4 DEF Cuts
<1>2. cuts \in Seq(Seq(Text))
  <2>1. Seq(Short(budget)) \subseteq Seq(Text)
    BY ShortAreTexts
  <2> QED
    BY <1>1, <2>1, Widened
<1>3. [k \in DOMAIN cuts |-> Flattened(cuts[k])] = pieces
  BY <1>1
<1>4. /\ Gathered(cuts, budget) \in Seq(Short(budget))
      /\ Flattened(Gathered(cuts, budget)) = text
  BY <1>1, <1>2, <1>3, GatheredCuts, FlattenedTwice
<1>5. Gathered(cuts, budget) # << >>
  BY <1>4, FlattenedNone
<1> QED
  BY <1>4, <1>5 DEF Cuts

(* A text within the budget is its own cut.                                *)
LEMMA OneCut ==
  ASSUME NEW budget, NEW text \in Text, Len(text) <= budget
  PROVE  Cuts(<<text>>, text, budget)
PROOF
<1>1. text \in Short(budget) /\ text \in Seq(Character)
  BY DEF Short, Text
<1>2. <<text>> \in Seq(Short(budget)) /\ <<text>> # << >>
  BY <1>1
<1> QED
  BY <1>1, <1>2, FlattenedOne DEF Cuts

(* Every way to cut a text.                                                *)
LEMMA SplitByBudgetCuts ==
  ASSUME NEW budget \in Nat \ {0}, NEW text \in Text
  PROVE  Cuts(SplitByBudget(text, budget), text, budget)
PROOF
<1>1. CASE Len(text) <= budget
  BY <1>1, OneCut DEF SplitByBudget
<1>2. CASE ~ (Len(text) <= budget)
  <2> DEFINE pieces == [i \in DOMAIN text |-> <<text[i]>>]
             cuts == [i \in DOMAIN text |-> <<<<text[i]>>>>]
  <2>1. pieces \in Seq(Text) /\ Flattened(pieces) = text
    BY CharacterByCharacter
  <2>2. ASSUME NEW k \in DOMAIN pieces PROVE Cuts(cuts[k], pieces[k], budget)
    <3>1. k \in DOMAIN text /\ pieces[k] = <<text[k]>> /\ cuts[k] = <<pieces[k]>>
      OBVIOUS
    <3>2. pieces[k] \in Text /\ Len(pieces[k]) <= budget
      BY <3>1 DEF Text
    <3> HIDE DEF pieces, cuts
    <3> QED
      BY <3>1, <3>2, OneCut
  <2>3. text # << >>
    BY <1>2
  <2>4. cuts = [k \in DOMAIN pieces |-> cuts[k]]
    OBVIOUS
  <2>5. SplitByBudget(text, budget) = Gathered(cuts, budget)
    BY <1>2 DEF SplitByBudget
  <2> HIDE DEF pieces, cuts
  <2> QED
    BY <2>1, <2>2, <2>3, <2>4, <2>5, GatheredPieces
<1> QED
  BY <1>1, <1>2

(* At the ends of sentences.                                               *)
LEMMA SplitAtStopsCuts ==
  ASSUME NEW budget \in Nat \ {0}, NEW text \in Text
  PROVE  Cuts(SplitAtStops(text, budget), text, budget)
PROOF
<1>1. CASE Len(text) <= budget
  BY <1>1, OneCut DEF SplitAtStops, SplitAt
<1>2. CASE ~ (Len(text) <= budget)
  <2> DEFINE pieces == Pieces(text, "stop")
             cuts == [k \in DOMAIN pieces |-> SplitByBudget(pieces[k], budget)]
  <2>1. pieces \in Seq(Text) /\ Flattened(pieces) = text
    BY PiecesOf
  <2>2. SplitAtStops(text, budget) = Gathered(cuts, budget)
    BY <1>2 DEF SplitAtStops, SplitAt
  <2> HIDE DEF pieces
  <2>3. \A k \in DOMAIN pieces : Cuts(cuts[k], pieces[k], budget)
    BY <2>1, ElementsOf, SplitByBudgetCuts
  <2>4. text # << >>
    BY <1>2
  <2>5. cuts = [k \in DOMAIN pieces |-> cuts[k]]
    OBVIOUS
  <2> HIDE DEF cuts
  <2> QED
    BY <2>1, <2>2, <2>3, <2>4, <2>5, GatheredPieces
<1> QED
  BY <1>1, <1>2

(* At the ends of lines first.                                             *)
LEMMA RecursiveSplitCuts ==
  ASSUME NEW budget \in Nat \ {0}, NEW text \in Text
  PROVE  Cuts(RecursiveSplit(text, budget), text, budget)
PROOF
<1>1. CASE Len(text) <= budget
  BY <1>1, OneCut DEF RecursiveSplit, SplitAt
<1>2. CASE ~ (Len(text) <= budget)
  <2> DEFINE pieces == Pieces(text, "line")
             cuts == [k \in DOMAIN pieces |-> SplitAtStops(pieces[k], budget)]
  <2>1. pieces \in Seq(Text) /\ Flattened(pieces) = text
    BY PiecesOf
  <2>2. RecursiveSplit(text, budget) = Gathered(cuts, budget)
    BY <1>2 DEF RecursiveSplit, SplitAt
  <2> HIDE DEF pieces
  <2>3. \A k \in DOMAIN pieces : Cuts(cuts[k], pieces[k], budget)
    BY <2>1, ElementsOf, SplitAtStopsCuts
  <2>4. text # << >>
    BY <1>2
  <2>5. cuts = [k \in DOMAIN pieces |-> cuts[k]]
    OBVIOUS
  <2> HIDE DEF cuts
  <2> QED
    BY <2>1, <2>2, <2>3, <2>4, <2>5, GatheredPieces
<1> QED
  BY <1>1, <1>2

(* There is room for a text beside a path and an overlap.                  *)
LEMMA RoomForText ==
  ASSUME NEW path \in Seq(STRING)
  PROVE  /\ ContentBudget(path) \in Nat /\ ContentBudget(path) <= MaxTokens
         /\ ContentBudget(path) - OverlapTokens - 2 \in Nat \ {0}
         /\ ContentBudget(path) - 0 - 2 \in Nat \ {0}
PROOF
<1>1. Len(path) \in Nat
  OBVIOUS
<1>2. ContextTokens(path) \in Nat /\ ContextTokens(path) <= MaxTokens \div 4
  <2>1. /\ ContextLimit \in Nat /\ ContextLimit <= MaxTokens \div 4
    BY ChunkConfigAssumption DEF ContextLimit
  <2> QED
    BY <1>1, <2>1, ChunkConfigAssumption DEF ContextTokens
<1>3. MaxTokens \div 4 \in Nat /\ 4 * (MaxTokens \div 4) <= MaxTokens
  BY ChunkConfigAssumption
<1>4. MaxTokens \div 2 \in Nat /\ 2 * (MaxTokens \div 2) <= MaxTokens
  BY ChunkConfigAssumption
<1> DEFINE d == IF ContextTokens(path) > 0 THEN 1 ELSE 0
<1>5. d \in {0, 1}
  OBVIOUS
<1>6. ContentBudget(path) = MaxTokens - ContextTokens(path) - d
  BY DEF ContentBudget
<1> DEFINE c == ContextTokens(path)
           q == MaxTokens \div 4
           h == MaxTokens \div 2
<1>7. /\ MaxTokens \in Nat /\ MaxTokens >= 12 /\ OverlapTokens \in Nat
      /\ OverlapTokens + 1 <= h /\ h \in Nat /\ q \in Nat /\ c \in Nat /\ d \in {0, 1}
      /\ c <= q /\ 4 * q <= MaxTokens /\ 2 * h <= MaxTokens
      /\ ContentBudget(path) = MaxTokens - c - d
  BY <1>2, <1>3, <1>4, <1>5, <1>6, ChunkConfigAssumption
<1> HIDE DEF c, d, q, h
<1> QED
  BY <1>7

(* Joining pieces changes nothing of the text.                             *)
LEMMA RejoinedCuts ==
  ASSUME NEW path \in Seq(STRING), NEW budget, budget = ContentBudget(path),
         NEW pieces \in Seq(Short(budget))
  PROVE  /\ Rejoined(pieces, path) \in Seq(Short(budget))
         /\ Flattened(Rejoined(pieces, path)) = Flattened(pieces)
PROOF
<1> DEFINE S == Short(budget)
<1> SUFFICES ASSUME NEW n \in Nat, n = Len(pieces)
             PROVE  /\ Rejoined(pieces, path) \in Seq(S)
                    /\ Flattened(Rejoined(pieces, path)) = Flattened(pieces)
  OBVIOUS
<1>1. PICK g : /\ g[0] = << >> /\ Rejoined(pieces, path) = g[n]
               /\ \A i \in 1..n : g[i] = Rejoin(g[i - 1], pieces[i], path)
  BY RejoinedStages, SMTT(30)
<1>2. S \subseteq Text /\ \A t \in Text : Fits(t, path) => t \in S
  BY DEF Short, Fits
<1> HIDE DEF S
<1> DEFINE Upto(i) == SubSeq(pieces, 1, i)
           H == {i \in 0..n : g[i] \in Seq(S) /\ Flattened(g[i]) = Flattened(Upto(i))}
<1>3. 0 \in H
  <2>1. Upto(0) = << >> /\ 0 \in 0..n /\ << >> \in Seq(S)
    OBVIOUS
  <2> QED
    BY <1>1, <2>1, Zenon
<1>4. ASSUME NEW i \in 1..n, i - 1 \in H PROVE i \in H
  <2> DEFINE p == g[i - 1]
             x == pieces[i]
             s == Upto(i - 1)
  <2>1. /\ s \in Seq(S) /\ x \in S /\ i \in 1..Len(pieces) /\ i \in 0..n /\ pieces \in Seq(S)
    BY DEF S
  <2>2. Upto(i) = Append(s, x)
    BY <2>1, PartUpTo
  <2>3. p \in Seq(S) /\ Flattened(p) = Flattened(s)
    BY <1>4
  <2>4. g[i] = Rejoin(p, x, path)
    BY <1>1
  <2> HIDE DEF Upto, s, x, p
  <2>5. Flattened(Upto(i)) = Flattened(p) \o x
    BY <2>1, <2>2, <2>3, FlattenedMore
  <2>6. CASE g[i] = Append(p, x)
    <3>1. p \in Seq(S) /\ x \in S
      BY <2>1, <2>3
    <3>2. Append(p, x) \in Seq(S)
      BY <3>1
    <3>3. Flattened(Append(p, x)) = Flattened(p) \o x
      BY <3>1, FlattenedMore
    <3> QED
      BY <2>1, <2>5, <2>6, <3>2, <3>3
  <2>7. CASE /\ p # << >> /\ Fits(Last(p) \o x, path)
             /\ g[i] = Append(Front(p), Last(p) \o x)
    <3> DEFINE f == Front(p)
               l == Last(p)
    <3>1. f \in Seq(S) /\ l \in S /\ p = Append(f, l)
      BY <2>3, <2>7, FrontAndLast
    <3>2. Fits(l \o x, path) /\ g[i] = Append(f, l \o x)
      BY <2>7
    <3> HIDE DEF f, l
    <3>3. l \in Text /\ x \in Text /\ l \o x \in Text /\ l \o x \in S
      <4>1. l \in Text /\ x \in Text
        BY <1>2, <2>1, <3>1
      <4>2. l \o x \in Text
        BY <4>1, Concatenated
      <4> QED
        BY <1>2, <3>2, <4>1, <4>2
    <3>4. Flattened(f) \in Text
      BY <1>2, <3>1, Widened, FlattenedTexts
    <3>5. Flattened(g[i]) = Flattened(f) \o (l \o x)
      BY <3>1, <3>2, <3>3, FlattenedMore
    <3>6. Flattened(p) = Flattened(f) \o l
      BY <3>1, FlattenedMore
    <3>7. Flattened(g[i]) = Flattened(p) \o x
      BY <3>3, <3>4, <3>5, <3>6, OneAfterAnother, SMTT(30)
    <3>8. g[i] \in Seq(S)
      BY <3>1, <3>2, <3>3
    <3> QED
      BY <2>1, <2>5, <3>7, <3>8
  <2> QED
    BY <2>4, <2>6, <2>7 DEF Rejoin
<1>5. n \in H
  <2> HIDE DEF H
  <2>1. \A i \in 0..n : i \in H
    BY <1>3, <1>4, UpToN
  <2> QED
    BY <2>1
<1>6. Upto(n) = pieces
  BY DEF S
<1> QED
  BY <1>1, <1>5, <1>6

(* An overlap is of the text before.                                       *)
LEMMA OverlappedIs ==
  ASSUME NEW path \in Seq(STRING), NEW budget, budget = ContentBudget(path),
         NEW previous \in Text, NEW base \in Short(budget)
  PROVE  /\ Overlapped(previous, base, path) \in Short(budget)
         /\ Solids(base) \subseteq Solids(Overlapped(previous, base, path))
         /\ Solids(Overlapped(previous, base, path)) \subseteq Solids(previous) \cup Solids(base)
PROOF
<1> DEFINE room == {m \in 1..OverlapTokens :
                      m <= Len(previous) /\ m + 1 + Len(base) <= ContentBudget(path)}
           n == Max({0} \cup room)
<1>1. OverlapTokens \in Nat /\ budget \in Nat /\ Len(previous) \in Nat /\ Len(base) \in Nat
  BY ChunkConfigAssumption, RoomForText, SMTT(30) DEF Short, Text
<1>2. n \in {0} \cup room
  <2>1. {0} \cup room \in SUBSET (0..OverlapTokens) /\ {0} \cup room # {}
    BY <1>1
  <2> DEFINE R == {0} \cup room
  <2>2. R \in SUBSET (0..OverlapTokens) /\ R # {}
    BY <2>1
  <2> HIDE DEF R
  <2>3. \E k \in R : \A m \in R : k >= m
    BY <1>1, <2>2, GreatestNatural
  <2>4. Max(R) \in R
    BY <2>3 DEF Max
  <2> QED
    BY <2>4 DEF R
<1>3. base \in Text /\ Len(base) <= budget
  BY DEF Short
<1>4. Overlapped(previous, base, path) =
        IF n = 0 THEN base
        ELSE SubSeq(previous, Len(previous) - n + 1, Len(previous)) \o <<LineBreak>> \o base
  BY DEF Overlapped
<1>5. CASE n = 0
  BY <1>4, <1>5
<1>6. CASE n # 0
  <2>1. n \in Nat /\ 1 <= n /\ n <= Len(previous) /\ n + 1 + Len(base) <= budget
    BY <1>1, <1>2, <1>6
  <2> HIDE DEF n
  <2> DEFINE m == Len(previous) - n + 1
             part == SubSeq(previous, m, Len(previous))
  <2>2. m \in Nat /\ 1 <= m /\ m <= Len(previous) /\ Len(previous) - m + 1 = n
    BY <1>1, <2>1
  <2>3. part \in Text /\ Len(part) = n /\ Solids(part) \subseteq Solids(previous)
    <3> HIDE DEF m
    <3> QED
      BY <1>1, <2>2, PartOf
  <2>4. Overlapped(previous, base, path) = (part \o <<LineBreak>>) \o base
    BY <1>4, <1>6
  <2> HIDE DEF part
  <2>5. /\ part \o <<LineBreak>> \in Text /\ Len(part \o <<LineBreak>>) = n + 1
        /\ Solids(part \o <<LineBreak>>) \subseteq Solids(previous)
    <3>1. <<LineBreak>> \in Text /\ Len(<<LineBreak>>) = 1 /\ Solids(<<LineBreak>>) = {}
      BY SolidsOfNothing
    <3> HIDE DEF LineBreak
    <3>2. /\ part \o <<LineBreak>> \in Text
          /\ Len(part \o <<LineBreak>>) = Len(part) + Len(<<LineBreak>>)
          /\ Solids(part \o <<LineBreak>>) = Solids(part) \cup Solids(<<LineBreak>>)
      BY <2>3, <3>1, Concatenated
    <3> QED
      BY <2>3, <3>1, <3>2
  <2> DEFINE front == part \o <<LineBreak>>
  <2> HIDE DEF front
  <2>6. /\ front \o base \in Text /\ Len(front \o base) = Len(front) + Len(base)
        /\ Solids(front \o base) = Solids(front) \cup Solids(base)
    BY <1>3, <2>5, Concatenated DEF front
  <2>7. Len(front \o base) <= budget
    BY <1>1, <2>1, <2>5, <2>6 DEF front
  <2>8. Overlapped(previous, base, path) = front \o base
    BY <2>4 DEF front
  <2>9. front \o base \in Short(budget) /\ Solids(front) \subseteq Solids(previous)
    BY <2>5, <2>6, <2>7 DEF Short, front
  <2> QED
    BY <2>6, <2>8, <2>9
<1> QED
  BY <1>5, <1>6

(* What came before an element of a sequence of sets.                      *)
Earlier(sets, i) == UNION {sets[j] : j \in 1..(i - 1)}

(* What is new in each set comes after everything before it.               *)
Ascending(sets) ==
  \A i \in DOMAIN sets : Before(Earlier(sets, i), sets[i] \ Earlier(sets, i))

(* What came before the next element.                                      *)
LEMMA EarlierMore ==
  ASSUME NEW sets, NEW i \in Nat \ {0}
  PROVE  Earlier(sets, i + 1) = Earlier(sets, i) \cup sets[i]
PROOF
<1>1. 1..((i + 1) - 1) = (1..(i - 1)) \cup {i}
  OBVIOUS
<1> QED
  BY <1>1 DEF Earlier

(* A sequence is in order when what is new in each set comes after         *)
(* everything before it.                                                   *)
LEMMA AscendingIsInOrder ==
  ASSUME NEW sets \in Sets
  PROVE  InOrder(sets) <=> Ascending(sets)
PROOF
<1>1. DOMAIN sets = 1..Len(sets) /\ Len(sets) \in Nat
  BY DEF Sets
<1>2. ASSUME InOrder(sets), NEW i \in DOMAIN sets
      PROVE  Before(Earlier(sets, i), sets[i] \ Earlier(sets, i))
  <2>1. SUFFICES ASSUME NEW x \in Earlier(sets, i), NEW y \in New(sets, i) PROVE x < y
    BY DEF Before, New, Earlier
  <2>2. PICK j \in 1..(i - 1) : x \in New(sets, j)
    <3> DEFINE T == {j \in 1..(i - 1) : x \in sets[j]}
    <3>1. T \in SUBSET Nat /\ T # {}
      BY <1>1, <2>1 DEF Earlier
    <3>2. PICK j \in T : \A k \in T : j <= k
      <4> HIDE DEF T
      <4> QED
        BY <3>1, LeastNatural
    <3>3. \A k \in 1..(j - 1) : k \in 1..(i - 1) /\ ~ (j <= k)
      BY <1>1
    <3>4. \A k \in 1..(j - 1) : x \notin sets[k]
      BY <3>2, <3>3
    <3> QED
      BY <3>4 DEF New
  <2>3. j \in DOMAIN sets /\ j < i
    BY <1>1
  <2> QED
    BY <1>2, <2>1, <2>2, <2>3 DEF InOrder, Before
<1>3. ASSUME Ascending(sets), NEW i \in DOMAIN sets, NEW j \in DOMAIN sets, i < j
      PROVE  Before(New(sets, i), New(sets, j))
  <2>1. i \in 1..(j - 1)
    BY <1>1, <1>3
  <2>2. New(sets, i) \subseteq Earlier(sets, j)
    BY <2>1 DEF New, Earlier
  <2>3. New(sets, j) = sets[j] \ Earlier(sets, j)
    BY DEF New, Earlier
  <2> QED
    BY <1>3, <2>2, <2>3 DEF Ascending, Before
<1> QED
  BY <1>2, <1>3 DEF InOrder, Ascending

(* What is left of strings that are stripped and dropped when empty.       *)
LEMMA StrippedTexts ==
  ASSUME NEW budget \in Nat, NEW texts \in Seq(Short(budget))
  PROVE  /\ Stripped(texts) \in Seq(Short(budget))
         /\ All(TextSets(Stripped(texts))) = All(TextSets(texts))
         /\ Ascending(TextSets(texts)) => InOrder(TextSets(Stripped(texts)))
PROOF
<1> DEFINE S == Short(budget)
           stripped == [i \in DOMAIN texts |-> Strip(texts[i])]
           K == Range(stripped) \ {<< >>}
<1> SUFFICES ASSUME NEW n \in Nat, n = Len(texts)
             PROVE  /\ Stripped(texts) \in Seq(S)
                    /\ All(TextSets(Stripped(texts))) = All(TextSets(texts))
                    /\ Ascending(TextSets(texts)) => InOrder(TextSets(Stripped(texts)))
  OBVIOUS
<1>1. DOMAIN texts = 1..n /\ \A i \in 1..n : texts[i] \in S
  OBVIOUS
<1>2. /\ S \subseteq Text /\ texts \in Seq(Text)
      /\ \A i \in 1..n : Strip(texts[i]) \in S /\ Solids(Strip(texts[i])) = Solids(texts[i])
  <2>1. S \subseteq Text /\ texts \in Seq(Text)
    BY ShortAreTexts DEF Short
  <2>2. ASSUME NEW i \in 1..n
        PROVE  Strip(texts[i]) \in S /\ Solids(Strip(texts[i])) = Solids(texts[i])
    <3>1. texts[i] \in Text /\ Len(texts[i]) <= budget
      BY <1>1 DEF Short
    <3>2. /\ Strip(texts[i]) \in Text /\ Len(Strip(texts[i])) <= Len(texts[i])
          /\ Solids(Strip(texts[i])) = Solids(texts[i])
      BY <3>1, Stripping
    <3>3. Len(Strip(texts[i])) \in Nat /\ Len(texts[i]) \in Nat
      BY <3>1, <3>2 DEF Text
    <3> QED
      BY <3>1, <3>2, <3>3 DEF Short
  <2> QED
    BY <2>1, <2>2
<1> HIDE DEF S
<1>3. /\ n = Len(stripped) /\ DOMAIN stripped = 1..n
      /\ \A i \in 1..n : stripped[i] = Strip(texts[i]) /\ stripped[i] \in Range(stripped)
  BY <1>1 DEF Range
<1>4. Stripped(texts) = Selected(stripped, K)
  BY DEF Stripped
<1> HIDE DEF stripped
<1>5. PICK g : /\ g[0] = << >> /\ Selected(stripped, K) = g[n]
               /\ \A i \in 1..n :
                    g[i] = IF stripped[i] \in K THEN Append(g[i - 1], stripped[i]) ELSE g[i - 1]
  <2>1. n = Len(stripped)
    BY <1>3
  <2> QED
    BY <2>1, SelectedStages, SMTT(30)
<1>6. \A i \in 1..n : stripped[i] \in K <=> stripped[i] # << >>
  BY <1>3
<1> HIDE DEF K
<1> DEFINE sets == TextSets(texts)
           H == {i \in 0..n : /\ g[i] \in Seq(S) /\ All(TextSets(g[i])) = Earlier(sets, i + 1)
                              /\ Ascending(sets) => InOrder(TextSets(g[i]))}
<1>7. /\ sets \in Sets /\ DOMAIN sets = 1..n /\ Len(sets) = n
      /\ \A i \in 1..n : sets[i] = Solids(texts[i]) /\ sets[i] \in SUBSET Nat
  <2>1. sets \in Sets /\ DOMAIN sets = 1..n /\ \A i \in 1..n : sets[i] = Solids(texts[i])
    BY <1>1, <1>2, TextSetsOf DEF TextSets
  <2>2. Len(sets) = n
    BY <1>2, TextSetsOf
  <2>3. \A i \in 1..n : Solids(texts[i]) \in SUBSET Nat
    BY <1>1, <1>2, SolidsAreNumbers
  <2> QED
    BY <2>1, <2>2, <2>3
<1> HIDE DEF sets
<1>8. 0 \in H
  <2>1. 0 \in 0..n /\ << >> \in Seq(S) /\ Earlier(sets, 0 + 1) = {}
    BY DEF Earlier
  <2>2. All(TextSets(<< >>)) = {} /\ InOrder(TextSets(<< >>))
    BY DEF All, TextSets, InOrder
  <2> QED
    BY <1>5, <2>1, <2>2, Zenon
<1>9. ASSUME NEW i \in 1..n, i - 1 \in H PROVE i \in H
  <2> DEFINE p == g[i - 1]
             x == Strip(texts[i])
             X == Solids(texts[i])
  <2>1. /\ p \in Seq(S) /\ All(TextSets(p)) = Earlier(sets, (i - 1) + 1)
        /\ Ascending(sets) => InOrder(TextSets(p))
    BY <1>9
  <2>2. (i - 1) + 1 = i /\ i \in 0..n /\ i \in Nat \ {0}
    OBVIOUS
  <2>3. /\ Earlier(sets, i + 1) = Earlier(sets, i) \cup X
        /\ All(TextSets(p)) = Earlier(sets, i) /\ X \in SUBSET Nat
    BY <1>7, <2>1, <2>2, EarlierMore
  <2>4. x \in S /\ Solids(x) = X
    BY <1>2
  <2>5. CASE x = << >>
    <3>1. X = {} /\ g[i] = p
      BY <1>3, <1>5, <1>6, <2>4, <2>5, SolidsOfNothing
    <3> QED
      BY <2>1, <2>2, <2>3, <3>1
  <2>6. CASE x # << >>
    <3>1. g[i] = Append(p, x)
      BY <1>3, <1>5, <1>6, <2>6
    <3> HIDE DEF p, x, X
    <3>2. /\ p \in Seq(Text) /\ x \in Text /\ g[i] \in Seq(S)
      BY <1>2, <2>1, <2>4, <3>1, Widened
    <3>3. TextSets(g[i]) = Append(TextSets(p), X) /\ TextSets(p) \in Sets
      BY <2>4, <3>1, <3>2, TextSetsMore, TextSetsOf
    <3>4. /\ All(TextSets(g[i])) = Earlier(sets, i + 1)
          /\ InOrder(TextSets(p)) /\ Before(Earlier(sets, i), X \ Earlier(sets, i))
               => InOrder(TextSets(g[i]))
      BY <2>3, <3>3, OrderWithMore
    <3>5. Ascending(sets) => Before(Earlier(sets, i), X \ Earlier(sets, i))
      BY <1>7 DEF Ascending, X
    <3> QED
      BY <2>1, <2>2, <3>2, <3>4, <3>5
  <2> QED
    BY <2>5, <2>6
<1>10. n \in H
  <2> HIDE DEF H
  <2>1. \A i \in 0..n : i \in H
    BY <1>8, <1>9, UpToN
  <2> QED
    BY <2>1
<1>11. Earlier(sets, n + 1) = All(sets)
  <2>1. (n + 1) - 1 = n
    OBVIOUS
  <2> QED
    BY <1>7, <2>1 DEF Earlier, All
<1> QED
  BY <1>4, <1>5, <1>10, <1>11 DEF sets

(* The pieces of a text fit beside the path, and have its characters in    *)
(* their order.                                                            *)
LEMMA SplitTextIs ==
  ASSUME NEW text \in Text, NEW path \in Seq(STRING), NEW overlap \in BOOLEAN,
         NEW budget, budget = ContentBudget(path)
  PROVE  /\ SplitText(text, path, overlap) \in Seq(Short(budget))
         /\ All(TextSets(SplitText(text, path, overlap))) = Solids(text)
         /\ Rising(text) => InOrder(TextSets(SplitText(text, path, overlap)))
PROOF
<1> DEFINE reserved == IF overlap THEN OverlapTokens ELSE 0
<1>1. CASE Fits(text, path)
  <2>1. SplitText(text, path, overlap) = <<text>> /\ text \in Short(budget)
    BY <1>1 DEF SplitText, Short, Fits
  <2>2. TextSets(<<text>>) = <<Solids(text)>>
    BY DEF TextSets
  <2>3. All(<<Solids(text)>>) = Solids(text) /\ InOrder(<<Solids(text)>>)
    BY DEF All, InOrder
  <2>4. <<text>> \in Seq(Short(budget))
    BY <2>1
  <2> QED
    BY <2>1, <2>2, <2>3, <2>4, Zenon
<1>2. CASE ~ Fits(text, path)
  <2> DEFINE small == budget - reserved - 2
             cut == RecursiveSplit(text, small)
             bases == Rejoined(cut, path)
             pieces == WithOverlaps(bases, path, reserved)
  <2>1. small \in Nat \ {0} /\ small <= budget /\ budget \in Nat
    BY RoomForText, ChunkConfigAssumption
  <2>2. SplitText(text, path, overlap) = Stripped(pieces)
    BY <1>2 DEF SplitText
  <2>3. pieces = [i \in DOMAIN bases |-> IF i = 1 \/ reserved = 0 THEN bases[i]
                                         ELSE Overlapped(bases[i - 1], bases[i], path)]
    BY DEF WithOverlaps
  <2> HIDE DEF small, reserved, pieces
  <2>4. cut \in Seq(Short(small)) /\ Flattened(cut) = text
    BY <2>1, RecursiveSplitCuts DEF Cuts
  <2> HIDE DEF cut
  <2>5. cut \in Seq(Short(budget))
    <3>1. Short(small) \subseteq Short(budget)
      <4> SUFFICES ASSUME NEW t \in Text, Len(t) <= small PROVE Len(t) <= budget
        BY DEF Short
      <4>1. Len(t) \in Nat
        BY DEF Text
      <4> QED
        BY <2>1, <4>1
    <3> QED
      BY <2>4, <3>1, Widened
  <2>6. bases \in Seq(Short(budget)) /\ Flattened(bases) = text
    BY <2>4, <2>5, RejoinedCuts
  <2> HIDE DEF bases
  <2> SUFFICES ASSUME NEW n \in Nat, n = Len(bases)
               PROVE  /\ Stripped(pieces) \in Seq(Short(budget))
                      /\ All(TextSets(Stripped(pieces))) = Solids(text)
                      /\ Rising(text) => InOrder(TextSets(Stripped(pieces)))
    BY <2>2, <2>6
  <2>7. /\ bases \in Seq(Text) /\ DOMAIN bases = 1..n /\ DOMAIN pieces = 1..n
        /\ \A i \in 1..n : bases[i] \in Text /\ bases[i] \in Short(budget)
    BY <2>3, <2>6, ShortAreTexts
  <2>8. All(TextSets(bases)) = Solids(text) /\ (Rising(text) => TextsRise(bases))
    BY <2>6, <2>7, FlattenedTexts
  <2>9. ASSUME NEW i \in 1..n
        PROVE  /\ pieces[i] \in Short(budget) /\ Solids(bases[i]) \subseteq Solids(pieces[i])
               /\ Solids(pieces[i])
                    \subseteq Solids(bases[i]) \cup UNION {Solids(bases[j]) : j \in 1..(i - 1)}
    <3>1. CASE i = 1 \/ reserved = 0
      BY <2>3, <2>7, <3>1
    <3>2. CASE ~ (i = 1 \/ reserved = 0)
      <4>1. i - 1 \in 1..n /\ i - 1 \in 1..(i - 1)
        BY <3>2
      <4>2. pieces[i] = Overlapped(bases[i - 1], bases[i], path)
        BY <2>3, <2>7, <3>2
      <4>3. /\ pieces[i] \in Short(budget) /\ Solids(bases[i]) \subseteq Solids(pieces[i])
            /\ Solids(pieces[i]) \subseteq Solids(bases[i - 1]) \cup Solids(bases[i])
        BY <2>7, <4>1, <4>2, OverlappedIs
      <4> QED
        BY <4>1, <4>3
    <3> QED
      BY <3>1, <3>2
  <2>10. pieces \in Seq(Short(budget)) /\ pieces \in Seq(Text)
    <3>1. pieces = [i \in 1..n |-> pieces[i]]
      BY <2>3, <2>7
    <3>2. pieces \in [1..n -> Short(budget)]
      BY <2>9, <3>1
    <3>3. pieces \in Seq(Short(budget))
      BY <3>2
    <3> QED
      BY <3>3, ShortAreTexts
  <2> DEFINE sets == TextSets(pieces)
             parts == TextSets(bases)
  <2>11. /\ DOMAIN sets = 1..n /\ DOMAIN parts = 1..n
         /\ \A i \in 1..n : sets[i] = Solids(pieces[i]) /\ parts[i] = Solids(bases[i])
    BY <2>7 DEF TextSets
  <2> HIDE DEF sets, parts
  <2>12. \A i \in 1..n : parts[i] \subseteq sets[i] /\ sets[i] \subseteq parts[i] \cup Earlier(parts, i)
    <3> SUFFICES ASSUME NEW i \in 1..n
                 PROVE  parts[i] \subseteq sets[i] /\ sets[i] \subseteq parts[i] \cup Earlier(parts, i)
      OBVIOUS
    <3>1. \A j \in 1..(i - 1) : j \in 1..n
      OBVIOUS
    <3>2. UNION {Solids(bases[j]) : j \in 1..(i - 1)} = Earlier(parts, i)
      BY <2>11, <3>1 DEF Earlier
    <3> QED
      BY <2>9, <2>11, <3>2
  <2>13. All(sets) = All(parts)
    <3>1. ASSUME NEW i \in 1..n PROVE Earlier(parts, i) \subseteq All(parts)
      <4>1. \A j \in 1..(i - 1) : j \in 1..n
        OBVIOUS
      <4> QED
        BY <2>11, <4>1 DEF Earlier, All
    <3>2. \A i \in 1..n : sets[i] \subseteq All(parts)
      BY <2>11, <2>12, <3>1 DEF All
    <3> QED
      BY <2>11, <2>12, <3>2 DEF All
  <2>14. ASSUME Rising(text) PROVE Ascending(sets)
    <3>1. SUFFICES ASSUME NEW i \in 1..n, NEW x \in Earlier(sets, i),
                          NEW y \in sets[i], y \notin Earlier(sets, i)
                   PROVE  x < y
      BY <2>11 DEF Ascending, Before
    <3>2. \A j \in 1..(i - 1) : j \in 1..n /\ j < i
      OBVIOUS
    <3>3. y \in parts[i]
      <4>1. Earlier(parts, i) \subseteq Earlier(sets, i)
        BY <2>12, <3>2 DEF Earlier
      <4> QED
        BY <2>12, <3>1, <4>1
    <3>4. PICK j \in 1..(i - 1) : x \in parts[j]
      <4>1. PICK k \in 1..(i - 1) : x \in sets[k]
        BY <3>1 DEF Earlier
      <4>2. k \in 1..n /\ \A j \in 1..(k - 1) : j \in 1..(i - 1)
        OBVIOUS
      <4> QED
        BY <2>12, <4>1, <4>2 DEF Earlier
    <3>5. Before(Solids(bases[j]), Solids(bases[i]))
      BY <2>7, <2>8, <2>14, <3>2 DEF TextsRise
    <3> QED
      BY <2>11, <3>2, <3>3, <3>4, <3>5 DEF Before
  <2>15. /\ Stripped(pieces) \in Seq(Short(budget))
         /\ All(TextSets(Stripped(pieces))) = All(sets)
         /\ Ascending(sets) => InOrder(TextSets(Stripped(pieces)))
    BY <2>1, <2>10, StrippedTexts DEF sets
  <2> QED
    BY <2>8, <2>13, <2>14, <2>15 DEF parts
<1> QED
  BY <1>1, <1>2

-----------------------------------------------------------------------------
(* Drafts of chunks *)

Ref == Nat \cup (STRING \X Nat)

Kind == {"heading", "paragraph", "code", "table", "text"}

(* What is cut from a document, before and after it is merged.             *)
Draft == [content : Text, path : Seq(STRING), page : Nat, kind : Kind, refs : SUBSET Ref,
          rows : Seq(Nat), split : BOOLEAN, merged : BOOLEAN]

ParsedElement ==
  [kind : Kind, text : Text, rows : Seq(Text), caption : Text, header : Nat \ {0},
   page : Nat, path : Seq(STRING), ref : Ref, artifact : BOOLEAN]

(* The numbers of the characters of a block or an element, and of drafts.  *)
Said(element) == Solid(CharactersOf(element))
Contents(drafts) == [k \in DOMAIN drafts |-> Solids(drafts[k].content)]

(* The sets of drafts.                                                     *)
LEMMA ContentsOf ==
  ASSUME NEW drafts \in Seq(Draft)
  PROVE  /\ Contents(drafts) \in Sets /\ DOMAIN Contents(drafts) = DOMAIN drafts
         /\ Len(Contents(drafts)) = Len(drafts)
         /\ \A k \in DOMAIN drafts : /\ drafts[k] \in Draft /\ drafts[k].content \in Text
                                     /\ Contents(drafts)[k] = Solids(drafts[k].content)
                                     /\ Solids(drafts[k].content) \in SUBSET Nat
PROOF
<1>1. \A k \in DOMAIN drafts : drafts[k] \in Draft /\ drafts[k].content \in Text
  <2>1. \A k \in DOMAIN drafts : drafts[k] \in Draft
    BY ElementsOf
  <2> QED
    BY <2>1 DEF Draft
<1>2. \A k \in DOMAIN drafts : Solids(drafts[k].content) \in SUBSET Nat
  BY <1>1, SolidsAreNumbers
<1>3. DOMAIN drafts = 1..Len(drafts) /\ Len(drafts) \in Nat
  OBVIOUS
<1>4. Contents(drafts) \in [1..Len(drafts) -> SUBSET Nat]
  BY <1>2, <1>3 DEF Contents
<1>5. Contents(drafts) \in Sets /\ Len(Contents(drafts)) = Len(drafts)
  BY <1>3, <1>4 DEF Sets
<1> QED
  BY <1>1, <1>2, <1>3, <1>4, <1>5 DEF Contents

(* The sets of drafts after others.                                        *)
LEMMA ContentsOfBoth ==
  ASSUME NEW a \in Seq(Draft), NEW b \in Seq(Draft)
  PROVE  a \o b \in Seq(Draft) /\ Contents(a \o b) = Contents(a) \o Contents(b)
PROOF
<1> DEFINE c == a \o b
           v == Contents(c)
           x == Contents(a)
           y == Contents(b)
           w == x \o y
<1>1. /\ c \in Seq(Draft) /\ DOMAIN c = 1..(Len(a) + Len(b)) /\ Len(c) = Len(a) + Len(b)
      /\ DOMAIN a = 1..Len(a) /\ DOMAIN b = 1..Len(b) /\ Len(a) \in Nat /\ Len(b) \in Nat
      /\ \A i \in 1..Len(a) : c[i] = a[i]
      /\ \A i \in 1..(Len(a) + Len(b)) : i \notin 1..Len(a) =>
           i - Len(a) \in 1..Len(b) /\ c[i] = b[i - Len(a)]
  BY JoinedSets
<1> HIDE DEF c
<1>2. /\ v \in Sets /\ Len(v) = Len(a) + Len(b)
      /\ \A i \in 1..(Len(a) + Len(b)) : v[i] = Solids(c[i].content)
  BY <1>1, ContentsOf
<1>3. /\ x \in Sets /\ Len(x) = Len(a) /\ \A i \in 1..Len(a) : x[i] = Solids(a[i].content)
      /\ y \in Sets /\ Len(y) = Len(b) /\ \A i \in 1..Len(b) : y[i] = Solids(b[i].content)
  BY <1>1, ContentsOf
<1> HIDE DEF v, x, y
<1>4. /\ w \in Sets /\ Len(w) = Len(a) + Len(b)
      /\ \A i \in 1..Len(a) : w[i] = x[i]
      /\ \A i \in 1..(Len(a) + Len(b)) : i \notin 1..Len(a) => w[i] = y[i - Len(a)]
  <2>1. x \in Seq(SUBSET Nat) /\ y \in Seq(SUBSET Nat)
    BY <1>3 DEF Sets
  <2>2. /\ w \in Seq(SUBSET Nat) /\ Len(w) = Len(x) + Len(y)
        /\ \A i \in 1..Len(x) : w[i] = x[i]
        /\ \A i \in 1..(Len(x) + Len(y)) : i \notin 1..Len(x) => w[i] = y[i - Len(x)]
    BY <2>1, JoinedSets
  <2> HIDE DEF w
  <2> QED
    BY <1>3, <2>2 DEF Sets
<1> HIDE DEF w
<1>5. ASSUME NEW i \in 1..(Len(a) + Len(b)) PROVE v[i] = w[i]
  <2>1. CASE i \in 1..Len(a)
    BY <1>1, <1>2, <1>3, <1>4, <2>1, ZenonT(60)
  <2>2. CASE i \notin 1..Len(a)
    <3>1. i - Len(a) \in 1..Len(b) /\ c[i] = b[i - Len(a)] /\ w[i] = y[i - Len(a)]
      BY <1>1, <1>4, <2>2
    <3> QED
      BY <1>2, <1>3, <3>1
  <2> QED
    BY <2>1, <2>2
<1>6. v = w
  BY <1>2, <1>4, <1>5 DEF Sets
<1> QED
  BY <1>1, <1>6 DEF c, v, w, x, y

(* What is emitted fits, names the path, page and sources of the elements, *)
(* and has the characters of the content in their order.                   *)
LEMMA EmitIs ==
  ASSUME NEW content \in Text, NEW elements \in Seq(ParsedElement), elements # << >>,
         NEW kind \in Kind, NEW rows \in Seq(Nat),
         NEW drafts, drafts = Emit(content, elements, kind, rows)
  PROVE  /\ drafts \in Seq(Draft)
         /\ \A k \in DOMAIN drafts :
              /\ Fits(drafts[k].content, drafts[k].path)
              /\ drafts[k].path = elements[1].path /\ drafts[k].page = elements[1].page
              /\ drafts[k].refs = {elements[m].ref : m \in DOMAIN elements}
              /\ drafts[k].kind = kind /\ drafts[k].rows = rows
         /\ All(Contents(drafts)) = Solids(content)
         /\ Rising(content) => InOrder(Contents(drafts))
PROOF
<1> DEFINE text == Strip(content)
           path == elements[1].path
           refs == {elements[m].ref : m \in DOMAIN elements}
           budget == ContentBudget(path)
<1>1. text \in Text /\ Solids(text) = Solids(content) /\ (Rising(content) => Rising(text))
  BY Stripping
<1>2. elements[1] \in ParsedElement /\ \A m \in DOMAIN elements : elements[m] \in ParsedElement
  OBVIOUS
<1>3. path \in Seq(STRING) /\ elements[1].page \in Nat /\ refs \in SUBSET Ref
  BY <1>2 DEF ParsedElement
<1>4. drafts = EmitText(text, elements, kind, rows)
  BY DEF Emit
<1> HIDE DEF text, refs
<1>5. CASE text = << >>
  <2>1. drafts = << >> /\ Solids(content) = {}
    BY <1>1, <1>4, <1>5, SolidsOfNothing DEF EmitText
  <2> QED
    BY <2>1 DEF Contents, All, InOrder
<1>6. CASE text # << >>
  <2> DEFINE pieces == SplitText(text, path, kind # "table")
  <2>1. drafts = Drafted(pieces, elements, kind, rows)
    BY <1>4, <1>6 DEF EmitText
  <2> HIDE DEF path
  <2>2. /\ pieces \in Seq(Short(budget)) /\ All(TextSets(pieces)) = Solids(text)
        /\ Rising(text) => InOrder(TextSets(pieces))
    BY <1>1, <1>3, SplitTextIs
  <2> HIDE DEF pieces
  <2> DEFINE n == Len(pieces)
  <2>3. /\ n \in Nat /\ DOMAIN pieces = 1..n
        /\ \A k \in 1..n : pieces[k] \in Text /\ Fits(pieces[k], path)
    <3>1. n \in Nat /\ DOMAIN pieces = 1..n /\ \A k \in 1..n : pieces[k] \in Short(budget)
      BY <2>2
    <3> QED
      BY <3>1 DEF Short, Fits
  <2>4. drafts = [k \in 1..n |->
          [content |-> pieces[k], path |-> path, page |-> elements[1].page, kind |-> kind,
           refs |-> refs, rows |-> rows, split |-> n > 1, merged |-> FALSE]]
    BY <2>1, <2>3 DEF Drafted, path, refs
  <2> HIDE DEF n
  <2>5. \A k \in 1..n : drafts[k] \in Draft
    BY <1>3, <2>3, <2>4 DEF Draft
  <2>6. drafts \in Seq(Draft) /\ DOMAIN drafts = 1..n
    <3>1. n \in Nat /\ drafts = [k \in 1..n |-> drafts[k]]
      BY <2>3, <2>4
    <3> QED
      BY <2>5, <3>1, FunctionIsSequence, ZenonT(60)
  <2>7. Contents(drafts) = TextSets(pieces)
    <3>1. \A k \in 1..n : drafts[k].content = pieces[k]
      BY <2>4
    <3> QED
      BY <2>3, <2>6, <3>1 DEF Contents, TextSets
  <2>8. \A k \in DOMAIN drafts :
              /\ Fits(drafts[k].content, drafts[k].path)
              /\ drafts[k].path = path /\ drafts[k].page = elements[1].page
              /\ drafts[k].refs = refs
              /\ drafts[k].kind = kind /\ drafts[k].rows = rows
    BY <2>3, <2>4, <2>6
  <2> QED
    BY <1>1, <2>2, <2>6, <2>7, <2>8 DEF path, refs
<1> QED
  BY <1>5, <1>6

-----------------------------------------------------------------------------
(* Drafts about elements *)

(* What an element has, in its order.                                      *)
IsOrderly(element) ==
  /\ element \in ParsedElement /\ element.kind # "image"
  /\ IF element.kind = "table"
     THEN /\ TextsRise(<<element.caption, element.text>> \o element.rows)
          /\ element.rows # << >> =>
               element.text = << >> /\ (element.header = 1 \/ element.header < Len(element.rows))
     ELSE element.rows = << >> /\ Rising(element.text)

(* Elements that say what they do in the order of the document.            *)
IsOutline(elements) ==
  /\ elements \in Seq(ParsedElement)
  /\ \A i \in DOMAIN elements : IsOrderly(elements[i])
  /\ \A i, j \in DOMAIN elements : i < j => Before(Said(elements[i]), Said(elements[j]))

SaidBy(elements, b, c) == UNION {Said(elements[j]) : j \in (b + 1)..c}

(* The drafts fit and carry what the elements after b up to c say.         *)
About(drafts, elements, b, c) ==
  /\ drafts \in Seq(Draft)
  /\ \A k \in DOMAIN drafts : Fits(drafts[k].content, drafts[k].path)
  /\ InOrder(Contents(drafts)) /\ All(Contents(drafts)) \subseteq SaidBy(elements, b, c)
  /\ \A j \in (b + 1)..c : elements[j].kind # "heading" =>
       /\ Said(elements[j]) \subseteq All(Contents(drafts))
       /\ \A k \in DOMAIN drafts : NamesItsSource(drafts[k], elements[j])

(* What an element says is in its text, rows and, of a table, its caption. *)
LEMMA SaidIs ==
  ASSUME NEW element \in ParsedElement, element.kind # "image"
  PROVE  /\ Said(element) = Solids(element.text)
                              \cup (UNION {Solids(element.rows[r]) : r \in DOMAIN element.rows})
                              \cup IF element.kind = "table" THEN Solids(element.caption) ELSE {}
         /\ Said(element) \subseteq Nat
PROOF
<1>0. /\ element.text \in Text /\ element.caption \in Text
      /\ element.rows \in Seq(Text)
  BY DEF ParsedElement
<1> DEFINE t == Range(element.text)
           r == UNION {Range(element.rows[i]) : i \in DOMAIN element.rows}
           c == IF element.kind = "table" THEN Range(element.caption) ELSE {}
           T == Solids(element.text)
           R == UNION {Solids(element.rows[i]) : i \in DOMAIN element.rows}
           C == IF element.kind = "table" THEN Solids(element.caption) ELSE {}
<1>1. CharactersOf(element) = t \cup r \cup c
  <2>1. BlockText(element) = element.text
    BY DEF BlockText
  <2> QED
    BY <2>1, Zenon DEF CharactersOf
<1>2. Said(element) = T \cup R \cup C
  <2>1. Solid(t \cup r \cup c) = Solid(t) \cup Solid(r) \cup Solid(c)
    <3> HIDE DEF t, r, c
    <3> QED
      BY DEF Solid
  <2>2. Solid(r) = R
    BY DEF Solid, Solids
  <2>3. Solid(c) = C
    BY DEF Solid, Solids
  <2>4. Solid(t) = T
    BY DEF Solids
  <2>5. Said(element) = Solid(t \cup r \cup c)
    <3> HIDE DEF t, r, c
    <3> QED
      BY <1>1 DEF Said
  <2> HIDE DEF t, r, c, T, R, C
  <2> QED
    BY <2>1, <2>2, <2>3, <2>4, <2>5
<1>3. /\ element.text \in Text /\ element.caption \in Text
      /\ \A i \in DOMAIN element.rows : element.rows[i] \in Text
  BY <1>0, ElementsOf
<1>4. /\ Solids(element.text) \subseteq Nat /\ Solids(element.caption) \subseteq Nat
      /\ \A i \in DOMAIN element.rows : Solids(element.rows[i]) \subseteq Nat
  BY <1>3, SolidsAreNumbers
<1>5. T \subseteq Nat /\ R \subseteq Nat /\ C \subseteq Nat
  BY <1>4
<1>6. Said(element) \subseteq Nat
  <2> HIDE DEF T, R, C
  <2> QED
    BY <1>2, <1>5
<1> QED
  BY <1>2, <1>6, Zenon

(* No drafts are about headings.                                           *)
LEMMA AboutNothing ==
  ASSUME NEW elements, NEW b \in Nat, NEW c \in Nat,
         \A j \in (b + 1)..c : elements[j].kind = "heading"
  PROVE  About(<< >>, elements, b, c)
PROOF
  BY DEF About, Contents, All, InOrder

(* What later elements say comes after what earlier ones say.              *)
LEMMA SaidInOrder ==
  ASSUME NEW elements, IsOutline(elements), NEW a \in Nat, NEW b \in Nat, NEW c \in Nat,
         a <= b, b <= c, c <= Len(elements)
  PROVE  /\ Before(SaidBy(elements, a, b), SaidBy(elements, b, c))
         /\ SaidBy(elements, a, c) = SaidBy(elements, a, b) \cup SaidBy(elements, b, c)
         /\ SaidBy(elements, a, b) \cap SaidBy(elements, b, c) = {}
         /\ SaidBy(elements, a, c) \subseteq Nat
PROOF
<1>1. /\ elements \in Seq(ParsedElement) /\ Len(elements) \in Nat
      /\ DOMAIN elements = 1..Len(elements)
  BY DEF IsOutline
<1>2. \A j \in (a + 1)..c : j \in DOMAIN elements
  BY <1>1
<1>3. Before(SaidBy(elements, a, b), SaidBy(elements, b, c))
  <2> SUFFICES ASSUME NEW i \in (a + 1)..b, NEW j \in (b + 1)..c
               PROVE  Before(Said(elements[i]), Said(elements[j]))
    BY DEF SaidBy, Before
  <2>1. i < j /\ i \in DOMAIN elements /\ j \in DOMAIN elements
    BY <1>1
  <2> QED
    BY <2>1 DEF IsOutline
<1>4. (a + 1)..c = ((a + 1)..b) \cup ((b + 1)..c)
  OBVIOUS
<1>5. SaidBy(elements, a, c) = SaidBy(elements, a, b) \cup SaidBy(elements, b, c)
  BY <1>4 DEF SaidBy
<1>6. SaidBy(elements, a, c) \subseteq Nat
  <2>1. \A j \in (a + 1)..c : Said(elements[j]) \subseteq Nat
    BY <1>2, SaidIs DEF IsOutline, IsOrderly
  <2> QED
    BY <2>1 DEF SaidBy
<1>7. ASSUME NEW x \in SaidBy(elements, a, b), x \in SaidBy(elements, b, c) PROVE FALSE
  <2>1. x < x /\ x \in Nat
    BY <1>3, <1>5, <1>6, <1>7 DEF Before
  <2> QED
    BY <2>1
<1> QED
  BY <1>3, <1>5, <1>6, <1>7

(* Drafts about elements, and drafts about those that follow.              *)
LEMMA AboutBoth ==
  ASSUME NEW elements, IsOutline(elements), NEW a \in Nat, NEW b \in Nat, NEW c \in Nat,
         a <= b, b <= c, c <= Len(elements),
         NEW left, About(left, elements, a, b), NEW right, About(right, elements, b, c)
  PROVE  About(left \o right, elements, a, c)
PROOF
<1> DEFINE d == left \o right
           L == All(Contents(left))
           R == All(Contents(right))
<1>1. left \in Seq(Draft) /\ right \in Seq(Draft)
  BY DEF About
<1>2. /\ d \in Seq(Draft) /\ Contents(d) = Contents(left) \o Contents(right)
      /\ Contents(left) \in Sets /\ Contents(right) \in Sets
  BY <1>1, ContentsOfBoth, ContentsOf
<1>3. /\ DOMAIN d = 1..(Len(left) + Len(right))
      /\ DOMAIN left = 1..Len(left) /\ DOMAIN right = 1..Len(right)
      /\ \A i \in 1..Len(left) : d[i] = left[i]
      /\ \A i \in 1..(Len(left) + Len(right)) : i \notin 1..Len(left) =>
           i - Len(left) \in 1..Len(right) /\ d[i] = right[i - Len(left)]
  BY <1>1, JoinedSets
<1> HIDE DEF d
<1>4. \A k \in DOMAIN d : \/ \E i \in DOMAIN left : d[k] = left[i]
                          \/ \E i \in DOMAIN right : d[k] = right[i]
  BY <1>3
<1>5. /\ Before(SaidBy(elements, a, b), SaidBy(elements, b, c))
      /\ SaidBy(elements, a, c) = SaidBy(elements, a, b) \cup SaidBy(elements, b, c)
      /\ SaidBy(elements, a, b) \cap SaidBy(elements, b, c) = {}
  BY SaidInOrder
<1>6. L \subseteq SaidBy(elements, a, b) /\ R \subseteq SaidBy(elements, b, c)
  BY DEF About
<1>7. All(Contents(d)) = L \cup R
  BY <1>2, AllOfBoth
<1>8. InOrder(Contents(d))
  <2>1. Before(L, R \ L)
    BY <1>5, <1>6 DEF Before
  <2> QED
    BY <1>2, <2>1, OrderOfBoth DEF About
<1>9. \A k \in DOMAIN d : Fits(d[k].content, d[k].path)
  BY <1>4 DEF About
<1>10. /\ \A k \in DOMAIN left : Solids(left[k].content) \subseteq L
       /\ \A k \in DOMAIN right : Solids(right[k].content) \subseteq R
  BY DEF Contents, All
<1>11. ASSUME NEW j \in (a + 1)..c, elements[j].kind # "heading"
       PROVE  /\ Said(elements[j]) \subseteq L \cup R
              /\ \A k \in DOMAIN d : NamesItsSource(d[k], elements[j])
  <2>1. CASE j \in (a + 1)..b
    <3>1. Said(elements[j]) \subseteq L /\ \A k \in DOMAIN left : NamesItsSource(left[k], elements[j])
      BY <1>11, <2>1 DEF About
    <3>2. Said(elements[j]) \cap R = {}
      <4>1. Said(elements[j]) \subseteq SaidBy(elements, a, b)
        BY <2>1 DEF SaidBy
      <4> QED
        BY <1>5, <1>6, <4>1
    <3>3. \A k \in DOMAIN right : NamesItsSource(right[k], elements[j])
      BY <1>10, <3>2 DEF NamesItsSource, Said, Solids
    <3> QED
      BY <1>4, <3>1, <3>3
  <2>2. CASE j \in (b + 1)..c
    <3>1. Said(elements[j]) \subseteq R /\ \A k \in DOMAIN right : NamesItsSource(right[k], elements[j])
      BY <1>11, <2>2 DEF About
    <3>2. Said(elements[j]) \cap L = {}
      <4>1. Said(elements[j]) \subseteq SaidBy(elements, b, c)
        BY <2>2 DEF SaidBy
      <4> QED
        BY <1>5, <1>6, <4>1
    <3>3. \A k \in DOMAIN left : NamesItsSource(left[k], elements[j])
      BY <1>10, <3>2 DEF NamesItsSource, Said, Solids
    <3> QED
      BY <1>4, <3>1, <3>3
  <2> QED
    BY <2>1, <2>2
<1> QED
  BY <1>2, <1>5, <1>6, <1>7, <1>8, <1>9, <1>11 DEF About, d

-----------------------------------------------------------------------------
(* Texts of a table *)

(* Texts after others.                                                     *)
LEMMA TextsOfBoth ==
  ASSUME NEW a \in Seq(Text), NEW b \in Seq(Text)
  PROVE  /\ a \o b \in Seq(Text)
         /\ All(TextSets(a \o b)) = All(TextSets(a)) \cup All(TextSets(b))
         /\ TextsRise(a \o b) <=> /\ TextsRise(a) /\ TextsRise(b)
                                  /\ Before(All(TextSets(a)), All(TextSets(b)))
PROOF
<1>1. a \o b \in Seq(Text)
  OBVIOUS
<1>2. Flattened(a \o b) = Flattened(a) \o Flattened(b)
  BY FlattenedBoth DEF Text
<1>3. /\ Flattened(a) \in Text /\ Solids(Flattened(a)) = All(TextSets(a))
      /\ Rising(Flattened(a)) <=> TextsRise(a)
  BY FlattenedTexts
<1>4. /\ Flattened(b) \in Text /\ Solids(Flattened(b)) = All(TextSets(b))
      /\ Rising(Flattened(b)) <=> TextsRise(b)
  BY FlattenedTexts
<1>5. /\ Solids(Flattened(a \o b)) = All(TextSets(a \o b))
      /\ Rising(Flattened(a \o b)) <=> TextsRise(a \o b)
  BY <1>1, FlattenedTexts
<1> DEFINE x == Flattened(a)
           y == Flattened(b)
           z == Flattened(a \o b)
<1>6. x \in Text /\ y \in Text /\ z = x \o y
  BY <1>2, <1>3, <1>4
<1> HIDE DEF x, y, z
<1>7. /\ Solids(z) = Solids(x) \cup Solids(y)
      /\ Rising(z) <=> Rising(x) /\ Rising(y) /\ Before(Solids(x), Solids(y))
  BY <1>6, Concatenated
<1> QED
  BY <1>1, <1>3, <1>4, <1>5, <1>7 DEF x, y, z

(* A text by itself.                                                       *)
LEMMA TextsOfOne ==
  ASSUME NEW text \in Text
  PROVE  /\ <<text>> \in Seq(Text) /\ All(TextSets(<<text>>)) = Solids(text)
         /\ TextsRise(<<text>>) <=> Rising(text)
PROOF
<1>1. <<text>> \in Seq(Text) /\ Flattened(<<text>>) = text
  BY FlattenedOne DEF Text
<1> QED
  BY <1>1, FlattenedTexts

(* The rows of a table from one to another.                                *)
RowsSaid(rows, from, to) == UNION {Solids(rows[r]) : r \in from..to}

(* The rows of a table from one to another.                                *)
LEMMA RowsFrom ==
  ASSUME NEW rows \in Seq(Text), NEW from \in Nat \ {0}, NEW to \in Nat, to <= Len(rows)
  PROVE  /\ SubSeq(rows, from, to) \in Seq(Text)
         /\ All(TextSets(SubSeq(rows, from, to))) = RowsSaid(rows, from, to)
         /\ TextsRise(rows) => TextsRise(SubSeq(rows, from, to))
PROOF
<1> DEFINE part == SubSeq(rows, from, to)
<1>1. /\ part \in Seq(Text) /\ Len(part) = IF from <= to THEN to - from + 1 ELSE 0
      /\ DOMAIN part = 1..Len(part) /\ DOMAIN rows = 1..Len(rows) /\ Len(rows) \in Nat
      /\ \A k \in DOMAIN part : part[k] = rows[from + k - 1]
  OBVIOUS
<1> HIDE DEF part
<1>2. \A k \in DOMAIN part : from + k - 1 \in from..to /\ from + k - 1 \in DOMAIN rows
  BY <1>1, SMTT(30)
<1>3. \A r \in from..to : r - from + 1 \in DOMAIN part /\ part[r - from + 1] = rows[r]
  BY <1>1, SMTT(30)
<1>4. All(TextSets(part)) = RowsSaid(rows, from, to)
  BY <1>1, <1>2, <1>3, ZenonT(60) DEF All, TextSets, RowsSaid
<1>5. ASSUME TextsRise(rows) PROVE TextsRise(part)
  <2>1. \A k \in DOMAIN part : Rising(part[k])
    BY <1>1, <1>2, <1>5 DEF TextsRise
  <2>2. ASSUME NEW j \in DOMAIN part, NEW k \in DOMAIN part, j < k
        PROVE  Before(Solids(part[j]), Solids(part[k]))
    <3>1. from + j - 1 < from + k - 1
      BY <1>1, <2>2
    <3> QED
      BY <1>1, <1>2, <1>5, <3>1 DEF TextsRise
  <2> QED
    BY <2>1, <2>2 DEF TextsRise
<1> QED
  BY <1>1, <1>4, <1>5 DEF part

(* What the rows of a table say, in its lines.                             *)
LEMMA MarkdownIs ==
  ASSUME NEW rows \in Seq(Text), rows # << >>
  PROVE  /\ Markdown(rows) \in Text /\ Solids(Markdown(rows)) = All(TextSets(rows))
         /\ TextsRise(rows) => Rising(Markdown(rows))
PROOF
<1> DEFINE lines == IF Len(rows) > 1 THEN <<rows[1], <<Word>> >> \o Tail(rows) ELSE rows
<1>1. /\ lines \in Seq(Text) /\ All(TextSets(lines)) = All(TextSets(rows))
      /\ TextsRise(rows) => TextsRise(lines)
  <2>1. CASE Len(rows) > 1
    <3> DEFINE one == <<rows[1]>>
               two == <<<<Word>>>>
               tail == Tail(rows)
    <3>1. rows[1] \in Text /\ tail \in Seq(Text) /\ rows = one \o tail
      BY <2>1
    <3>2. <<Word>> \in Text /\ Solids(<<Word>>) = {} /\ Rising(<<Word>>)
      BY SolidsOfNothing
    <3>3. /\ one \in Seq(Text) /\ All(TextSets(one)) = Solids(rows[1])
          /\ TextsRise(one) <=> Rising(rows[1])
      BY <3>1, TextsOfOne
    <3>4. two \in Seq(Text) /\ All(TextSets(two)) = {} /\ TextsRise(two)
      <4> HIDE DEF Word
      <4> QED
        BY <3>2, TextsOfOne
    <3>5. lines = (one \o two) \o tail
      BY <2>1
    <3> HIDE DEF one, two, tail
    <3>6. /\ one \o two \in Seq(Text) /\ All(TextSets(one \o two)) = All(TextSets(one))
          /\ TextsRise(one \o two) <=> TextsRise(one)
      <4>1. Before(All(TextSets(one)), All(TextSets(two)))
        BY <3>4 DEF Before
      <4>2. /\ one \o two \in Seq(Text)
            /\ All(TextSets(one \o two)) = All(TextSets(one)) \cup All(TextSets(two))
            /\ TextsRise(one \o two) <=> /\ TextsRise(one) /\ TextsRise(two)
                                          /\ Before(All(TextSets(one)), All(TextSets(two)))
        BY <3>3, <3>4, TextsOfBoth
      <4> QED
        BY <3>4, <4>1, <4>2
    <3> DEFINE front == one \o two
    <3>7. /\ front \in Seq(Text) /\ All(TextSets(front)) = All(TextSets(one))
          /\ TextsRise(front) <=> TextsRise(one)
      BY <3>6
    <3> HIDE DEF front
    <3>8. /\ front \o tail \in Seq(Text)
          /\ All(TextSets(front \o tail)) = All(TextSets(one)) \cup All(TextSets(tail))
          /\ TextsRise(front \o tail) <=> /\ TextsRise(one) /\ TextsRise(tail)
                                          /\ Before(All(TextSets(one)), All(TextSets(tail)))
      BY <3>1, <3>7, TextsOfBoth
    <3>9. /\ All(TextSets(rows)) = All(TextSets(one)) \cup All(TextSets(tail))
          /\ TextsRise(rows) <=> /\ TextsRise(one) /\ TextsRise(tail)
                                 /\ Before(All(TextSets(one)), All(TextSets(tail)))
      BY <3>1, <3>3, TextsOfBoth
    <3>10. lines = front \o tail
      BY <3>5 DEF front
    <3> HIDE DEF lines
    <3> QED
      BY <3>8, <3>9, <3>10
  <2>2. CASE ~ (Len(rows) > 1)
    BY <2>2
  <2> QED
    BY <2>1, <2>2
<1>2. Markdown(rows) = Join(lines, <<LineBreak>>)
  BY DEF Markdown
<1> HIDE DEF lines
<1> QED
  BY <1>1, <1>2, SolidsOfNothing, JoinedTexts

(* A caption, and the line break that ends it.                             *)
LEMMA CaptionIs ==
  ASSUME NEW element \in ParsedElement
  PROVE  /\ element.caption \in Text /\ Caption(element) \in Text
         /\ Solids(Caption(element)) = Solids(element.caption)
         /\ Rising(element.caption) => Rising(Caption(element))
PROOF
<1>1. element.caption \in Text
  BY DEF ParsedElement
<1>2. CASE element.caption = << >>
  BY <1>2, SolidsOfNothing DEF Caption
<1>3. CASE element.caption # << >>
  <2> DEFINE c == element.caption
             b == <<LineBreak>>
  <2>1. Caption(element) = c \o b
    <3>1. Append(c, LineBreak) = c \o <<LineBreak>>
      BY <1>1 DEF Text
    <3> QED
      BY <1>3, <3>1 DEF Caption
  <2>2. b \in Text /\ Solids(b) = {} /\ Rising(b) /\ c \in Text
    BY <1>1, SolidsOfNothing
  <2> HIDE DEF b, c
  <2>3. /\ c \o b \in Text /\ Solids(c \o b) = Solids(c) \cup Solids(b)
        /\ Rising(c \o b) <=> Rising(c) /\ Rising(b) /\ Before(Solids(c), Solids(b))
    BY <2>2, Concatenated
  <2>4. Before(Solids(c), Solids(b))
    BY <2>2 DEF Before
  <2>5. /\ Caption(element) \in Text /\ Solids(Caption(element)) = Solids(c)
        /\ Rising(c) => Rising(Caption(element))
    BY <2>1, <2>2, <2>3, <2>4
  <2> QED
    BY <1>1, <2>5 DEF c
<1> QED
  BY <1>2, <1>3

(* The order of what a table says.                                         *)
LEMMA TableOrder ==
  ASSUME NEW element, IsOrderly(element), element.kind = "table"
  PROVE  /\ element \in ParsedElement /\ element.caption \in Text /\ element.text \in Text
         /\ element.rows \in Seq(Text) /\ element.header \in Nat \ {0}
         /\ Rising(element.caption) /\ Rising(element.text) /\ TextsRise(element.rows)
         /\ Before(Solids(element.caption), Solids(element.text))
         /\ \A r \in DOMAIN element.rows : Before(Solids(element.caption), Solids(element.rows[r]))
         /\ Said(element) = Solids(element.caption) \cup Solids(element.text)
                              \cup RowsSaid(element.rows, 1, Len(element.rows))
PROOF
<1> DEFINE cap == element.caption
           text == element.text
           rows == element.rows
<1>1. /\ element \in ParsedElement /\ cap \in Text /\ text \in Text /\ rows \in Seq(Text)
      /\ element.header \in Nat \ {0}
  BY DEF IsOrderly, ParsedElement
<1>2. TextsRise(<<cap, text>> \o rows)
  BY DEF IsOrderly
<1>3. Said(element) = Solids(cap) \cup Solids(text) \cup RowsSaid(rows, 1, Len(rows))
  <2>1. DOMAIN rows = 1..Len(rows)
    BY <1>1
  <2> DEFINE R == UNION {Solids(rows[r]) : r \in DOMAIN rows}
  <2>2. R = RowsSaid(rows, 1, Len(rows))
    BY <2>1 DEF RowsSaid
  <2>3. Said(element) = Solids(text) \cup R \cup Solids(cap)
    BY <1>1, SaidIs DEF IsOrderly
  <2> HIDE DEF cap, text, rows, R
  <2> QED
    BY <2>2, <2>3
<1> HIDE DEF cap, text, rows
<1> DEFINE both == <<cap>> \o <<text>>
<1>4. <<cap, text>> \o rows = both \o rows
  OBVIOUS
<1>5. /\ <<cap>> \in Seq(Text) /\ All(TextSets(<<cap>>)) = Solids(cap)
      /\ TextsRise(<<cap>>) <=> Rising(cap)
      /\ <<text>> \in Seq(Text) /\ All(TextSets(<<text>>)) = Solids(text)
      /\ TextsRise(<<text>>) <=> Rising(text)
  BY <1>1, TextsOfOne
<1>6. /\ both \in Seq(Text) /\ All(TextSets(both)) = Solids(cap) \cup Solids(text)
      /\ TextsRise(both) <=> Rising(cap) /\ Rising(text) /\ Before(Solids(cap), Solids(text))
  BY <1>5, TextsOfBoth, ZenonT(60)
<1> HIDE DEF both
<1>7. TextsRise(both) /\ TextsRise(rows) /\ Before(All(TextSets(both)), All(TextSets(rows)))
  BY <1>1, <1>2, <1>4, <1>6, TextsOfBoth
<1>8. \A r \in DOMAIN rows : Solids(rows[r]) \subseteq All(TextSets(rows))
  BY DEF All, TextSets
<1>9. \A r \in DOMAIN rows : Before(Solids(cap), Solids(rows[r]))
  BY <1>6, <1>7, <1>8 DEF Before
<1> QED
  BY <1>1, <1>3, <1>6, <1>7, <1>9 DEF cap, text, rows

-----------------------------------------------------------------------------
(* Drafts of a table *)

(* Row r is the one that the draft repeats, or one of those it is of.      *)
NamesRow(draft, r) == r = draft.rows[3] \/ (draft.rows[1] <= r /\ r <= draft.rows[2])

(* Drafts of an element that have S of what it says.                       *)
TableDrafts(drafts, element, S) ==
  /\ drafts \in Seq(Draft)
  /\ \A k \in DOMAIN drafts :
       /\ Fits(drafts[k].content, drafts[k].path)
       /\ drafts[k].path = element.path /\ drafts[k].page = element.page
       /\ drafts[k].refs = {element.ref}
       /\ \A r \in DOMAIN element.rows :
            Solids(element.rows[r]) \cap Solids(drafts[k].content) # {} => NamesRow(drafts[k], r)
  /\ InOrder(Contents(drafts)) /\ All(Contents(drafts)) = S

(* No drafts have nothing.                                                 *)
LEMMA NoTableDrafts ==
  ASSUME NEW element
  PROVE  TableDrafts(<< >>, element, {})
PROOF
  BY DEF TableDrafts, Contents, All, InOrder

(* Drafts of a table after others.                                         *)
LEMMA MoreTableDrafts ==
  ASSUME NEW element, NEW A, NEW B, NEW a, NEW b,
         TableDrafts(a, element, A), TableDrafts(b, element, B), Before(A, B \ A)
  PROVE  TableDrafts(a \o b, element, A \cup B)
PROOF
<1> DEFINE d == a \o b
<1>1. a \in Seq(Draft) /\ b \in Seq(Draft)
  BY DEF TableDrafts
<1>2. /\ d \in Seq(Draft) /\ Contents(d) = Contents(a) \o Contents(b)
      /\ Contents(a) \in Sets /\ Contents(b) \in Sets
  BY <1>1, ContentsOfBoth, ContentsOf
<1>3. /\ DOMAIN d = 1..(Len(a) + Len(b)) /\ DOMAIN a = 1..Len(a) /\ DOMAIN b = 1..Len(b)
      /\ \A i \in 1..Len(a) : d[i] = a[i]
      /\ \A i \in 1..(Len(a) + Len(b)) : i \notin 1..Len(a) =>
           i - Len(a) \in 1..Len(b) /\ d[i] = b[i - Len(a)]
  BY <1>1, JoinedSets
<1> HIDE DEF d
<1>4. \A k \in DOMAIN d : \/ \E i \in DOMAIN a : d[k] = a[i]
                          \/ \E i \in DOMAIN b : d[k] = b[i]
  BY <1>3
<1>5. All(Contents(d)) = A \cup B /\ InOrder(Contents(d))
  BY <1>2, AllOfBoth, OrderOfBoth DEF TableDrafts
<1>6. \A k \in DOMAIN d :
       /\ Fits(d[k].content, d[k].path)
       /\ d[k].path = element.path /\ d[k].page = element.page /\ d[k].refs = {element.ref}
       /\ \A r \in DOMAIN element.rows :
            Solids(element.rows[r]) \cap Solids(d[k].content) # {} => NamesRow(d[k], r)
  <2> DEFINE Good(x) ==
        /\ Fits(x.content, x.path)
        /\ x.path = element.path /\ x.page = element.page /\ x.refs = {element.ref}
        /\ \A r \in DOMAIN element.rows :
             Solids(element.rows[r]) \cap Solids(x.content) # {} => NamesRow(x, r)
  <2>1. (\A k \in DOMAIN a : Good(a[k])) /\ (\A k \in DOMAIN b : Good(b[k]))
    BY DEF TableDrafts
  <2> HIDE DEF Good
  <2>2. \A k \in DOMAIN d : Good(d[k])
    BY <1>4, <2>1
  <2> QED
    BY <2>2 DEF Good
<1> QED
  BY <1>2, <1>5, <1>6 DEF TableDrafts, d

(* Drafts that have all that a table says are about it.                    *)
LEMMA TableDraftsAreAbout ==
  ASSUME NEW elements, IsOutline(elements), NEW c \in DOMAIN elements, elements[c].kind = "table",
         NEW drafts, TableDrafts(drafts, elements[c], Said(elements[c]))
  PROVE  About(drafts, elements, c - 1, c)
PROOF
<1>1. c \in Nat /\ ((c - 1) + 1)..c = {c}
  BY DEF IsOutline
<1>2. SaidBy(elements, c - 1, c) = Said(elements[c])
  BY <1>1 DEF SaidBy
<1> DEFINE e == elements[c]
<1>3. e.path \in Seq(STRING)
  <2>1. e \in ParsedElement
    BY ElementsOf DEF IsOutline
  <2> QED
    BY <2>1 DEF ParsedElement
<1>4. ASSUME NEW k \in DOMAIN drafts PROVE NamesItsSource(drafts[k], e)
  <2>1. IsPrefix(drafts[k].path, e.path)
    <3>1. drafts[k].path = e.path
      BY DEF TableDrafts
    <3>2. Len(e.path) <= Len(e.path) /\ SubSeq(e.path, 1, Len(e.path)) = e.path
      BY <1>3
    <3> QED
      BY <1>3, <3>1, <3>2 DEF IsPrefix
  <2>2. drafts[k].page = e.page /\ e.ref \in drafts[k].refs
    BY DEF TableDrafts
  <2>3. ASSUME NEW r \in DOMAIN e.rows,
               Solid(Range(e.rows[r])) \cap (Solid(Range(drafts[k].content)) \cap Solid(CharactersOf(e))) # {}
        PROVE  r = drafts[k].rows[3] \/ (drafts[k].rows[1] <= r /\ r <= drafts[k].rows[2])
    <3>1. Solids(e.rows[r]) \cap Solids(drafts[k].content) # {}
      BY <2>3 DEF Solids
    <3> QED
      BY <3>1 DEF TableDrafts, NamesRow
  <2> QED
    BY <2>1, <2>2, <2>3 DEF NamesItsSource
<1> QED
  BY <1>1, <1>2, <1>4 DEF About, TableDrafts

(* What is emitted of a table has its content.                             *)
LEMMA EmittedOfTable ==
  ASSUME NEW element \in ParsedElement, NEW content \in Text, Rising(content),
         NEW rows \in Seq(Nat),
         \A r \in DOMAIN element.rows :
           Solids(element.rows[r]) \cap Solids(content) # {} =>
             r = rows[3] \/ (rows[1] <= r /\ r <= rows[2])
  PROVE  TableDrafts(Emit(content, <<element>>, "table", rows), element, Solids(content))
PROOF
<1> DEFINE drafts == Emit(content, <<element>>, "table", rows)
<1>1. /\ <<element>> \in Seq(ParsedElement) /\ <<element>> # << >> /\ <<element>>[1] = element
      /\ {<<element>>[m].ref : m \in DOMAIN <<element>>} = {element.ref}
  OBVIOUS
<1>2. /\ drafts \in Seq(Draft)
      /\ \A k \in DOMAIN drafts :
           /\ Fits(drafts[k].content, drafts[k].path)
           /\ drafts[k].path = element.path /\ drafts[k].page = element.page
           /\ drafts[k].refs = {element.ref}
           /\ drafts[k].kind = "table" /\ drafts[k].rows = rows
      /\ All(Contents(drafts)) = Solids(content)
      /\ InOrder(Contents(drafts))
  <2> DEFINE one == <<element>>
             refs == {one[m].ref : m \in DOMAIN one}
  <2>1. one \in Seq(ParsedElement) /\ one # << >> /\ one[1] = element /\ refs = {element.ref}
    BY <1>1
  <2>2. drafts = Emit(content, one, "table", rows)
    BY Zenon
  <2>4. "table" \in Kind
    BY DEF Kind
  <2> HIDE DEF drafts, one, refs
  <2>3. /\ drafts \in Seq(Draft)
        /\ \A k \in DOMAIN drafts :
             /\ Fits(drafts[k].content, drafts[k].path)
             /\ drafts[k].path = one[1].path /\ drafts[k].page = one[1].page
             /\ drafts[k].refs = refs /\ drafts[k].kind = "table" /\ drafts[k].rows = rows
        /\ All(Contents(drafts)) = Solids(content)
        /\ InOrder(Contents(drafts))
    BY <2>1, <2>2, <2>4, EmitIs DEF refs
  <2> QED
    BY <2>1, <2>3
<1> HIDE DEF drafts
<1>3. \A k \in DOMAIN drafts : Solids(drafts[k].content) \subseteq Solids(content)
  BY <1>2 DEF Contents, All
<1>4. \A k \in DOMAIN drafts : \A r \in DOMAIN element.rows :
        Solids(element.rows[r]) \cap Solids(drafts[k].content) # {} => NamesRow(drafts[k], r)
  BY <1>2, <1>3 DEF NamesRow
<1> QED
  BY <1>2, <1>4 DEF TableDrafts, drafts

(* Rows of a table have nothing in common.                                 *)
LEMMA RowsApart ==
  ASSUME NEW rows \in Seq(Text), TextsRise(rows), NEW q \in DOMAIN rows, NEW r \in DOMAIN rows,
         Solids(rows[q]) \cap Solids(rows[r]) # {}
  PROVE  q = r
PROOF
<1>1. q \in Nat /\ r \in Nat
  OBVIOUS
<1>2. Solids(rows[q]) \subseteq Nat /\ Solids(rows[r]) \subseteq Nat
  BY ElementsOf, SolidsAreNumbers
<1>3. PICK x \in Nat : x \in Solids(rows[q]) /\ x \in Solids(rows[r])
  BY <1>2
<1>4. ~ (q < r) /\ ~ (r < q)
  BY <1>3 DEF TextsRise, Before
<1> QED
  BY <1>1, <1>4

(* What comes with the header in every group.                              *)
GroupCaption(element) == IF element.header > 1 THEN {} ELSE Solids(element.caption)

(* What a group of rows says, and that its chunks name these.              *)
LEMMA GroupIs ==
  ASSUME NEW element, IsOrderly(element), element.kind = "table",
         element.header < Len(element.rows),
         NEW from \in (element.header + 1)..Len(element.rows), NEW to \in from..Len(element.rows)
  PROVE  TableDrafts(EmitGroup(element, from, to), element,
                     GroupCaption(element) \cup Solids(element.rows[element.header])
                       \cup RowsSaid(element.rows, from, to))
PROOF
<1> DEFINE rows == element.rows
           h == element.header
           n == Len(rows)
           top == IF h > 1 THEN << >> ELSE Caption(element)
           part == SubSeq(rows, from, to)
           one == <<rows[h]>>
           lines == one \o part
           cap == GroupCaption(element)
           hdr == Solids(rows[h])
           body == RowsSaid(rows, from, to)
<1>1. /\ element \in ParsedElement /\ element.caption \in Text /\ rows \in Seq(Text)
      /\ h \in Nat \ {0} /\ Rising(element.caption) /\ TextsRise(rows)
      /\ \A r \in DOMAIN rows : Before(Solids(element.caption), Solids(rows[r]))
  BY TableOrder
<1>2. /\ n \in Nat /\ DOMAIN rows = 1..n /\ h \in 1..n /\ from \in Nat \ {0} /\ to \in Nat /\ to <= n
      /\ h < from /\ from..to \subseteq 1..n /\ \A r \in from..to : h < r
  BY <1>1
<1>3. Group(element, from, to) = top \o Markdown(lines)
  BY DEF Group
<1>4. /\ top \in Text /\ Solids(top) = cap /\ Rising(top) /\ cap \subseteq Solids(element.caption)
  BY <1>1, CaptionIs, SolidsOfNothing DEF GroupCaption
<1>5. rows[h] \in Text /\ Rising(rows[h])
  BY <1>1, <1>2, ElementsOf DEF TextsRise
<1> HIDE DEF top, part, cap, h, rows, n
<1>6. /\ part \in Seq(Text) /\ All(TextSets(part)) = body /\ TextsRise(part)
  BY <1>1, <1>2, RowsFrom DEF part, n
<1>7. one \in Seq(Text) /\ All(TextSets(one)) = hdr /\ TextsRise(one)
  BY <1>5, TextsOfOne
<1>8. Before(hdr, body)
  <2> SUFFICES ASSUME NEW r \in from..to PROVE Before(Solids(rows[h]), Solids(rows[r]))
    BY DEF RowsSaid, Before
  <2> QED
    BY <1>1, <1>2 DEF TextsRise
<1>9. one # << >> /\ lines # << >>
  <2>1. lines[1] = rows[h] /\ Len(lines) = 1 + Len(part) /\ Len(part) \in Nat
    BY <1>5, <1>6
  <2>2. Len(lines) # 0
    BY <2>1
  <2> QED
    BY <2>2
<1> HIDE DEF one, hdr, body
<1>10. /\ lines \in Seq(Text) /\ All(TextSets(lines)) = hdr \cup body /\ TextsRise(lines)
  BY <1>6, <1>7, <1>8, TextsOfBoth
<1> HIDE DEF lines
<1> DEFINE text == Markdown(lines)
<1>11. text \in Text /\ Solids(text) = hdr \cup body /\ Rising(text)
  BY <1>9, <1>10, MarkdownIs
<1> HIDE DEF text
<1>12. Before(cap, hdr \cup body)
  <2> SUFFICES ASSUME NEW x \in cap, NEW y \in hdr \cup body PROVE x < y
    BY DEF Before
  <2>1. PICK r \in 1..n : y \in Solids(rows[r])
    BY <1>2 DEF hdr, body, RowsSaid
  <2> QED
    BY <1>1, <1>2, <1>4, <2>1 DEF Before
<1> DEFINE content == top \o text
<1>13. content \in Text /\ Solids(content) = cap \cup (hdr \cup body) /\ Rising(content)
  BY <1>4, <1>11, <1>12, Concatenated, ZenonT(60)
<1>14. EmitGroup(element, from, to) = Emit(content, <<element>>, "table", <<from, to, h>>)
  BY <1>3 DEF EmitGroup, text, h
<1> HIDE DEF content
<1> DEFINE span == <<from, to, h>>
<1>15. span \in Seq(Nat) /\ span[1] = from /\ span[2] = to /\ span[3] = h
  BY <1>2
<1>16. ASSUME NEW r \in DOMAIN element.rows, Solids(element.rows[r]) \cap Solids(content) # {}
       PROVE  r = h \/ (from <= r /\ r <= to)
  <2>1. r \in 1..n /\ r \in DOMAIN rows
    BY <1>2 DEF rows
  <2>2. PICK x : x \in Solids(rows[r]) /\ x \in cap \cup (hdr \cup body)
    BY <1>13, <1>16 DEF rows
  <2>3. x \notin cap
    <3>1. x \in Nat
      BY <1>1, <2>1, <2>2, ElementsOf, SolidsAreNumbers
    <3>2. ~ (x < x)
      BY <3>1
    <3> QED
      BY <1>1, <1>4, <2>1, <2>2, <3>2 DEF Before
  <2>4. CASE x \in hdr
    BY <1>1, <1>2, <2>1, <2>2, <2>4, RowsApart DEF hdr
  <2>5. CASE x \in body
    <3>1. PICK q \in from..to : x \in Solids(rows[q])
      BY <2>5 DEF body, RowsSaid
    <3>2. q = r
      BY <1>1, <1>2, <2>1, <2>2, <3>1, RowsApart
    <3> QED
      BY <1>2, <3>2
  <2> QED
    BY <2>2, <2>3, <2>4, <2>5
<1>17. TableDrafts(Emit(content, <<element>>, "table", span), element, Solids(content))
  <2> HIDE DEF span
  <2> QED
    BY <1>1, <1>13, <1>15, <1>16, EmittedOfTable
<1>18. TableDrafts(EmitGroup(element, from, to), element, cap \cup hdr \cup body)
  <2>1. cap \cup (hdr \cup body) = cap \cup hdr \cup body
    OBVIOUS
  <2> QED
    BY <1>13, <1>14, <1>17, <2>1
<1> QED
  BY <1>18 DEF cap, hdr, body, rows, h

(* Groups begin after the header and one after another.                    *)
LEMMA GroupStartsIs ==
  ASSUME NEW element \in ParsedElement, element.header < Len(element.rows),
         NEW starts, starts = GroupStarts(element)
  PROVE  /\ starts \in Seq((element.header + 1)..Len(element.rows)) /\ starts # << >>
         /\ starts[1] = element.header + 1
         /\ \A k \in 1..(Len(starts) - 1) : starts[k] < starts[k + 1]
PROOF
<1> DEFINE h == element.header
           n == Len(element.rows)
           rows == RowsAfterHeader(element)
           N == n - h
           T == (h + 1)..n
<1>1. h \in Nat /\ n \in Nat /\ h < n /\ N \in Nat
  <2>1. element.header \in Nat /\ element.rows \in Seq(Text)
    BY DEF ParsedElement
  <2> QED
    BY <2>1
<1>2. N = Len(rows) /\ \A i \in 1..N : rows[i] = h + i
  <2>1. rows = [i \in 1..N |-> h + i]
    BY DEF RowsAfterHeader
  <2> HIDE DEF h, N, n, rows
  <2> QED
    BY <1>1, <2>1
<1> HIDE DEF rows, N
<1>3. PICK g : /\ g[0] = <<element.header + 1>> /\ GroupStarts(element) = g[N]
               /\ \A i \in 1..N : g[i] = AddStart(g[i - 1], rows[i], element)
  BY <1>1, <1>2, GroupStartsStages DEF rows
<1> DEFINE Good(s) == /\ s \in Seq(T) /\ s # << >> /\ s[1] = h + 1
                      /\ \A k \in 1..(Len(s) - 1) : s[k] < s[k + 1]
           H == {i \in 0..N : Good(g[i])}
<1>4. 0 \in H
  <2>1. h + 1 \in T
    BY <1>1
  <2> HIDE DEF T
  <2>2. Good(<<h + 1>>)
    <3>1. <<h + 1>> \in Seq(T) /\ Len(<<h + 1>>) = 1 /\ <<h + 1>>[1] = h + 1
      BY <2>1
    <3>2. \A k \in 1..(1 - 1) : FALSE
      OBVIOUS
    <3> HIDE DEF h
    <3> QED
      BY <3>1, <3>2
  <2> HIDE DEF Good
  <2> QED
    BY <1>1, <1>3, <2>2
<1>5. ASSUME NEW i \in 1..N, i - 1 \in H PROVE i \in H
  <2> DEFINE p == g[i - 1]
             r == rows[i]
  <2>1. Good(p) /\ i \in 0..N
    <3>1. i \in 0..N
      BY <1>1
    <3> HIDE DEF Good
    <3> QED
      BY <1>5, <3>1
  <2>2. r \in T
    BY <1>1, <1>2 DEF N
  <2>3. g[i] = AddStart(p, r, element)
    BY <1>3
  <2> HIDE DEF p, r
  <2>4. CASE g[i] = p
    BY <2>1, <2>4
  <2>5. CASE r > Last(p) /\ g[i] = Append(p, r)
    <3> DEFINE s == Append(p, r)
               m == Len(p)
    <3> HIDE DEF T, h, n
    <3>1. /\ p \in Seq(T) /\ m \in Nat /\ m >= 1 /\ p[1] = h + 1 /\ Last(p) = p[m]
          /\ \A k \in 1..(m - 1) : p[k] < p[k + 1]
      <4>1. p \in Seq(T) /\ p # << >>
        BY <2>1
      <4>2. /\ Len(p) \in Nat /\ Len(p) > 0 /\ p[Len(p)] = Last(p)
        BY <4>1, FrontAndLast
      <4> QED
        BY <2>1, <4>1, <4>2
    <3>2. /\ s \in Seq(T) /\ Len(s) = m + 1 /\ s[m + 1] = r /\ s # << >>
          /\ \A k \in 1..m : s[k] = p[k]
      BY <2>2, <3>1
    <3> HIDE DEF s, m
    <3>3. s[1] = h + 1
      BY <3>1, <3>2
    <3>4. ASSUME NEW k \in 1..(Len(s) - 1) PROVE s[k] < s[k + 1]
      <4>1. k \in 1..m /\ (k = m \/ (k \in 1..(m - 1) /\ k + 1 \in 1..m))
        BY <3>1, <3>2
      <4>2. p[m] < r
        <5>1. p[m] \in T /\ r \in T
          BY <2>2, <3>1 DEF m
        <5> QED
          BY <1>1, <2>5, <3>1, <5>1 DEF T, h, n
      <4> QED
        BY <3>1, <3>2, <4>1, <4>2
    <3>5. Good(s)
      BY <3>2, <3>3, <3>4
    <3> QED
      BY <2>1, <2>5, <3>5 DEF s
  <2>6. g[i] = p \/ (r > Last(p) /\ g[i] = Append(p, r))
    BY <2>3 DEF AddStart
  <2> QED
    BY <2>4, <2>5, <2>6
<1>6. N \in H
  <2> HIDE DEF H
  <2>1. \A i \in 0..N : i \in H
    BY <1>1, <1>4, <1>5, UpToN
  <2> QED
    BY <1>1, <2>1
<1>7. Good(starts)
  BY <1>3, <1>6
<1> QED
  BY <1>7

(* All groups together.                                                    *)
LEMMA GroupsAre ==
  ASSUME NEW element, IsOrderly(element), element.kind = "table",
         element.header < Len(element.rows)
  PROVE  TableDrafts(EmitGroups(element, GroupStarts(element)), element,
                     GroupCaption(element) \cup Solids(element.rows[element.header])
                       \cup RowsSaid(element.rows, element.header + 1, Len(element.rows)))
PROOF
<1> DEFINE rows == element.rows
           h == element.header
           n == Len(rows)
           starts == GroupStarts(element)
           m == Len(starts)
           End(k) == IF k = m THEN n ELSE starts[k + 1] - 1
           groups == [k \in DOMAIN starts |->
                        EmitGroup(element, starts[k],
                                  IF k = Len(starts) THEN Len(element.rows) ELSE starts[k + 1] - 1)]
           top == GroupCaption(element) \cup Solids(rows[h])
           UpToGroup(k) == IF k = 0 THEN {} ELSE top \cup RowsSaid(rows, h + 1, End(k))
<1>1. /\ element \in ParsedElement /\ rows \in Seq(Text) /\ h \in Nat \ {0} /\ TextsRise(rows)
      /\ \A r \in DOMAIN rows : Before(Solids(element.caption), Solids(rows[r]))
      /\ GroupCaption(element) \subseteq Solids(element.caption)
  BY TableOrder DEF GroupCaption
<1>2. /\ n \in Nat /\ DOMAIN rows = 1..n /\ h \in 1..n
  BY <1>1
<1>3. /\ starts \in Seq((h + 1)..n) /\ starts # << >> /\ starts[1] = h + 1
      /\ \A k \in 1..(m - 1) : starts[k] < starts[k + 1]
  BY <1>1, GroupStartsIs
<1>4. EmitGroups(element, starts) = Flattened(groups)
  BY DEF EmitGroups
<1> HIDE DEF starts
<1>5. /\ m \in Nat /\ m >= 1 /\ DOMAIN starts = 1..m
      /\ \A k \in 1..m : starts[k] \in (h + 1)..n
  <2>1. Len(starts) \in Nat /\ Len(starts) > 0 /\ DOMAIN starts = 1..Len(starts)
    BY <1>3, FrontAndLast
  <2>2. \A k \in DOMAIN starts : starts[k] \in (h + 1)..n
    BY <1>3, ElementsOf
  <2> HIDE DEF h, n
  <2> QED
    BY <2>1, <2>2
<1> HIDE DEF m
<1>6. /\ Len(groups) = m /\ \A k \in 1..m : groups[k] = EmitGroup(element, starts[k], End(k))
  BY <1>5 DEF m
<1> HIDE DEF groups
<1>7. ASSUME NEW k \in 1..m PROVE End(k) \in starts[k]..n
  <2>1. CASE k = m
    BY <1>2, <1>5, <2>1
  <2>2. CASE k # m
    <3>1. k \in 1..(m - 1) /\ k + 1 \in 1..m
      BY <1>5, <2>2
    <3>2. starts[k] < starts[k + 1] /\ starts[k] \in (h + 1)..n /\ starts[k + 1] \in (h + 1)..n
      BY <1>3, <1>5, <3>1
    <3> QED
      BY <1>2, <2>2, <3>2
  <2> QED
    BY <2>1, <2>2
<1>8. PICK g : /\ g[0] = << >> /\ Flattened(groups) = g[m]
               /\ \A i \in 1..m : g[i] = g[i - 1] \o groups[i]
  BY <1>5, <1>6, FlattenedStages
<1> HIDE DEF rows, h, n
<1> DEFINE H == {i \in 0..m : TableDrafts(g[i], element, UpToGroup(i))}
<1>9. 0 \in H
  BY <1>5, <1>8, NoTableDrafts
<1>10. ASSUME NEW i \in 1..m, i - 1 \in H PROVE i \in H
  <2> DEFINE from == starts[i]
             to == End(i)
             part == RowsSaid(rows, from, to)
             A == UpToGroup(i - 1)
             B == top \cup part
  <2>1. TableDrafts(g[i - 1], element, A)
    BY <1>10
  <2>2. from \in (h + 1)..n /\ to \in from..n
    BY <1>5, <1>7
  <2>3. groups[i] = EmitGroup(element, from, to) /\ g[i] = g[i - 1] \o groups[i]
    BY <1>6, <1>8
  <2>4. TableDrafts(groups[i], element, B)
    <3> HIDE DEF from, to
    <3> QED
      BY <2>2, <2>3, GroupIs DEF rows, h, n
  <2>5. i = 1 \/ (i - 1 \in 1..m /\ i - 1 # 0 /\ i - 1 # m /\ (i - 1) + 1 = i)
    BY <1>5
  <2>6. A \cup B = UpToGroup(i) /\ Before(A, B \ A)
    <3>1. CASE i = 1
      <4>1. A = {} /\ from = h + 1 /\ UpToGroup(i) = top \cup RowsSaid(rows, h + 1, End(1))
        BY <1>3, <3>1
      <4> QED
        BY <3>1, <4>1 DEF Before
    <3>2. CASE i # 1
      <4> DEFINE last == End(i - 1)
      <4>1. last = from - 1 /\ last \in Nat /\ h + 1 <= last /\ h \in Nat
        <5>1. i - 1 \in 1..m
          BY <2>5, <3>2
        <5>2. last \in starts[i - 1]..n /\ starts[i - 1] \in (h + 1)..n
          BY <1>5, <1>7, <5>1
        <5>3. last = from - 1
          BY <2>5, <3>2
        <5> HIDE DEF last, from
        <5> QED
          BY <1>2, <5>2, <5>3
      <4>2. A = top \cup RowsSaid(rows, h + 1, last)
        BY <2>5, <3>2
      <4>3. UpToGroup(i) = top \cup RowsSaid(rows, h + 1, to)
        BY <2>5
      <4> HIDE DEF last, from, to, A, UpToGroup, End
      <4>4. (h + 1)..to = ((h + 1)..last) \cup (from..to)
        BY <1>2, <2>2, <4>1
      <4>5. RowsSaid(rows, h + 1, to) = RowsSaid(rows, h + 1, last) \cup part
        BY <4>4 DEF RowsSaid
      <4>6. ASSUME NEW x \in A, NEW y \in B, y \notin A PROVE x < y
        <5>1. PICK r \in from..to : y \in Solids(rows[r])
          BY <4>2, <4>6 DEF RowsSaid
        <5>2. r \in 1..n /\ h < r /\ h \in 1..n
          BY <1>2, <2>2, <4>1
        <5>3. CASE x \in GroupCaption(element)
          BY <1>1, <1>2, <5>1, <5>2, <5>3 DEF Before
        <5>4. CASE x \in Solids(rows[h])
          BY <1>1, <1>2, <5>1, <5>2, <5>4 DEF TextsRise, Before
        <5>5. CASE x \in RowsSaid(rows, h + 1, last)
          <6>1. PICK q \in (h + 1)..last : x \in Solids(rows[q])
            BY <5>5 DEF RowsSaid
          <6>2. q \in 1..n /\ q < r
            BY <1>2, <2>2, <4>1
          <6> QED
            BY <1>1, <1>2, <5>1, <5>2, <6>1, <6>2 DEF TextsRise, Before
        <5> QED
          BY <4>2, <4>6, <5>3, <5>4, <5>5
      <4> HIDE DEF top, part
      <4>7. A \cup B = UpToGroup(i)
        BY <4>2, <4>3, <4>5
      <4> QED
        BY <4>6, <4>7 DEF Before
    <3> QED
      BY <3>1, <3>2
  <2>7. TableDrafts(g[i - 1] \o groups[i], element, A \cup B)
    <3> HIDE DEF A, B
    <3> QED
      BY <2>1, <2>4, <2>6, MoreTableDrafts
  <2>8. i \in 0..m
    OBVIOUS
  <2> QED
    BY <2>3, <2>6, <2>7, <2>8
<1>11. m \in H
  <2> HIDE DEF H
  <2>1. \A i \in 0..m : i \in H
    BY <1>5, <1>9, <1>10, UpToN
  <2> QED
    BY <1>5, <2>1
<1>12. UpToGroup(m) = top \cup RowsSaid(rows, h + 1, n)
  BY <1>5
<1> QED
  BY <1>4, <1>8, <1>11, <1>12 DEF starts, rows, h, n

(* A table with nothing but a text.                                        *)
LEMMA TextTable ==
  ASSUME NEW element, IsOrderly(element), element.kind = "table", element.rows = << >>
  PROVE  TableDrafts(Emit(Caption(element) \o element.text, <<element>>, "table", << >>),
                     element, Said(element))
PROOF
<1> DEFINE content == Caption(element) \o element.text
<1>1. /\ element \in ParsedElement /\ element.caption \in Text /\ element.text \in Text
      /\ Rising(element.caption) /\ Rising(element.text)
      /\ Before(Solids(element.caption), Solids(element.text))
      /\ Said(element) = Solids(element.caption) \cup Solids(element.text)
                           \cup RowsSaid(element.rows, 1, Len(element.rows))
  BY TableOrder
<1>2. /\ Caption(element) \in Text /\ Solids(Caption(element)) = Solids(element.caption)
      /\ Rising(Caption(element))
  BY <1>1, CaptionIs
<1>3. content \in Text /\ Solids(content) = Solids(element.caption) \cup Solids(element.text)
  BY <1>1, <1>2, Concatenated
<1>4. Rising(content)
  BY <1>1, <1>2, Concatenated
<1> HIDE DEF content
<1>5. RowsSaid(element.rows, 1, Len(element.rows)) = {}
  <2>1. Len(element.rows) = 0 /\ 1..0 = {}
    OBVIOUS
  <2> QED
    BY <2>1 DEF RowsSaid
<1>6. DOMAIN element.rows = {} /\ << >> \in Seq(Nat)
  OBVIOUS
<1>7. TableDrafts(Emit(content, <<element>>, "table", << >>), element, Solids(content))
  BY <1>1, <1>3, <1>4, <1>6, EmittedOfTable
<1>8. Solids(content) = Said(element)
  BY <1>1, <1>3, <1>5
<1> QED
  BY <1>7, <1>8 DEF content

(* A table that fits as a whole.                                           *)
LEMMA WholeTable ==
  ASSUME NEW element, IsOrderly(element), element.kind = "table", element.rows # << >>,
         NEW n, n = Len(element.rows)
  PROVE  TableDrafts(Emit(Caption(element) \o Markdown(element.rows), <<element>>, "table", <<1, n, 0>>),
                     element, Said(element))
PROOF
<1> DEFINE rows == element.rows
           body == Markdown(rows)
           content == Caption(element) \o body
<1>1. /\ element \in ParsedElement /\ element.caption \in Text /\ rows \in Seq(Text)
      /\ Rising(element.caption) /\ TextsRise(rows)
      /\ \A r \in DOMAIN rows : Before(Solids(element.caption), Solids(rows[r]))
      /\ Said(element) = Solids(element.caption) \cup Solids(element.text)
                           \cup RowsSaid(rows, 1, n)
  BY TableOrder
<1>2. n \in Nat /\ DOMAIN rows = 1..n
  BY <1>1
<1>3. element.text = << >>
  BY DEF IsOrderly
<1>4. /\ Caption(element) \in Text /\ Solids(Caption(element)) = Solids(element.caption)
      /\ Rising(Caption(element))
  BY <1>1, CaptionIs
<1>5. body \in Text /\ Solids(body) = All(TextSets(rows)) /\ Rising(body)
  BY <1>1, MarkdownIs
<1> HIDE DEF body
<1>6. All(TextSets(rows)) = RowsSaid(rows, 1, n)
  <2> HIDE DEF rows
  <2> QED
    BY <1>2 DEF All, TextSets, RowsSaid
<1>7. Before(Solids(element.caption), Solids(body))
  <2> HIDE DEF rows
  <2> QED
    BY <1>1, <1>2, <1>5, <1>6 DEF RowsSaid, Before
<1>8. content \in Text /\ Solids(content) = Solids(element.caption) \cup RowsSaid(rows, 1, n)
  BY <1>4, <1>5, <1>6, Concatenated
<1>9. Rising(content)
  BY <1>4, <1>5, <1>7, Concatenated
<1> DEFINE which == <<1, n, 0>>
<1>10. which \in Seq(Nat) /\ which[1] = 1 /\ which[2] = n
  BY <1>2
<1> HIDE DEF content, which
<1>11. \A r \in DOMAIN rows : r = which[3] \/ (which[1] <= r /\ r <= which[2])
  <2> HIDE DEF rows
  <2> QED
    BY <1>2, <1>10
<1>12. TableDrafts(Emit(content, <<element>>, "table", which), element, Solids(content))
  BY <1>1, <1>8, <1>9, <1>10, <1>11, EmittedOfTable
<1>13. Solids(content) = Said(element)
  BY <1>1, <1>3, <1>8, SolidsOfNothing
<1> QED
  BY <1>12, <1>13 DEF content, body, which

(* The rows before the header of a table.                                  *)
LEMMA PreambleIs ==
  ASSUME NEW element, IsOrderly(element), element.kind = "table",
         element.header > 1, element.header < Len(element.rows)
  PROVE  TableDrafts(EmitPreamble(element), element,
                     Solids(element.caption) \cup RowsSaid(element.rows, 1, element.header - 1))
PROOF
<1> DEFINE rows == element.rows
           h == element.header
           n == Len(rows)
           part == SubSeq(rows, 1, h - 1)
           body == Join(part, <<LineBreak>>)
           content == Caption(element) \o body
           caption == Solids(element.caption)
           said == RowsSaid(rows, 1, h - 1)
<1>1. /\ element \in ParsedElement /\ element.caption \in Text /\ rows \in Seq(Text)
      /\ Rising(element.caption) /\ TextsRise(rows) /\ h \in Nat \ {0}
      /\ \A r \in DOMAIN rows : Before(Solids(element.caption), Solids(rows[r]))
  BY TableOrder
<1>2. n \in Nat /\ DOMAIN rows = 1..n /\ h \in Nat /\ h > 1 /\ h < n /\ h - 1 \in Nat /\ h - 1 <= n
  BY <1>1
<1>3. /\ Caption(element) \in Text /\ Solids(Caption(element)) = Solids(element.caption)
      /\ Rising(Caption(element))
  BY <1>1, CaptionIs
<1>4. part \in Seq(Text) /\ All(TextSets(part)) = said /\ TextsRise(part)
  <2> HIDE DEF rows, h
  <2> QED
    BY <1>1, <1>2, RowsFrom DEF n
<1> HIDE DEF part
<1>5. body \in Text /\ Solids(body) = said /\ Rising(body)
  BY <1>4, JoinedTexts, SolidsOfNothing
<1> HIDE DEF body
<1>6. Before(caption, said)
  <2> HIDE DEF rows, h, n
  <2> QED
    BY <1>1, <1>2 DEF RowsSaid, Before
<1>7. content \in Text /\ Solids(content) = caption \cup said
  BY <1>3, <1>5, Concatenated
<1>8. Rising(content)
  BY <1>3, <1>5, <1>6, Concatenated
<1> DEFINE which == <<1, h - 1, 0>>
<1>9. which \in Seq(Nat) /\ which[1] = 1 /\ which[2] = h - 1
  BY <1>2
<1> HIDE DEF content, which
<1>10. ASSUME NEW r \in DOMAIN rows, Solids(rows[r]) \cap Solids(content) # {}
       PROVE  r = which[3] \/ (which[1] <= r /\ r <= which[2])
  <2>1. PICK x : x \in Solids(rows[r]) /\ (x \in caption \/ x \in said)
    BY <1>7, <1>10
  <2>2. x \notin caption
    <3>1. rows[r] \in Text
      BY <1>1, <1>10, ElementsOf
    <3>2. x \in Nat
      BY <2>1, <3>1, SolidsAreNumbers
    <3>3. x \in caption => x < x
      BY <1>1, <2>1, <1>10 DEF Before
    <3> QED
      BY <3>2, <3>3
  <2>3. PICK q \in 1..(h - 1) : x \in Solids(rows[q])
    BY <2>1, <2>2 DEF RowsSaid
  <2>4. q \in DOMAIN rows
    BY <1>2
  <2>5. q = r
    <3> HIDE DEF rows
    <3> QED
      BY <1>1, <1>10, <2>1, <2>3, <2>4, RowsApart
  <2> QED
    BY <1>2, <1>9, <2>5
<1>11. TableDrafts(Emit(content, <<element>>, "table", which), element, Solids(content))
  BY <1>1, <1>7, <1>8, <1>9, <1>10, EmittedOfTable
<1> QED
  BY <1>7, <1>11 DEF content, body, part, which, EmitPreamble

(* The chunks of a table have all it says, and name its rows.              *)
LEMMA TableChunksAre ==
  ASSUME NEW elements, IsOutline(elements), NEW c \in DOMAIN elements, elements[c].kind = "table"
  PROVE  About(TableChunks(elements[c]), elements, c - 1, c)
PROOF
<1> DEFINE element == elements[c]
           rows == element.rows
           n == Len(rows)
           h == element.header
<1>1. IsOrderly(element) /\ element.kind = "table"
  BY DEF IsOutline
<1>2. TableDrafts(TableChunks(element), element, Said(element))
  <2> HIDE DEF element
  <2>1. CASE rows = << >>
    BY <1>1, <2>1, TextTable DEF TableChunks
  <2>2. CASE rows # << >> /\ (Len(Caption(element) \o Markdown(rows)) <= ContentBudget(element.path) \/ n = 1)
    BY <1>1, <2>2, WholeTable DEF TableChunks
  <2>3. CASE rows # << >> /\ ~ (Len(Caption(element) \o Markdown(rows)) <= ContentBudget(element.path) \/ n = 1)
    <3> DEFINE groups == EmitGroups(element, GroupStarts(element))
               body == Solids(rows[h]) \cup RowsSaid(rows, h + 1, n)
    <3>1. TableChunks(element) = (IF h = 1 THEN << >> ELSE EmitPreamble(element)) \o groups
      BY <2>3 DEF TableChunks
    <3>2. /\ rows \in Seq(Text) /\ h \in Nat \ {0} /\ TextsRise(rows)
          /\ \A r \in DOMAIN rows : Before(Solids(element.caption), Solids(rows[r]))
          /\ Said(element) = Solids(element.caption) \cup Solids(element.text) \cup RowsSaid(rows, 1, n)
      BY <1>1, TableOrder
    <3>3. element.text = << >> /\ (h = 1 \/ h < n)
      BY <1>1, <2>3 DEF IsOrderly
    <3>4. n \in Nat /\ DOMAIN rows = 1..n /\ n > 0 /\ n # 1
      BY <2>3, <3>2
    <3>5. h < n /\ h \in 1..n
      <4>1. h \in Nat /\ h # 0
        BY <3>2
      <4> HIDE DEF h, n
      <4> QED
        BY <3>3, <3>4, <4>1
    <3>6. TableDrafts(groups, element, GroupCaption(element) \cup body)
      <4>1. TableDrafts(groups, element, GroupCaption(element) \cup Solids(rows[h]) \cup RowsSaid(rows, h + 1, n))
        BY <1>1, <3>5, GroupsAre
      <4>2. GroupCaption(element) \cup Solids(rows[h]) \cup RowsSaid(rows, h + 1, n)
              = GroupCaption(element) \cup body
        OBVIOUS
      <4> QED
        BY <4>1, <4>2
    <3>7. Solids(element.text) = {}
      BY <3>3, SolidsOfNothing
    <3> HIDE DEF groups
    <3>8. CASE h = 1
      <4>1. 1..n = {1} \cup (2..n) /\ h + 1 = 2
        BY <3>4, <3>8
      <4>2. RowsSaid(rows, 1, n) = body
        <5> HIDE DEF rows, n, h
        <5> QED
          BY <4>1, <3>8 DEF RowsSaid
      <4>3. GroupCaption(element) = Solids(element.caption)
        BY <3>8 DEF GroupCaption
      <4>4. GroupCaption(element) \cup body = Said(element)
        BY <3>2, <3>7, <4>2, <4>3
      <4>5. TableChunks(element) = << >> \o groups /\ << >> \o groups = groups
        <5>1. groups \in Seq(Draft)
          BY <3>6 DEF TableDrafts
        <5> QED
          BY <3>1, <3>8, <5>1
      <4> QED
        BY <3>6, <4>4, <4>5
    <3>9. CASE h # 1
      <4> DEFINE A == Solids(element.caption) \cup RowsSaid(rows, 1, h - 1)
      <4>1. h > 1
        BY <3>2, <3>9
      <4>2. TableDrafts(EmitPreamble(element), element, A)
        BY <1>1, <3>5, <4>1, PreambleIs
      <4>3. TableDrafts(groups, element, body)
        <5>1. GroupCaption(element) = {}
          BY <4>1 DEF GroupCaption
        <5>2. GroupCaption(element) \cup body = body
          BY <5>1
        <5> QED
          BY <3>6, <5>2
      <4>4. 1..n = (1..(h - 1)) \cup {h} \cup ((h + 1)..n)
        BY <3>2, <3>4, <3>5
      <4>5. Said(element) = A \cup body
        <5>1. RowsSaid(rows, 1, n) = RowsSaid(rows, 1, h - 1) \cup body
          <6> HIDE DEF rows, n, h
          <6> QED
            BY <4>4 DEF RowsSaid
        <5> QED
          BY <3>2, <3>7, <5>1
      <4>6. ASSUME NEW x \in A, NEW y \in body PROVE x < y
        <5>1. PICK r \in h..n : y \in Solids(rows[r])
          <6>1. h \in h..n /\ \A r \in (h + 1)..n : r \in h..n
            BY <3>5, <3>4
          <6> QED
            BY <4>6, <6>1 DEF RowsSaid
        <5>2. r \in DOMAIN rows
          BY <3>4, <3>5
        <5>3. CASE x \in Solids(element.caption)
          BY <3>2, <5>1, <5>2, <5>3 DEF Before
        <5>4. CASE x \in RowsSaid(rows, 1, h - 1)
          <6>1. PICK q \in 1..(h - 1) : x \in Solids(rows[q])
            BY <5>4 DEF RowsSaid
          <6>2. q \in DOMAIN rows /\ q < r
            BY <3>4, <3>5
          <6>3. Before(Solids(rows[q]), Solids(rows[r]))
            BY <3>2, <5>2, <6>2 DEF TextsRise
          <6> QED
            BY <5>1, <6>1, <6>3 DEF Before
        <5> QED
          BY <4>6, <5>3, <5>4
      <4>7. Before(A, body \ A)
        <5> HIDE DEF A, body
        <5> QED
          BY <4>6 DEF Before
      <4>8. TableDrafts(EmitPreamble(element) \o groups, element, A \cup body)
        <5> HIDE DEF A, body
        <5> QED
          BY <4>2, <4>3, <4>7, MoreTableDrafts
      <4> QED
        BY <3>1, <3>9, <4>5, <4>8
    <3> QED
      BY <3>8, <3>9
  <2> QED
    BY <2>1, <2>2, <2>3
<1> QED
  BY <1>2, TableDraftsAreAbout

-----------------------------------------------------------------------------
(* Drafts of a document *)

(* Elements that follow one another.                                       *)
Run(elements, p, a) == [k \in 1..a |-> elements[p + k]]

(* A run has the elements of the document.                                 *)
LEMMA RunsAre ==
  ASSUME NEW elements, IsOutline(elements), NEW p \in Nat, NEW a \in Nat, p + a <= Len(elements)
  PROVE  /\ Run(elements, p, a) \in Seq(ParsedElement) /\ Len(Run(elements, p, a)) = a
         /\ DOMAIN Run(elements, p, a) = 1..a
         /\ \A k \in 1..a : /\ Run(elements, p, a)[k] = elements[p + k]
                            /\ p + k \in DOMAIN elements /\ elements[p + k] \in ParsedElement
                            /\ IsOrderly(elements[p + k])
PROOF
<1> DEFINE run == Run(elements, p, a)
<1>1. run = [k \in 1..a |-> elements[p + k]]
  BY DEF Run
<1>2. ASSUME NEW k \in 1..a
      PROVE  p + k \in DOMAIN elements /\ elements[p + k] \in ParsedElement /\ IsOrderly(elements[p + k])
  <2>1. p + k \in DOMAIN elements
    <3>1. Len(elements) \in Nat /\ DOMAIN elements = 1..Len(elements)
      BY DEF IsOutline
    <3> QED
      BY <3>1
  <2> QED
    BY <2>1 DEF IsOutline, IsOrderly
<1> HIDE DEF run
<1>3. run = [k \in 1..a |-> run[k]] /\ \A k \in 1..a : run[k] = elements[p + k]
  BY <1>1
<1>4. \A k \in 1..a : run[k] \in ParsedElement
  BY <1>2, <1>3
<1>5. run \in Seq(ParsedElement) /\ Len(run) = a /\ DOMAIN run = 1..a
  BY <1>3, <1>4, FunctionIsSequence
<1> QED
  BY <1>2, <1>3, <1>5 DEF run

(* A run and the element after it.                                         *)
LEMMA RunMore ==
  ASSUME NEW elements, IsOutline(elements), NEW p \in Nat, NEW a \in Nat, p + a < Len(elements)
  PROVE  Run(elements, p, a + 1) = Append(Run(elements, p, a), elements[p + a + 1])
PROOF
<1> DEFINE run == Run(elements, p, a)
           more == Run(elements, p, a + 1)
           x == elements[p + a + 1]
<1>1. Len(elements) \in Nat
  BY DEF IsOutline
<1>2. /\ run \in Seq(ParsedElement) /\ Len(run) = a
      /\ \A k \in 1..a : run[k] = elements[p + k]
  <2>1. p + a <= Len(elements)
    BY <1>1
  <2> QED
    BY <2>1, RunsAre
<1>3. /\ more \in Seq(ParsedElement) /\ Len(more) = a + 1
      /\ \A k \in 1..(a + 1) : more[k] = elements[p + k] /\ elements[p + k] \in ParsedElement
  <2>1. a + 1 \in Nat /\ p + (a + 1) <= Len(elements)
    BY <1>1
  <2> QED
    BY <2>1, RunsAre
<1>4. x \in ParsedElement
  <2>1. a + 1 \in 1..(a + 1) /\ p + (a + 1) = p + a + 1
    OBVIOUS
  <2> QED
    BY <1>3, <2>1
<1>5. more[a + 1] = x
  <2>1. a + 1 \in 1..(a + 1) /\ p + (a + 1) = p + a + 1
    OBVIOUS
  <2> QED
    BY <1>3, <2>1
<1> HIDE DEF run, more, x
<1> DEFINE both == Append(run, x)
<1>6. /\ both \in Seq(ParsedElement) /\ Len(both) = a + 1
      /\ both[a + 1] = x /\ \A k \in 1..a : both[k] = run[k]
  BY <1>2, <1>4
<1> HIDE DEF both
<1>7. ASSUME NEW k \in 1..(a + 1) PROVE more[k] = both[k]
  <2>1. k = a + 1 \/ k \in 1..a
    OBVIOUS
  <2> QED
    BY <1>2, <1>3, <1>5, <1>6, <2>1
<1>8. more = both
  BY <1>3, <1>6, <1>7
<1> QED
  BY <1>8 DEF more, both, run, x

(* What the texts of such elements say together.                           *)
LEMMA RunTexts ==
  ASSUME NEW elements, IsOutline(elements), NEW p \in Nat, NEW a \in Nat, p + a <= Len(elements),
         \A k \in 1..a : elements[p + k].kind # "table",
         NEW separator \in Text, Solids(separator) = {}, Rising(separator)
  PROVE  /\ Join(Texts(Run(elements, p, a)), separator) \in Text
         /\ Solids(Join(Texts(Run(elements, p, a)), separator)) = SaidBy(elements, p, p + a)
         /\ Rising(Join(Texts(Run(elements, p, a)), separator))
PROOF
<1> DEFINE run == Run(elements, p, a)
           texts == Texts(run)
<1>1. /\ Len(run) = a /\ DOMAIN run = 1..a
      /\ \A k \in 1..a : /\ run[k] = elements[p + k] /\ p + k \in DOMAIN elements
                         /\ elements[p + k] \in ParsedElement /\ IsOrderly(elements[p + k])
  <2>1. Len(run) = a
    BY RunsAre
  <2>2. DOMAIN run = 1..a
    BY RunsAre
  <2>3. ASSUME NEW k \in 1..a
        PROVE  /\ run[k] = elements[p + k] /\ p + k \in DOMAIN elements
               /\ elements[p + k] \in ParsedElement /\ IsOrderly(elements[p + k])
    BY RunsAre
  <2> HIDE DEF run
  <2> QED
    BY <2>1, <2>2, <2>3
<1>2. ASSUME NEW k \in 1..a
      PROVE  /\ run[k].text \in Text /\ Rising(run[k].text)
             /\ Said(elements[p + k]) = Solids(run[k].text)
  <2> DEFINE e == elements[p + k]
  <2>1. run[k] = e /\ e \in ParsedElement /\ IsOrderly(e) /\ e.kind # "table"
    BY <1>1
  <2> HIDE DEF e, run
  <2>2. e.text \in Text /\ Rising(e.text) /\ e.rows = << >> /\ e.kind # "image"
    BY <2>1 DEF IsOrderly, ParsedElement
  <2>3. (UNION {Solids(e.rows[r]) : r \in DOMAIN e.rows}) = {}
    BY <2>2
  <2>4. Said(e) = Solids(e.text) \cup (UNION {Solids(e.rows[r]) : r \in DOMAIN e.rows})
                     \cup IF e.kind = "table" THEN Solids(e.caption) ELSE {}
    BY <2>1, <2>2, SaidIs
  <2>5. Said(e) = Solids(e.text)
    BY <2>1, <2>3, <2>4
  <2> QED
    BY <2>1, <2>2, <2>5 DEF e
<1>3. texts = [k \in 1..a |-> run[k].text]
  BY <1>1 DEF Texts
<1> HIDE DEF run, texts
<1>4. texts = [k \in 1..a |-> texts[k]] /\ \A k \in 1..a : texts[k] = run[k].text
  BY <1>3
<1>5. \A k \in 1..a : texts[k] \in Text
  BY <1>2, <1>4
<1>6. texts \in Seq(Text) /\ DOMAIN texts = 1..a
  BY <1>4, <1>5, FunctionIsSequence
<1>7. All(TextSets(texts)) = SaidBy(elements, p, p + a)
  <2>1. All(TextSets(texts)) = UNION {Said(elements[p + k]) : k \in 1..a}
    BY <1>2, <1>4, <1>6, SMTT(30) DEF All, TextSets
  <2>2. \A k \in 1..a : p + k \in (p + 1)..(p + a)
    OBVIOUS
  <2>3. \A j \in (p + 1)..(p + a) : j - p \in 1..a /\ p + (j - p) = j
    OBVIOUS
  <2>4. (UNION {Said(elements[p + k]) : k \in 1..a}) \subseteq SaidBy(elements, p, p + a)
    BY <2>2 DEF SaidBy
  <2>5. SaidBy(elements, p, p + a) \subseteq (UNION {Said(elements[p + k]) : k \in 1..a})
    <3> SUFFICES ASSUME NEW j \in (p + 1)..(p + a)
                 PROVE  Said(elements[j]) \subseteq (UNION {Said(elements[p + k]) : k \in 1..a})
      BY DEF SaidBy
    <3>1. PICK k \in 1..a : j = p + k
      BY <2>3
    <3> QED
      BY <3>1
  <2> QED
    BY <2>1, <2>4, <2>5
<1>8. TextsRise(texts)
  <2>1. \A k \in DOMAIN texts : Rising(texts[k])
    BY <1>2, <1>4, <1>6
  <2>2. ASSUME NEW j \in 1..a, NEW k \in 1..a, j < k
        PROVE  Before(Solids(texts[j]), Solids(texts[k]))
    <3>1. p + j < p + k /\ p + j \in DOMAIN elements /\ p + k \in DOMAIN elements
      BY <1>1, <2>2
    <3>2. Before(Said(elements[p + j]), Said(elements[p + k]))
      BY <3>1 DEF IsOutline
    <3> QED
      BY <1>2, <1>4, <3>2
  <2> QED
    BY <1>6, <2>1, <2>2 DEF TextsRise
<1> QED
  BY <1>6, <1>7, <1>8, JoinedTexts DEF texts, run

(* Drafts that have the text of such elements are about them.              *)
LEMMA RunAbout ==
  ASSUME NEW elements, IsOutline(elements), NEW p \in Nat, NEW a \in Nat \ {0},
         p + a <= Len(elements),
         \A k \in 1..a : /\ elements[p + k].kind # "heading" => 
                              /\ elements[p + k].page = elements[p + 1].page
                              /\ elements[p + k].path = elements[p + 1].path,
         NEW content \in Text, Rising(content), Solids(content) = SaidBy(elements, p, p + a),
         NEW kind \in Kind, kind # "table"
  PROVE  About(Emit(content, Run(elements, p, a), kind, << >>), elements, p, p + a)
PROOF
<1> DEFINE run == Run(elements, p, a)
<1>1. /\ run \in Seq(ParsedElement) /\ Len(run) = a /\ DOMAIN run = 1..a
      /\ \A k \in 1..a : run[k] = elements[p + k] /\ elements[p + k] \in ParsedElement
  <2>1. a \in Nat /\ p + a <= Len(elements)
    OBVIOUS
  <2>2. /\ Run(elements, p, a) \in Seq(ParsedElement) /\ Len(Run(elements, p, a)) = a
        /\ DOMAIN Run(elements, p, a) = 1..a
        /\ \A k \in 1..a : /\ Run(elements, p, a)[k] = elements[p + k]
                           /\ p + k \in DOMAIN elements /\ elements[p + k] \in ParsedElement
                           /\ IsOrderly(elements[p + k])
    BY <2>1, RunsAre
  <2> QED
    BY <2>2
<1>2. run # << >> /\ << >> \in Seq(Nat) /\ 1 \in 1..a
  BY <1>1
<1>3. run[1] = elements[p + 1]
  BY <1>1, <1>2
<1> DEFINE drafts == Emit(content, run, kind, << >>)
<1> HIDE DEF run, drafts
<1>4. /\ drafts \in Seq(Draft)
      /\ \A k \in DOMAIN drafts :
           /\ Fits(drafts[k].content, drafts[k].path)
           /\ drafts[k].path = run[1].path /\ drafts[k].page = run[1].page
           /\ drafts[k].refs = {run[m].ref : m \in DOMAIN run}
           /\ drafts[k].kind = kind /\ drafts[k].rows = << >>
      /\ All(Contents(drafts)) = Solids(content)
      /\ Rising(content) => InOrder(Contents(drafts))
  BY <1>1, <1>2, EmitIs DEF drafts
<1>5. ASSUME NEW j \in (p + 1)..(p + a), elements[j].kind # "heading", NEW k \in DOMAIN drafts
      PROVE  NamesItsSource(drafts[k], elements[j])
  <2>1. PICK m \in 1..a : j = p + m
    <3>1. j - p \in 1..a /\ j = p + (j - p)
      OBVIOUS
    <3> QED
      BY <3>1
  <2>2. /\ elements[j].page = elements[p + 1].page /\ elements[j].path = elements[p + 1].path
    BY <1>5, <2>1
  <2>3. elements[j].ref \in {run[i].ref : i \in DOMAIN run}
    BY <1>1, <2>1
  <2>4. elements[j].path \in Seq(STRING)
    BY <1>1, <2>1 DEF ParsedElement
  <2>5. IsPrefix(elements[j].path, elements[j].path)
    BY <2>4 DEF IsPrefix
  <2> QED
    BY <1>3, <1>4, <2>2, <2>3, <2>5 DEF NamesItsSource
<1>6. ASSUME NEW j \in (p + 1)..(p + a) PROVE Said(elements[j]) \subseteq All(Contents(drafts))
  BY <1>4 DEF SaidBy
<1>7. About(drafts, elements, p, p + a)
  BY <1>4, <1>5, <1>6 DEF About
<1> QED
  BY <1>7 DEF drafts, run

(* What of the first i elements is done, pending and a heading without     *)
(* anything under it.                                                      *)
Ready(state, elements, i, a, b) ==
  /\ a \in Nat /\ b \in Nat /\ a + b <= i /\ i <= Len(elements) /\ (a = 0 \/ b = 0)
  /\ state \in [done : Seq(Draft), pending : Seq(ParsedElement), headings : Seq(ParsedElement)]
  /\ About(state.done, elements, 0, i - a - b)
  /\ state.pending = Run(elements, i - a - b, a)
  /\ state.headings = Run(elements, i - b, b)
  /\ \A k \in 1..a : /\ elements[i - a - b + k].kind \notin {"heading", "table"}
                     /\ elements[i - a - b + k].page = elements[i - a - b + 1].page
                     /\ elements[i - a - b + k].path = elements[i - a - b + 1].path
  /\ \A k \in 1..b : elements[i - b + k].kind = "heading"

(* A run of no elements.                                                   *)
LEMMA NoRun ==
  ASSUME NEW elements, NEW p
  PROVE  Run(elements, p, 0) = << >>
PROOF
<1>1. 1..0 = {}
  OBVIOUS
<1> QED
  BY <1>1 DEF Run

(* Drafts about nothing but headings change nothing.                       *)
LEMMA HeadingsApart ==
  ASSUME NEW elements, IsOutline(elements), NEW b \in Nat, NEW c \in Nat, b <= c, c <= Len(elements),
         NEW drafts, About(drafts, elements, 0, b),
         \A j \in (b + 1)..c : elements[j].kind = "heading"
  PROVE  About(drafts, elements, 0, c)
PROOF
<1>1. About(<< >>, elements, b, c)
  BY AboutNothing
<1>2. About(drafts \o << >>, elements, 0, c)
  <2>1. 0 \in Nat /\ 0 <= b
    OBVIOUS
  <2> QED
    BY <1>1, <2>1, AboutBoth
<1>3. drafts \o << >> = drafts
  BY DEF About
<1> QED
  BY <1>2, <1>3

(* flush() leaves nothing pending.                                         *)
LEMMA FlushedIs ==
  ASSUME NEW elements, IsOutline(elements), NEW i \in Nat, NEW a, NEW b,
         NEW state, Ready(state, elements, i, a, b)
  PROVE  Ready(Flushed(state), elements, i, 0, b)
PROOF
<1> DEFINE p == i - a - b
<1>1. /\ a \in Nat /\ b \in Nat /\ a + b <= i /\ i <= Len(elements) /\ (a = 0 \/ b = 0)
      /\ state \in [done : Seq(Draft), pending : Seq(ParsedElement), headings : Seq(ParsedElement)]
      /\ About(state.done, elements, 0, p)
      /\ state.pending = Run(elements, p, a) /\ state.headings = Run(elements, i - b, b)
      /\ \A k \in 1..a : /\ elements[p + k].kind \notin {"heading", "table"}
                         /\ elements[p + k].page = elements[p + 1].page
                         /\ elements[p + k].path = elements[p + 1].path
      /\ \A k \in 1..b : elements[i - b + k].kind = "heading"
  BY DEF Ready
<1>2. p \in Nat /\ p + a <= Len(elements) /\ p + a = i - b /\ i - 0 - b = p + a /\ Len(elements) \in Nat
      /\ 0 <= p
  <2>1. Len(elements) \in Nat
    BY DEF IsOutline
  <2>2. a \in Nat /\ b \in Nat /\ a + b <= i /\ i <= Len(elements)
    BY <1>1
  <2> QED
    BY <2>1, <2>2
<1> HIDE DEF p
<1>3. CASE a = 0
  <2>1. state.pending = << >>
    BY <1>1, <1>3, NoRun
  <2> QED
    BY <1>3, <2>1 DEF Flushed
<1>4. CASE a # 0
  <2> DEFINE run == Run(elements, p, a)
             content == Join(Texts(run), <<LineBreak, LineBreak>>)
             more == Emit(content, run, "text", << >>)
  <2>1. run # << >> /\ state.pending = run /\ a \in Nat \ {0}
    <3>1. Len(run) = a
      BY <1>1, <1>2, RunsAre
    <3> QED
      BY <1>1, <1>4, <3>1
  <2>2. content \in Text /\ Rising(content) /\ Solids(content) = SaidBy(elements, p, p + a)
    <3>1. \A k \in 1..a : elements[p + k].kind # "table"
      BY <1>1
    <3>2. a \in Nat /\ p \in Nat /\ p + a <= Len(elements)
      BY <1>1, <1>2
    <3>3. <<LineBreak, LineBreak>> \in Text /\ Solids(<<LineBreak, LineBreak>>) = {}
          /\ Rising(<<LineBreak, LineBreak>>)
      BY SolidsOfNothing
    <3> QED
      BY <3>1, <3>2, <3>3, RunTexts, ZenonT(60)
  <2> HIDE DEF content
  <2>3. "text" \in Kind /\ "text" # "table"
    BY DEF Kind
  <2>4. About(more, elements, p, p + a)
    BY <1>1, <1>2, <2>1, <2>2, <2>3, RunAbout
  <2> HIDE DEF more
  <2>5. About(state.done \o more, elements, 0, p + a)
    BY <1>1, <1>2, <2>4, AboutBoth, SMTT(30)
  <2>6. Flushed(state) = [state EXCEPT !.done = @ \o more, !.pending = << >>]
    BY <2>1 DEF Flushed, more, content
  <2>7. state.done \o more \in Seq(Draft)
    BY <2>5 DEF About
  <2> DEFINE s == Flushed(state)
  <2>8. /\ s.done = state.done \o more /\ s.pending = << >> /\ s.headings = state.headings
        /\ s \in [done : Seq(Draft), pending : Seq(ParsedElement), headings : Seq(ParsedElement)]
    <3>1. state \in [done : Seq(Draft), pending : Seq(ParsedElement), headings : Seq(ParsedElement)]
      BY <1>1
    <3>2. << >> \in Seq(ParsedElement)
      OBVIOUS
    <3> DEFINE done == state.done \o more
    <3>3. s = [state EXCEPT !.done = done, !.pending = << >>] /\ done \in Seq(Draft)
      BY <2>6, <2>7
    <3> HIDE DEF s, done
    <3>4. /\ s.done = done /\ s.pending = << >> /\ s.headings = state.headings
          /\ s \in [done : Seq(Draft), pending : Seq(ParsedElement), headings : Seq(ParsedElement)]
      BY <3>1, <3>2, <3>3
    <3> QED
      BY <3>4 DEF done
  <2> HIDE DEF s
  <2>9. s.pending = Run(elements, i - 0 - b, 0)
    BY <2>8, NoRun
  <2>10. \A k \in 1..0 : FALSE
    OBVIOUS
  <2>11. 0 + b <= i /\ 0 \in Nat
    BY <1>1
  <2>12. About(s.done, elements, 0, i - 0 - b)
    BY <1>2, <2>5, <2>8
  <2>13. Ready(s, elements, i, 0, b)
    BY <1>1, <2>8, <2>9, <2>10, <2>11, <2>12, Zenon DEF Ready
  <2> QED
    BY <2>13 DEF s
<1> QED
  BY <1>3, <1>4

(* The element after the first i elements joins those that are pending.    *)
LEMMA Joining ==
  ASSUME NEW elements, IsOutline(elements), NEW i \in Nat, i < Len(elements), NEW a, NEW b,
         NEW state, Ready(state, elements, i, a, b),
         elements[i + 1].kind \notin {"heading", "table"},
         JoinsPending(state, elements[i + 1])
  PROVE  \E n \in Nat : Ready([state EXCEPT !.headings = << >>, !.pending = Append(@, elements[i + 1])],
                              elements, i + 1, n, 0)
PROOF
<1> DEFINE p == i - a - b
           x == elements[i + 1]
           s == [state EXCEPT !.headings = << >>, !.pending = Append(@, x)]
<1>1. /\ a \in Nat /\ b \in Nat /\ a + b <= i /\ i <= Len(elements) /\ (a = 0 \/ b = 0)
      /\ state \in [done : Seq(Draft), pending : Seq(ParsedElement), headings : Seq(ParsedElement)]
      /\ About(state.done, elements, 0, p)
      /\ state.pending = Run(elements, p, a) /\ state.headings = Run(elements, i - b, b)
      /\ \A k \in 1..a : /\ elements[p + k].kind \notin {"heading", "table"}
                         /\ elements[p + k].page = elements[p + 1].page
                         /\ elements[p + k].path = elements[p + 1].path
      /\ \A k \in 1..b : elements[i - b + k].kind = "heading"
  BY DEF Ready
<1>2. Len(elements) \in Nat /\ p \in Nat /\ i + 1 <= Len(elements) /\ p <= i
  <2>1. Len(elements) \in Nat
    BY DEF IsOutline
  <2> QED
    BY <1>1, <2>1, SMTT(30)
<1>3. x \in ParsedElement
  <2>1. i + 1 \in DOMAIN elements
    BY <1>2
  <2> QED
    BY <2>1 DEF IsOutline, IsOrderly
<1> DEFINE q == IF a = 0 THEN i ELSE p
<1>4. q \in Nat /\ (i + 1) - (a + 1) - 0 = q /\ q + a = i
  BY <1>1
<1>5. About(state.done, elements, 0, q)
  <2>1. CASE a = 0
    <3>1. \A j \in (p + 1)..i : elements[j].kind = "heading"
      <4>1. ASSUME NEW j \in (p + 1)..i PROVE elements[j].kind = "heading"
        <5>1. j - (i - b) \in 1..b /\ i - b + (j - (i - b)) = j
          BY <1>1, <2>1
        <5> QED
          BY <1>1, <5>1
      <4> QED
        BY <4>1
    <3>2. i <= Len(elements)
      BY <1>2
    <3> HIDE DEF p
    <3>3. About(state.done, elements, 0, i)
      BY <1>1, <1>2, <3>1, <3>2, HeadingsApart
    <3> QED
      BY <2>1, <3>3
  <2>2. CASE a # 0
    BY <1>1, <2>2
  <2> QED
    BY <2>1, <2>2
<1>6. state.pending = Run(elements, q, a)
  BY <1>1, NoRun
<1>7. Append(state.pending, x) = Run(elements, q, a + 1)
  <2>1. q + a < Len(elements) /\ q + a + 1 = i + 1
    BY <1>1, <1>2, <1>4
  <2>2. a \in Nat /\ q \in Nat
    BY <1>1, <1>4
  <2> HIDE DEF q, p
  <2>3. Run(elements, q, a + 1) = Append(Run(elements, q, a), elements[q + a + 1])
    BY <2>1, <2>2, RunMore
  <2> QED
    BY <1>6, <2>1, <2>3
<1>8. /\ s.done = state.done /\ s.headings = << >> /\ s.pending = Append(state.pending, x)
      /\ s \in [done : Seq(Draft), pending : Seq(ParsedElement), headings : Seq(ParsedElement)]
  <2>1. state \in [done : Seq(Draft), pending : Seq(ParsedElement), headings : Seq(ParsedElement)]
    BY <1>1
  <2> DEFINE pending == Append(state.pending, x)
  <2>2. s = [state EXCEPT !.headings = << >>, !.pending = pending]
    OBVIOUS
  <2>3. pending \in Seq(ParsedElement) /\ << >> \in Seq(ParsedElement)
    BY <1>3, <2>1
  <2> HIDE DEF s, pending
  <2>4. /\ s.done = state.done /\ s.headings = << >> /\ s.pending = pending
        /\ s \in [done : Seq(Draft), pending : Seq(ParsedElement), headings : Seq(ParsedElement)]
    BY <2>1, <2>2, <2>3
  <2> QED
    BY <2>4 DEF pending
<1>9. ASSUME NEW k \in 1..(a + 1)
      PROVE  /\ elements[q + k].kind \notin {"heading", "table"}
             /\ elements[q + k].page = elements[q + 1].page
             /\ elements[q + k].path = elements[q + 1].path
  <2>1. CASE a = 0
    <3>1. k = 1 /\ q + k = i + 1 /\ q + 1 = i + 1
      BY <2>1
    <3> QED
      BY <3>1
  <2>2. CASE a # 0
    <3>1. q = p /\ 1 \in 1..a
      BY <1>1, <2>2
    <3>2. CASE k \in 1..a
      BY <1>1, <3>1, <3>2
    <3>3. CASE k = a + 1
      <4>1. q + k = i + 1
        BY <1>1, <1>4, <3>3
      <4>2. /\ p + a <= Len(elements)
        BY <1>1, <1>2
      <4> HIDE DEF p, q
      <4>3. state.pending[1] = elements[p + 1] /\ Len(state.pending) = a
        <5>1. a \in Nat /\ p \in Nat
          BY <1>1, <1>2
        <5>2. /\ Run(elements, p, a) \in Seq(ParsedElement) /\ Len(Run(elements, p, a)) = a
              /\ DOMAIN Run(elements, p, a) = 1..a
              /\ \A m \in 1..a : /\ Run(elements, p, a)[m] = elements[p + m]
                                 /\ p + m \in DOMAIN elements
                                 /\ elements[p + m] \in ParsedElement
                                 /\ IsOrderly(elements[p + m])
          BY <4>2, <5>1, RunsAre, SMTT(30)
        <5> QED
          BY <1>1, <3>1, <5>2
      <4>4. state.pending # << >>
        BY <1>1, <2>2, <4>3
      <4>5. x.page = state.pending[1].page /\ x.path = state.pending[1].path
        BY <4>4 DEF JoinsPending
      <4> QED
        BY <3>1, <4>1, <4>3, <4>5
    <3>4. k \in 1..a \/ k = a + 1
      BY <1>1
    <3> QED
      BY <3>2, <3>3, <3>4
  <2> QED
    BY <2>1, <2>2
<1> HIDE DEF s, x, q
<1>10. Ready(s, elements, i + 1, a + 1, 0)
  <2>1. a + 1 \in Nat /\ 0 \in Nat /\ (a + 1) + 0 <= i + 1 /\ i + 1 <= Len(elements)
    BY <1>1, <1>2
  <2>2. s.headings = Run(elements, (i + 1) - 0, 0)
    BY <1>8, NoRun
  <2>3. \A k \in 1..0 : FALSE
    OBVIOUS
  <2> QED
    BY <1>4, <1>5, <1>7, <1>8, <1>9, <2>1, <2>2, <2>3, Zenon DEF Ready
<1>11. a + 1 \in Nat
  BY <1>1
<1> QED
  BY <1>10, <1>11 DEF s, x

(* What is done after flush() is about all elements so far, whatever       *)
(* heading is left.                                                        *)
LEMMA HeadingsDropped ==
  ASSUME NEW elements, IsOutline(elements), NEW i \in Nat, NEW b,
         NEW state, Ready(state, elements, i, 0, b)
  PROVE  About(state.done, elements, 0, i)
PROOF
<1>1. /\ b \in Nat /\ b <= i /\ i <= Len(elements)
      /\ About(state.done, elements, 0, i - 0 - b)
      /\ \A k \in 1..b : elements[i - b + k].kind = "heading"
  BY SMTT(30) DEF Ready
<1> DEFINE p == i - b
<1>2. p \in Nat /\ p <= i /\ i - 0 - b = p
  BY <1>1
<1>3. ASSUME NEW j \in (p + 1)..i PROVE elements[j].kind = "heading"
  <2>1. j - p \in 1..b /\ p + (j - p) = j
    BY <1>1
  <2> QED
    BY <1>1, <2>1
<1> HIDE DEF p
<1> QED
  BY <1>1, <1>2, <1>3, HeadingsApart

(* Nothing pending, and drafts about all elements so far.                  *)
LEMMA NothingPending ==
  ASSUME NEW elements, IsOutline(elements), NEW i \in Nat, i <= Len(elements),
         NEW state, state \in [done : Seq(Draft), pending : Seq(ParsedElement), headings : Seq(ParsedElement)],
         state.pending = << >>, state.headings = << >>, About(state.done, elements, 0, i)
  PROVE  Ready(state, elements, i, 0, 0)
PROOF
<1>1. /\ 0 \in Nat /\ 0 + 0 <= i /\ i - 0 - 0 = i /\ i - 0 = i
      /\ \A k \in 1..0 : FALSE
  OBVIOUS
<1>2. state.pending = Run(elements, i - 0 - 0, 0) /\ state.headings = Run(elements, i - 0, 0)
  BY NoRun
<1> QED
  BY <1>1, <1>2, Zenon DEF Ready

(* A single element and the drafts of its text.                            *)
LEMMA SingleAbout ==
  ASSUME NEW elements, IsOutline(elements), NEW i \in Nat, i < Len(elements),
         elements[i + 1].kind \notin {"heading", "table"}
  PROVE  About(Emit(elements[i + 1].text, <<elements[i + 1]>>, elements[i + 1].kind, << >>),
               elements, i, i + 1)
PROOF
<1> DEFINE x == elements[i + 1]
           text == x.text
<1>1. Len(elements) \in Nat /\ i + 1 <= Len(elements) /\ i + 1 \in DOMAIN elements
  <2>1. elements \in Seq(ParsedElement)
    BY DEF IsOutline
  <2> QED
    BY <2>1
<1>2. IsOrderly(x) /\ x \in ParsedElement
  BY <1>1 DEF IsOutline, IsOrderly
<1>3. Run(elements, i, 1) = <<x>>
  <2>1. i + 0 < Len(elements) /\ 0 \in Nat /\ i + 0 + 1 = i + 1
    BY <1>1
  <2>2. Run(elements, i, 0 + 1) = Append(Run(elements, i, 0), elements[i + 0 + 1])
    BY <2>1, RunMore
  <2>3. Run(elements, i, 0 + 1) = Append(<< >>, x)
    BY <2>1, <2>2, NoRun
  <2> QED
    BY <2>3
<1> HIDE DEF x
<1>4. text \in Text /\ x.kind \in Kind
  BY <1>2 DEF ParsedElement
<1>5. x.kind \notin {"heading", "table"}
  BY DEF x
<1>6. Rising(text) /\ x.rows = << >> /\ x.kind # "image"
  BY <1>2, <1>5 DEF IsOrderly
<1>7. Said(x) = Solids(text)
  <2>1. (UNION {Solids(x.rows[r]) : r \in DOMAIN x.rows}) = {}
    BY <1>6
  <2>2. Said(x) = Solids(x.text) \cup (UNION {Solids(x.rows[r]) : r \in DOMAIN x.rows})
                     \cup IF x.kind = "table" THEN Solids(x.caption) ELSE {}
    BY <1>2, <1>6, SaidIs
  <2> QED
    BY <1>5, <2>1, <2>2
<1>8. SaidBy(elements, i, i + 1) = Said(x)
  <2>1. (i + 1)..(i + 1) = {i + 1}
    OBVIOUS
  <2> QED
    BY <2>1 DEF SaidBy, x
<1>9. /\ 1 \in Nat \ {0} /\ x.kind # "table"
      /\ \A k \in 1..1 : elements[i + k].kind # "heading" =>
           /\ elements[i + k].page = elements[i + 1].page
           /\ elements[i + k].path = elements[i + 1].path
  BY <1>5
<1> HIDE DEF text
<1>10. Solids(text) = SaidBy(elements, i, i + 1)
  BY <1>7, <1>8
<1>11. About(Emit(text, Run(elements, i, 1), x.kind, << >>), elements, i, i + 1)
  BY <1>1, <1>4, <1>6, <1>9, <1>10, RunAbout
<1> QED
  BY <1>3, <1>11 DEF x, text

(* An element that joins nothing, after flush().                           *)
LEMMA Apart ==
  ASSUME NEW elements, IsOutline(elements), NEW i \in Nat, i < Len(elements), NEW b,
         NEW state, Ready(state, elements, i, 0, b)
  PROVE  \E m, n \in Nat : Ready(AddApart(state, elements[i + 1]), elements, i + 1, m, n)
PROOF
<1> DEFINE x == elements[i + 1]
           S == [done : Seq(Draft), pending : Seq(ParsedElement), headings : Seq(ParsedElement)]
           after == [state EXCEPT !.headings = << >>]
           next == AddApart(state, x)
<1>1. /\ elements \in Seq(ParsedElement) /\ Len(elements) \in Nat /\ i + 1 <= Len(elements)
      /\ i + 1 \in DOMAIN elements /\ i <= Len(elements)
  <2>1. elements \in Seq(ParsedElement)
    BY DEF IsOutline
  <2> QED
    BY <2>1
<1>2. x \in ParsedElement
  BY <1>1 DEF IsOutline, IsOrderly
<1>3. /\ b \in Nat /\ b <= i /\ state \in S /\ state.pending = Run(elements, i - 0 - b, 0)
      /\ state.headings = Run(elements, i - b, b)
      /\ About(state.done, elements, 0, i - 0 - b)
      /\ \A k \in 1..b : elements[i - b + k].kind = "heading"
  BY DEF Ready
<1>4. state.pending = << >>
  BY <1>3, NoRun
<1>5. About(state.done, elements, 0, i)
  BY HeadingsDropped
<1> HIDE DEF x
<1>6. /\ after \in S /\ after.done = state.done /\ after.pending = << >> /\ after.headings = << >>
  <2>1. << >> \in Seq(ParsedElement)
    OBVIOUS
  <2> QED
    BY <1>3, <1>4, <2>1
<1> HIDE DEF after
<1>7. ASSUME NEW more, About(more, elements, i, i + 1), next = [after EXCEPT !.done = @ \o more]
      PROVE  Ready(next, elements, i + 1, 0, 0)
  <2> DEFINE done == state.done \o more
  <2>1. About(done, elements, 0, i + 1)
    <3>1. 0 \in Nat /\ 0 <= i /\ i <= i + 1 /\ i + 1 \in Nat
      OBVIOUS
    <3> QED
      BY <1>1, <1>5, <1>7, <3>1, AboutBoth
  <2>2. done \in Seq(Draft)
    BY <2>1 DEF About
  <2>3. next = [after EXCEPT !.done = done]
    BY <1>6, <1>7
  <2> HIDE DEF done, next
  <2>4. next \in S /\ next.done = done /\ next.pending = << >> /\ next.headings = << >>
    BY <1>6, <2>2, <2>3
  <2> HIDE DEF S
  <2>5. i + 1 \in Nat
    OBVIOUS
  <2> QED
    BY <1>1, <2>1, <2>4, <2>5, NothingPending DEF S
<1>8. CASE x.kind = "heading"
  <2> DEFINE headings == Append(state.headings, x)
  <2>1. next = [state EXCEPT !.headings = headings]
    BY <1>8 DEF AddApart, IsLong
  <2>2. headings \in Seq(ParsedElement)
    BY <1>2, <1>3
  <2> HIDE DEF headings, next
  <2>3. next \in S /\ next.done = state.done /\ next.pending = << >> /\ next.headings = headings
    BY <1>3, <1>4, <2>1, <2>2
  <2>4. b + 1 \in Nat /\ 0 + (b + 1) <= i + 1 /\ (i + 1) - 0 - (b + 1) = i - 0 - b
        /\ (i + 1) - (b + 1) = i - b
    BY <1>3
  <2>5. headings = Run(elements, (i + 1) - (b + 1), b + 1)
    <3> DEFINE p == i - b
    <3>1. p \in Nat /\ b \in Nat /\ p + b < Len(elements) /\ p + b + 1 = i + 1
      BY <1>1, <1>3
    <3>2. state.headings = Run(elements, p, b)
      BY <1>3
    <3>3. (i + 1) - (b + 1) = p
      BY <2>4
    <3> HIDE DEF p
    <3>4. Run(elements, p, b + 1) = Append(Run(elements, p, b), elements[p + b + 1])
      BY <3>1, RunMore
    <3> QED
      BY <3>1, <3>2, <3>3, <3>4 DEF headings, x
  <2>6. next.pending = Run(elements, (i + 1) - 0 - (b + 1), 0)
    BY <2>3, NoRun
  <2>7. ASSUME NEW k \in 1..(b + 1) PROVE elements[(i + 1) - (b + 1) + k].kind = "heading"
    <3>1. CASE k \in 1..b
      BY <1>3, <2>4, <3>1
    <3>2. CASE k = b + 1
      <4>1. (i + 1) - (b + 1) + k = i + 1
        BY <1>3, <3>2
      <4> QED
        BY <1>8, <4>1 DEF x
    <3>3. k \in 1..b \/ k = b + 1
      BY <1>3
    <3> QED
      BY <3>1, <3>2, <3>3
  <2>8. About(next.done, elements, 0, (i + 1) - 0 - (b + 1))
    BY <1>3, <2>3, <2>4
  <2>9. 0 \in Nat /\ \A k \in 1..0 : FALSE
    OBVIOUS
  <2>10. Ready(next, elements, i + 1, 0, b + 1)
    BY <1>1, <2>3, <2>4, <2>5, <2>6, <2>7, <2>8, <2>9, Zenon DEF Ready
  <2> QED
    BY <2>4, <2>9, <2>10 DEF next, x
<1>9. CASE x.kind = "table"
  <2>1. About(TableChunks(x), elements, (i + 1) - 1, i + 1)
    BY <1>1, <1>9, TableChunksAre DEF x
  <2>2. (i + 1) - 1 = i /\ 0 \in Nat
    OBVIOUS
  <2>3. About(TableChunks(x), elements, i, i + 1)
    BY <2>1, <2>2
  <2>4. next = [after EXCEPT !.done = @ \o TableChunks(x)]
    BY <1>9 DEF AddApart, IsLong, after
  <2> HIDE DEF next
  <2>5. Ready(next, elements, i + 1, 0, 0)
    BY <1>7, <2>3, <2>4
  <2> QED
    BY <2>2, <2>5 DEF next, x
<1>10. CASE x.kind \notin {"heading", "table"} /\ (x.kind = "code" \/ IsLong(x))
  <2> DEFINE more == Emit(x.text, <<x>>, x.kind, << >>)
  <2>1. About(more, elements, i, i + 1)
    BY <1>10, SingleAbout DEF x
  <2>2. next = [after EXCEPT !.done = @ \o more]
    <3>1. next = [after EXCEPT !.done = @ \o Emit(x.text, <<x>>, x.kind, << >>)]
      BY <1>10 DEF AddApart, after, IsLong
    <3> QED
      BY <3>1
  <2> HIDE DEF next, more
  <2>3. Ready(next, elements, i + 1, 0, 0)
    BY <1>7, <2>1, <2>2
  <2>4. 0 \in Nat
    OBVIOUS
  <2> QED
    BY <2>3, <2>4 DEF next, x
<1>11. CASE x.kind \notin {"heading", "table"} /\ ~ (x.kind = "code" \/ IsLong(x))
  <2>1. next = [after EXCEPT !.pending = <<x>>]
    BY <1>11 DEF AddApart, after
  <2>2. <<x>> \in Seq(ParsedElement)
    BY <1>2
  <2> DEFINE one == <<x>>
  <2>3. next = [state EXCEPT !.headings = << >>, !.pending = Append(@, x)]
    <3>1. Append(state.pending, x) = <<x>>
      BY <1>4
    <3> HIDE DEF next
    <3> QED
      BY <1>3, <2>1, <3>1 DEF after
  <2>4. JoinsPending(state, x)
    BY <1>4 DEF JoinsPending
  <2> HIDE DEF next
  <2>5. \E n \in Nat : Ready(next, elements, i + 1, n, 0)
    BY <1>11, <2>3, <2>4, Joining DEF x
  <2>6. 0 \in Nat
    OBVIOUS
  <2> QED
    BY <2>5, <2>6 DEF next, x
<1> QED
  BY <1>8, <1>9, <1>10, <1>11

(* Every element takes its step.                                           *)
LEMMA AddElementIs ==
  ASSUME NEW elements, IsOutline(elements), NEW i \in Nat, i < Len(elements), NEW a, NEW b,
         NEW state, Ready(state, elements, i, a, b)
  PROVE  \E m, n \in Nat : Ready(AddElement(state, elements[i + 1]), elements, i + 1, m, n)
PROOF
<1> DEFINE x == elements[i + 1]
<1>1. CASE x.kind = "paragraph" /\ ~ IsLong(x) /\ JoinsPending(state, x)
  <2>1. AddElement(state, x) = [state EXCEPT !.headings = << >>, !.pending = Append(@, x)]
    BY <1>1 DEF AddElement
  <2>2. x.kind \notin {"heading", "table"}
    BY <1>1
  <2>3. \E n \in Nat : Ready(AddElement(state, x), elements, i + 1, n, 0)
    <3> DEFINE next == [state EXCEPT !.headings = << >>, !.pending = Append(@, x)]
    <3>1. \E n \in Nat : Ready(next, elements, i + 1, n, 0)
      BY <1>1, <2>2, Joining
    <3>2. AddElement(state, x) = next
      BY <2>1
    <3> HIDE DEF next
    <3> QED
      BY <3>1, <3>2, Zenon
  <2>4. 0 \in Nat
    OBVIOUS
  <2> QED
    BY <2>3, <2>4
<1>2. CASE ~ (x.kind = "paragraph" /\ ~ IsLong(x) /\ JoinsPending(state, x))
  <2>1. AddElement(state, x) = AddApart(Flushed(state), x)
    BY <1>2 DEF AddElement
  <2>2. Ready(Flushed(state), elements, i, 0, b)
    BY FlushedIs
  <2> QED
    BY <2>1, <2>2, Apart
<1> QED
  BY <1>1, <1>2

(* The drafts of a document are about all of it.                           *)
LEMMA DraftsAre ==
  ASSUME NEW elements, IsOutline(elements)
  PROVE  About(Drafts(elements), elements, 0, Len(elements))
PROOF
<1> DEFINE n == Len(elements)
<1>1. n \in Nat
  BY DEF IsOutline
<1>2. PICK g : /\ g[0] = NoDrafts /\ Drafts(elements) = WithHeadings(Flushed(g[n]))
               /\ \A i \in 1..n : g[i] = AddElement(g[i - 1], elements[i])
  BY <1>1, DraftsStages
<1> DEFINE H == {i \in 0..n : \E a, b \in Nat : Ready(g[i], elements, i, a, b)}
<1>3. 0 \in H
  <2>1. /\ << >> \in Seq(Draft) /\ << >> \in Seq(ParsedElement) /\ 0 \in Nat /\ 0 <= Len(elements)
        /\ \A j \in (0 + 1)..0 : FALSE
    BY <1>1
  <2>2. About(<< >>, elements, 0, 0)
    BY <2>1, AboutNothing
  <2>3. /\ NoDrafts \in [done : Seq(Draft), pending : Seq(ParsedElement), headings : Seq(ParsedElement)]
        /\ NoDrafts.done = << >> /\ NoDrafts.pending = << >> /\ NoDrafts.headings = << >>
    BY <2>1 DEF NoDrafts
  <2>4. Ready(NoDrafts, elements, 0, 0, 0)
    BY <2>1, <2>2, <2>3, NothingPending
  <2> QED
    BY <1>1, <1>2, <2>1, <2>4
<1>4. ASSUME NEW i \in 1..n, i - 1 \in H PROVE i \in H
  <2>1. i - 1 \in Nat /\ i - 1 < Len(elements) /\ (i - 1) + 1 = i /\ i \in 0..n
    BY <1>1
  <2>2. PICK a \in Nat, b \in Nat : Ready(g[i - 1], elements, i - 1, a, b)
    BY <1>4
  <2>3. \E p, q \in Nat : Ready(AddElement(g[i - 1], elements[(i - 1) + 1]), elements, (i - 1) + 1, p, q)
    BY <2>1, <2>2, AddElementIs
  <2>4. g[i] = AddElement(g[i - 1], elements[i])
    BY <1>2
  <2> QED
    BY <2>1, <2>3, <2>4
<1>5. n \in H
  <2> HIDE DEF H, n
  <2>1. \A i \in 0..n : i \in H
    BY <1>1, <1>3, <1>4, UpToN
  <2> QED
    BY <1>1, <2>1
<1>6. PICK a \in Nat, b \in Nat : Ready(g[n], elements, n, a, b)
  BY <1>5
<1> DEFINE last == Flushed(g[n])
<1> HIDE DEF n, H
<1>7. Ready(last, elements, n, 0, b)
  BY <1>1, <1>6, FlushedIs
<1> HIDE DEF last
<1>8. CASE last.headings = << >>
  <2>1. Drafts(elements) = last.done
    BY <1>2, <1>8 DEF WithHeadings, last
  <2>2. About(last.done, elements, 0, n)
    BY <1>1, <1>7, HeadingsDropped
  <2> QED
    BY <2>1, <2>2 DEF n
<1>9. CASE last.headings # << >>
  <2> DEFINE p == n - b
             run == Run(elements, p, b)
             content == Join(Texts(run), <<LineBreak>>)
             more == Emit(content, run, "heading", << >>)
  <2>1. /\ b <= n /\ n <= Len(elements) /\ About(last.done, elements, 0, n - 0 - b)
        /\ last.headings = Run(elements, n - b, b)
        /\ \A k \in 1..b : elements[n - b + k].kind = "heading"
    BY <1>7 DEF Ready
  <2>2. p \in Nat /\ p + b = n /\ n - 0 - b = p /\ p + b <= Len(elements) /\ 0 \in Nat /\ 0 <= p
        /\ p <= p + b
    BY <1>1, <2>1
  <2>3. b \in Nat \ {0}
    <3>1. CASE b = 0
      <4>1. last.headings = << >>
        BY <2>1, <3>1, NoRun
      <4> QED
        BY <1>9, <4>1
    <3> QED
      BY <3>1
  <2>4. \A k \in 1..b : elements[p + k].kind = "heading"
    BY <2>1
  <2>5. Drafts(elements) = last.done \o more
    BY <1>2, <1>9, <2>1 DEF WithHeadings, last
  <2>6. About(last.done, elements, 0, p)
    BY <2>1, <2>2
  <2> HIDE DEF p
  <2>7. content \in Text /\ Rising(content) /\ Solids(content) = SaidBy(elements, p, p + b)
    <3>1. \A k \in 1..b : elements[p + k].kind # "table"
      BY <2>4
    <3>2. <<LineBreak>> \in Text /\ Solids(<<LineBreak>>) = {} /\ Rising(<<LineBreak>>)
      BY SolidsOfNothing
    <3>3. b \in Nat
      BY <2>3
    <3>4. p \in Nat /\ p + b <= Len(elements)
      BY <2>2
    <3> QED
      BY <3>1, <3>2, <3>3, <3>4, RunTexts, ZenonT(60)
  <2> HIDE DEF content
  <2>8. "heading" \in Kind /\ "heading" # "table"
    BY DEF Kind
  <2>9. About(more, elements, p, p + b)
    <3>1. \A k \in 1..b : elements[p + k].kind # "heading" =>
            /\ elements[p + k].page = elements[p + 1].page
            /\ elements[p + k].path = elements[p + 1].path
      BY <2>4
    <3> QED
      BY <2>2, <2>3, <2>7, <2>8, <3>1, RunAbout
  <2> HIDE DEF more
  <2>10. About(last.done \o more, elements, 0, p + b)
    BY <2>2, <2>6, <2>9, AboutBoth
  <2> QED
    BY <2>2, <2>5, <2>10 DEF n
<1> QED
  BY <1>8, <1>9

-----------------------------------------------------------------------------
(* Chunks *)

(* A sequence with one more ends with it.                                  *)
LEMMA EndOfMore ==
  ASSUME NEW T, NEW s \in Seq(T), NEW x \in T
  PROVE  /\ Append(s, x) \in Seq(T) /\ Append(s, x) # << >>
         /\ Front(Append(s, x)) = s /\ Last(Append(s, x)) = x
PROOF
<1> DEFINE b == Append(s, x)
<1>1. /\ b \in Seq(T) /\ Len(b) = Len(s) + 1 /\ Len(s) \in Nat /\ b[Len(s) + 1] = x
      /\ \A i \in 1..Len(s) : b[i] = s[i]
  OBVIOUS
<1> HIDE DEF b
<1>2. b # << >>
  BY <1>1
<1>3. /\ Front(b) \in Seq(T) /\ Last(b) = b[Len(b)] /\ Len(Front(b)) = Len(b) - 1
      /\ \A i \in 1..(Len(b) - 1) : Front(b)[i] = b[i]
  BY <1>1, <1>2, FrontAndLast
<1>4. Len(Front(b)) = Len(s) /\ \A i \in 1..Len(s) : Front(b)[i] = s[i]
  BY <1>1, <1>3
<1>5. Front(b) = s
  BY <1>3, <1>4
<1> QED
  BY <1>1, <1>2, <1>3, <1>5 DEF b

(* Two drafts that are merged.                                             *)
LEMMA MergedIs ==
  ASSUME NEW left \in Draft, NEW right \in Draft, MayMerge(left, right),
         NEW merged, merged = Merged(left, right)
  PROVE  /\ merged \in Draft
         /\ Solids(merged.content) = Solids(left.content) \cup Solids(right.content)
         /\ \A e \in ParsedElement :
              NamesItsSource(left, e) /\ NamesItsSource(right, e) => NamesItsSource(merged, e)
PROOF
<1> DEFINE same == left.path = right.path
           lead == <<Word, LineBreak>>
           between == <<LineBreak, LineBreak>>
           a == IF same THEN left.content ELSE lead \o left.content
           b == IF same THEN right.content ELSE lead \o right.content
           content == a \o between \o b
           path == IF same THEN left.path ELSE Front(left.path)
<1>1. merged = [left EXCEPT !.content = content, !.path = path, !.kind = "text",
                            !.refs = @ \cup right.refs, !.merged = ~ same]
  BY DEF Merged
<1>2. /\ left.content \in Text /\ right.content \in Text /\ left.path \in Seq(STRING)
      /\ right.path \in Seq(STRING) /\ left.refs \in SUBSET Ref /\ right.refs \in SUBSET Ref
  BY DEF Draft
<1>3. /\ lead \in Text /\ Solids(lead) = {} /\ between \in Text /\ Solids(between) = {}
  BY SolidsOfNothing
<1>4. ~ same => Len(left.path) > 1 /\ right.path # << >> /\ Front(left.path) = Front(right.path)
  BY DEF MayMerge, AreSiblings
<1>5. left.page = right.page
  BY DEF MayMerge
<1> HIDE DEF lead, between
<1>6. a \in Text /\ Solids(a) = Solids(left.content)
  <2>1. /\ lead \o left.content \in Text
        /\ Solids(lead \o left.content) = Solids(lead) \cup Solids(left.content)
    BY <1>2, <1>3, Concatenated
  <2>2. Solids(lead \o left.content) = Solids(left.content)
    BY <1>3, <2>1
  <2> QED
    BY <1>2, <2>1, <2>2
<1>7. b \in Text /\ Solids(b) = Solids(right.content)
  <2>1. /\ lead \o right.content \in Text
        /\ Solids(lead \o right.content) = Solids(lead) \cup Solids(right.content)
    BY <1>2, <1>3, Concatenated
  <2>2. Solids(lead \o right.content) = Solids(right.content)
    BY <1>3, <2>1
  <2> QED
    BY <1>2, <2>1, <2>2
<1> HIDE DEF a, b
<1>8. content \in Text /\ Solids(content) = Solids(left.content) \cup Solids(right.content)
  <2> DEFINE start == a \o between
  <2>1. start \in Text /\ Solids(start) = Solids(a) \cup Solids(between)
    BY <1>3, <1>6, Concatenated
  <2> HIDE DEF start
  <2>2. start \o b \in Text /\ Solids(start \o b) = Solids(start) \cup Solids(b)
    BY <1>7, <2>1, Concatenated
  <2>3. Solids(start \o b) = Solids(left.content) \cup Solids(right.content)
    BY <1>3, <1>6, <1>7, <2>1, <2>2
  <2> QED
    BY <2>2, <2>3 DEF start
<1>9. ~ same => left.path # << >>
  <2> SUFFICES ASSUME left.path = << >>, ~ same PROVE FALSE
    OBVIOUS
  <2>1. Len(left.path) = 0
    OBVIOUS
  <2> QED
    BY <1>4, <2>1
<1>10. path \in Seq(STRING)
  <2>1. left.path # << >> => Front(left.path) \in Seq(STRING)
    BY <1>2, FrontAndLast
  <2> QED
    BY <1>2, <1>9, <2>1
<1> HIDE DEF content
<1>11. merged \in Draft
  <2> DEFINE isMerged == ~ same
             refs == left.refs \cup right.refs
  <2>1. refs \in SUBSET Ref /\ isMerged \in BOOLEAN /\ "text" \in Kind
    BY <1>2 DEF Kind
  <2>2. merged = [left EXCEPT !.content = content, !.path = path, !.kind = "text",
                              !.refs = refs, !.merged = isMerged]
    BY <1>1
  <2> HIDE DEF refs, isMerged, path
  <2> QED
    BY <1>8, <1>10, <2>1, <2>2 DEF Draft
<1>12. /\ merged.content = content /\ merged.path = path /\ merged.kind = "text"
       /\ merged.refs = left.refs \cup right.refs /\ merged.page = left.page
  <2> HIDE DEF path, same
  <2> QED
    BY <1>1 DEF Draft
<1>13. ASSUME NEW e \in ParsedElement, NamesItsSource(left, e), NamesItsSource(right, e)
       PROVE  NamesItsSource(merged, e)
  <2> DEFINE here(x) == Solids(x.content) \cap Said(e)
  <2>1. /\ here(left) # {} => left.page = e.page /\ e.ref \in left.refs /\ IsPrefix(left.path, e.path)
        /\ here(right) # {} => right.page = e.page /\ e.ref \in right.refs /\ IsPrefix(right.path, e.path)
    BY <1>13 DEF NamesItsSource, Solids, Said
  <2>2. e.path \in Seq(STRING)
    BY DEF ParsedElement
  <2>3. ASSUME NEW p \in Seq(STRING), p # << >>, IsPrefix(p, e.path)
        PROVE  IsPrefix(Front(p), e.path)
    <3>1. /\ Len(p) <= Len(e.path) /\ \A i \in 1..Len(p) : p[i] = e.path[i]
      BY <2>2, <2>3 DEF IsPrefix
    <3>2. /\ Front(p) \in Seq(STRING) /\ Len(p) \in Nat /\ Len(Front(p)) = Len(p) - 1
          /\ \A i \in 1..(Len(p) - 1) : Front(p)[i] = p[i]
      BY <2>3, FrontAndLast
    <3>3. Len(Front(p)) <= Len(e.path) /\ \A i \in 1..Len(Front(p)) : Front(p)[i] = e.path[i]
      BY <2>2, <3>1, <3>2
    <3> QED
      BY <2>2, <3>2, <3>3 DEF IsPrefix
  <2>4. here(merged) # {} => here(left) # {} \/ here(right) # {}
    BY <1>8, <1>12
  <2>5. here(left) # {} => IsPrefix(path, e.path)
    <3>1. left.path # << >> /\ IsPrefix(left.path, e.path) => IsPrefix(Front(left.path), e.path)
      BY <1>2, <2>3
    <3> QED
      BY <1>9, <2>1, <3>1
  <2>6. here(right) # {} => IsPrefix(path, e.path)
    <3>1. right.path # << >> /\ IsPrefix(right.path, e.path) => IsPrefix(Front(right.path), e.path)
      BY <1>2, <2>3
    <3> QED
      BY <1>4, <2>1, <3>1
  <2>7. here(merged) # {} => merged.page = e.page /\ e.ref \in merged.refs /\ IsPrefix(merged.path, e.path)
    BY <1>5, <1>12, <2>1, <2>4, <2>5, <2>6
  <2>8. merged.kind # "table"
    BY <1>12
  <2> QED
    BY <2>7, <2>8 DEF NamesItsSource, Solids, Said
<1> QED
  BY <1>8, <1>11, <1>12, <1>13

(* What the chunks of the first i drafts are.                              *)
Carried(result, drafts, i) ==
  /\ result \in Seq(Draft) /\ \A k \in DOMAIN result : Fits(result[k].content, result[k].path)
  /\ InOrder(Contents(result)) /\ All(Contents(result)) = Earlier(Contents(drafts), i + 1)
  /\ \A e \in ParsedElement :
       (\A k \in DOMAIN drafts : NamesItsSource(drafts[k], e)) =>
         \A k \in DOMAIN result : NamesItsSource(result[k], e)

(* Drafts and one more.                                                    *)
LEMMA OneMore ==
  ASSUME NEW drafts \in Seq(Draft), NEW x \in Draft
  PROVE  /\ Append(drafts, x) \in Seq(Draft)
         /\ Contents(Append(drafts, x)) = Append(Contents(drafts), Solids(x.content))
         /\ \A k \in DOMAIN Append(drafts, x) :
              (k \in DOMAIN drafts /\ Append(drafts, x)[k] = drafts[k]) \/ Append(drafts, x)[k] = x
PROOF
<1>1. <<x>> \in Seq(Draft) /\ Append(drafts, x) = drafts \o <<x>>
  OBVIOUS
<1>2. Contents(drafts \o <<x>>) = Contents(drafts) \o Contents(<<x>>)
  BY <1>1, ContentsOfBoth
<1>3. Contents(<<x>>) = <<Solids(x.content)>>
  BY DEF Contents
<1>4. Contents(drafts) \in Sets
  BY ContentsOf
<1>5. Contents(drafts) \o <<Solids(x.content)>> = Append(Contents(drafts), Solids(x.content))
  <2> DEFINE a == Contents(drafts)
             S == Solids(x.content)
  <2> HIDE DEF a, S
  <2>1. a \in Seq(SUBSET Nat)
    BY <1>4 DEF Sets, a
  <2> QED
    BY <2>1 DEF a, S
<1>6. \A k \in DOMAIN Append(drafts, x) :
        (k \in DOMAIN drafts /\ Append(drafts, x)[k] = drafts[k]) \/ Append(drafts, x)[k] = x
  OBVIOUS
<1>7. Append(drafts, x) \in Seq(Draft)
  OBVIOUS
<1>8. Contents(Append(drafts, x)) = Append(Contents(drafts), Solids(x.content))
  BY <1>1, <1>2, <1>3, <1>5, Zenon
<1> QED
  BY <1>6, <1>7, <1>8

(* Every draft takes its step.                                             *)
LEMMA AddChunkIs ==
  ASSUME NEW drafts \in Seq(Draft), InOrder(Contents(drafts)),
         \A k \in DOMAIN drafts : Fits(drafts[k].content, drafts[k].path),
         NEW i \in 1..Len(drafts), NEW result, Carried(result, drafts, i - 1)
  PROVE  Carried(AddChunk(result, drafts[i]), drafts, i)
PROOF
<1> DEFINE x == drafts[i]
           left == Last(result)
           merged == Merged(left, x)
           sets == Contents(drafts)
           S == Solids(x.content)
           next == AddChunk(result, x)
<1>1. /\ result \in Seq(Draft) /\ \A k \in DOMAIN result : Fits(result[k].content, result[k].path)
      /\ InOrder(Contents(result)) /\ All(Contents(result)) = Earlier(sets, i)
      /\ \A e \in ParsedElement :
           (\A k \in DOMAIN drafts : NamesItsSource(drafts[k], e)) =>
             \A k \in DOMAIN result : NamesItsSource(result[k], e)
  <2>1. (i - 1) + 1 = i
    OBVIOUS
  <2> QED
    BY <2>1 DEF Carried
<1>2. /\ i \in DOMAIN drafts /\ i \in Nat \ {0} /\ x \in Draft /\ Fits(x.content, x.path)
      /\ sets \in Sets /\ sets[i] = S /\ S \in SUBSET Nat /\ DOMAIN sets = DOMAIN drafts
  <2>1. i \in DOMAIN drafts /\ i \in Nat \ {0}
    OBVIOUS
  <2> QED
    BY <2>1, ContentsOf
<1>3. Before(Earlier(sets, i), S \ Earlier(sets, i))
  BY <1>2, AscendingIsInOrder DEF Ascending
<1>4. Earlier(sets, i + 1) = Earlier(sets, i) \cup S
  BY <1>2, EarlierMore
<1>5. Contents(result) \in Sets /\ Len(Contents(result)) = Len(result)
  BY <1>1, ContentsOf
<1> HIDE DEF x, sets, S
<1>6. CASE next = Append(result, x)
  <2>1. /\ next \in Seq(Draft) /\ Contents(next) = Append(Contents(result), S)
        /\ \A k \in DOMAIN next : (k \in DOMAIN result /\ next[k] = result[k]) \/ next[k] = x
    BY <1>1, <1>2, <1>6, OneMore DEF S
  <2> HIDE DEF next
  <2>2. All(Contents(next)) = Earlier(sets, i + 1) /\ InOrder(Contents(next))
    BY <1>1, <1>2, <1>3, <1>4, <1>5, <2>1, OrderWithMore
  <2>3. \A k \in DOMAIN next : Fits(next[k].content, next[k].path)
    BY <1>1, <1>2, <2>1
  <2>4. ASSUME NEW e \in ParsedElement, \A k \in DOMAIN drafts : NamesItsSource(drafts[k], e),
               NEW k \in DOMAIN next
        PROVE  NamesItsSource(next[k], e)
    BY <1>1, <1>2, <2>1, <2>4 DEF x
  <2>5. Carried(next, drafts, i)
    BY <2>1, <2>2, <2>3, <2>4 DEF Carried, sets
  <2> QED
    BY <2>5 DEF next, x
<1>7. CASE /\ result # << >> /\ MayMerge(left, x) /\ Fits(merged.content, merged.path)
           /\ next = Append(Front(result), merged)
  <2> DEFINE front == Front(result)
  <2>1. /\ front \in Seq(Draft) /\ left \in Draft /\ result = Append(front, left)
        /\ Len(result) \in DOMAIN result /\ result[Len(result)] = left
        /\ \A k \in DOMAIN front : k \in DOMAIN result /\ result[k] = front[k]
    <3>1. /\ Front(result) \in Seq(Draft) /\ Last(result) \in Draft
          /\ result = Append(Front(result), Last(result))
          /\ Len(result) \in Nat /\ Len(result) > 0 /\ Len(Front(result)) = Len(result) - 1
          /\ DOMAIN result = 1..Len(result) /\ DOMAIN Front(result) = 1..(Len(result) - 1)
          /\ result[Len(result)] = Last(result)
          /\ \A k \in 1..(Len(result) - 1) : Front(result)[k] = result[k]
      BY <1>1, <1>7, FrontAndLast
    <3> QED
      BY <3>1
  <2>2. merged \in Draft /\ Solids(merged.content) = Solids(left.content) \cup S
    BY <1>2, <1>7, <2>1, MergedIs, ZenonT(60) DEF S
  <2>3. \A e \in ParsedElement :
          NamesItsSource(left, e) /\ NamesItsSource(x, e) => NamesItsSource(merged, e)
    BY <1>2, <1>7, <2>1, MergedIs
  <2>4. Fits(merged.content, merged.path) /\ next = Append(front, merged)
    BY <1>7
  <2> HIDE DEF front, merged, left, next
  <2>5. /\ next \in Seq(Draft) /\ Contents(next) = Append(Contents(front), Solids(merged.content))
        /\ \A k \in DOMAIN next : (k \in DOMAIN front /\ next[k] = front[k]) \/ next[k] = merged
    BY <2>1, <2>2, <2>4, OneMore, ZenonT(60)
  <2> DEFINE a == Contents(result)
  <2>6. a # << >> /\ Front(a) = Contents(front) /\ Last(a) = Solids(left.content)
    <3> DEFINE f == Contents(front)
               l == Solids(left.content)
    <3>1. a = Append(f, l)
      BY <2>1, OneMore
    <3>2. f \in Seq(SUBSET Nat) /\ l \in SUBSET Nat
      <4>1. f \in Sets
        BY <2>1, ContentsOf
      <4>2. left.content \in Text
        BY <2>1 DEF Draft
      <4> QED
        BY <4>1, <4>2, SolidsAreNumbers DEF Sets
    <3> HIDE DEF a, f, l
    <3>3. a \in Seq(SUBSET Nat) /\ a # << >> /\ Front(a) = f /\ Last(a) = l
      BY <3>1, <3>2, EndOfMore, ZenonT(60)
    <3> QED
      BY <3>3 DEF f, l
  <2> HIDE DEF a
  <2>7. Contents(next) = Append(Front(a), Last(a) \cup S)
    BY <2>2, <2>5, <2>6
  <2>8. All(Contents(next)) = Earlier(sets, i + 1) /\ InOrder(Contents(next))
    BY <1>1, <1>2, <1>3, <1>4, <1>5, <2>6, <2>7, OrderWithLarger DEF a
  <2>9. \A k \in DOMAIN next : Fits(next[k].content, next[k].path)
    BY <1>1, <2>1, <2>4, <2>5
  <2>10. ASSUME NEW e \in ParsedElement, \A k \in DOMAIN drafts : NamesItsSource(drafts[k], e),
                NEW k \in DOMAIN next
         PROVE  NamesItsSource(next[k], e)
    <3>1. \A m \in DOMAIN result : NamesItsSource(result[m], e)
      BY <1>1, <2>10
    <3>2. NamesItsSource(left, e) /\ NamesItsSource(x, e)
      BY <1>2, <2>1, <2>10, <3>1 DEF x
    <3>3. NamesItsSource(merged, e)
      BY <2>3, <3>2
    <3> QED
      BY <2>1, <2>5, <3>1, <3>3
  <2>11. Carried(next, drafts, i)
    BY <2>5, <2>8, <2>9, <2>10 DEF Carried, sets
  <2> QED
    BY <2>11 DEF next, x
<1> QED
  BY <1>6, <1>7 DEF AddChunk, x

(* The chunks of a document are about all of it.                           *)
LEMMA ChunksAre ==
  ASSUME NEW elements, IsOutline(elements)
  PROVE  About(ChunkDocument(elements), elements, 0, Len(elements))
PROOF
<1> DEFINE drafts == Drafts(elements)
           n == Len(drafts)
           c == Len(elements)
           sets == Contents(drafts)
<1>1. About(drafts, elements, 0, c)
  BY DraftsAre
<1>2. /\ drafts \in Seq(Draft) /\ InOrder(Contents(drafts)) /\ n \in Nat
      /\ \A k \in DOMAIN drafts : Fits(drafts[k].content, drafts[k].path)
  BY <1>1 DEF About
<1>3. PICK g : /\ g[0] = << >> /\ ChunkDocument(elements) = g[n]
               /\ \A i \in 1..n : g[i] = AddChunk(g[i - 1], drafts[i])
  BY <1>2, ChunkDocumentStages
<1> HIDE DEF drafts
<1> DEFINE H == {i \in 0..n : Carried(g[i], drafts, i)}
<1>4. 0 \in H
  <2>1. << >> \in Seq(Draft) /\ DOMAIN << >> = {} /\ 1..(0 + 1 - 1) = {}
    OBVIOUS
  <2>2. Contents(<< >>) = << >> /\ All(<< >>) = {} /\ InOrder(<< >>)
    BY DEF Contents, All, InOrder
  <2>3. Earlier(sets, 0 + 1) = {}
    BY <2>1 DEF Earlier
  <2>4. Carried(<< >>, drafts, 0)
    BY <2>1, <2>2, <2>3 DEF Carried
  <2> QED
    BY <1>2, <1>3, <2>4
<1>5. ASSUME NEW i \in 1..n, i - 1 \in H PROVE i \in H
  <2>1. Carried(g[i - 1], drafts, i - 1) /\ i \in 0..n
    BY <1>2, <1>5
  <2>2. Carried(AddChunk(g[i - 1], drafts[i]), drafts, i)
    BY <1>2, <2>1, AddChunkIs
  <2> QED
    BY <1>3, <2>1, <2>2
<1>6. n \in H
  <2> HIDE DEF H, n
  <2>1. \A i \in 0..n : i \in H
    BY <1>2, <1>4, <1>5, UpToN
  <2> QED
    BY <1>2, <2>1
<1> DEFINE result == ChunkDocument(elements)
<1>7. Carried(result, drafts, n)
  BY <1>3, <1>6
<1> HIDE DEF result
<1>8. Earlier(sets, n + 1) = All(sets)
  <2>1. DOMAIN sets = 1..n
    BY <1>2 DEF Contents
  <2>2. 1..(n + 1 - 1) = 1..n
    BY <1>2
  <2> QED
    BY <2>1, <2>2 DEF Earlier, All
<1>9. /\ result \in Seq(Draft) /\ \A k \in DOMAIN result : Fits(result[k].content, result[k].path)
      /\ InOrder(Contents(result)) /\ All(Contents(result)) = All(sets)
      /\ \A e \in ParsedElement :
           (\A k \in DOMAIN drafts : NamesItsSource(drafts[k], e)) =>
             \A k \in DOMAIN result : NamesItsSource(result[k], e)
  BY <1>7, <1>8 DEF Carried
<1>10. ASSUME NEW j \in (0 + 1)..c, elements[j].kind # "heading"
       PROVE  /\ Said(elements[j]) \subseteq All(Contents(result))
              /\ \A k \in DOMAIN result : NamesItsSource(result[k], elements[j])
  <2>1. elements[j] \in ParsedElement
    <3>1. elements \in Seq(ParsedElement)
      BY DEF IsOutline
    <3>2. j \in DOMAIN elements
      BY <3>1
    <3> QED
      BY <3>1, <3>2, ElementsOf
  <2>2. /\ Said(elements[j]) \subseteq All(sets)
        /\ \A k \in DOMAIN drafts : NamesItsSource(drafts[k], elements[j])
    BY <1>1, <1>10 DEF About
  <2> QED
    BY <1>9, <2>1, <2>2
<1>11. All(Contents(result)) \subseteq SaidBy(elements, 0, c)
  BY <1>1, <1>9 DEF About
<1>12. About(result, elements, 0, c)
  BY <1>9, <1>10, <1>11 DEF About
<1> QED
  BY <1>12 DEF result

-----------------------------------------------------------------------------
(* Cleaning *)

(* The elements of a sequence that are selected, in their order.           *)
LEMMA SelectedIs ==
  ASSUME NEW T, NEW s \in Seq(T), NEW S, NEW kept, kept = Selected(s, S)
  PROVE  /\ kept \in Seq(T)
         /\ \A j \in DOMAIN kept : \E m \in DOMAIN s : kept[j] = s[m] /\ s[m] \in S
         /\ \A m \in DOMAIN s : s[m] \in S => \E j \in DOMAIN kept : kept[j] = s[m]
         /\ \A j, k \in DOMAIN kept : j < k =>
              \E m, n \in DOMAIN s : m < n /\ kept[j] = s[m] /\ kept[k] = s[n]
PROOF
<1> DEFINE n == Len(s)
           Good(c, i) ==
             /\ c \in Seq(T)
             /\ \A j \in DOMAIN c : \E m \in 1..i : c[j] = s[m] /\ s[m] \in S
             /\ \A m \in 1..i : s[m] \in S => \E j \in DOMAIN c : c[j] = s[m]
             /\ \A j, k \in DOMAIN c : j < k =>
                  \E m, p \in 1..i : m < p /\ c[j] = s[m] /\ c[k] = s[p]
<1>1. n \in Nat /\ DOMAIN s = 1..n /\ \A i \in 1..n : s[i] \in T
  OBVIOUS
<1>2. PICK g : /\ g[0] = << >> /\ Selected(s, S) = g[n]
               /\ \A i \in 1..n : g[i] = IF s[i] \in S THEN Append(g[i - 1], s[i]) ELSE g[i - 1]
  BY <1>1, SelectedStages
<1> DEFINE H == {i \in 0..n : Good(g[i], i)}
<1> HIDE DEF n
<1>3. 0 \in H
  <2>1. Good(<< >>, 0)
    OBVIOUS
  <2>2. 0 \in 0..n
    BY <1>1
  <2> HIDE DEF Good
  <2> QED
    BY <1>2, <2>1, <2>2
<1>4. ASSUME NEW i \in 1..n, i - 1 \in H PROVE i \in H
  <2> DEFINE c == g[i - 1]
             x == s[i]
             e == Append(c, x)
  <2>1. Good(c, i - 1) /\ i \in 0..n
    <3>1. i \in 0..n
      BY <1>1
    <3> HIDE DEF Good
    <3> QED
      BY <1>4, <3>1
  <2>2. g[i] = IF x \in S THEN e ELSE c
    BY <1>2
  <2>3. x \in T
    BY <1>1
  <2> HIDE DEF c, x
  <2>4. \A m \in 1..i : m \in 1..(i - 1) \/ m = i
    BY <1>1
  <2>5. \A m \in 1..(i - 1) : m \in 1..i /\ m < i
    BY <1>1
  <2>6. CASE x \notin S
    <3>1. Good(c, i)
      <4>1. \A m \in 1..i : s[m] \in S => m \in 1..(i - 1)
        BY <2>4, <2>6 DEF x
      <4> QED
        BY <2>1, <2>5, <4>1
    <3> HIDE DEF Good
    <3> QED
      BY <2>1, <2>2, <2>6, <3>1
  <2>7. CASE x \in S
    <3> DEFINE b == Len(c)
    <3>1. /\ c \in Seq(T) /\ b \in Nat /\ DOMAIN c = 1..b
      BY <2>1
    <3>2. /\ e \in Seq(T) /\ DOMAIN e = 1..(b + 1) /\ e[b + 1] = x /\ \A j \in 1..b : e[j] = c[j]
      BY <2>3, <3>1
    <3> HIDE DEF e, b
    <3>3. \A j \in 1..(b + 1) : j = b + 1 \/ (j \in 1..b /\ j < b + 1)
      BY <3>1
    <3>4. \A j \in 1..b : j \in 1..(b + 1)
      BY <3>1
    <3>5. b + 1 \in 1..(b + 1) /\ i \in 1..i /\ x = s[i]
      BY <3>1 DEF x
    <3>6. ASSUME NEW j \in DOMAIN e PROVE \E m \in 1..i : e[j] = s[m] /\ s[m] \in S
      <4>1. CASE j = b + 1
        BY <2>7, <3>2, <3>5, <4>1
      <4>2. CASE j \in 1..b
        BY <2>1, <2>5, <3>1, <3>2, <4>2
      <4> QED
        BY <3>2, <3>3, <4>1, <4>2
    <3>7. ASSUME NEW m \in 1..i, s[m] \in S PROVE \E j \in DOMAIN e : e[j] = s[m]
      <4>1. CASE m = i
        BY <3>2, <3>5, <4>1
      <4>2. CASE m \in 1..(i - 1)
        <5>1. PICK j \in DOMAIN c : c[j] = s[m]
          BY <2>1, <3>7, <4>2
        <5> QED
          BY <3>1, <3>2, <3>4, <5>1
      <4> QED
        BY <2>4, <4>1, <4>2
    <3>8. ASSUME NEW j \in DOMAIN e, NEW k \in DOMAIN e, j < k
          PROVE  \E m, p \in 1..i : m < p /\ e[j] = s[m] /\ e[k] = s[p]
      <4>1. j \in 1..b
        BY <3>1, <3>2, <3>8
      <4>2. CASE k = b + 1
        <5>1. PICK m \in 1..(i - 1) : c[j] = s[m]
          BY <2>1, <3>1, <4>1
        <5>2. m \in 1..i /\ m < i /\ e[j] = s[m] /\ e[k] = s[i]
          BY <2>5, <3>2, <3>5, <4>1, <4>2, <5>1
        <5> QED
          BY <3>5, <5>2
      <4>3. CASE k \in 1..b
        <5>1. PICK m \in 1..(i - 1), p \in 1..(i - 1) : m < p /\ c[j] = s[m] /\ c[k] = s[p]
          BY <2>1, <3>1, <3>8, <4>1, <4>3, SMTT(30)
        <5> QED
          BY <2>5, <3>2, <4>1, <4>3, <5>1
      <4> QED
        BY <3>2, <3>3, <4>2, <4>3
    <3>9. Good(e, i)
      BY <3>2, <3>6, <3>7, <3>8
    <3> HIDE DEF Good
    <3> QED
      BY <2>1, <2>2, <2>7, <3>9
  <2> QED
    BY <2>6, <2>7
<1>5. n \in H
  <2> HIDE DEF H
  <2>1. \A i \in 0..n : i \in H
    BY <1>1, <1>3, <1>4, UpToN
  <2> QED
    BY <1>1, <2>1
<1>6. Good(kept, n)
  BY <1>2, <1>5
<1>7. ASSUME NEW j \in DOMAIN kept, NEW k \in DOMAIN kept, j < k
      PROVE  \E m, p \in DOMAIN s : m < p /\ kept[j] = s[m] /\ kept[k] = s[p]
  <2>1. PICK m \in 1..n, p \in 1..n : m < p /\ kept[j] = s[m] /\ kept[k] = s[p]
    BY <1>6, <1>7
  <2>2. m \in DOMAIN s /\ p \in DOMAIN s
    BY <1>1
  <2> QED
    BY <2>1, <2>2
<1> QED
  BY <1>1, <1>6, <1>7

(* What is left of an element says the same, in its order.                 *)
LEMMA CleanIs ==
  ASSUME NEW element, IsOrderly(element), NEW clean, clean = Clean(element)
  PROVE  /\ IsOrderly(clean) /\ Said(clean) = Said(element)
         /\ clean.kind = element.kind /\ clean.page = element.page /\ clean.path = element.path
         /\ clean.ref = element.ref /\ clean.artifact = element.artifact
         /\ clean.text = Strip(element.text)
         /\ clean.rows = << >> <=> element.rows = << >>
         /\ DOMAIN clean.rows = DOMAIN element.rows
         /\ \A r \in DOMAIN element.rows : Solids(clean.rows[r]) = Solids(element.rows[r])
PROOF
<1> DEFINE text == element.text
           caption == element.caption
           rows == element.rows
           n == Len(rows)
           lines == [r \in DOMAIN rows |-> Strip(rows[r])]
<1>1. /\ element \in ParsedElement /\ text \in Text /\ caption \in Text /\ rows \in Seq(Text)
      /\ element.kind # "image"
  BY DEF IsOrderly, ParsedElement
<1>2. n \in Nat /\ DOMAIN rows = 1..n /\ \A r \in 1..n : rows[r] \in Text
  BY <1>1
<1>3. clean = [element EXCEPT !.text = Strip(text), !.caption = Strip(caption), !.rows = lines]
  BY DEF Clean
<1>4. Strip(text) \in Text /\ Strip(caption) \in Text
  BY <1>1, Stripping
<1>5. lines \in Seq(Text) /\ Len(lines) = n /\ DOMAIN lines = 1..n
      /\ \A r \in 1..n : lines[r] = Strip(rows[r])
  <2>1. lines = [r \in 1..n |-> lines[r]] /\ \A r \in 1..n : lines[r] = Strip(rows[r])
    BY <1>2
  <2> HIDE DEF lines, rows, n
  <2>2. \A r \in 1..n : lines[r] \in Text
    BY <1>2, <2>1, Stripping
  <2>3. lines \in Seq(Text) /\ Len(lines) = n /\ DOMAIN lines = 1..n
    BY <1>2, <2>1, <2>2, FunctionIsSequence
  <2> QED
    BY <2>1, <2>3
<1> HIDE DEF lines
<1>6. clean \in ParsedElement
  <2> DEFINE t == Strip(text)
             c == Strip(caption)
  <2>1. clean = [element EXCEPT !.text = t, !.caption = c, !.rows = lines]
    BY <1>3
  <2> HIDE DEF t, c
  <2> QED
    BY <1>1, <1>4, <1>5, <2>1 DEF ParsedElement, t, c
<1>7. /\ clean.kind = element.kind /\ clean.page = element.page /\ clean.path = element.path
      /\ clean.ref = element.ref /\ clean.artifact = element.artifact
      /\ clean.header = element.header
      /\ clean.text = Strip(text) /\ clean.caption = Strip(caption) /\ clean.rows = lines
  BY <1>1, <1>3 DEF ParsedElement
<1>8. \A r \in 1..n : Solids(lines[r]) = Solids(rows[r]) /\ (Rising(rows[r]) => Rising(lines[r]))
  BY <1>2, <1>5, Stripping
<1>9. /\ Solids(clean.text) = Solids(text) /\ (Rising(text) => Rising(clean.text))
      /\ Solids(clean.caption) = Solids(caption) /\ (Rising(caption) => Rising(clean.caption))
  BY <1>1, <1>7, Stripping
<1> HIDE DEF text, caption, rows, n
<1>10. clean.rows = << >> <=> rows = << >>
  BY <1>1, <1>5, <1>7 DEF n
<1>11. Said(clean) = Said(element)
  <2> DEFINE A == UNION {Solids(lines[r]) : r \in DOMAIN lines}
             B == UNION {Solids(rows[r]) : r \in DOMAIN rows}
             C == IF clean.kind = "table" THEN Solids(clean.caption) ELSE {}
             D == IF element.kind = "table" THEN Solids(caption) ELSE {}
  <2>1. Said(clean) = Solids(clean.text) \cup A \cup C
    BY <1>1, <1>6, <1>7, SaidIs
  <2>2. Said(element) = Solids(text) \cup B \cup D
    BY <1>1, SaidIs DEF text, rows, caption
  <2>3. A = B
    BY <1>2, <1>5, <1>8
  <2>4. C = D
    BY <1>7, <1>9
  <2> HIDE DEF A, B, C, D
  <2> QED
    BY <1>9, <2>1, <2>2, <2>3, <2>4
<1>12. IsOrderly(clean)
  <2>1. CASE element.kind = "table"
    <3>1. /\ TextsRise(<<caption, text>> \o rows)
          /\ rows # << >> => text = << >> /\ (element.header = 1 \/ element.header < n)
      BY <2>1 DEF IsOrderly, caption, text, rows, n
    <3> DEFINE old == <<caption, text>> \o rows
               new == <<clean.caption, clean.text>> \o lines
    <3>2. /\ DOMAIN old = 1..(n + 2) /\ DOMAIN new = 1..(n + 2)
          /\ old[1] = caption /\ old[2] = text /\ new[1] = clean.caption /\ new[2] = clean.text
          /\ \A k \in 1..n : old[k + 2] = rows[k] /\ new[k + 2] = lines[k]
      <4>1. /\ <<caption, text>> \in Seq(Text) /\ <<clean.caption, clean.text>> \in Seq(Text)
            /\ Len(<<caption, text>>) = 2 /\ Len(<<clean.caption, clean.text>>) = 2
        BY <1>1, <1>4, <1>7
      <4> QED
        BY <1>1, <1>2, <1>5, <4>1, SMTT(30) DEF n
    <3> HIDE DEF old, new
    <3>3. \A k \in 1..(n + 2) : k = 1 \/ k = 2 \/ (k - 2 \in 1..n /\ k = (k - 2) + 2)
      BY <1>2
    <3>4. ASSUME NEW k \in 1..(n + 2)
          PROVE  Solids(new[k]) = Solids(old[k]) /\ (Rising(old[k]) => Rising(new[k]))
      <4>1. CASE k = 1
        BY <1>9, <3>2, <4>1
      <4>2. CASE k = 2
        BY <1>9, <3>2, <4>2
      <4>3. CASE k - 2 \in 1..n /\ k = (k - 2) + 2
        <5>1. PICK m \in 1..n : k = m + 2
          BY <4>3
        <5> QED
          BY <1>8, <3>2, <5>1
      <4> QED
        BY <3>3, <4>1, <4>2, <4>3
    <3>5. TextsRise(new)
      BY <3>1, <3>2, <3>4, ZenonT(60) DEF TextsRise, old
    <3>6. rows # << >> => clean.text = << >>
      <4>1. Strip(<< >>) = << >>
        BY DEF Strip
      <4> QED
        BY <1>7, <3>1, <4>1
    <3> QED
      BY <1>1, <1>5, <1>6, <1>7, <1>10, <2>1, <3>1, <3>5, <3>6 DEF IsOrderly, new
  <2>2. CASE element.kind # "table"
    <3>1. rows = << >> /\ Rising(text)
      BY <2>2 DEF IsOrderly, rows, text
    <3> QED
      BY <1>1, <1>6, <1>7, <1>9, <1>10, <2>2, <3>1 DEF IsOrderly
  <2> QED
    BY <2>1, <2>2
<1>13. DOMAIN clean.rows = DOMAIN rows /\ \A r \in DOMAIN rows : Solids(clean.rows[r]) = Solids(rows[r])
  BY <1>2, <1>5, <1>7, <1>8
<1> QED
  BY <1>7, <1>10, <1>11, <1>12, <1>13 DEF rows, text

(* An element that is not dropped.                                         *)
Stays(element) == ~ element.artifact /\ (Strip(element.text) # << >> \/ element.rows # << >>)

(* clean_document() keeps what is to be kept, as it is.                    *)
LEMMA CleanDocumentIs ==
  ASSUME NEW elements, IsOutline(elements), NEW cleaned, cleaned = CleanDocument(elements)
  PROVE  /\ IsOutline(cleaned)
         /\ \A j \in DOMAIN cleaned : \E i \in DOMAIN elements :
              Stays(elements[i]) /\ cleaned[j] = Clean(elements[i])
         /\ \A i \in DOMAIN elements : Stays(elements[i]) =>
              \E j \in DOMAIN cleaned : cleaned[j] = Clean(elements[i])
PROOF
<1> DEFINE n == Len(elements)
           all == [i \in DOMAIN elements |-> Clean(elements[i])]
           S == {e \in Range(all) : ~ e.artifact /\ (e.text # << >> \/ e.rows # << >>)}
<1>1. n \in Nat /\ DOMAIN elements = 1..n /\ \A i \in 1..n : IsOrderly(elements[i])
  BY DEF IsOutline
<1>2. cleaned = Selected(all, S)
  BY DEF CleanDocument
<1>3. all = [i \in 1..n |-> all[i]] /\ DOMAIN all = 1..n /\ \A i \in 1..n : all[i] = Clean(elements[i])
  BY <1>1
<1> HIDE DEF all, n
<1>4. ASSUME NEW i \in 1..n
      PROVE  /\ IsOrderly(all[i]) /\ Said(all[i]) = Said(elements[i]) /\ all[i] \in ParsedElement
             /\ all[i] \in S <=> Stays(elements[i])
  <2> DEFINE e == elements[i]
             c == Clean(e)
  <2>1. IsOrderly(e) /\ all[i] = c /\ all[i] \in Range(all)
    BY <1>1, <1>3 DEF Range
  <2>2. /\ IsOrderly(c) /\ Said(c) = Said(e) /\ c.artifact = e.artifact
        /\ c.text = Strip(e.text) /\ (c.rows = << >> <=> e.rows = << >>)
    BY <2>1, CleanIs
  <2> HIDE DEF e, c
  <2>3. all[i] \in ParsedElement
    BY <2>1, <2>2 DEF IsOrderly
  <2>4. all[i] \in S <=> Stays(e)
    BY <2>1, <2>2 DEF Stays
  <2> QED
    BY <2>1, <2>2, <2>3, <2>4 DEF e
<1>5. all \in Seq(ParsedElement)
  BY <1>1, <1>3, <1>4, FunctionIsSequence
<1> HIDE DEF S
<1>6. /\ cleaned \in Seq(ParsedElement)
      /\ \A j \in DOMAIN cleaned : \E m \in DOMAIN all : cleaned[j] = all[m] /\ all[m] \in S
      /\ \A m \in DOMAIN all : all[m] \in S => \E j \in DOMAIN cleaned : cleaned[j] = all[m]
      /\ \A j, k \in DOMAIN cleaned : j < k =>
           \E m, p \in DOMAIN all : m < p /\ cleaned[j] = all[m] /\ cleaned[k] = all[p]
  BY <1>2, <1>5, SelectedIs
<1>7. IsOutline(cleaned)
  <2>1. ASSUME NEW j \in DOMAIN cleaned PROVE IsOrderly(cleaned[j])
    BY <1>3, <1>4, <1>6
  <2>2. ASSUME NEW j \in DOMAIN cleaned, NEW k \in DOMAIN cleaned, j < k
        PROVE  Before(Said(cleaned[j]), Said(cleaned[k]))
    <3>1. PICK m \in 1..n, p \in 1..n : m < p /\ cleaned[j] = all[m] /\ cleaned[k] = all[p]
      BY <1>3, <1>6, <2>2
    <3>2. Before(Said(elements[m]), Said(elements[p]))
      BY <1>1, <3>1 DEF IsOutline
    <3> QED
      BY <1>4, <3>1, <3>2
  <2> QED
    BY <1>6, <2>1, <2>2 DEF IsOutline
<1>8. \A j \in DOMAIN cleaned : \E i \in DOMAIN elements :
        Stays(elements[i]) /\ cleaned[j] = Clean(elements[i])
  BY <1>1, <1>3, <1>4, <1>6
<1>9. \A i \in DOMAIN elements : Stays(elements[i]) =>
        \E j \in DOMAIN cleaned : cleaned[j] = Clean(elements[i])
  BY <1>1, <1>3, <1>4, <1>6
<1> QED
  BY <1>7, <1>8, <1>9

-----------------------------------------------------------------------------
(* The blocks of a document *)

(* Characters that are numbered in their order rise.                       *)
LEMMA NumberedIsRising ==
  ASSUME NEW flow \in Text, IsNumbered(flow)
  PROVE  Rising(flow)
PROOF
<1> DEFINE n == Len(flow)
           H == {j \in 0..n : \A i \in 1..(j - 1) : flow[i].at < flow[j].at}
<1>1. n \in Nat /\ DOMAIN flow = 1..n /\ \A i \in 1..n : flow[i].at \in Nat
  <2>1. \A i \in DOMAIN flow : flow[i] \in Character
    BY ElementsOf DEF Text
  <2> QED
    BY <2>1 DEF Character, Text
<1>2. \A i \in 1..(n - 1) : flow[i].at < flow[i + 1].at
  BY DEF IsNumbered
<1> HIDE DEF n
<1>3. 0 \in H
  <2>1. 1..(0 - 1) = {} /\ 0 \in 0..n
    BY <1>1
  <2> QED
    BY <2>1
<1>4. ASSUME NEW j \in 1..n, j - 1 \in H PROVE j \in H
  <2>1. j \in 0..n
    BY <1>1
  <2>2. ASSUME NEW i \in 1..(j - 1) PROVE flow[i].at < flow[j].at
    <3>1. j - 1 \in 1..(n - 1) /\ (j - 1) + 1 = j /\ i \in 1..n /\ j - 1 \in 1..n
      BY <1>1
    <3>2. flow[j - 1].at < flow[j].at
      BY <1>2, <3>1
    <3>3. CASE i = j - 1
      BY <3>2, <3>3
    <3>4. CASE i # j - 1
      <4>1. i \in 1..((j - 1) - 1)
        BY <3>1, <3>4
      <4>2. flow[i].at < flow[j - 1].at
        BY <1>4, <4>1
      <4>3. flow[i].at \in Nat /\ flow[j - 1].at \in Nat /\ flow[j].at \in Nat
        BY <1>1, <3>1
      <4> QED
        BY <3>2, <4>2, <4>3
    <3> QED
      BY <3>3, <3>4
  <2> QED
    BY <2>1, <2>2
<1>5. \A j \in 0..n : j \in H
  <2> HIDE DEF H
  <2> QED
    BY <1>1, <1>3, <1>4, UpToN
<1>6. ASSUME NEW i \in DOMAIN flow, NEW j \in DOMAIN flow, i < j
      PROVE  flow[i].at < flow[j].at
  <2>1. j \in 0..n /\ i \in 1..(j - 1)
    BY <1>1, <1>6
  <2> QED
    BY <1>5, <2>1
<1> QED
  BY <1>6 DEF Rising

(* The characters of a block.                                              *)
LEMMA FlowIs ==
  ASSUME NEW block \in FileBlock
  PROVE  /\ block.text \in Text /\ block.caption \in Text /\ block.rows \in Seq(Text)
         /\ Flow(block) \in Text
         /\ Solids(Flow(block)) = Solids(block.caption) \cup Solids(block.text)
                                    \cup All(TextSets(block.rows))
         /\ Rising(Flow(block)) =>
              /\ Rising(block.caption) /\ Rising(block.text) /\ TextsRise(block.rows)
              /\ TextsRise(<<block.caption, block.text>> \o block.rows)
PROOF
<1> DEFINE caption == block.caption
           text == block.text
           rows == block.rows
           both == caption \o text
           lines == Flattened(rows)
           two == <<caption>> \o <<text>>
<1>1. text \in Text /\ caption \in Text /\ rows \in Seq(Text)
  BY DEF FileBlock
<1>2. Flow(block) = both \o lines
  BY DEF Flow
<1> HIDE DEF caption, text, rows
<1>3. /\ both \in Text /\ Solids(both) = Solids(caption) \cup Solids(text)
      /\ Rising(both) <=> Rising(caption) /\ Rising(text) /\ Before(Solids(caption), Solids(text))
  BY <1>1, Concatenated
<1>4. /\ lines \in Text /\ Solids(lines) = All(TextSets(rows))
      /\ Rising(lines) <=> TextsRise(rows)
  BY <1>1, FlattenedTexts
<1> HIDE DEF both, lines
<1>5. /\ both \o lines \in Text /\ Solids(both \o lines) = Solids(both) \cup Solids(lines)
      /\ Rising(both \o lines) <=> Rising(both) /\ Rising(lines) /\ Before(Solids(both), Solids(lines))
  BY <1>3, <1>4, Concatenated
<1>6. /\ <<caption>> \in Seq(Text) /\ All(TextSets(<<caption>>)) = Solids(caption)
      /\ TextsRise(<<caption>>) <=> Rising(caption)
      /\ <<text>> \in Seq(Text) /\ All(TextSets(<<text>>)) = Solids(text)
      /\ TextsRise(<<text>>) <=> Rising(text)
  BY <1>1, TextsOfOne
<1>7. /\ two \in Seq(Text) /\ All(TextSets(two)) = Solids(caption) \cup Solids(text)
      /\ TextsRise(two) <=> Rising(caption) /\ Rising(text) /\ Before(Solids(caption), Solids(text))
  BY <1>6, TextsOfBoth, ZenonT(60)
<1>8. <<caption, text>> \o rows = two \o rows
  OBVIOUS
<1> HIDE DEF two
<1>9. TextsRise(two \o rows) <=> /\ TextsRise(two) /\ TextsRise(rows)
                                 /\ Before(All(TextSets(two)), All(TextSets(rows)))
  BY <1>1, <1>7, TextsOfBoth
<1>10. ASSUME Rising(both \o lines)
       PROVE  Rising(caption) /\ Rising(text) /\ TextsRise(rows) /\ TextsRise(<<caption, text>> \o rows)
  BY <1>3, <1>4, <1>5, <1>7, <1>8, <1>9, <1>10
<1>11. Solids(Flow(block)) = Solids(caption) \cup Solids(text) \cup All(TextSets(rows))
  BY <1>2, <1>3, <1>4, <1>5
<1> QED
  BY <1>1, <1>2, <1>5, <1>10, <1>11 DEF caption, text, rows

(* What a block says.                                                      *)
LEMMA BlockSays ==
  ASSUME NEW block \in FileBlock
  PROVE  /\ BlockText(block) \in Text
         /\ Said(block) = Solids(BlockText(block)) \cup All(TextSets(block.rows))
                            \cup IF block.kind = "table" THEN Solids(block.caption) ELSE {}
PROOF
<1>0. /\ block.text \in Text /\ block.caption \in Text /\ block.rows \in Seq(Text)
  BY FlowIs
<1> DEFINE t == Range(BlockText(block))
           r == UNION {Range(block.rows[i]) : i \in DOMAIN block.rows}
           c == IF block.kind = "table" THEN Range(block.caption) ELSE {}
           T == Solids(BlockText(block))
           R == All(TextSets(block.rows))
           C == IF block.kind = "table" THEN Solids(block.caption) ELSE {}
<1>1. CharactersOf(block) = t \cup r \cup c
  BY Zenon DEF CharactersOf
<1>2. Solid(t \cup r \cup c) = Solid(t) \cup Solid(r) \cup Solid(c)
  <2> HIDE DEF t, r, c
  <2> QED
    BY DEF Solid
<1>3. Solid(r) = R
  <2>1. R = UNION {Solids(block.rows[i]) : i \in DOMAIN block.rows}
    BY DEF All, TextSets
  <2>2. Solid(r) = UNION {Solids(block.rows[i]) : i \in DOMAIN block.rows}
    BY DEF Solid, Solids
  <2> QED
    BY <2>1, <2>2
<1>4. Solid(c) = C
  BY DEF Solid, Solids
<1>5. Solid(t) = T
  BY DEF Solids
<1>6. Said(block) = Solid(t \cup r \cup c)
  <2> HIDE DEF t, r, c
  <2> QED
    BY <1>1 DEF Said
<1>7. BlockText(block) \in Text
  BY <1>0 DEF BlockText
<1>8. Said(block) = T \cup R \cup C
  <2> HIDE DEF t, r, c, T, R, C
  <2> QED
    BY <1>2, <1>3, <1>4, <1>5, <1>6
<1> QED
  BY <1>7, <1>8

(* The blocks of a document in the order of the file.                      *)
LEMMA DocumentIs ==
  ASSUME NEW d, IsDocument(d)
  PROVE  /\ d.blocks \in Seq(FileBlock)
         /\ \A k \in DOMAIN d.blocks :
              /\ d.blocks[k] \in FileBlock /\ IsOfFormat(d.blocks[k], d.format)
              /\ Rising(Flow(d.blocks[k]))
         /\ \A j, k \in DOMAIN d.blocks : j < k =>
              Before(Solids(Flow(d.blocks[j])), Solids(Flow(d.blocks[k])))
PROOF
<1> DEFINE blocks == d.blocks
           n == Len(blocks)
           flows == [k \in DOMAIN d.blocks |-> Flow(d.blocks[k])]
<1>1. /\ blocks \in Seq(FileBlock) /\ IsNumbered(Flattened(flows))
      /\ \A k \in DOMAIN blocks : IsOfFormat(blocks[k], d.format)
  BY DEF IsDocument
<1>2. n \in Nat /\ DOMAIN blocks = 1..n /\ \A k \in 1..n : blocks[k] \in FileBlock
  BY <1>1
<1>3. flows = [k \in 1..n |-> flows[k]] /\ \A k \in 1..n : flows[k] = Flow(blocks[k])
  BY <1>2
<1> HIDE DEF flows, n, blocks
<1>4. \A k \in 1..n : flows[k] \in Text
  BY <1>2, <1>3, FlowIs
<1>5. flows \in Seq(Text) /\ DOMAIN flows = 1..n
  BY <1>2, <1>3, <1>4, FunctionIsSequence
<1>6. Flattened(flows) \in Text /\ (Rising(Flattened(flows)) <=> TextsRise(flows))
  BY <1>5, FlattenedTexts
<1>7. TextsRise(flows)
  BY <1>1, <1>6, NumberedIsRising
<1>8. /\ \A k \in 1..n : Rising(Flow(blocks[k]))
      /\ \A j, k \in 1..n : j < k => Before(Solids(Flow(blocks[j])), Solids(Flow(blocks[k])))
  BY <1>3, <1>5, <1>7 DEF TextsRise
<1> QED
  BY <1>1, <1>2, <1>8 DEF blocks

-----------------------------------------------------------------------------
(* Parsing *)

(* An element says nothing that its block does not.                        *)
OfBlock(element, block) ==
  /\ IsOrderly(element) /\ element.artifact = block.artifact
  /\ Said(element) \subseteq Solids(Flow(block))

(* What a body or table says is in elements that are not dropped for       *)
(* having no content.                                                      *)
Tells(elements, block) ==
  block.kind # "heading" /\ ~ IsBlankTable(block) =>
    \A x \in Said(block) : \E i \in DOMAIN elements :
      /\ x \in Said(elements[i]) /\ elements[i].kind # "heading"
      /\ elements[i].artifact = block.artifact
      /\ Strip(elements[i].text) # << >> \/ elements[i].rows # << >>

(* The elements of the first k blocks.                                     *)
Parsed(elements, d, k) ==
  /\ IsOutline(elements)
  /\ \A i \in DOMAIN elements : \E m \in 1..k : OfBlock(elements[i], d.blocks[m])
  /\ \A m \in 1..k : Tells(elements, d.blocks[m])

(* The elements of a block come after those of the blocks before.          *)
LEMMA ParsedMore ==
  ASSUME NEW d, IsDocument(d), NEW k \in 1..Len(d.blocks),
         NEW elements, Parsed(elements, d, k - 1),
         NEW more, IsOutline(more), \A i \in DOMAIN more : OfBlock(more[i], d.blocks[k]),
         Tells(more, d.blocks[k])
  PROVE  Parsed(elements \o more, d, k)
PROOF
<1> DEFINE all == elements \o more
           blocks == d.blocks
           a == Len(elements)
           b == Len(more)
<1>1. /\ IsOutline(elements)
      /\ \A i \in DOMAIN elements : \E m \in 1..(k - 1) : OfBlock(elements[i], blocks[m])
      /\ \A m \in 1..(k - 1) : Tells(elements, blocks[m])
  BY DEF Parsed
<1>2. elements \in Seq(ParsedElement) /\ more \in Seq(ParsedElement)
  BY <1>1 DEF IsOutline
<1>3. /\ all \in Seq(ParsedElement) /\ DOMAIN all = 1..(a + b)
      /\ DOMAIN elements = 1..a /\ DOMAIN more = 1..b /\ a \in Nat /\ b \in Nat
      /\ \A i \in 1..a : i \in DOMAIN all /\ all[i] = elements[i]
      /\ \A i \in 1..b : a + i \in DOMAIN all /\ all[a + i] = more[i]
      /\ \A i \in 1..(a + b) : i \notin 1..a =>
           i - a \in 1..b /\ i = a + (i - a) /\ all[i] = more[i - a]
  BY <1>2, JoinedSets
<1>4. /\ blocks \in Seq(FileBlock) /\ k \in DOMAIN blocks
      /\ \A m \in 1..(k - 1) : m \in DOMAIN blocks /\ m < k /\ m \in 1..k
      /\ k \in 1..k /\ \A m \in 1..k : m = k \/ m \in 1..(k - 1)
  <2>1. blocks \in Seq(FileBlock)
    BY DocumentIs
  <2>2. Len(blocks) \in Nat /\ DOMAIN blocks = 1..Len(blocks)
    BY <2>1
  <2> QED
    BY <2>1, <2>2
<1>5. \A m \in 1..(k - 1) : Before(Solids(Flow(blocks[m])), Solids(Flow(blocks[k])))
  BY <1>4, DocumentIs
<1> HIDE DEF all, a, b, blocks
<1>6. \A i \in DOMAIN all : \E m \in 1..k : OfBlock(all[i], blocks[m])
  <2> SUFFICES ASSUME NEW i \in DOMAIN all PROVE \E m \in 1..k : OfBlock(all[i], blocks[m])
    OBVIOUS
  <2>1. CASE i \in 1..a
    BY <1>1, <1>3, <1>4, <2>1
  <2>2. CASE i \notin 1..a
    <3>1. i - a \in DOMAIN more /\ all[i] = more[i - a]
      BY <1>3, <2>2
    <3> QED
      BY <1>4, <3>1 DEF blocks
  <2> QED
    BY <2>1, <2>2
<1>7. IsOutline(all)
  <2>1. \A i \in DOMAIN all : IsOrderly(all[i])
    BY <1>6 DEF OfBlock
  <2>2. ASSUME NEW i \in DOMAIN all, NEW j \in DOMAIN all, i < j
        PROVE  Before(Said(all[i]), Said(all[j]))
    <3>1. CASE j \in 1..a
      <4>1. i \in 1..a
        BY <1>3, <2>2, <3>1
      <4> QED
        BY <1>1, <1>3, <2>2, <3>1, <4>1 DEF IsOutline
    <3>2. CASE j \notin 1..a /\ i \in 1..a
      <4>1. PICK m \in 1..(k - 1) : OfBlock(all[i], blocks[m])
        BY <1>1, <1>3, <3>2
      <4>2. OfBlock(all[j], blocks[k])
        <5>1. j - a \in DOMAIN more /\ all[j] = more[j - a]
          BY <1>3, <3>2
        <5> QED
          BY <5>1 DEF blocks
      <4>3. Before(Solids(Flow(blocks[m])), Solids(Flow(blocks[k])))
        BY <1>5
      <4> QED
        BY <4>1, <4>2, <4>3 DEF OfBlock, Before
    <3>3. CASE j \notin 1..a /\ i \notin 1..a
      <4>1. /\ j - a \in DOMAIN more /\ all[j] = more[j - a]
            /\ i - a \in DOMAIN more /\ all[i] = more[i - a]
        BY <1>3, <3>3
      <4>2. i - a < j - a
        BY <1>3, <2>2
      <4> QED
        BY <4>1, <4>2 DEF IsOutline
    <3> QED
      BY <3>1, <3>2, <3>3
  <2> QED
    BY <1>3, <2>1, <2>2 DEF IsOutline
<1>8. ASSUME NEW m \in 1..k PROVE Tells(all, blocks[m])
  <2>1. CASE m \in 1..(k - 1)
    <3>1. Tells(elements, blocks[m])
      BY <1>1, <2>1
    <3>2. \A i \in DOMAIN elements : i \in DOMAIN all /\ all[i] = elements[i]
      BY <1>3
    <3> QED
      BY <3>1, <3>2 DEF Tells
  <2>2. CASE m = k
    <3>1. Tells(more, blocks[m])
      BY <2>2 DEF blocks
    <3>2. \A i \in DOMAIN more : a + i \in DOMAIN all /\ all[a + i] = more[i]
      BY <1>3
    <3>3. ASSUME blocks[m].kind # "heading", ~ IsBlankTable(blocks[m]), NEW x \in Said(blocks[m])
          PROVE  \E i \in DOMAIN all :
                   /\ x \in Said(all[i]) /\ all[i].kind # "heading"
                   /\ all[i].artifact = blocks[m].artifact
                   /\ Strip(all[i].text) # << >> \/ all[i].rows # << >>
      <4>1. PICK i \in DOMAIN more :
              /\ x \in Said(more[i]) /\ more[i].kind # "heading"
              /\ more[i].artifact = blocks[m].artifact
              /\ Strip(more[i].text) # << >> \/ more[i].rows # << >>
        BY <3>1, <3>3 DEF Tells
      <4> QED
        BY <3>2, <4>1
    <3> QED
      BY <3>3 DEF Tells
  <2> QED
    BY <1>4, <2>1, <2>2
<1> QED
  BY <1>6, <1>7, <1>8 DEF Parsed, all, blocks

(* An element is a document of its own.                                    *)
LEMMA OneElement ==
  ASSUME NEW element, IsOrderly(element)
  PROVE  IsOutline(<<element>>)
PROOF
<1>1. element \in ParsedElement
  BY DEF IsOrderly
<1>2. /\ <<element>> \in Seq(ParsedElement) /\ DOMAIN <<element>> = {1} /\ <<element>>[1] = element
  BY <1>1
<1>3. \A i, j \in DOMAIN <<element>> : ~ (i < j)
  BY <1>2
<1> QED
  BY <1>2, <1>3 DEF IsOutline

(* The element of a block that has content.                                *)
LEMMA BlockElementIs ==
  ASSUME NEW block \in FileBlock, NEW format, format \notin {"xlsx", "txt"},
         IsOfFormat(block, format), Rising(Flow(block)),
         NEW path \in Seq(STRING), NEW ref \in Ref,
         BlockText(block) # << >> \/ block.kind = "table",
         NEW e, e = Element(block, path, ref)
  PROVE  IsOutline(<<e>>) /\ OfBlock(e, block) /\ Tells(<<e>>, block)
PROOF
<1> DEFINE text == BlockText(block)
           rows == block.rows
<1>1. /\ block.text \in Text /\ block.caption \in Text /\ rows \in Seq(Text)
      /\ Solids(Flow(block)) = Solids(block.caption) \cup Solids(block.text) \cup All(TextSets(rows))
      /\ Rising(block.caption) /\ Rising(block.text) /\ TextsRise(rows)
      /\ TextsRise(<<block.caption, block.text>> \o rows)
  BY FlowIs
<1>2. /\ text \in Text
      /\ Said(block) = Solids(text) \cup All(TextSets(rows))
                         \cup IF block.kind = "table" THEN Solids(block.caption) ELSE {}
  BY BlockSays
<1>3. /\ block.kind \in {"heading", "paragraph", "code", "table", "image"}
      /\ rows # << >> => block.kind = "table" /\ block.text = << >> /\ block.header = 1
  <2>1. /\ block.kind \notin {"sheet", "lines"}
        /\ rows # << >> => block.kind = "table" /\ block.text = << >> /\ block.header = 1
    BY DEF IsOfFormat
  <2>2. block.kind \in {"heading", "paragraph", "code", "table", "image", "sheet", "lines"}
    BY DEF FileBlock
  <2> QED
    BY <2>1, <2>2
<1>4. block.kind # "image" => text = block.text
  BY DEF BlockText
<1>5. text = block.text \/ text = block.caption
  BY DEF BlockText
<1> HIDE DEF text
<1>6. /\ e.kind = IF block.kind = "image" THEN "paragraph" ELSE block.kind
      /\ e.text = text /\ e.rows = rows /\ e.caption = block.caption /\ e.header = block.header
      /\ e.artifact = block.artifact
  BY DEF Element, text
<1>7. e \in ParsedElement
  <2>1. /\ block.header \in Nat \ {0} /\ block.page \in Nat /\ block.artifact \in BOOLEAN
    BY DEF FileBlock
  <2>2. (IF block.kind = "image" THEN "paragraph" ELSE block.kind) \in Kind
    BY <1>3 DEF Kind
  <2> DEFINE kind == IF block.kind = "image" THEN "paragraph" ELSE block.kind
  <2>3. e = [kind |-> kind, text |-> text, rows |-> rows, caption |-> block.caption,
             header |-> block.header, page |-> block.page, path |-> path, ref |-> ref,
             artifact |-> block.artifact]
    BY DEF Element, text
  <2> HIDE DEF kind, rows
  <2> QED
    BY <1>1, <1>2, <2>1, <2>2, <2>3 DEF ParsedElement, kind
<1>8. e.kind # "image" /\ (e.kind = "table" <=> block.kind = "table")
      /\ (e.kind = "heading" <=> block.kind = "heading")
  BY <1>6
<1> HIDE DEF rows
<1>9. IsOrderly(e)
  <2>1. CASE block.kind = "table"
    BY <1>1, <1>3, <1>4, <1>6, <1>7, <1>8, <2>1 DEF IsOrderly
  <2>2. CASE block.kind # "table"
    <3>1. rows = << >> /\ Rising(text)
      BY <1>1, <1>3, <1>5, <2>2
    <3> QED
      BY <1>6, <1>7, <1>8, <2>2, <3>1 DEF IsOrderly
  <2> QED
    BY <2>1, <2>2
<1>10. Said(e) = Said(block)
  <2> DEFINE A == UNION {Solids(rows[r]) : r \in DOMAIN rows}
             C == IF e.kind = "table" THEN Solids(e.caption) ELSE {}
             D == IF block.kind = "table" THEN Solids(block.caption) ELSE {}
  <2>1. Said(e) = Solids(text) \cup A \cup C
    BY <1>6, <1>7, <1>8, SaidIs
  <2>2. A = All(TextSets(rows))
    BY DEF All, TextSets
  <2>3. C = D
    BY <1>6, <1>8
  <2>4. Said(block) = Solids(text) \cup All(TextSets(rows)) \cup D
    BY <1>2
  <2> HIDE DEF A, C, D
  <2> QED
    BY <2>1, <2>2, <2>3, <2>4
<1>11. Said(block) \subseteq Solids(Flow(block))
  BY <1>1, <1>2, <1>5
<1>12. OfBlock(e, block)
  BY <1>6, <1>9, <1>10, <1>11 DEF OfBlock
<1>13. ASSUME block.kind # "heading", ~ IsBlankTable(block), NEW x \in Said(block)
       PROVE  Strip(e.text) # << >> \/ e.rows # << >>
  <2>1. CASE block.kind = "table"
    BY <1>4, <1>6, <1>13, <2>1 DEF IsBlankTable, rows
  <2>2. CASE block.kind # "table"
    <3>1. All(TextSets(rows)) = {}
      <4>1. rows = << >>
        BY <1>3, <2>2
      <4> QED
        BY <4>1, NoTexts
    <3>2. x \in Solids(text)
      BY <1>2, <1>13, <2>2, <3>1
    <3>3. Solids(Strip(text)) = Solids(text)
      BY <1>2, Stripping
    <3>4. Strip(text) # << >>
      BY <3>2, <3>3, SolidsOfNothing
    <3> QED
      BY <1>6, <3>4
  <2> QED
    BY <2>1, <2>2
<1>14. Tells(<<e>>, block)
  <2>1. 1 \in DOMAIN <<e>> /\ <<e>>[1] = e
    OBVIOUS
  <2> QED
    BY <1>6, <1>8, <1>10, <1>13, <2>1 DEF Tells
<1> QED
  BY <1>9, <1>12, <1>14, OneElement

(* Other blocks say nothing.                                               *)
LEMMA NoBlockElement ==
  ASSUME NEW block \in FileBlock, NEW format, format \notin {"xlsx", "txt"},
         IsOfFormat(block, format), BlockText(block) = << >>, block.kind # "table"
  PROVE  Tells(<< >>, block)
PROOF
<1>1. block.rows = << >>
  BY DEF IsOfFormat
<1>2. Said(block) = {}
  BY <1>1, BlockSays, NoTexts, SolidsOfNothing
<1> QED
  BY <1>2 DEF Tells

(* So is none.                                                             *)
LEMMA NoElement == IsOutline(<< >>)
PROOF
<1>1. << >> \in Seq(ParsedElement) /\ DOMAIN << >> = {}
  OBVIOUS
<1> QED
  BY <1>1 DEF IsOutline

(* What parsing keeps of a heading.                                        *)
Heading == [level : Nat, title : STRING]

(* The headings above what follows a block.                                *)
LEMMA HeadingsAre ==
  ASSUME NEW above \in Seq(Heading), NEW block \in FileBlock, block.level > 0
  PROVE  PdfHeadings(above, block) \in Seq(Heading) /\ OutlineHeadings(above, block) \in Seq(Heading)
PROOF
<1> DEFINE top == [level |-> block.level, title |-> block.title]
           m == Min({block.level - 1, Len(above)})
           kept == Selected(above, {h \in Range(above) : h.level < block.level})
<1>1. block.level \in Nat /\ block.title \in STRING
  BY DEF FileBlock
<1>2. top \in Heading
  BY <1>1 DEF Heading
<1>3. m \in Nat /\ m <= Len(above)
  <2> DEFINE a == block.level - 1
             b == Len(above)
  <2>1. a \in Nat /\ b \in Nat
    BY <1>1
  <2> HIDE DEF a, b
  <2>2. \E x \in {a, b} : \A y \in {a, b} : x <= y
    BY <2>1
  <2>3. Min({a, b}) \in {a, b} /\ \A y \in {a, b} : Min({a, b}) <= y
    BY <2>2 DEF Min
  <2> QED
    BY <2>1, <2>3 DEF a, b
<1> HIDE DEF m, top
<1>4. SubSeq(above, 1, m) \in Seq(Heading)
  BY <1>3
<1>5. kept \in Seq(Heading)
  BY SelectedIs
<1> HIDE DEF kept
<1>6. Append(SubSeq(above, 1, m), top) \in Seq(Heading) /\ Append(kept, top) \in Seq(Heading)
  BY <1>2, <1>4, <1>5
<1> QED
  BY <1>6 DEF PdfHeadings, OutlineHeadings, m, kept, top

(* Every block takes its step.                                             *)
LEMMA AddBlockIs ==
  ASSUME NEW d, IsDocument(d), d.format \notin {"xlsx", "txt"}, NEW k \in 1..Len(d.blocks),
         NEW result, result.above \in Seq(Heading), Parsed(result.elements, d, k - 1),
         NEW next, next = AddBlock(d.format, result, d.blocks[k])
  PROVE  next.above \in Seq(Heading) /\ Parsed(next.elements, d, k)
PROOF
<1> DEFINE block == d.blocks[k]
           above == IF block.kind # "heading" THEN result.above
                    ELSE IF d.format = "pdf" THEN PdfHeadings(result.above, block)
                    ELSE OutlineHeadings(result.above, block)
           path == [i \in DOMAIN above |-> above[i].title]
           ref == Len(result.elements) + 1
           e == Element(block, path, ref)
<1>1. block \in FileBlock /\ IsOfFormat(block, d.format) /\ Rising(Flow(block))
  <2>1. d.blocks \in Seq(FileBlock)
    BY DocumentIs
  <2>2. k \in DOMAIN d.blocks
    BY <2>1
  <2> QED
    BY <2>2, DocumentIs
<1>2. result.elements \in Seq(ParsedElement)
  BY DEF Parsed, IsOutline
<1>3. next = IF BlockText(block) = << >> /\ block.kind # "table" THEN result
             ELSE [above |-> above, elements |-> Append(result.elements, e)]
  BY DEF AddBlock
<1> HIDE DEF block
<1>4. above \in Seq(Heading)
  <2>1. block.kind = "heading" => block.level > 0
    BY <1>1 DEF IsOfFormat
  <2> QED
    BY <1>1, <2>1, HeadingsAre
<1> HIDE DEF above
<1>5. path \in Seq(STRING)
  <2> DEFINE n == Len(above)
  <2>1. n \in Nat /\ path = [i \in 1..n |-> path[i]] /\ \A i \in 1..n : path[i] = above[i].title
    BY <1>4
  <2>2. \A i \in DOMAIN above : above[i] \in Heading
    BY <1>4, ElementsOf
  <2>3. \A i \in 1..n : path[i] \in STRING
    BY <1>4, <2>1, <2>2 DEF Heading
  <2> HIDE DEF path, n
  <2> QED
    BY <2>1, <2>3, FunctionIsSequence
<1>6. ref \in Ref
  BY <1>2 DEF Ref
<1> HIDE DEF path, ref
<1>7. CASE BlockText(block) = << >> /\ block.kind # "table"
  <2>1. next = result
    BY <1>3, <1>7
  <2>2. Tells(<< >>, block)
    BY <1>1, <1>7, NoBlockElement
  <2>3. \A i \in DOMAIN << >> : OfBlock(<< >>[i], d.blocks[k])
    OBVIOUS
  <2>4. Parsed(result.elements \o << >>, d, k)
    BY <2>2, <2>3, NoElement, ParsedMore DEF block
  <2>5. result.elements \o << >> = result.elements
    BY <1>2
  <2> QED
    BY <2>1, <2>4, <2>5
<1>8. CASE ~ (BlockText(block) = << >> /\ block.kind # "table")
  <2>1. next.above = above /\ next.elements = Append(result.elements, e)
    BY <1>3, <1>8
  <2>2. IsOutline(<<e>>) /\ OfBlock(e, block) /\ Tells(<<e>>, block)
    BY <1>1, <1>5, <1>6, <1>8, BlockElementIs
  <2> HIDE DEF e
  <2>3. \A i \in DOMAIN <<e>> : OfBlock(<<e>>[i], block)
    BY <2>2
  <2>4. Parsed(result.elements \o <<e>>, d, k)
    BY <2>2, <2>3, ParsedMore DEF block
  <2>5. result.elements \o <<e>> = Append(result.elements, e)
    BY <1>2
  <2> QED
    BY <1>4, <2>1, <2>4, <2>5
<1> QED
  BY <1>7, <1>8

(* No blocks, no elements.                                                 *)
LEMMA NothingParsed ==
  ASSUME NEW d
  PROVE  Parsed(<< >>, d, 0)
PROOF
<1>1. 1..0 = {} /\ DOMAIN << >> = {}
  OBVIOUS
<1> QED
  BY <1>1, NoElement DEF Parsed

(* The elements of a document made of blocks.                              *)
LEMMA ParseBlocksIs ==
  ASSUME NEW d, IsDocument(d), d.format \notin {"xlsx", "txt"}
  PROVE  Parsed(ParseBlocks(d), d, Len(d.blocks))
PROOF
<1> DEFINE n == Len(d.blocks)
<1>1. n \in Nat
  BY DocumentIs
<1>2. PICK g : /\ g[0] = NoElements /\ ParseBlocks(d) = g[n].elements
               /\ \A k \in 1..n : g[k] = AddBlock(d.format, g[k - 1], d.blocks[k])
  BY <1>1, ParseBlocksStages
<1> DEFINE H == {k \in 0..n : g[k].above \in Seq(Heading) /\ Parsed(g[k].elements, d, k)}
<1>3. 0 \in H
  <2>1. NoElements.above = << >> /\ NoElements.elements = << >> /\ << >> \in Seq(Heading)
    BY DEF NoElements
  <2>2. 0 \in 0..n
    BY <1>1
  <2> QED
    BY <1>2, <2>1, <2>2, NothingParsed
<1>4. ASSUME NEW k \in 1..n, k - 1 \in H PROVE k \in H
  <2>1. k \in 0..n
    BY <1>1
  <2>2. g[k - 1].above \in Seq(Heading) /\ Parsed(g[k - 1].elements, d, k - 1)
    BY <1>4
  <2>3. g[k] = AddBlock(d.format, g[k - 1], d.blocks[k])
    BY <1>2
  <2>4. g[k].above \in Seq(Heading) /\ Parsed(g[k].elements, d, k)
    BY <2>2, <2>3, AddBlockIs
  <2> QED
    BY <2>1, <2>4
<1>5. n \in H
  <2> HIDE DEF H, n
  <2>1. \A i \in 0..n : i \in H
    BY <1>1, <1>3, <1>4, UpToN
  <2> QED
    BY <1>1, <2>1
<1> QED
  BY <1>2, <1>5

-----------------------------------------------------------------------------
(* Sheets and plain texts *)

(* The characters of tables or paragraphs, one after another.              *)
Spelled(regions) == Flattened(Flattened(regions))

(* A region is closed.                                                     *)
LEMMA ClosedRegion ==
  ASSUME NEW done \in Seq(Seq(Text)), NEW open \in Seq(Text),
         \A k \in DOMAIN done : done[k] # << >>,
         NEW all, all = done \o NonEmpty(open)
  PROVE  /\ all \in Seq(Seq(Text)) /\ \A k \in DOMAIN all : all[k] # << >>
         /\ Flattened(all) \in Seq(Text)
         /\ Spelled(all) = Spelled(done) \o Flattened(open)
PROOF
<1>1. Flattened(done) \in Seq(Text) /\ Spelled(done) \in Text /\ Flattened(open) \in Text
  BY FlattenedType, FlattenedTexts DEF Spelled
<1>2. CASE open = << >>
  <2>1. all = done
    BY <1>2 DEF NonEmpty
  <2>2. Spelled(done) \o << >> = Spelled(done)
    BY <1>1 DEF Text
  <2> QED
    BY <1>1, <1>2, <2>1, <2>2, FlattenedNone
<1>3. CASE open # << >>
  <2>1. all = Append(done, open)
    BY <1>3 DEF NonEmpty
  <2>2. all \in Seq(Seq(Text)) /\ \A k \in DOMAIN all : all[k] # << >>
    BY <1>3, <2>1
  <2>3. Flattened(all) = Flattened(done) \o open
    BY <2>1, FlattenedMore
  <2>4. Flattened(Flattened(done) \o open) = Flattened(Flattened(done)) \o Flattened(open)
    BY <1>1, FlattenedBoth DEF Text
  <2>5. Flattened(done) \o open \in Seq(Text)
    BY <1>1
  <2> QED
    BY <2>2, <2>3, <2>4, <2>5 DEF Spelled
<1> QED
  BY <1>2, <1>3

(* Regions have all the rows but the empty ones, in their order.           *)
LEMMA RegionsHaveRows ==
  ASSUME NEW rows \in Seq(Text), NEW limit, NEW regions, regions = Regions(rows, limit)
  PROVE  /\ regions \in Seq(Seq(Text)) /\ \A k \in DOMAIN regions : regions[k] # << >>
         /\ Spelled(regions) = Flattened(rows)
PROOF
<1> DEFINE n == Len(rows)
<1>1. n \in Nat /\ \A i \in 1..n : rows[i] \in Text
  BY ElementsOf
<1>2. PICK g : /\ g[0] = NoRegions /\ regions = g[n].done \o NonEmpty(g[n].open)
               /\ \A i \in 1..n : g[i] = AddRow(g[i - 1], rows[i], limit)
  <2>1. PICK g : /\ g[0] = NoRegions /\ Regions(rows, limit) = g[n].done \o NonEmpty(g[n].open)
                 /\ \A i \in 1..n : g[i] = AddRow(g[i - 1], rows[i], limit)
    BY <1>1, RegionsStages
  <2> HIDE DEF n
  <2>2. regions = g[n].done \o NonEmpty(g[n].open)
    BY <2>1
  <2> QED
    BY <2>1, <2>2
<1>3. PICK f : /\ f[0] = << >> /\ Flattened(rows) = f[n]
               /\ \A i \in 1..n : f[i] = f[i - 1] \o rows[i]
  BY <1>1, FlattenedStages
<1> DEFINE Good(state, text) ==
             /\ state.done \in Seq(Seq(Text)) /\ state.open \in Seq(Text)
             /\ \A k \in DOMAIN state.done : state.done[k] # << >>
             /\ Spelled(state.done) \o Flattened(state.open) = text
           H == {i \in 0..n : Good(g[i], f[i])}
<1> HIDE DEF n
<1>4. 0 \in H
  <2>1. << >> \in Seq(Seq(Text)) /\ << >> \in Seq(Text) /\ << >> \o << >> = << >>
    OBVIOUS
  <2>2. Spelled(<< >>) = << >> /\ Flattened(<< >>) = << >>
    BY FlattenedNone DEF Spelled
  <2>3. NoRegions.done = << >> /\ NoRegions.open = << >> /\ 0 \in 0..n
    BY <1>1 DEF NoRegions
  <2>4. Good(NoRegions, << >>)
    BY <2>1, <2>2, <2>3
  <2> HIDE DEF Good
  <2> QED
    BY <1>2, <1>3, <2>3, <2>4
<1>5. ASSUME NEW i \in 1..n, i - 1 \in H PROVE i \in H
  <2> DEFINE old == g[i - 1]
             row == rows[i]
             next == g[i]
  <2>1. Good(old, f[i - 1]) /\ i \in 0..n
    <3>1. i \in 0..n
      BY <1>1
    <3> HIDE DEF Good
    <3> QED
      BY <1>5, <3>1
  <2>2. row \in Text /\ next = AddRow(old, row, limit) /\ f[i] = f[i - 1] \o row
    BY <1>1, <1>2, <1>3
  <2> HIDE DEF old, row, next
  <2>3. /\ old.done \in Seq(Seq(Text)) /\ old.open \in Seq(Text)
        /\ \A k \in DOMAIN old.done : old.done[k] # << >>
        /\ Spelled(old.done) \o Flattened(old.open) = f[i - 1]
    BY <2>1
  <2>4. Flattened(old.done) \in Seq(Text) /\ Spelled(old.done) \in Text /\ Flattened(old.open) \in Text
    BY <2>3, FlattenedType, FlattenedTexts DEF Spelled
  <2>5. CASE row = << >>
    <3> DEFINE done == old.done \o NonEmpty(old.open)
    <3>1. next.done = done /\ next.open = << >>
      BY <2>2, <2>5 DEF AddRow
    <3>2. /\ done \in Seq(Seq(Text)) /\ \A k \in DOMAIN done : done[k] # << >>
          /\ Spelled(done) = Spelled(old.done) \o Flattened(old.open)
          /\ Flattened(done) \in Seq(Text)
      BY <2>3, ClosedRegion, ZenonT(60)
    <3> HIDE DEF done
    <3>3. Spelled(done) \in Text
      BY <3>2, FlattenedTexts DEF Spelled
    <3>4. Spelled(done) \o << >> = Spelled(done) /\ f[i - 1] \o << >> = f[i - 1]
      <4>1. f[i - 1] \in Text
        BY <2>3, <3>2, <3>3
      <4> QED
        BY <3>3, <4>1 DEF Text
    <3>5. Good(next, f[i])
      <4>1. << >> \in Seq(Text)
        OBVIOUS
      <4> QED
        BY <2>2, <2>3, <2>5, <3>1, <3>2, <3>4, <4>1, FlattenedNone
    <3> HIDE DEF Good
    <3> QED
      BY <2>1, <3>5 DEF next
  <2>6. CASE row # << >>
    <3> DEFINE more == Append(old.open, row)
    <3>1. more \in Seq(Text) /\ more # << >>
      BY <2>2, <2>3, EndOfMore
    <3>2. Flattened(more) = Flattened(old.open) \o row
      BY <2>2, <2>3, FlattenedMore DEF Text
    <3>3. Spelled(old.done) \o Flattened(more) = f[i]
      <4>1. Spelled(old.done) \o (Flattened(old.open) \o row)
              = (Spelled(old.done) \o Flattened(old.open)) \o row
        BY <2>2, <2>4, OneAfterAnother
      <4> QED
        BY <2>2, <2>3, <3>2, <4>1, Zenon
    <3> HIDE DEF more
    <3>4. CASE next.done = Append(old.done, more) /\ next.open = << >>
      <4> DEFINE done == old.done \o NonEmpty(more)
      <4>1. done = Append(old.done, more)
        BY <2>3, <3>1 DEF NonEmpty
      <4>2. /\ done \in Seq(Seq(Text)) /\ \A k \in DOMAIN done : done[k] # << >>
            /\ Spelled(done) = Spelled(old.done) \o Flattened(more)
            /\ Flattened(done) \in Seq(Text)
        <5>1. /\ old.done \in Seq(Seq(Text)) /\ \A k \in DOMAIN old.done : old.done[k] # << >>
              /\ more \in Seq(Text)
          BY <2>3, <3>1
        <5> DEFINE before == old.done
        <5> HIDE DEF more, before
        <5>2. /\ before \in Seq(Seq(Text)) /\ \A k \in DOMAIN before : before[k] # << >>
          BY <5>1 DEF before
        <5>3. done = before \o NonEmpty(more)
          BY DEF before
        <5> HIDE DEF done
        <5>4. /\ done \in Seq(Seq(Text)) /\ \A k \in DOMAIN done : done[k] # << >>
              /\ Spelled(done) = Spelled(before) \o Flattened(more)
              /\ Flattened(done) \in Seq(Text)
          BY <5>1, <5>2, <5>3, ClosedRegion
        <5> QED
          BY <5>4 DEF before
      <4> HIDE DEF done
      <4>3. Spelled(done) \in Text
        BY <4>2, FlattenedTexts DEF Spelled
      <4>4. Spelled(done) \o << >> = Spelled(done) /\ << >> \in Seq(Text)
        BY <4>3 DEF Text
      <4>5. Good(next, f[i])
        BY <3>3, <3>4, <4>1, <4>2, <4>4, FlattenedNone
      <4> HIDE DEF Good
      <4> QED
        BY <2>1, <4>5 DEF next
    <3>5. CASE next.done = old.done /\ next.open = more
      <4>1. Good(next, f[i])
        BY <2>3, <3>1, <3>3, <3>5
      <4> HIDE DEF Good
      <4> QED
        BY <2>1, <4>1 DEF next
    <3>6. \/ next.done = Append(old.done, more) /\ next.open = << >>
          \/ next.done = old.done /\ next.open = more
      <4>1. CASE Len(old.open) + 1 >= limit
        BY <2>2, <2>6, <4>1 DEF AddRow, more
      <4>2. CASE ~ (Len(old.open) + 1 >= limit)
        <5>1. next = [old EXCEPT !.open = Append(@, row)]
          BY <2>2, <2>6, <4>2 DEF AddRow
        <5> QED
          BY <5>1 DEF more
      <4> QED
        BY <4>1, <4>2
    <3> QED
      BY <3>4, <3>5, <3>6
  <2> QED
    BY <2>5, <2>6, SMTT(30)
<1>6. n \in H
  <2> HIDE DEF H
  <2>1. \A i \in 0..n : i \in H
    BY <1>1, <1>4, <1>5, UpToN
  <2> QED
    BY <1>1, <2>1
<1> DEFINE last == g[n]
<1>7. Good(last, Flattened(rows)) /\ regions = last.done \o NonEmpty(last.open)
  BY <1>2, <1>3, <1>6
<1> HIDE DEF last
<1>8. /\ last.done \in Seq(Seq(Text)) /\ last.open \in Seq(Text)
      /\ \A k \in DOMAIN last.done : last.done[k] # << >>
      /\ Spelled(last.done) \o Flattened(last.open) = Flattened(rows)
  BY <1>7
<1> QED
  BY <1>7, <1>8, ClosedRegion, ZenonT(60)

(* What regions say, in the order of the rows.                             *)
LEMMA RegionsAre ==
  ASSUME NEW rows \in Seq(Text), TextsRise(rows), NEW limit, NEW regions, regions = Regions(rows, limit)
  PROVE  /\ regions \in Seq(Seq(Text))
         /\ \A k \in DOMAIN regions :
              regions[k] \in Seq(Text) /\ regions[k] # << >> /\ TextsRise(regions[k])
         /\ \A j, k \in DOMAIN regions : j < k =>
              Before(All(TextSets(regions[j])), All(TextSets(regions[k])))
         /\ All(TextSets(rows)) = UNION {All(TextSets(regions[k])) : k \in DOMAIN regions}
PROOF
<1> DEFINE n == Len(regions)
           texts == [k \in DOMAIN regions |-> Flattened(regions[k])]
<1>1. /\ regions \in Seq(Seq(Text)) /\ \A k \in DOMAIN regions : regions[k] # << >>
      /\ Spelled(regions) = Flattened(rows)
  BY RegionsHaveRows
<1>2. n \in Nat /\ DOMAIN regions = 1..n /\ \A k \in 1..n : regions[k] \in Seq(Text)
  BY <1>1, ElementsOf
<1>3. Flattened(texts) = Flattened(rows)
  BY <1>1, FlattenedTwice DEF Spelled
<1>4. texts = [k \in 1..n |-> texts[k]] /\ \A k \in 1..n : texts[k] = Flattened(regions[k])
  BY <1>2
<1> HIDE DEF texts, n
<1>5. \A k \in 1..n : /\ texts[k] \in Text /\ Solids(texts[k]) = All(TextSets(regions[k]))
                      /\ Rising(texts[k]) <=> TextsRise(regions[k])
  BY <1>2, <1>4, FlattenedTexts
<1>6. texts \in Seq(Text) /\ DOMAIN texts = 1..n
  BY <1>2, <1>4, <1>5, FunctionIsSequence
<1>7. /\ Solids(Flattened(rows)) = All(TextSets(rows)) /\ Rising(Flattened(rows))
  BY FlattenedTexts
<1>8. /\ Solids(Flattened(texts)) = All(TextSets(texts))
      /\ Rising(Flattened(texts)) <=> TextsRise(texts)
  BY <1>6, FlattenedTexts
<1>9. TextsRise(texts) /\ All(TextSets(texts)) = All(TextSets(rows))
  BY <1>3, <1>7, <1>8
<1>10. All(TextSets(texts)) = UNION {All(TextSets(regions[k])) : k \in 1..n}
  BY <1>5, <1>6 DEF All, TextSets
<1>11. \A k \in 1..n : TextsRise(regions[k])
  BY <1>5, <1>6, <1>9 DEF TextsRise
<1>12. \A j, k \in 1..n : j < k => Before(All(TextSets(regions[j])), All(TextSets(regions[k])))
  <2> SUFFICES ASSUME NEW j \in 1..n, NEW k \in 1..n, j < k
               PROVE  Before(All(TextSets(regions[j])), All(TextSets(regions[k])))
    OBVIOUS
  <2>1. Before(Solids(texts[j]), Solids(texts[k]))
    BY <1>6, <1>9 DEF TextsRise
  <2> QED
    BY <1>5, <2>1
<1>13. All(TextSets(rows)) = UNION {All(TextSets(regions[k])) : k \in DOMAIN regions}
  BY <1>2, <1>9, <1>10
<1> QED
  BY <1>1, <1>2, <1>11, <1>12, <1>13

(* An empty caption and an empty text change nothing of the order of rows. *)
LEMMA NothingAndRows ==
  ASSUME NEW rows \in Seq(Text), TextsRise(rows)
  PROVE  TextsRise(<<<< >>, << >>>> \o rows)
PROOF
<1> DEFINE one == << << >> >>
           two == one \o one
<1>1. one \in Seq(Text) /\ All(TextSets(one)) = {} /\ TextsRise(one)
  BY SolidsOfNothing, TextsOfOne
<1>2. <<<< >>, << >>>> = two
  OBVIOUS
<1> HIDE DEF one
<1>3. two \in Seq(Text) /\ All(TextSets(two)) = {} /\ TextsRise(two)
  <2>1. Before({}, {})
    BY DEF Before
  <2> QED
    BY <1>1, <2>1, TextsOfBoth, ZenonT(60)
<1> HIDE DEF two
<1>4. Before(All(TextSets(two)), All(TextSets(rows)))
  BY <1>3 DEF Before
<1>5. TextsRise(two \o rows)
  BY <1>3, <1>4, TextsOfBoth
<1> QED
  BY <1>2, <1>5

(* Elements that say what the regions of a block do, in their order.       *)
LEMMA RegionElements ==
  ASSUME NEW block \in FileBlock, Rising(Flow(block)), block.text = << >>,
         block.kind \notin {"table", "image"}, NEW limit,
         NEW regions, regions = Regions(block.rows, limit),
         NEW more, more = [i \in DOMAIN regions |-> more[i]],
         \A i \in DOMAIN regions :
           /\ IsOrderly(more[i]) /\ more[i].artifact = block.artifact /\ more[i].kind # "heading"
           /\ Said(more[i]) = All(TextSets(regions[i]))
           /\ Said(more[i]) # {} => Strip(more[i].text) # << >> \/ more[i].rows # << >>
  PROVE  IsOutline(more) /\ (\A i \in DOMAIN more : OfBlock(more[i], block)) /\ Tells(more, block)
PROOF
<1> DEFINE n == Len(regions)
           rows == block.rows
<1>1. /\ rows \in Seq(Text) /\ TextsRise(rows) /\ All(TextSets(rows)) \subseteq Solids(Flow(block))
  BY FlowIs
<1>2. /\ regions \in Seq(Seq(Text))
      /\ \A j, k \in DOMAIN regions : j < k =>
           Before(All(TextSets(regions[j])), All(TextSets(regions[k])))
      /\ All(TextSets(rows)) = UNION {All(TextSets(regions[k])) : k \in DOMAIN regions}
  BY <1>1, RegionsAre
<1>3. n \in Nat /\ DOMAIN regions = 1..n
  BY <1>2
<1> HIDE DEF n, rows
<1>4. \A i \in 1..n : more[i] \in ParsedElement
  BY <1>3 DEF IsOrderly
<1>5. more \in Seq(ParsedElement) /\ DOMAIN more = 1..n
  <2>1. more = [i \in 1..n |-> more[i]]
    BY <1>3
  <2> QED
    BY <1>3, <1>4, <2>1, FunctionIsSequence
<1>6. IsOutline(more)
  BY <1>2, <1>3, <1>5 DEF IsOutline
<1>7. \A i \in DOMAIN more : OfBlock(more[i], block)
  BY <1>1, <1>2, <1>3, <1>5 DEF OfBlock
<1>8. Said(block) = All(TextSets(rows))
  <2>1. BlockText(block) = << >>
    BY DEF BlockText
  <2>2. Said(block) = Solids(BlockText(block)) \cup All(TextSets(rows))
                        \cup IF block.kind = "table" THEN Solids(block.caption) ELSE {}
    BY BlockSays DEF rows
  <2> QED
    BY <2>1, <2>2, SolidsOfNothing
<1>9. ASSUME NEW x \in Said(block)
      PROVE  \E i \in DOMAIN more :
               /\ x \in Said(more[i]) /\ more[i].kind # "heading" /\ more[i].artifact = block.artifact
               /\ Strip(more[i].text) # << >> \/ more[i].rows # << >>
  <2>1. PICK i \in DOMAIN regions : x \in All(TextSets(regions[i]))
    BY <1>2, <1>8, <1>9
  <2>2. i \in DOMAIN more /\ x \in Said(more[i])
    BY <1>3, <1>5, <2>1
  <2> QED
    BY <2>1, <2>2
<1>10. Tells(more, block)
  BY <1>9 DEF Tells
<1> QED
  BY <1>6, <1>7, <1>10

(* The tables of a sheet.                                                  *)
LEMMA TablesOfIs ==
  ASSUME NEW sheet \in FileBlock, Rising(Flow(sheet)), IsOfFormat(sheet, "xlsx"),
         NEW more, more = TablesOf(sheet)
  PROVE  IsOutline(more) /\ (\A i \in DOMAIN more : OfBlock(more[i], sheet)) /\ Tells(more, sheet)
PROOF
<1> DEFINE regions == Regions(sheet.rows, MaxTableRows)
           header(i) == IF sheet.header < Len(regions[i]) THEN sheet.header ELSE 1
           table(i) == [sheet EXCEPT !.kind = "table", !.rows = regions[i], !.header = header(i)]
           element(i) == Element(table(i), <<sheet.title>>, <<sheet.title, i>>)
<1>1. /\ sheet.kind = "sheet" /\ sheet.text = << >> /\ sheet.caption = << >> /\ ~ sheet.artifact
  BY DEF IsOfFormat
<1>2. /\ sheet.header \in Nat \ {0} /\ sheet.page \in Nat /\ sheet.title \in STRING
      /\ sheet.artifact \in BOOLEAN
  BY DEF FileBlock
<1>3. sheet.rows \in Seq(Text) /\ TextsRise(sheet.rows)
  BY FlowIs
<1>4. /\ regions \in Seq(Seq(Text))
      /\ \A k \in DOMAIN regions :
           regions[k] \in Seq(Text) /\ regions[k] # << >> /\ TextsRise(regions[k])
  BY <1>3, RegionsAre
<1>5. more = [i \in DOMAIN regions |-> element(i)]
  BY Zenon DEF TablesOf
<1> HIDE DEF regions
<1>6. ASSUME NEW i \in DOMAIN regions
      PROVE  /\ IsOrderly(element(i)) /\ element(i).artifact = sheet.artifact
             /\ element(i).kind # "heading"
             /\ Said(element(i)) = All(TextSets(regions[i]))
             /\ element(i).rows # << >>
  <2> DEFINE h == header(i)
             b == table(i)
             e == element(i)
             region == regions[i]
             path == <<sheet.title>>
             ref == <<sheet.title, i>>
  <2>1. region \in Seq(Text) /\ region # << >> /\ TextsRise(region) /\ i \in Nat
    BY <1>4
  <2>2. h \in Nat \ {0} /\ (h = 1 \/ h < Len(region))
    BY <1>2
  <2>3. path \in Seq(STRING) /\ ref \in Ref
    BY <1>2, <2>1 DEF Ref
  <2> HIDE DEF h, region, path, ref
  <2>4. /\ b.kind = "table" /\ b.rows = region /\ b.header = h /\ b.text = << >> /\ b.caption = << >>
        /\ b.page = sheet.page /\ b.artifact = sheet.artifact
    BY <1>1 DEF FileBlock, h, region
  <2> HIDE DEF b
  <2>5. e = [kind |-> "table", text |-> << >>, rows |-> region, caption |-> << >>,
             header |-> h, page |-> sheet.page, path |-> path, ref |-> ref,
             artifact |-> sheet.artifact]
    BY <2>4 DEF Element, BlockText, b, path, ref
  <2> HIDE DEF e
  <2>6. /\ e.kind = "table" /\ e.text = << >> /\ e.rows = region /\ e.caption = << >>
        /\ e.header = h /\ e.artifact = sheet.artifact
    BY <2>5
  <2>7. e \in ParsedElement
    <3>1. "table" \in Kind /\ << >> \in Text
      BY SolidsOfNothing DEF Kind
    <3> QED
      BY <1>2, <2>1, <2>2, <2>3, <2>5, <3>1 DEF ParsedElement
  <2>8. TextsRise(<<e.caption, e.text>> \o e.rows)
    BY <2>1, <2>6, NothingAndRows
  <2>9. IsOrderly(e)
    BY <2>2, <2>6, <2>7, <2>8 DEF IsOrderly
  <2>10. Said(e) = All(TextSets(region))
    <3> DEFINE A == UNION {Solids(region[r]) : r \in DOMAIN region}
    <3>1. Said(e) = Solids(e.text) \cup A \cup Solids(e.caption)
      BY <2>6, <2>7, SaidIs
    <3>2. A = All(TextSets(region))
      BY DEF All, TextSets
    <3> QED
      BY <2>6, <3>1, <3>2, SolidsOfNothing
  <2> QED
    BY <2>1, <2>6, <2>9, <2>10 DEF e, region
<1> HIDE DEF element
<1>7. more = [i \in DOMAIN regions |-> more[i]] /\ \A i \in DOMAIN regions : more[i] = element(i)
  BY <1>5
<1>8. sheet.kind \notin {"table", "image"}
  BY <1>1
<1> QED
  BY <1>1, <1>6, <1>7, <1>8, RegionElements, SMTT(30) DEF regions

(* The paragraphs of a plain text.                                         *)
Paragraphs(block) ==
  LET lines == block.rows
      paragraphs == Regions(lines, Len(lines) + 1)
  IN [i \in DOMAIN paragraphs |->
        Element([block EXCEPT !.kind = "paragraph", !.rows = << >>,
                              !.text = Join(paragraphs[i], <<LineBreak>>)],
                << >>, i)]

(* They say what the lines do, in their order.                             *)
LEMMA ParagraphsAre ==
  ASSUME NEW block \in FileBlock, Rising(Flow(block)), IsOfFormat(block, "txt"),
         NEW more, more = Paragraphs(block)
  PROVE  IsOutline(more) /\ (\A i \in DOMAIN more : OfBlock(more[i], block)) /\ Tells(more, block)
PROOF
<1> DEFINE limit == Len(block.rows) + 1
           regions == Regions(block.rows, limit)
           text(i) == Join(regions[i], <<LineBreak>>)
           paragraph(i) == [block EXCEPT !.kind = "paragraph", !.rows = << >>, !.text = text(i)]
           element(i) == Element(paragraph(i), << >>, i)
<1>1. /\ block.kind = "lines" /\ block.text = << >> /\ block.caption = << >> /\ ~ block.artifact
  BY DEF IsOfFormat
<1>2. /\ block.header \in Nat \ {0} /\ block.page \in Nat /\ block.artifact \in BOOLEAN
  BY DEF FileBlock
<1>3. block.rows \in Seq(Text) /\ TextsRise(block.rows)
  BY FlowIs
<1>4. /\ regions \in Seq(Seq(Text))
      /\ \A k \in DOMAIN regions :
           regions[k] \in Seq(Text) /\ regions[k] # << >> /\ TextsRise(regions[k])
  BY <1>3, RegionsAre
<1>5. more = [i \in DOMAIN regions |-> element(i)]
  BY Zenon DEF Paragraphs
<1> HIDE DEF regions, limit
<1>6. ASSUME NEW i \in DOMAIN regions
      PROVE  /\ IsOrderly(element(i)) /\ element(i).artifact = block.artifact
             /\ element(i).kind # "heading"
             /\ Said(element(i)) = All(TextSets(regions[i]))
             /\ Said(element(i)) # {} => Strip(element(i).text) # << >>
  <2> DEFINE b == paragraph(i)
             e == element(i)
             t == text(i)
             region == regions[i]
  <2>1. region \in Seq(Text) /\ TextsRise(region) /\ i \in Nat
    BY <1>4
  <2>2. t \in Text /\ Solids(t) = All(TextSets(region)) /\ Rising(t)
    <3> HIDE DEF region
    <3>1. <<LineBreak>> \in Text /\ Solids(<<LineBreak>>) = {} /\ Rising(<<LineBreak>>)
      BY SolidsOfNothing
    <3> QED
      BY <2>1, <3>1, JoinedTexts DEF region
  <2> HIDE DEF t, region
  <2>3. /\ b.kind = "paragraph" /\ b.rows = << >> /\ b.text = t /\ b.caption = << >>
        /\ b.page = block.page /\ b.artifact = block.artifact /\ b.header = block.header
    BY <1>1 DEF FileBlock, t
  <2> HIDE DEF b
  <2>4. e = [kind |-> "paragraph", text |-> t, rows |-> << >>, caption |-> << >>,
             header |-> block.header, page |-> block.page, path |-> << >>, ref |-> i,
             artifact |-> block.artifact]
    BY <2>3 DEF Element, BlockText, b
  <2> HIDE DEF e
  <2>5. /\ e.kind = "paragraph" /\ e.text = t /\ e.rows = << >> /\ e.artifact = block.artifact
    BY <2>4
  <2>6. e \in ParsedElement
    <3>1. "paragraph" \in Kind /\ << >> \in Text /\ << >> \in Seq(Text) /\ << >> \in Seq(STRING)
          /\ i \in Ref
      BY <2>1, SolidsOfNothing DEF Kind, Ref
    <3> QED
      BY <1>2, <2>2, <2>4, <3>1 DEF ParsedElement
  <2>7. IsOrderly(e)
    BY <2>2, <2>5, <2>6 DEF IsOrderly
  <2>8. Said(e) = Solids(t)
    <3> DEFINE A == UNION {Solids(e.rows[r]) : r \in DOMAIN e.rows}
    <3>1. Said(e) = Solids(e.text) \cup A \cup IF e.kind = "table" THEN Solids(e.caption) ELSE {}
      BY <2>5, <2>6, SaidIs
    <3>2. A = {}
      BY <2>5
    <3> QED
      BY <2>5, <3>1, <3>2
  <2>9. Solids(t) # {} => Strip(t) # << >>
    BY <2>2, Stripping, SolidsOfNothing
  <2> QED
    BY <2>2, <2>5, <2>7, <2>8, <2>9 DEF e, region
<1> HIDE DEF element
<1>7. more = [i \in DOMAIN regions |-> more[i]] /\ \A i \in DOMAIN regions : more[i] = element(i)
  BY <1>5
<1>8. block.kind \notin {"table", "image"}
  BY <1>1
<1>9. regions = Regions(block.rows, limit)
  BY DEF regions
<1>10. \A i \in DOMAIN regions :
         /\ IsOrderly(more[i]) /\ more[i].artifact = block.artifact /\ more[i].kind # "heading"
         /\ Said(more[i]) = All(TextSets(regions[i]))
         /\ Said(more[i]) # {} => Strip(more[i].text) # << >> \/ more[i].rows # << >>
  BY <1>6, <1>7
<1>11. block.text = << >> /\ more = [i \in DOMAIN regions |-> more[i]]
  BY <1>1, <1>7
<1> QED
  BY <1>8, <1>9, <1>10, <1>11, RegionElements, ZenonT(60)

(* The elements of a workbook.                                             *)
LEMMA ParseWorkbookIs ==
  ASSUME NEW d, IsDocument(d), d.format = "xlsx"
  PROVE  Parsed(ParseWorkbook(d), d, Len(d.blocks))
PROOF
<1> DEFINE n == Len(d.blocks)
           tables == [k \in DOMAIN d.blocks |-> TablesOf(d.blocks[k])]
<1>1. /\ n \in Nat /\ DOMAIN d.blocks = 1..n
      /\ \A k \in 1..n : /\ d.blocks[k] \in FileBlock /\ IsOfFormat(d.blocks[k], "xlsx")
                         /\ Rising(Flow(d.blocks[k]))
  <2>1. d.blocks \in Seq(FileBlock)
    BY DocumentIs
  <2>2. n \in Nat /\ DOMAIN d.blocks = 1..n
    BY <2>1
  <2> HIDE DEF n
  <2> QED
    BY <2>2, DocumentIs
<1>2. Len(tables) = n /\ \A k \in 1..n : tables[k] = TablesOf(d.blocks[k])
  BY <1>1
<1>3. ParseWorkbook(d) = Flattened(tables)
  BY DEF ParseWorkbook
<1> HIDE DEF tables
<1>4. PICK g : /\ g[0] = << >> /\ Flattened(tables) = g[n]
               /\ \A k \in 1..n : g[k] = g[k - 1] \o tables[k]
  BY <1>1, <1>2, FlattenedStages
<1> DEFINE H == {k \in 0..n : Parsed(g[k], d, k)}
<1>5. 0 \in H
  BY <1>1, <1>4, NothingParsed
<1>6. ASSUME NEW k \in 1..n, k - 1 \in H PROVE k \in H
  <2>1. k \in 0..n /\ Parsed(g[k - 1], d, k - 1)
    BY <1>1, <1>6
  <2>2. g[k] = g[k - 1] \o tables[k]
    BY <1>4
  <2>3. /\ IsOutline(tables[k]) /\ \A i \in DOMAIN tables[k] : OfBlock(tables[k][i], d.blocks[k])
        /\ Tells(tables[k], d.blocks[k])
    BY <1>1, <1>2, TablesOfIs
  <2>4. Parsed(g[k - 1] \o tables[k], d, k)
    BY <2>1, <2>3, ParsedMore
  <2> QED
    BY <2>1, <2>2, <2>4
<1>7. n \in H
  <2> HIDE DEF H, n
  <2>1. \A i \in 0..n : i \in H
    BY <1>1, <1>5, <1>6, UpToN
  <2> QED
    BY <1>1, <2>1
<1> QED
  BY <1>3, <1>4, <1>7

(* The elements of a plain text.                                           *)
LEMMA ParseTextIs ==
  ASSUME NEW d, IsDocument(d), d.format = "txt"
  PROVE  Parsed(ParseText(d), d, Len(d.blocks))
PROOF
<1> DEFINE more == ParseText(d)
           block == d.blocks[1]
<1>1. Len(d.blocks) = 1
  BY DEF IsDocument
<1>2. block \in FileBlock /\ IsOfFormat(block, "txt") /\ Rising(Flow(block))
  <2>1. 1 \in DOMAIN d.blocks
    BY <1>1, DocumentIs
  <2> QED
    BY <2>1, DocumentIs
<1>3. /\ IsOutline(more) /\ \A i \in DOMAIN more : OfBlock(more[i], block)
      /\ Tells(more, block)
  <2>1. more = Paragraphs(block)
    BY Zenon DEF ParseText, Paragraphs
  <2> HIDE DEF more, block
  <2> QED
    BY <1>2, <2>1, ParagraphsAre
<1>4. 1 \in 1..Len(d.blocks) /\ 1 - 1 = 0
  BY <1>1
<1> HIDE DEF more
<1>5. Parsed(<< >>, d, 1 - 1)
  BY <1>4, NothingParsed
<1>6. Parsed(<< >> \o more, d, 1)
  BY <1>3, <1>4, <1>5, ParsedMore
<1>7. << >> \o more = more
  BY <1>3 DEF IsOutline
<1> QED
  BY <1>1, <1>6, <1>7 DEF more

(* The elements of every document.                                         *)
LEMMA ParseDocumentIs ==
  ASSUME NEW d, IsDocument(d)
  PROVE  Parsed(ParseDocument(d), d, Len(d.blocks))
PROOF
<1>1. CASE d.format = "xlsx"
  BY <1>1, ParseWorkbookIs DEF ParseDocument
<1>2. CASE d.format = "txt"
  BY <1>2, ParseTextIs DEF ParseDocument
<1>3. CASE d.format \notin {"xlsx", "txt"}
  BY <1>3, ParseBlocksIs DEF ParseDocument
<1> QED
  BY <1>1, <1>2, <1>3

-----------------------------------------------------------------------------
(* Documents and their chunks *)

(* A chunk that names the source of what is left of an element names that  *)
(* of the element.                                                         *)
LEMMA NamesOfCleaned ==
  ASSUME NEW element, IsOrderly(element), NEW chunk, NamesItsSource(chunk, Clean(element))
  PROVE  NamesItsSource(chunk, element)
PROOF
<1> DEFINE clean == Clean(element)
           all == Solid(Range(chunk.content))
<1>1. /\ Said(clean) = Said(element) /\ clean.page = element.page /\ clean.path = element.path
      /\ clean.ref = element.ref /\ DOMAIN clean.rows = DOMAIN element.rows
      /\ \A r \in DOMAIN element.rows : Solids(clean.rows[r]) = Solids(element.rows[r])
  BY CleanIs
<1> HIDE DEF clean
<1>2. all \cap Said(clean) # {} =>
        /\ chunk.page = clean.page /\ clean.ref \in chunk.refs /\ IsPrefix(chunk.path, clean.path)
        /\ chunk.kind = "table" =>
             \A r \in DOMAIN clean.rows :
               Solids(clean.rows[r]) \cap (all \cap Said(clean)) # {} =>
                 r = chunk.rows[3] \/ (chunk.rows[1] <= r /\ r <= chunk.rows[2])
  BY Zenon DEF NamesItsSource, Said, Solids, clean
<1> HIDE DEF all
<1>3. all \cap Said(element) # {} =>
        /\ chunk.page = element.page /\ element.ref \in chunk.refs
        /\ IsPrefix(chunk.path, element.path)
        /\ chunk.kind = "table" =>
             \A r \in DOMAIN element.rows :
               Solids(element.rows[r]) \cap (all \cap Said(element)) # {} =>
                 r = chunk.rows[3] \/ (chunk.rows[1] <= r /\ r <= chunk.rows[2])
  BY <1>1, <1>2
<1> QED
  BY <1>3, Zenon DEF NamesItsSource, Said, Solids, all

(* What the chunks of a cleaned document have is said by elements that     *)
(* stay, and what these say is there.                                      *)
LEMMA StayingElements ==
  ASSUME NEW elements, IsOutline(elements), NEW cleaned, cleaned = CleanDocument(elements),
         NEW drafts, About(drafts, cleaned, 0, Len(cleaned))
  PROVE  /\ \A x \in All(Contents(drafts)) : \E i \in DOMAIN elements :
              Stays(elements[i]) /\ x \in Said(elements[i])
         /\ \A i \in DOMAIN elements : Stays(elements[i]) /\ elements[i].kind # "heading" =>
              /\ Said(elements[i]) \subseteq All(Contents(drafts))
              /\ \A k \in DOMAIN drafts : NamesItsSource(drafts[k], elements[i])
PROOF
<1> DEFINE n == Len(cleaned)
<1>1. /\ IsOutline(cleaned)
      /\ \A j \in DOMAIN cleaned : \E i \in DOMAIN elements :
           Stays(elements[i]) /\ cleaned[j] = Clean(elements[i])
      /\ \A i \in DOMAIN elements : Stays(elements[i]) =>
           \E j \in DOMAIN cleaned : cleaned[j] = Clean(elements[i])
  BY CleanDocumentIs
<1>2. n \in Nat /\ DOMAIN cleaned = 1..n
  BY <1>1 DEF IsOutline
<1>3. \A i \in DOMAIN elements :
        /\ IsOrderly(elements[i]) /\ Said(Clean(elements[i])) = Said(elements[i])
        /\ Clean(elements[i]).kind = elements[i].kind
  <2>1. \A i \in DOMAIN elements : IsOrderly(elements[i])
    BY DEF IsOutline
  <2> QED
    BY <2>1, CleanIs
<1> HIDE DEF n
<1>4. /\ All(Contents(drafts)) \subseteq SaidBy(cleaned, 0, n)
      /\ \A j \in (0 + 1)..n : cleaned[j].kind # "heading" =>
           /\ Said(cleaned[j]) \subseteq All(Contents(drafts))
           /\ \A k \in DOMAIN drafts : NamesItsSource(drafts[k], cleaned[j])
  BY Zenon DEF About, n
<1>5. ASSUME NEW x \in All(Contents(drafts))
      PROVE  \E i \in DOMAIN elements : Stays(elements[i]) /\ x \in Said(elements[i])
  <2>1. PICK j \in (0 + 1)..n : x \in Said(cleaned[j])
    BY <1>4, <1>5 DEF SaidBy
  <2>2. j \in DOMAIN cleaned
    BY <1>2, <2>1
  <2>3. PICK i \in DOMAIN elements : Stays(elements[i]) /\ cleaned[j] = Clean(elements[i])
    BY <1>1, <2>2
  <2> QED
    BY <1>3, <2>1, <2>3
<1>6. ASSUME NEW i \in DOMAIN elements, Stays(elements[i]), elements[i].kind # "heading"
      PROVE  /\ Said(elements[i]) \subseteq All(Contents(drafts))
             /\ \A k \in DOMAIN drafts : NamesItsSource(drafts[k], elements[i])
  <2>1. PICK j \in DOMAIN cleaned : cleaned[j] = Clean(elements[i])
    BY <1>1, <1>6
  <2>2. j \in (0 + 1)..n
    BY <1>2
  <2>3. /\ Said(cleaned[j]) \subseteq All(Contents(drafts))
        /\ \A k \in DOMAIN drafts : NamesItsSource(drafts[k], cleaned[j])
    BY <1>3, <1>4, <1>6, <2>1, <2>2
  <2>4. \A k \in DOMAIN drafts : NamesItsSource(drafts[k], elements[i])
    BY <1>3, <2>1, <2>3, NamesOfCleaned
  <2> QED
    BY <1>3, <2>1, <2>3, <2>4
<1> QED
  BY <1>5, <1>6

(* A chunk names the source of every element that is not on the page only. *)
LEMMA SourcesAreNamed ==
  ASSUME NEW elements, IsOutline(elements), NEW cleaned, cleaned = CleanDocument(elements),
         NEW drafts, About(drafts, cleaned, 0, Len(cleaned)),
         NEW e \in DOMAIN elements, elements[e].kind # "heading", ~ elements[e].artifact,
         NEW k \in DOMAIN drafts
  PROVE  NamesItsSource(drafts[k], elements[e])
PROOF
<1>1. CASE Stays(elements[e])
  BY <1>1, StayingElements
<1>2. CASE ~ Stays(elements[e])
  <2>1. Solids(drafts[k].content) \subseteq All(Contents(drafts))
    BY DEF All, Contents
  <2>2. ASSUME NEW x, x \in Solids(drafts[k].content), x \in Said(elements[e]) PROVE FALSE
    <3>1. PICK i \in DOMAIN elements : Stays(elements[i]) /\ x \in Said(elements[i])
      BY <2>1, <2>2, StayingElements
    <3>2. i # e /\ DOMAIN elements \subseteq Nat
      BY <1>2, <3>1 DEF IsOutline
    <3>3. x \in Nat
      <4>1. elements[i] \in ParsedElement /\ elements[i].kind # "image"
        BY DEF IsOutline, IsOrderly
      <4> QED
        BY <3>1, <4>1, SaidIs
    <3>4. Before(Said(elements[i]), Said(elements[e])) \/ Before(Said(elements[e]), Said(elements[i]))
      <4>1. i < e \/ e < i
        BY <3>2
      <4> QED
        BY <4>1 DEF IsOutline
    <3>5. x < x
      BY <2>2, <3>1, <3>4 DEF Before
    <3> QED
      BY <3>3, <3>5
  <2>3. Solid(Range(drafts[k].content)) \cap Solid(CharactersOf(elements[e])) = {}
    BY <2>2 DEF Said, Solids
  <2> QED
    BY <2>3, Zenon DEF NamesItsSource
<1> QED
  BY <1>1, <1>2

(* What a block says is of its characters.                                 *)
LEMMA SaidOfBlock ==
  ASSUME NEW block \in FileBlock
  PROVE  Said(block) \subseteq Solids(Flow(block)) /\ Solids(Flow(block)) \subseteq Nat
PROOF
<1>1. /\ Flow(block) \in Text
      /\ Solids(Flow(block)) = Solids(block.caption) \cup Solids(block.text) \cup All(TextSets(block.rows))
  BY FlowIs
<1>2. Said(block) = Solids(BlockText(block)) \cup All(TextSets(block.rows))
                      \cup IF block.kind = "table" THEN Solids(block.caption) ELSE {}
  BY BlockSays
<1>3. BlockText(block) \in {block.text, block.caption}
  BY DEF BlockText
<1>4. Solids(Flow(block)) \subseteq Nat
  BY <1>1, SolidsAreNumbers
<1> QED
  BY <1>1, <1>2, <1>3, <1>4

(* Chunks have all that a body or table says, and nothing of what is on    *)
(* the page only.                                                          *)
LEMMA BlocksAreCarried ==
  ASSUME NEW d, IsDocument(d), NEW elements, Parsed(elements, d, Len(d.blocks)),
         NEW cleaned, cleaned = CleanDocument(elements),
         NEW drafts, About(drafts, cleaned, 0, Len(cleaned)),
         NEW k \in DOMAIN d.blocks, d.blocks[k].kind # "heading",
         NEW b, b = d.blocks[k]
  PROVE  IF b.artifact THEN Said(b) \cap All(Contents(drafts)) = {}
         ELSE IsBlankTable(b) \/ Said(b) \subseteq All(Contents(drafts))
PROOF
<1> DEFINE n == Len(d.blocks)
<1>1. /\ DOMAIN d.blocks = 1..n /\ n \in Nat
      /\ \A m \in 1..n : d.blocks[m] \in FileBlock
      /\ \A j, m \in 1..n : j < m => Before(Solids(Flow(d.blocks[j])), Solids(Flow(d.blocks[m])))
  <2>1. d.blocks \in Seq(FileBlock)
    BY DocumentIs
  <2>2. DOMAIN d.blocks = 1..n /\ n \in Nat
    BY <2>1
  <2> HIDE DEF n
  <2> QED
    BY <2>2, DocumentIs
<1>2. /\ IsOutline(elements)
      /\ \A i \in DOMAIN elements : \E m \in 1..n : OfBlock(elements[i], d.blocks[m])
      /\ \A m \in 1..n : Tells(elements, d.blocks[m])
  BY DEF Parsed
<1> HIDE DEF n
<1>3. k \in 1..n /\ b \in FileBlock /\ b.artifact \in BOOLEAN
  BY <1>1 DEF FileBlock
<1>4. ASSUME b.artifact, NEW x, x \in Said(b), x \in All(Contents(drafts)) PROVE FALSE
  <2>1. PICK i \in DOMAIN elements : Stays(elements[i]) /\ x \in Said(elements[i])
    BY <1>2, <1>4, StayingElements
  <2>2. PICK m \in 1..n : OfBlock(elements[i], d.blocks[m])
    BY <1>2
  <2>3. m # k
    BY <1>4, <2>1, <2>2 DEF OfBlock, Stays
  <2>4. x \in Solids(Flow(d.blocks[m]))
    BY <2>1, <2>2 DEF OfBlock
  <2>5. x \in Solids(Flow(d.blocks[k])) /\ x \in Nat
    BY <1>3, <1>4, SaidOfBlock
  <2>6. m < k \/ k < m
    BY <1>1, <1>3, <2>3
  <2>7. x < x
    BY <1>1, <1>3, <2>4, <2>5, <2>6 DEF Before
  <2> QED
    BY <2>5, <2>7
<1>5. ASSUME ~ b.artifact, ~ IsBlankTable(b), NEW x \in Said(b) PROVE x \in All(Contents(drafts))
  <2>1. PICK i \in DOMAIN elements :
          /\ x \in Said(elements[i]) /\ elements[i].kind # "heading"
          /\ elements[i].artifact = b.artifact
          /\ Strip(elements[i].text) # << >> \/ elements[i].rows # << >>
    BY <1>2, <1>3, <1>5 DEF Tells
  <2>2. Stays(elements[i])
    BY <1>5, <2>1 DEF Stays
  <2>3. Said(elements[i]) \subseteq All(Contents(drafts))
    BY <1>2, <2>1, <2>2, StayingElements
  <2> QED
    BY <2>1, <2>3
<1> QED
  BY <1>3, <1>4, <1>5

(* The inductive invariant: a document that was cut has the chunks of its  *)
(* cleaned elements.                                                       *)
ChunkingInv ==
  LET cleaned == CleanDocument(ParseDocument(document))
  IN /\ IsDocument(document)
     /\ outcome = "CHUNKS" => IsComplete(document, cleaned) /\ chunks = ChunkDocument(cleaned)

(* What is begun in the chunks is what is new in each.                     *)
LEMMA BegunIs ==
  ASSUME chunks \in Seq(Draft)
  PROVE  /\ \A i \in DOMAIN chunks : Begun(i) = New(Contents(chunks), i)
         /\ Found = All(Contents(chunks))
PROOF
<1> DEFINE sets == Contents(chunks)
<1>1. /\ sets \in Sets /\ DOMAIN sets = DOMAIN chunks
      /\ \A k \in DOMAIN chunks : sets[k] = Solids(chunks[k].content)
  BY ContentsOf
<1>2. DOMAIN chunks = 1..Len(chunks) /\ Len(chunks) \in Nat
  OBVIOUS
<1> HIDE DEF sets
<1>3. ASSUME NEW i \in DOMAIN chunks PROVE Begun(i) = New(sets, i)
  <2>1. \A j \in 1..(i - 1) : j \in DOMAIN chunks
    BY <1>2
  <2>2. UNION {Solid(Range(chunks[j].content)) : j \in 1..(i - 1)} = UNION {sets[j] : j \in 1..(i - 1)}
    BY <1>1, <2>1 DEF Solids
  <2>3. Solid(Range(chunks[i].content)) = sets[i]
    BY <1>1 DEF Solids
  <2> QED
    BY <2>2, <2>3, Zenon DEF Begun, New
<1>4. All(sets) \subseteq UNION {New(sets, i) : i \in DOMAIN sets}
  BY <1>1, FirstOf
<1>5. \A i \in DOMAIN sets : New(sets, i) \subseteq sets[i]
  BY DEF New
<1>6. UNION {New(sets, i) : i \in DOMAIN sets} \subseteq All(sets)
  BY <1>5 DEF All
<1>7. Found = UNION {New(sets, i) : i \in DOMAIN sets}
  BY <1>1, <1>3 DEF Found
<1> QED
  BY <1>3, <1>4, <1>6, <1>7 DEF sets

(* A chunk that fits is within the limit, with its path.                   *)
LEMMA TokensOfFitting ==
  ASSUME NEW chunk \in Draft, Fits(chunk.content, chunk.path)
  PROVE  Tokens(chunk) <= MaxTokens
PROOF
<1>1. chunk.path \in Seq(STRING) /\ chunk.content \in Text
  BY DEF Draft
<1>2. ContentBudget(chunk.path) \in Nat /\ ContentBudget(chunk.path) <= MaxTokens
  BY <1>1, RoomForText
<1>3. Len(chunk.content) \in Nat /\ Len(chunk.content) <= ContentBudget(chunk.path)
  BY <1>1 DEF Fits, Text
<1>4. MaxTokens \in Nat
  BY ChunkConfigAssumption
<1> QED
  BY <1>2, <1>3, <1>4 DEF Tokens

(* The invariant implies that chunks carry the document.                   *)
LEMMA ChunkingInvImplies ==
  ASSUME ChunkingInv
  PROVE  ChunksCarryTheDocument
PROOF
<1> SUFFICES ASSUME outcome = "CHUNKS"
             PROVE  /\ ~ HasUnreadPage(document) /\ ~ document.uncached
                    /\ \A i \in DOMAIN chunks : Tokens(chunks[i]) <= MaxTokens
                    /\ NothingIsLost /\ ChunksKeepTheOrder /\ ChunksNameTheirSources
  BY DEF ChunksCarryTheDocument
<1> DEFINE parsed == ParseDocument(document)
           cleaned == CleanDocument(parsed)
<1>1. IsDocument(document) /\ IsComplete(document, cleaned) /\ chunks = ChunkDocument(cleaned)
  BY DEF ChunkingInv
<1>2. Parsed(parsed, document, Len(document.blocks)) /\ IsOutline(parsed)
  <2>1. Parsed(parsed, document, Len(document.blocks))
    BY <1>1, ParseDocumentIs
  <2> HIDE DEF parsed
  <2> QED
    BY <2>1 DEF Parsed
<1> HIDE DEF parsed
<1>3. IsOutline(cleaned)
  BY <1>2, CleanDocumentIs
<1>4. About(chunks, cleaned, 0, Len(cleaned))
  <2> HIDE DEF cleaned
  <2> QED
    BY <1>1, <1>3, ChunksAre
<1>5. cleaned = CleanDocument(parsed)
  OBVIOUS
<1>6. ~ HasUnreadPage(document) /\ ~ document.uncached
  BY <1>1 DEF IsComplete
<1> HIDE DEF cleaned
<1>7. /\ chunks \in Seq(Draft) /\ \A k \in DOMAIN chunks : Fits(chunks[k].content, chunks[k].path)
      /\ InOrder(Contents(chunks))
  BY <1>4 DEF About
<1>8. \A k \in DOMAIN chunks : chunks[k] \in Draft
  BY <1>7, ElementsOf
<1>9. \A i \in DOMAIN chunks : Tokens(chunks[i]) <= MaxTokens
  BY <1>7, <1>8, TokensOfFitting
<1>10. /\ \A i \in DOMAIN chunks : Begun(i) = New(Contents(chunks), i)
       /\ Found = All(Contents(chunks)) /\ DOMAIN Contents(chunks) = DOMAIN chunks
  BY <1>7, BegunIs, ContentsOf
<1>11. ChunksKeepTheOrder
  BY <1>7, <1>10 DEF ChunksKeepTheOrder, InOrder, Before
<1>12. NothingIsLost
  <2> SUFFICES ASSUME NEW b \in Blocks
               PROVE  IF b.artifact THEN Solid(CharactersOf(b)) \cap Found = {}
                      ELSE IsBlankTable(b) \/ Solid(CharactersOf(b)) \subseteq Found
    BY DEF NothingIsLost
  <2>1. PICK k \in DOMAIN document.blocks : b = document.blocks[k] /\ document.blocks[k].kind # "heading"
    BY DEF Blocks, Range
  <2>2. IF b.artifact THEN Said(b) \cap All(Contents(chunks)) = {}
        ELSE IsBlankTable(b) \/ Said(b) \subseteq All(Contents(chunks))
    BY <1>1, <1>2, <1>4, <1>5, <2>1, BlocksAreCarried
  <2> QED
    BY <1>10, <2>2 DEF Said
<1>13. ChunksNameTheirSources
  <2> SUFFICES ASSUME NEW i \in DOMAIN chunks, NEW e \in DOMAIN parsed,
                      parsed[e].kind # "heading", ~ parsed[e].artifact
               PROVE  NamesItsSource(chunks[i], parsed[e])
    BY DEF ChunksNameTheirSources, parsed
  <2> QED
    BY <1>2, <1>4, <1>5, SourcesAreNamed
<1> QED
  BY <1>6, <1>9, <1>11, <1>12, <1>13

(* process_document() keeps the invariant.                                 *)
LEMMA ChunkingInvStep ==
  ASSUME ChunkingInv, [ProcessDocument]_chunkingVars
  PROVE  ChunkingInv'
PROOF
<1> DEFINE cleaned == CleanDocument(ParseDocument(document))
<1>1. IsDocument(document)
  BY DEF ChunkingInv
<1>2. CASE ProcessDocument
  <2>1. UNCHANGED document /\ Process(cleaned)
    BY <1>2 DEF ProcessDocument
  <2>2. IsDocument(document') /\ cleaned' = cleaned
    BY <1>1, <2>1
  <2>3. CASE ~ IsComplete(document, cleaned)
    <3>1. outcome' # "CHUNKS"
      BY <2>1, <2>3 DEF Process
    <3> QED
      BY <2>2, <3>1 DEF ChunkingInv
  <2>4. CASE IsComplete(document, cleaned)
    <3>1. chunks' = ChunkDocument(cleaned) /\ IsComplete(document', cleaned)
      BY <2>1, <2>4 DEF Process
    <3> QED
      BY <2>2, <3>1 DEF ChunkingInv
  <2> QED
    BY <2>3, <2>4
<1>3. CASE UNCHANGED chunkingVars
  BY <1>3 DEF ChunkingInv, chunkingVars
<1> QED
  BY <1>2, <1>3

(* Of every document, of any length, under every configuration, the chunks *)
(* fit the embedding model, hold every character of its bodies and tables  *)
(* in their order and nothing of a header or footer, and name the page,    *)
(* source, path and rows of what they hold; and a document of which a page *)
(* or a formula could not be read is not cut (process_document()).         *)
THEOREM ChunksCarryTheDocumentHolds == ChunkingSpec => []ChunksCarryTheDocument
PROOF
<1>1. ChunkingInit => ChunkingInv
  <2> SUFFICES ASSUME ChunkingInit PROVE ChunkingInv
    OBVIOUS
  <2>1. IsDocument(document) /\ outcome # "CHUNKS"
    BY DEF ChunkingInit
  <2> QED
    BY <2>1 DEF ChunkingInv
<1>2. ChunkingInv /\ [ProcessDocument]_chunkingVars => ChunkingInv'
  BY ChunkingInvStep
<1>3. ChunkingInv => ChunksCarryTheDocument
  BY ChunkingInvImplies
<1> QED
  BY <1>1, <1>2, <1>3, PTL DEF ChunkingSpec
=============================================================================
