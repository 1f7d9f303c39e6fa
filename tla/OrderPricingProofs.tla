------------------------- MODULE OrderPricingProofs -------------------------
(* Theorems of OrderPricing for every menu, loyalty catalogue and set of    *)
(* offers, and for carts, edits and payments of any size.                   *)
EXTENDS OrderPricing, FiniteSetTheorems, SequenceTheorems, WellFoundedInduction, TLAPS

-----------------------------------------------------------------------------
(* Induction: over numbers, sets and sequences.                             *)

\* A nonempty set of numbers has a least one.
LEMMA LeastNumber ==
    ASSUME NEW T \in SUBSET Nat, T # {}
    PROVE  \E n \in T : \A m \in T : n <= m
<1>1. IsWellFoundedOn({ss \in Nat \X Nat : ss[1] < ss[2]}, Nat)
  BY ONLY NatLessThanWellFounded DEF OpToRel
<1>2. PICK n \in T : \A m \in T : ~(<<m, n>> \in {ss \in Nat \X Nat : ss[1] < ss[2]})
  BY <1>1, WFMin
<1>3. \A m \in T : m \in Nat /\ n \in Nat /\ ~(m < n)
  BY <1>2
<1> QED
  BY <1>3

\* Numbers from 0 to n, one after the other.
LEMMA UpTo ==
    ASSUME NEW n \in Nat, NEW A, 0 \in A, \A k \in 1 .. n : k - 1 \in A => k \in A
    PROVE  \A k \in 0 .. n : k \in A
<1> DEFINE T == {k \in Nat : k <= n /\ k \notin A}
<1> SUFFICES ASSUME T # {} PROVE FALSE
  OBVIOUS
<1>1. PICK k \in T : \A m \in T : k <= m
  <2> T \in SUBSET Nat
    OBVIOUS
  <2> HIDE DEF T
  <2> QED
    BY LeastNumber
<1>2. k \in 1 .. n /\ k - 1 \in Nat /\ k - 1 <= n /\ ~(k <= k - 1)
  OBVIOUS
<1>3. k - 1 \notin T
  BY <1>1, <1>2
<1> QED
  BY <1>2, <1>3

\* A nonempty set of parts of a finite set has a minimal one.
LEMMA MinimalSet ==
    ASSUME NEW S, IsFiniteSet(S), NEW T \in SUBSET (SUBSET S), T # {}
    PROVE  \E s \in T : \A t \in T : t \subseteq s => t = s
<1>1. T \subseteq FiniteSubsetsOf(S)
  BY FS_Subset DEF FiniteSubsetsOf
<1>2. PICK s \in T : \A t \in T : ~(<<t, s>> \in StrictSubsetOrdering(S))
  BY <1>1, FS_StrictSubsetOrderingWellFounded, WFMin
<1> QED
  BY <1>2 DEF StrictSubsetOrdering

\* A set of sequences that has the empty one and what one more element makes of its
\* members has them all.
LEMMA SeqInduction ==
    ASSUME NEW S, NEW A, <<>> \in A,
           \A s \in Seq(S) : s \in A => \A x \in S : Append(s, x) \in A
    PROVE  \A s \in Seq(S) : s \in A
<1> SUFFICES ASSUME NEW s \in Seq(S) PROVE s \in A
  OBVIOUS
<1> DEFINE pre(k) == SubSeq(s, 1, k)
           B == {k \in 0 .. Len(s) : pre(k) \in A}
<1>1. Len(s) \in Nat /\ pre(0) = <<>> /\ pre(Len(s)) = s
  OBVIOUS
<1>2. \A k \in 1 .. Len(s) : /\ pre(k - 1) \in Seq(S) /\ s[k] \in S
                             /\ pre(k) = Append(pre(k - 1), s[k])
  OBVIOUS
<1> HIDE DEF pre
<1>3. ASSUME NEW k \in 1 .. Len(s), k - 1 \in B PROVE k \in B
  <2>1. pre(k) \in A
    BY <1>2, <1>3
  <2> QED
    BY <1>1, <2>1
<1>4. 0 \in B
  BY <1>1
<1>5. \A k \in 0 .. Len(s) : k \in B
  <2> HIDE DEF B
  <2> QED
    BY <1>1, <1>3, <1>4, UpTo
<1>6. Len(s) \in B
  <2> HIDE DEF B
  <2> QED
    BY <1>1, <1>5
<1> QED
  BY <1>1, <1>6

-----------------------------------------------------------------------------
(* Folds.  MapThenFoldSet takes one element of a set after the other, as c  *)
(* picks them, until none is left: with numbers for the elements of a       *)
(* function, with the last index for those of a sequence.                   *)
Picks(c, S) == \A s \in SUBSET S : s # {} => c[s] \in s

Step(g, F, b, w, c, s) == IF s = {} THEN b ELSE F[<<g[s \ {c[s]}], w[c[s]]>>]

Folds(g, F, b, w, c, S) == \A s \in SUBSET S : g[s] = Step(g, F, b, w, c, s)

Small(S, n) == {s \in SUBSET S : Cardinality(s) <= n}

Applies(F, b, X, Y) == F \in [X \X Y -> X] /\ b \in X
Valued(w, S, Y)     == w \in [S -> Y]

FoldsSmall(g, X, F, b, w, c, S, n) ==
    g \in [Small(S, n) -> X] /\ \A s \in Small(S, n) : g[s] = Step(g, F, b, w, c, s)

\* Removing an element.
LEMMA OneLess ==
    ASSUME NEW S, IsFiniteSet(S), NEW s \in SUBSET S, NEW x \in s
    PROVE  /\ s \ {x} \in SUBSET S
           /\ IsFiniteSet(s) /\ Cardinality(s) \in Nat
           /\ Cardinality(s \ {x}) = Cardinality(s) - 1
<1>1. IsFiniteSet(s)
  BY FS_Subset
<1> QED
  BY <1>1, FS_RemoveElement, FS_CardinalityType

\* There is a fold over the small parts of a set.
LEMMA SmallFolds ==
    ASSUME NEW X, NEW Y, NEW F \in [X \X Y -> X], NEW b \in X,
           NEW S, IsFiniteSet(S), NEW w \in [S -> Y], NEW c, Picks(c, S)
    PROVE  \A n \in Nat : \E g : FoldsSmall(g, X, F, b, w, c, S, n)
<1> DEFINE Works(g, n) == FoldsSmall(g, X, F, b, w, c, S, n)
           A == {n \in Nat : \E g : Works(g, n)}
<1>e. {} \in SUBSET S /\ Cardinality({}) = 0
  BY FS_EmptySet
<1>k. \A s \in SUBSET S : IsFiniteSet(s) /\ Cardinality(s) \in Nat /\ (Cardinality(s) = 0 <=> s = {})
  BY FS_Subset, FS_CardinalityType, FS_EmptySet
<1>1. 0 \in A
  <2> DEFINE g == [s \in Small(S, 0) |-> b]
  <2>1. Small(S, 0) = {{}}
    BY <1>e, <1>k DEF Small
  <2>2. Works(g, 0)
    BY <2>1 DEF Step, FoldsSmall
  <2> QED
    BY <2>2
<1>2. ASSUME NEW n \in Nat \ {0}, n - 1 \in A PROVE n \in A
  <2>1. PICK h : Works(h, n - 1)
    BY <1>2
  <2> DEFINE g == [s \in Small(S, n) |-> IF s \in Small(S, n - 1) THEN h[s] ELSE Step(h, F, b, w, c, s)]
  <2>2. \A s \in Small(S, n) \ {{}} : c[s] \in s /\ c[s] \in S /\ s \ {c[s]} \in Small(S, n - 1)
    <3> SUFFICES ASSUME NEW s \in Small(S, n) \ {{}}
                 PROVE  c[s] \in s /\ c[s] \in S /\ s \ {c[s]} \in Small(S, n - 1)
      OBVIOUS
    <3>1. s \in SUBSET S /\ c[s] \in s /\ c[s] \in S /\ Cardinality(s) <= n
      BY DEF Small, Picks
    <3>2. s \ {c[s]} \in SUBSET S /\ Cardinality(s \ {c[s]}) = Cardinality(s) - 1 /\ Cardinality(s) \in Nat
      BY <3>1, OneLess
    <3> QED
      BY <3>1, <3>2 DEF Small
  <2>3. {} \in Small(S, n - 1) /\ Small(S, n - 1) \subseteq Small(S, n)
    BY <1>e, <1>k DEF Small
  <2>4. \A s \in Small(S, n) : Step(h, F, b, w, c, s) \in X
    BY <2>1, <2>2 DEF Step, FoldsSmall
  <2>5. g \in [Small(S, n) -> X]
    <3> HIDE DEF Works
    <3>1. \A s \in Small(S, n - 1) : h[s] \in X
      BY <2>1 DEF Works, FoldsSmall
    <3> QED
      BY <2>4, <3>1
  <2>6. \A s \in Small(S, n) : g[s] = Step(h, F, b, w, c, s)
    BY <2>1, <2>3 DEF FoldsSmall
  <2>7. \A t \in Small(S, n - 1) : g[t] = h[t]
    BY <2>3
  <2>8. \A s \in Small(S, n) : Step(g, F, b, w, c, s) = Step(h, F, b, w, c, s)
    <3> HIDE DEF g
    <3> QED
      BY <2>2, <2>7 DEF Step
  <2>9. Works(g, n)
    <3> HIDE DEF g
    <3> QED
      BY <2>5, <2>6, <2>8 DEF FoldsSmall
  <2> HIDE DEF g, Works
  <2> QED
    BY <2>9
<1>3. ASSUME NEW n \in Nat PROVE n \in A
  <2> HIDE DEF A
  <2>1. \A k \in 1 .. n : k - 1 \in A => k \in A
    BY <1>2
  <2>2. \A k \in 0 .. n : k \in A
    BY <1>1, <2>1, UpTo
  <2> QED
    BY <2>2
<1> QED
  BY <1>3

\* So there is one over all its parts.
LEMMA FoldExists ==
    ASSUME NEW X, NEW Y, NEW F, NEW b, Applies(F, b, X, Y),
           NEW S, IsFiniteSet(S), NEW w, Valued(w, S, Y), NEW c, Picks(c, S)
    PROVE  \E g \in [SUBSET S -> X] : Folds(g, F, b, w, c, S)
<1>1. Cardinality(S) \in Nat /\ \A s \in SUBSET S : Cardinality(s) <= Cardinality(S)
  BY FS_Subset, FS_CardinalityType
<1>2. Small(S, Cardinality(S)) = SUBSET S
  BY <1>1 DEF Small
<1>3. PICK g : FoldsSmall(g, X, F, b, w, c, S, Cardinality(S))
  BY <1>1, SmallFolds DEF Applies, Valued
<1> QED
  BY <1>2, <1>3 DEF Folds, FoldsSmall

\* The last index of a sequence.
LastIn(n) == [s \in SUBSET (1 .. n) |-> Max(s)]

\* Taking the last index picks one of those that are left.
LEMMA LastPicks ==
    ASSUME NEW n \in Nat
    PROVE  /\ IsFiniteSet(1 .. n) /\ Picks(LastIn(n), 1 .. n)
           /\ \A k \in 1 .. n : /\ 1 .. k \in SUBSET (1 .. n) /\ Max(1 .. k) = k
                                /\ (1 .. k) \ {k} = 1 .. (k - 1)
<1>1. ASSUME NEW s \in SUBSET (1 .. n), s # {} PROVE Max(s) \in s
  <2> DEFINE T == {m \in Nat : \E x \in s : m = n - x}
  <2>0. \A x \in s : x \in 1 .. n /\ n - x \in Nat
    BY <1>1
  <2>1. T \in SUBSET Nat /\ T # {}
    BY <1>1, <2>0
  <2> HIDE DEF T
  <2>2. PICK m \in T : \A k \in T : m <= k
    BY <2>1, LeastNumber
  <2> USE DEF T
  <2>3. PICK x \in s : m = n - x
    OBVIOUS
  <2>4. \A y \in s : n - y \in T /\ y \in 1 .. n
    OBVIOUS
  <2>5. \A y \in s : x >= y
    BY <2>2, <2>3, <2>4
  <2> QED
    BY <2>5 DEF Max
<1>2. ASSUME NEW k \in 1 .. n PROVE Max(1 .. k) = k
  <2>1. k \in 1 .. k /\ \A y \in 1 .. k : k >= y
    OBVIOUS
  <2>2. \A x \in 1 .. k : (\A y \in 1 .. k : x >= y) => x = k
    OBVIOUS
  <2> QED
    BY <2>1, <2>2 DEF Max
<1>3. IsFiniteSet(1 .. n)
  BY FS_Interval
<1>4. Picks(LastIn(n), 1 .. n)
  BY <1>1 DEF Picks, LastIn
<1>5. \A k \in 1 .. n : 1 .. k \in SUBSET (1 .. n) /\ (1 .. k) \ {k} = 1 .. (k - 1)
  OBVIOUS
<1> QED
  BY <1>2, <1>3, <1>4, <1>5

\* The values of a fold over a sequence, prefix by prefix.
Runs(h, X, F, b, seq) ==
    /\ h \in [0 .. Len(seq) -> X] /\ h[0] = b
    /\ \A k \in 1 .. Len(seq) : h[k] = F[<<h[k - 1], seq[k]>>]

Extends(seq, x, Y) == seq \in Seq(Y) /\ x \in Y

\* One element more is one step more.
LEMMA RunsOn ==
    ASSUME NEW X, NEW Y, NEW F, NEW b, Applies(F, b, X, Y),
           NEW seq, NEW x, Extends(seq, x, Y),
           NEW h, Runs(h, X, F, b, seq), NEW g, Runs(g, X, F, b, Append(seq, x))
    PROVE  g[Len(seq) + 1] = F[<<h[Len(seq)], x>>]
<1> DEFINE n == Len(seq)
           A == {k \in 0 .. n : g[k] = h[k]}
<1>1. /\ n \in Nat /\ Len(Append(seq, x)) = n + 1 /\ Append(seq, x)[n + 1] = x
      /\ \A k \in 1 .. n : Append(seq, x)[k] = seq[k]
  BY DEF Extends
<1>2. g[0] = b /\ \A k \in 1 .. n + 1 : g[k] = F[<<g[k - 1], Append(seq, x)[k]>>]
  BY <1>1 DEF Runs
<1>3. h[0] = b /\ \A k \in 1 .. n : h[k] = F[<<h[k - 1], seq[k]>>]
  BY DEF Runs
<1> HIDE DEF n
<1>4. 0 \in A
  BY <1>1, <1>2, <1>3
<1>5. ASSUME NEW k \in 1 .. n, k - 1 \in A PROVE k \in A
  <2>1. k \in 0 .. n /\ k \in 1 .. n + 1 /\ g[k - 1] = h[k - 1] /\ Append(seq, x)[k] = seq[k]
    BY <1>1, <1>5
  <2>2. g[k] = h[k]
    BY <1>2, <1>3, <2>1
  <2> QED
    BY <2>1, <2>2
<1>6. n \in A
  <2> HIDE DEF A
  <2>1. \A k \in 0 .. n : k \in A
    BY <1>1, <1>4, <1>5, UpTo
  <2> QED
    BY <1>1, <2>1
<1>7. g[n + 1] = F[<<g[n], x>>]
  BY <1>1, <1>2
<1>8. g[n] = h[n]
  BY <1>6
<1> QED
  BY <1>7, <1>8 DEF n

\* FoldLeft with addition ...
Adding == [p \in Int \X Int |-> p[1] + p[2]]

\* The total of a sequence is a run over it.
LEMMA TotalRuns ==
    ASSUME NEW seq \in Seq(Int)
    PROVE  \E h : Runs(h, Int, Adding, 0, seq) /\ Total(seq) = h[Len(seq)]
<1> DEFINE n == Len(seq)
           Iter(g) == g = [s \in SUBSET (DOMAIN seq) |->
                             IF s = {} THEN 0 ELSE g[s \ {Max(s)}] + seq[Max(s)]]
           G == CHOOSE g : Iter(g)
<1>1. n \in Nat /\ DOMAIN seq = 1 .. n /\ seq \in [1 .. n -> Int]
  OBVIOUS
<1>2. Total(seq) = G[1 .. n]
  BY <1>1 DEF Total, FoldLeft, MapThenFoldSet
<1> HIDE DEF n
<1>3. IsFiniteSet(1 .. n) /\ Picks(LastIn(n), 1 .. n)
  BY <1>1, LastPicks
<1>4. Applies(Adding, 0, Int, Int) /\ Valued(seq, 1 .. n, Int)
  BY <1>1 DEF Adding, Applies, Valued
<1>5. PICK g \in [SUBSET (1 .. n) -> Int] : Folds(g, Adding, 0, seq, LastIn(n), 1 .. n)
  BY <1>3, <1>4, FoldExists
<1>6. Iter(g)
  <2>1. ASSUME NEW s \in SUBSET (1 .. n)
        PROVE  g[s] = IF s = {} THEN 0 ELSE g[s \ {Max(s)}] + seq[Max(s)]
    <3>1. CASE s = {}
      BY <1>5, <3>1 DEF Folds, Step
    <3>2. CASE s # {}
      <4>1. Max(s) \in s /\ LastIn(n)[s] = Max(s)
        BY <1>3, <3>2 DEF Picks, LastIn
      <4>2. g[s] = Adding[<<g[s \ {Max(s)}], seq[Max(s)]>>]
        BY <1>5, <3>2, <4>1 DEF Folds, Step
      <4>3. g[s \ {Max(s)}] \in Int /\ seq[Max(s)] \in Int
        BY <1>1, <4>1
      <4> QED
        BY <3>2, <4>2, <4>3 DEF Adding
    <3> QED
      BY <3>1, <3>2
  <2> QED
    BY <1>1, <2>1
<1>7. Iter(G)
  <2> HIDE DEF Iter
  <2> QED
    BY <1>6
<1>8. \A s \in SUBSET (1 .. n) : G[s] = IF s = {} THEN 0 ELSE G[s \ {Max(s)}] + seq[Max(s)]
  <2> HIDE DEF G
  <2> QED
    BY <1>1, <1>7
<1> HIDE DEF G, Iter
<1> DEFINE h == [k \in 0 .. n |-> G[1 .. k]]
<1>9. h[0] = 0 /\ \A k \in 1 .. n : h[k] = h[k - 1] + seq[k]
  <2>1. h[0] = 0
    <3>1. {} \in SUBSET (1 .. n) /\ 1 .. 0 = {} /\ h[0] = G[1 .. 0]
      BY <1>1
    <3> QED
      BY <1>8, <3>1
  <2>2. ASSUME NEW k \in 1 .. n PROVE h[k] = h[k - 1] + seq[k]
    <3>1. 1 .. k \in SUBSET (1 .. n) /\ Max(1 .. k) = k /\ (1 .. k) \ {k} = 1 .. (k - 1)
      BY <1>1, LastPicks
    <3>0. 1 .. k # {}
      OBVIOUS
    <3>2. G[1 .. k] = G[1 .. (k - 1)] + seq[k]
      BY <1>8, <3>0, <3>1
    <3>3. h[k] = G[1 .. k] /\ h[k - 1] = G[1 .. (k - 1)]
      BY <1>1
    <3> QED
      BY <3>2, <3>3
  <2> QED
    BY <2>1, <2>2
<1>10. h[n] = G[1 .. n] /\ DOMAIN h = 0 .. n /\ h = [k \in 0 .. n |-> h[k]]
  BY <1>1
<1> HIDE DEF h
<1>11. \A k \in 0 .. n : h[k] \in Int
  <2> DEFINE A == {k \in 0 .. n : h[k] \in Int}
  <2>1. 0 \in A
    BY <1>1, <1>9
  <2>2. \A k \in 1 .. n : k - 1 \in A => k \in A
    BY <1>1, <1>9
  <2>3. \A k \in 0 .. n : k \in A
    <3> HIDE DEF A
    <3> QED
      BY <1>1, <2>1, <2>2, UpTo
  <2> QED
    BY <2>3
<1>12. \A k \in 1 .. n : h[k] = Adding[<<h[k - 1], seq[k]>>]
  <2>1. \A k \in 1 .. n : k - 1 \in 0 .. n /\ seq[k] \in Int
    BY <1>1
  <2> QED
    BY <1>9, <1>11, <2>1 DEF Adding
<1>13. Runs(h, Int, Adding, 0, seq)
  BY <1>9, <1>10, <1>11, <1>12 DEF Runs, n
<1> QED
  BY <1>2, <1>10, <1>13 DEF n

\* The total of nothing ...
LEMMA TotalOfNone == Total(<<>>) = 0
<1>0. <<>> \in Seq(Int) /\ Len(<<>>) = 0
  OBVIOUS
<1>1. PICK h : Runs(h, Int, Adding, 0, <<>>) /\ Total(<<>>) = h[Len(<<>>)]
  BY <1>0, TotalRuns
<1> QED
  BY <1>0, <1>1 DEF Runs

\* ... and of one number more.
LEMMA TotalOfMore ==
    ASSUME NEW seq \in Seq(Int), NEW x \in Int
    PROVE  Total(seq) \in Int /\ Total(Append(seq, x)) = Total(seq) + x
<1>1. PICK h : Runs(h, Int, Adding, 0, seq) /\ Total(seq) = h[Len(seq)]
  BY TotalRuns
<1>2. Append(seq, x) \in Seq(Int) /\ Len(Append(seq, x)) = Len(seq) + 1 /\ Len(seq) \in Nat
  OBVIOUS
<1>3. PICK g : Runs(g, Int, Adding, 0, Append(seq, x)) /\ Total(Append(seq, x)) = g[Len(seq) + 1]
  BY <1>2, TotalRuns
<1>4. h[Len(seq)] \in Int
  BY <1>1, <1>2 DEF Runs
<1>5. Applies(Adding, 0, Int, Int) /\ Extends(seq, x, Int)
  BY DEF Adding, Applies, Extends
<1>6. g[Len(seq) + 1] = Adding[<<h[Len(seq)], x>>]
  BY <1>1, <1>3, <1>5, RunsOn
<1> QED
  BY <1>1, <1>3, <1>4, <1>6 DEF Adding

\* ... and over the values of a function: SumFunction takes them in some order.
Picked(s) == CHOOSE x \in s : TRUE

Sums(g, f, S) ==
    \A s \in SUBSET S : g[s] = IF s = {} THEN 0 ELSE f[Picked(s)] + g[s \ {Picked(s)}]

\* The element that the sum over a set takes first is in it.
LEMMA PickedIn ==
    ASSUME NEW S, NEW s \in SUBSET S, s # {}
    PROVE  Picked(s) \in s /\ Picked(s) \in S /\ s \ {Picked(s)} \in SUBSET S
  BY DEF Picked

\* SumFunction is the sum over a set, one element after the other.
LEMMA SumIs ==
    ASSUME NEW S, IsFiniteSet(S), NEW f \in [S -> Int]
    PROVE  \E g \in [SUBSET S -> Int] : Sums(g, f, S) /\ SumFunction(f) = g[S]
<1> DEFINE Iter(g) == g = [s \in SUBSET S |->
                             IF s = {} THEN 0
                             ELSE f[CHOOSE x \in s : TRUE] + g[s \ {CHOOSE x \in s : TRUE}]]
           G == CHOOSE g : Iter(g)
           pick == [s \in SUBSET S |-> Picked(s)]
<1>1. DOMAIN f = S
  OBVIOUS
<1>2. SumFunction(f) = G[S]
  BY <1>1 DEF SumFunction, SumFunctionOnSet, FoldFunctionOnSet, MapThenFoldSet
<1>3. Picks(pick, S)
  BY PickedIn DEF Picks
<1>4. Applies(Adding, 0, Int, Int) /\ Valued(f, S, Int)
  BY DEF Adding, Applies, Valued
<1>5. PICK g \in [SUBSET S -> Int] : Folds(g, Adding, 0, f, pick, S)
  <2> HIDE DEF pick
  <2> QED
    BY <1>3, <1>4, FoldExists
<1>6. Sums(g, f, S)
  <2> SUFFICES ASSUME NEW s \in SUBSET S
               PROVE  g[s] = IF s = {} THEN 0 ELSE f[Picked(s)] + g[s \ {Picked(s)}]
    BY DEF Sums
  <2>1. CASE s = {}
    BY <1>5, <2>1 DEF Folds, Step
  <2>2. CASE s # {}
    <3>1. Picked(s) \in S /\ s \ {Picked(s)} \in SUBSET S
      BY <2>2, PickedIn
    <3> DEFINE x == Picked(s)
    <3>2. pick[s] = x
      OBVIOUS
    <3> HIDE DEF pick, x
    <3>3. g[s] = Adding[<<g[s \ {x}], f[x]>>]
      BY <1>5, <2>2, <3>2 DEF Folds, Step
    <3>4. g[s \ {x}] \in Int /\ f[x] \in Int
      BY <3>1 DEF x
    <3>5. g[s] = f[x] + g[s \ {x}]
      BY <3>3, <3>4 DEF Adding
    <3> QED
      BY <2>2, <3>5 DEF x
  <2> QED
    BY <2>1, <2>2
<1>7. Iter(g)
  <2>1. \A s \in SUBSET S : g[s] = IF s = {} THEN 0
                                   ELSE f[CHOOSE x \in s : TRUE] + g[s \ {CHOOSE x \in s : TRUE}]
    BY <1>6 DEF Sums, Picked
  <2>2. g = [s \in SUBSET S |-> g[s]]
    OBVIOUS
  <2> QED
    BY <2>1, <2>2, Zenon
<1>8. Iter(G)
  <2> HIDE DEF Iter
  <2> QED
    BY <1>7
<1>9. G = [s \in SUBSET S |-> G[s]] /\ DOMAIN G = SUBSET S
  <2> HIDE DEF G
  <2> QED
    BY <1>8
<1>10. Sums(G, f, S)
  <2> HIDE DEF G
  <2> QED
    BY <1>8 DEF Sums, Picked
<1> HIDE DEF G, Iter
<1>11. \A s \in SUBSET S : G[s] \in Int
  <2> DEFINE Bad == {s \in SUBSET S : G[s] \notin Int}
  <2> SUFFICES ASSUME Bad # {} PROVE FALSE
    OBVIOUS
  <2>1. PICK s \in Bad : \A t \in Bad : t \subseteq s => t = s
    <3> Bad \in SUBSET (SUBSET S)
      OBVIOUS
    <3> HIDE DEF Bad
    <3> QED
      BY MinimalSet
  <2>2. s \in SUBSET S /\ G[s] \notin Int
    OBVIOUS
  <2>3. s # {}
    BY <1>10, <2>2 DEF Sums
  <2> DEFINE x == Picked(s)
  <2>4. x \in s /\ x \in S /\ s \ {x} \in SUBSET S /\ s \ {x} # s
    BY <2>2, <2>3, PickedIn
  <2>5. G[s] = f[x] + G[s \ {x}]
    BY <1>10, <2>2, <2>3 DEF Sums
  <2> HIDE DEF x
  <2>6. G[s \ {x}] \in Int
    BY <2>1, <2>4
  <2> QED
    BY <2>2, <2>4, <2>5, <2>6
<1>12. G \in [SUBSET S -> Int]
  BY <1>9, <1>11
<1> QED
  BY <1>2, <1>10, <1>12

\* The sum over a set ...
LEMMA SumType ==
    ASSUME NEW S, IsFiniteSet(S), NEW f \in [S -> Int] PROVE SumFunction(f) \in Int
<1>1. PICK g \in [SUBSET S -> Int] : Sums(g, f, S) /\ SumFunction(f) = g[S]
  BY SumIs
<1> QED
  BY <1>1

\* ... of one element ...
LEMMA SumOne ==
    ASSUME NEW x, NEW f \in [{x} -> Int] PROVE SumFunction(f) = f[x]
<1>1. IsFiniteSet({x})
  BY FS_Singleton
<1>2. PICK g \in [SUBSET {x} -> Int] : Sums(g, f, {x}) /\ SumFunction(f) = g[{x}]
  BY <1>1, SumIs
<1>3. Picked({x}) = x /\ {x} \ {x} = {}
  BY DEF Picked
<1>4. g[{x}] = f[x] + g[{}] /\ g[{}] = 0
  BY <1>2, <1>3 DEF Sums
<1>5. f[x] \in Int
  OBVIOUS
<1> QED
  BY <1>2, <1>4, <1>5

\* Sums that differ by the sums of others.
LEMMA SumOfFour ==
    ASSUME NEW S, IsFiniteSet(S), NEW e \in [S -> Int], NEW f \in [S -> Int],
           NEW h \in [S -> Int], NEW k \in [S -> Int],
           \A x \in S : e[x] + k[x] = f[x] + h[x]
    PROVE  SumFunction(e) + SumFunction(k) = SumFunction(f) + SumFunction(h)
<1>1. PICK ge \in [SUBSET S -> Int] : Sums(ge, e, S) /\ SumFunction(e) = ge[S]
  BY SumIs
<1>2. PICK gf \in [SUBSET S -> Int] : Sums(gf, f, S) /\ SumFunction(f) = gf[S]
  BY SumIs
<1>3. PICK gh \in [SUBSET S -> Int] : Sums(gh, h, S) /\ SumFunction(h) = gh[S]
  BY SumIs
<1>4. PICK gk \in [SUBSET S -> Int] : Sums(gk, k, S) /\ SumFunction(k) = gk[S]
  BY SumIs
<1> DEFINE Bad == {s \in SUBSET S : ge[s] + gk[s] # gf[s] + gh[s]}
<1>5. ASSUME Bad # {} PROVE FALSE
  <2>1. PICK s \in Bad : \A t \in Bad : t \subseteq s => t = s
    <3> Bad \in SUBSET (SUBSET S)
      OBVIOUS
    <3> HIDE DEF Bad
    <3> QED
      BY <1>5, MinimalSet
  <2>2. s \in SUBSET S /\ ge[s] + gk[s] # gf[s] + gh[s]
    OBVIOUS
  <2>3. s # {}
    BY <1>1, <1>2, <1>3, <1>4, <2>2 DEF Sums
  <2> DEFINE x == Picked(s)
             r == s \ {x}
  <2>4. x \in s /\ x \in S /\ r \in SUBSET S /\ r # s /\ r \subseteq s
    BY <2>2, <2>3, PickedIn
  <2>5. /\ ge[s] = e[x] + ge[r] /\ gf[s] = f[x] + gf[r]
        /\ gh[s] = h[x] + gh[r] /\ gk[s] = k[x] + gk[r]
    BY <1>1, <1>2, <1>3, <1>4, <2>2, <2>3 DEF Sums
  <2> HIDE DEF x, r
  <2>6. ge[r] + gk[r] = gf[r] + gh[r]
    BY <2>1, <2>4
  <2>7. /\ ge[r] \in Int /\ gf[r] \in Int /\ gh[r] \in Int /\ gk[r] \in Int
        /\ e[x] \in Int /\ f[x] \in Int /\ h[x] \in Int /\ k[x] \in Int
        /\ e[x] + k[x] = f[x] + h[x]
    BY <2>4
  <2> QED
    BY <2>2, <2>5, <2>6, <2>7
<1>6. S \notin Bad
  BY <1>5
<1> HIDE DEF Bad
<1>7. ge[S] + gk[S] = gf[S] + gh[S]
  BY <1>6 DEF Bad
<1> QED
  BY <1>1, <1>2, <1>3, <1>4, <1>7

\* Sums that differ at one point.
LEMMA SumAt ==
    ASSUME NEW S, IsFiniteSet(S), NEW f \in [S -> Int], NEW h \in [S -> Int],
           NEW q \in S, \A x \in S \ {q} : h[x] = f[x]
    PROVE  SumFunction(h) = SumFunction(f) + h[q] - f[q]
<1>2. PICK gf \in [SUBSET S -> Int] : Sums(gf, f, S) /\ SumFunction(f) = gf[S]
  BY SumIs
<1>3. PICK gh \in [SUBSET S -> Int] : Sums(gh, h, S) /\ SumFunction(h) = gh[S]
  BY SumIs
<1> DEFINE d == h[q] - f[q]
           Bad == {s \in SUBSET S : gh[s] # gf[s] + (IF q \in s THEN d ELSE 0)}
<1>4. d \in Int /\ h[q] = f[q] + d /\ h[q] \in Int /\ f[q] \in Int
  OBVIOUS
<1> HIDE DEF d
<1>5. ASSUME Bad # {} PROVE FALSE
  <2>1. PICK s \in Bad : \A t \in Bad : t \subseteq s => t = s
    <3> Bad \in SUBSET (SUBSET S)
      OBVIOUS
    <3> HIDE DEF Bad
    <3> QED
      BY <1>5, MinimalSet
  <2>2. s \in SUBSET S /\ gh[s] # gf[s] + (IF q \in s THEN d ELSE 0)
    OBVIOUS
  <2>3. s # {}
    <3>1. {} \in SUBSET S
      OBVIOUS
    <3>2. gh[{}] = 0 /\ gf[{}] = 0
      BY <1>2, <1>3, <3>1 DEF Sums
    <3> SUFFICES ASSUME s = {} PROVE FALSE
      OBVIOUS
    <3>3. (IF q \in s THEN d ELSE 0) = 0 /\ gh[s] = 0 /\ gf[s] = 0
      BY <3>2
    <3>4. gh[s] = gf[s] + (IF q \in s THEN d ELSE 0)
      BY <3>3
    <3> QED
      BY <2>2, <3>4
  <2> DEFINE x == Picked(s)
             r == s \ {x}
  <2>4. x \in s /\ x \in S /\ r \in SUBSET S /\ r # s /\ r \subseteq s
    BY <2>2, <2>3, PickedIn
  <2>5. gf[s] = f[x] + gf[r] /\ gh[s] = h[x] + gh[r] /\ r = s \ {x}
    BY <1>2, <1>3, <2>2, <2>3 DEF Sums
  <2> HIDE DEF x, r
  <2>6. gh[r] = gf[r] + (IF q \in r THEN d ELSE 0)
    BY <2>1, <2>4
  <2>7. gf[r] \in Int /\ gh[r] \in Int /\ f[x] \in Int /\ h[x] \in Int
    BY <2>4
  <2>8. CASE x = q
    <3>1. q \in s /\ q \notin r
      BY <2>4, <2>5, <2>8
    <3> QED
      BY <1>4, <2>2, <2>5, <2>6, <2>7, <2>8, <3>1
  <2>9. CASE x # q
    <3>1. (q \in s <=> q \in r) /\ h[x] = f[x]
      BY <2>4, <2>5, <2>9
    <3> QED
      BY <1>4, <2>2, <2>5, <2>6, <2>7, <3>1
  <2> QED
    BY <2>8, <2>9
<1>6. S \notin Bad
  BY <1>5
<1> HIDE DEF Bad
<1>7. gh[S] = gf[S] + d
  BY <1>6 DEF Bad
<1>8. gf[S] \in Int
  BY <1>2
<1> QED
  BY <1>2, <1>3, <1>4, <1>7, <1>8

\* ... and of zeros.
LEMMA SumOfNone ==
    ASSUME NEW S, IsFiniteSet(S), NEW f \in [S -> Int], \A x \in S : f[x] = 0
    PROVE  SumFunction(f) = 0
<1>3. PICK g \in [SUBSET S -> Int] : Sums(g, f, S) /\ SumFunction(f) = g[S]
  BY SumIs
<1> DEFINE Bad == {s \in SUBSET S : g[s] # 0}
<1>5. ASSUME Bad # {} PROVE FALSE
  <2>1. PICK s \in Bad : \A t \in Bad : t \subseteq s => t = s
    <3> Bad \in SUBSET (SUBSET S)
      OBVIOUS
    <3> HIDE DEF Bad
    <3> QED
      BY <1>5, MinimalSet
  <2>2. s \in SUBSET S /\ g[s] # 0
    OBVIOUS
  <2>3. s # {}
    BY <1>3, <2>2 DEF Sums
  <2> DEFINE x == Picked(s)
             r == s \ {x}
  <2>4. x \in s /\ x \in S /\ r \in SUBSET S /\ r # s /\ r \subseteq s
    BY <2>2, <2>3, PickedIn
  <2>5. g[s] = f[x] + g[r]
    BY <1>3, <2>2, <2>3 DEF Sums
  <2> HIDE DEF x, r
  <2>6. g[r] = 0 /\ f[x] = 0
    BY <2>1, <2>4
  <2> QED
    BY <2>2, <2>5, <2>6
<1>6. S \notin Bad
  BY <1>5
<1> HIDE DEF Bad
<1> QED
  BY <1>3, <1>6 DEF Bad

-----------------------------------------------------------------------------
(* Taking free units off the lines.                                         *)
LineRow == [product : Products, price : Nat, quantity : Nat]

Taken == [lines : Seq(LineRow), price : Nat, missing : BOOLEAN]

\* Lines that have a unit of a product.
With(lines, p) == {i \in 1 .. Len(lines) : lines[i].product = p /\ lines[i].quantity > 0}

\* The search finds the first line of a product with a unit left, if there is one.
LEMMA FirstWith ==
    ASSUME NEW lines \in Seq(LineRow), NEW p
    PROVE  LET i == SelectInSeq(lines, LAMBDA l : l.product = p /\ l.quantity > 0)
           IN  \/ i = 0 /\ With(lines, p) = {}
               \/ i \in With(lines, p) /\ \A j \in With(lines, p) : i <= j
<1> DEFINE I == With(lines, p)
           i == SelectInSeq(lines, LAMBDA l : l.product = p /\ l.quantity > 0)
<1>1. i = IF I # {} THEN Min(I) ELSE 0
  BY DEF SelectInSeq, With
<1>2. I \subseteq Nat
  BY DEF With
<1> HIDE DEF I
<1>3. I # {} => Min(I) \in I /\ \A j \in I : Min(I) <= j
  BY <1>2, LeastNumber DEF Min
<1> HIDE DEF i
<1>4. (i = 0 /\ I = {}) \/ (i \in I /\ \A j \in I : i <= j)
  BY <1>1, <1>3
<1> QED
  BY <1>4 DEF i, I

\* One unit taken from line i.
TakenFrom(taken, i) ==
    [taken EXCEPT !.lines[i].quantity = @ - 1, !.price = @ + taken.lines[i].price]

\* A free unit is taken off that line, or there is none to take.
LEMMA TakeOne ==
    ASSUME NEW taken \in Taken, NEW p
    PROVE  \/ /\ With(taken.lines, p) = {}
              /\ TakeUnit(taken, p) = [taken EXCEPT !.missing = TRUE]
           \/ \E i \in With(taken.lines, p) :
                /\ \A j \in With(taken.lines, p) : i <= j
                /\ TakeUnit(taken, p) = TakenFrom(taken, i)
<1> DEFINE i == SelectInSeq(taken.lines, LAMBDA l : l.product = p /\ l.quantity > 0)
<1>1. taken.lines \in Seq(LineRow)
  BY DEF Taken
<1>2. (i = 0 /\ With(taken.lines, p) = {}) \/ (i \in With(taken.lines, p) /\ \A j \in With(taken.lines, p) : i <= j)
  BY <1>1, FirstWith
<1>3. TakeUnit(taken, p) = IF i = 0 THEN [taken EXCEPT !.missing = TRUE] ELSE TakenFrom(taken, i)
  BY DEF TakeUnit, TakenFrom
<1>4. i \in With(taken.lines, p) => i # 0
  BY DEF With
<1> HIDE DEF i
<1> QED
  BY <1>2, <1>3, <1>4

\* A line less one unit.
Less(l) == [l EXCEPT !.quantity = @ - 1]

\* What is left then.
LEMMA TakenFromIs ==
    ASSUME NEW taken \in Taken, NEW p, NEW i \in With(taken.lines, p)
    PROVE  /\ TakenFrom(taken, i) \in Taken
           /\ TakenFrom(taken, i).lines = [taken.lines EXCEPT ![i] = Less(taken.lines[i])]
           /\ TakenFrom(taken, i).price = taken.price + taken.lines[i].price
           /\ TakenFrom(taken, i).missing = taken.missing
           /\ Less(taken.lines[i]) \in LineRow
<1> DEFINE l == taken.lines[i]
<1>1. /\ taken.lines \in Seq(LineRow) /\ i \in 1 .. Len(taken.lines)
      /\ l \in LineRow /\ l.quantity > 0 /\ taken.price \in Nat /\ taken.missing \in BOOLEAN
  BY DEF Taken, With
<1>2. Less(l) \in LineRow
  <2> DEFINE q == l.quantity - 1
  <2>1. q \in Nat
    BY <1>1 DEF LineRow
  <2>2. Less(l) = [l EXCEPT !.quantity = q]
    BY Zenon DEF Less
  <2> HIDE DEF q, l
  <2> QED
    BY <1>1, <2>1, <2>2 DEF LineRow
<1>3. TakenFrom(taken, i) = [taken EXCEPT !.lines = [taken.lines EXCEPT ![i] = Less(taken.lines[i])],
                                          !.price = taken.price + l.price]
  BY DEF TakenFrom, Less
<1>4. [taken.lines EXCEPT ![i] = Less(taken.lines[i])] \in Seq(LineRow)
  BY <1>1, <1>2
<1>5. taken.price + l.price \in Nat
  BY <1>1 DEF LineRow
<1> DEFINE ls == [taken.lines EXCEPT ![i] = Less(taken.lines[i])]
           pr == taken.price + l.price
<1>6. TakenFrom(taken, i) = [taken EXCEPT !.lines = ls, !.price = pr]
  BY <1>3
<1>7. ls \in Seq(LineRow) /\ pr \in Nat
  BY <1>4, <1>5
<1> HIDE DEF ls, pr
<1>8. /\ TakenFrom(taken, i) \in Taken
      /\ TakenFrom(taken, i).lines = ls /\ TakenFrom(taken, i).price = pr
      /\ TakenFrom(taken, i).missing = taken.missing
  BY <1>6, <1>7 DEF Taken
<1> QED
  BY <1>2, <1>8 DEF ls, pr

\* What is left is typed.
LEMMA TakeType == ASSUME NEW taken \in Taken, NEW p PROVE TakeUnit(taken, p) \in Taken
<1>1. [taken EXCEPT !.missing = TRUE] \in Taken
  BY DEF Taken
<1>2. \A i \in With(taken.lines, p) : TakenFrom(taken, i) \in Taken
  BY TakenFromIs
<1>3. \/ TakeUnit(taken, p) = [taken EXCEPT !.missing = TRUE]
      \/ \E i \in With(taken.lines, p) : TakeUnit(taken, p) = TakenFrom(taken, i)
  BY TakeOne
<1> QED
  BY <1>1, <1>2, <1>3

\* ... FoldLeft with TakeUnit.
Taking == [t \in Taken \X Products |-> TakeUnit(t[1], t[2])]

Untaken(lines) == [lines |-> lines, price |-> 0, missing |-> FALSE]

\* The loop over the free units folds TakeUnit.
LEMMA TakingApplies ==
    ASSUME NEW lines \in Seq(LineRow)
    PROVE  Applies(Taking, Untaken(lines), Taken, Products)
<1>1. Taking \in [Taken \X Products -> Taken]
  BY TakeType DEF Taking
<1>2. Untaken(lines) \in Taken
  BY DEF Untaken, Taken
<1> QED
  BY <1>1, <1>2 DEF Applies

\* What is left in the end is the end of a run over them.
LEMMA TakeRuns ==
    ASSUME NEW lines \in Seq(LineRow), NEW seq \in Seq(Products)
    PROVE  \E h : Runs(h, Taken, Taking, Untaken(lines), seq) /\ TakeUnits(lines, seq) = h[Len(seq)]
<1> DEFINE n == Len(seq)
           b == Untaken(lines)
           Iter(g) == g = [s \in SUBSET (DOMAIN seq) |->
                             IF s = {} THEN b ELSE TakeUnit(g[s \ {Max(s)}], seq[Max(s)])]
           G == CHOOSE g : Iter(g)
<1>1. n \in Nat /\ DOMAIN seq = 1 .. n /\ seq \in [1 .. n -> Products]
  OBVIOUS
<1>2. TakeUnits(lines, seq) = G[1 .. n]
  BY <1>1 DEF TakeUnits, FoldLeft, MapThenFoldSet, Untaken
<1> HIDE DEF n, b
<1>3. IsFiniteSet(1 .. n) /\ Picks(LastIn(n), 1 .. n)
  BY <1>1, LastPicks
<1>4. Applies(Taking, b, Taken, Products) /\ Valued(seq, 1 .. n, Products)
  BY <1>1, TakingApplies DEF Valued, b
<1>5. PICK g \in [SUBSET (1 .. n) -> Taken] : Folds(g, Taking, b, seq, LastIn(n), 1 .. n)
  BY <1>3, <1>4, FoldExists
<1>t. \A t \in Taken, p \in Products : Taking[<<t, p>>] = TakeUnit(t, p) /\ TakeUnit(t, p) \in Taken
  BY TakeType DEF Taking
<1>6. Iter(g)
  <2>1. ASSUME NEW s \in SUBSET (1 .. n)
        PROVE  g[s] = IF s = {} THEN b ELSE TakeUnit(g[s \ {Max(s)}], seq[Max(s)])
    <3>1. CASE s = {}
      BY <1>5, <3>1 DEF Folds, Step
    <3>2. CASE s # {}
      <4>1. Max(s) \in s /\ LastIn(n)[s] = Max(s)
        BY <1>3, <3>2 DEF Picks, LastIn
      <4>2. g[s] = Taking[<<g[s \ {Max(s)}], seq[Max(s)]>>]
        BY <1>5, <3>2, <4>1 DEF Folds, Step
      <4>3. g[s \ {Max(s)}] \in Taken /\ seq[Max(s)] \in Products
        BY <1>1, <4>1
      <4> QED
        BY <1>t, <3>2, <4>2, <4>3
    <3> QED
      BY <3>1, <3>2
  <2> QED
    BY <1>1, <2>1
<1>7. Iter(G)
  <2> HIDE DEF Iter
  <2> QED
    BY <1>6
<1>8. \A s \in SUBSET (1 .. n) : G[s] = IF s = {} THEN b ELSE TakeUnit(G[s \ {Max(s)}], seq[Max(s)])
  <2> HIDE DEF G
  <2> QED
    BY <1>1, <1>7
<1> HIDE DEF G, Iter
<1> DEFINE h == [k \in 0 .. n |-> G[1 .. k]]
<1>9. h[0] = b /\ \A k \in 1 .. n : h[k] = TakeUnit(h[k - 1], seq[k])
  <2>1. h[0] = b
    <3>1. {} \in SUBSET (1 .. n) /\ 1 .. 0 = {} /\ h[0] = G[1 .. 0]
      BY <1>1
    <3> QED
      BY <1>8, <3>1
  <2>2. ASSUME NEW k \in 1 .. n PROVE h[k] = TakeUnit(h[k - 1], seq[k])
    <3>1. 1 .. k \in SUBSET (1 .. n) /\ Max(1 .. k) = k /\ (1 .. k) \ {k} = 1 .. (k - 1)
      BY <1>1, LastPicks
    <3>2. 1 .. k # {}
      OBVIOUS
    <3>3. G[1 .. k] = TakeUnit(G[1 .. (k - 1)], seq[k])
      BY <1>8, <3>1, <3>2
    <3>4. h[k] = G[1 .. k] /\ h[k - 1] = G[1 .. (k - 1)]
      BY <1>1
    <3> QED
      BY <3>3, <3>4
  <2> QED
    BY <2>1, <2>2
<1>10. h[n] = G[1 .. n] /\ DOMAIN h = 0 .. n /\ h = [k \in 0 .. n |-> h[k]]
  BY <1>1
<1> HIDE DEF h
<1>11. \A k \in 0 .. n : h[k] \in Taken
  <2> DEFINE A == {k \in 0 .. n : h[k] \in Taken}
  <2>0. b \in Taken
    BY <1>4 DEF Applies
  <2>1. 0 \in A
    BY <1>1, <1>9, <2>0
  <2>2. \A k \in 1 .. n : k - 1 \in A => k \in A
    <3> SUFFICES ASSUME NEW k \in 1 .. n, h[k - 1] \in Taken PROVE h[k] \in Taken
      BY <1>1
    <3> QED
      BY <1>1, <1>9, <1>t
  <2>3. \A k \in 0 .. n : k \in A
    <3> HIDE DEF A
    <3> QED
      BY <1>1, <2>1, <2>2, UpTo
  <2> QED
    BY <2>3
<1>12. \A k \in 1 .. n : h[k] = Taking[<<h[k - 1], seq[k]>>]
  <2>1. \A k \in 1 .. n : k - 1 \in 0 .. n /\ seq[k] \in Products
    BY <1>1
  <2> QED
    BY <1>9, <1>11, <1>t, <2>1
<1>13. Runs(h, Taken, Taking, b, seq)
  BY <1>9, <1>10, <1>11, <1>12 DEF Runs, n
<1> QED
  BY <1>2, <1>10, <1>13 DEF n, b

\* Without free units the lines are as they were ...
LEMMA TakeNone ==
    ASSUME NEW lines \in Seq(LineRow)
    PROVE  TakeUnits(lines, <<>>) = Untaken(lines)
<1>0. <<>> \in Seq(Products) /\ Len(<<>>) = 0
  OBVIOUS
<1>1. PICK h : Runs(h, Taken, Taking, Untaken(lines), <<>>) /\ TakeUnits(lines, <<>>) = h[Len(<<>>)]
  BY <1>0, TakeRuns
<1> QED
  BY <1>0, <1>1 DEF Runs

\* ... and one more is taken off what the others leave.
LEMMA TakeMore ==
    ASSUME NEW lines \in Seq(LineRow), NEW seq \in Seq(Products), NEW p \in Products
    PROVE  /\ TakeUnits(lines, seq) \in Taken
           /\ TakeUnits(lines, Append(seq, p)) = TakeUnit(TakeUnits(lines, seq), p)
<1>1. PICK h : Runs(h, Taken, Taking, Untaken(lines), seq) /\ TakeUnits(lines, seq) = h[Len(seq)]
  BY TakeRuns
<1>2. Append(seq, p) \in Seq(Products) /\ Len(Append(seq, p)) = Len(seq) + 1 /\ Len(seq) \in Nat
  OBVIOUS
<1>3. PICK g : /\ Runs(g, Taken, Taking, Untaken(lines), Append(seq, p))
               /\ TakeUnits(lines, Append(seq, p)) = g[Len(seq) + 1]
  BY <1>2, TakeRuns
<1>4. h[Len(seq)] \in Taken
  BY <1>1, <1>2 DEF Runs
<1>5. Applies(Taking, Untaken(lines), Taken, Products) /\ Extends(seq, p, Products)
  BY TakingApplies DEF Extends
<1>6. g[Len(seq) + 1] = Taking[<<h[Len(seq)], p>>]
  BY <1>1, <1>3, <1>5, RunsOn
<1> QED
  BY <1>1, <1>3, <1>4, <1>6 DEF Taking

\* What is left in the end is typed.
LEMMA TakeUnitsType ==
    ASSUME NEW lines \in Seq(LineRow), NEW seq \in Seq(Products)
    PROVE  TakeUnits(lines, seq) \in Taken
<1>1. PICK h : Runs(h, Taken, Taking, Untaken(lines), seq) /\ TakeUnits(lines, seq) = h[Len(seq)]
  BY TakeRuns
<1>2. Len(seq) \in 0 .. Len(seq)
  OBVIOUS
<1> QED
  BY <1>1, <1>2 DEF Runs

-----------------------------------------------------------------------------
(* The units of a product in the lines: FoldLeft with concatenation.        *)
LEMMA UnitsType == ASSUME NEW l \in LineRow, NEW p PROVE Units(l, p) \in Seq(Nat)
<1>1. l.price \in Nat /\ l.quantity \in Nat
  BY DEF LineRow
<1> DEFINE n == IF l.product = p THEN l.quantity ELSE 0
<1>2. n \in Nat /\ Units(l, p) = [k \in 1 .. n |-> l.price]
  BY <1>1 DEF Units
<1> HIDE DEF n
<1>3. [k \in 1 .. n |-> l.price] \in Seq(Nat)
  BY <1>1, <1>2
<1> QED
  BY <1>2, <1>3

Joining(p) == [t \in Seq(Nat) \X LineRow |-> t[1] \o Units(t[2], p)]

\* The units of a product are joined line by line.
LEMMA JoiningApplies == ASSUME NEW p PROVE Applies(Joining(p), <<>>, Seq(Nat), LineRow)
<1>1. \A t \in Seq(Nat), l \in LineRow : t \o Units(l, p) \in Seq(Nat)
  BY UnitsType
<1> QED
  BY <1>1 DEF Joining, Applies

\* They are the end of a run over the lines.
LEMMA UnitsRun ==
    ASSUME NEW p, NEW seq \in Seq(LineRow)
    PROVE  \E h : Runs(h, Seq(Nat), Joining(p), <<>>, seq) /\ UnitsIn(seq, p) = h[Len(seq)]
<1> DEFINE n == Len(seq)
           b == <<>>
           Iter(g) == g = [s \in SUBSET (DOMAIN seq) |->
                             IF s = {} THEN b ELSE g[s \ {Max(s)}] \o Units(seq[Max(s)], p)]
           G == CHOOSE g : Iter(g)
<1>1. n \in Nat /\ DOMAIN seq = 1 .. n /\ seq \in [1 .. n -> LineRow]
  OBVIOUS
<1>2. UnitsIn(seq, p) = G[1 .. n]
  BY <1>1 DEF UnitsIn, FoldLeft, MapThenFoldSet
<1> HIDE DEF n, b
<1>3. IsFiniteSet(1 .. n) /\ Picks(LastIn(n), 1 .. n)
  BY <1>1, LastPicks
<1>4. Applies(Joining(p), b, Seq(Nat), LineRow) /\ Valued(seq, 1 .. n, LineRow)
  BY <1>1, JoiningApplies DEF Valued, b
<1>5. PICK g \in [SUBSET (1 .. n) -> Seq(Nat)] : Folds(g, Joining(p), b, seq, LastIn(n), 1 .. n)
  BY <1>3, <1>4, FoldExists
<1>t. ASSUME NEW t \in Seq(Nat), NEW l \in LineRow
      PROVE  Joining(p)[<<t, l>>] = t \o Units(l, p) /\ t \o Units(l, p) \in Seq(Nat)
  <2>1. Joining(p)[<<t, l>>] = t \o Units(l, p)
    BY DEF Joining
  <2>2. Units(l, p) \in Seq(Nat)
    BY UnitsType
  <2> QED
    BY <2>1, <2>2
<1>6. Iter(g)
  <2>1. ASSUME NEW s \in SUBSET (1 .. n)
        PROVE  g[s] = IF s = {} THEN b ELSE g[s \ {Max(s)}] \o Units(seq[Max(s)], p)
    <3>1. CASE s = {}
      BY <1>5, <3>1 DEF Folds, Step
    <3>2. CASE s # {}
      <4>1. Max(s) \in s /\ LastIn(n)[s] = Max(s)
        BY <1>3, <3>2 DEF Picks, LastIn
      <4>2. g[s] = Joining(p)[<<g[s \ {Max(s)}], seq[Max(s)]>>]
        BY <1>5, <3>2, <4>1 DEF Folds, Step
      <4>3. g[s \ {Max(s)}] \in Seq(Nat) /\ seq[Max(s)] \in LineRow
        BY <1>1, <4>1
      <4> QED
        BY <1>t, <3>2, <4>2, <4>3
    <3> QED
      BY <3>1, <3>2
  <2> QED
    BY <1>1, <2>1
<1>7. Iter(G)
  <2> HIDE DEF Iter
  <2> QED
    BY <1>6
<1>8. \A s \in SUBSET (1 .. n) : G[s] = IF s = {} THEN b ELSE G[s \ {Max(s)}] \o Units(seq[Max(s)], p)
  <2> HIDE DEF G
  <2> QED
    BY <1>1, <1>7
<1> HIDE DEF G, Iter
<1> DEFINE h == [k \in 0 .. n |-> G[1 .. k]]
<1>9. h[0] = b /\ \A k \in 1 .. n : h[k] = h[k - 1] \o Units(seq[k], p)
  <2>1. h[0] = b
    <3>1. {} \in SUBSET (1 .. n) /\ 1 .. 0 = {} /\ h[0] = G[1 .. 0]
      BY <1>1
    <3> QED
      BY <1>8, <3>1
  <2>2. ASSUME NEW k \in 1 .. n PROVE h[k] = h[k - 1] \o Units(seq[k], p)
    <3>1. 1 .. k \in SUBSET (1 .. n) /\ Max(1 .. k) = k /\ (1 .. k) \ {k} = 1 .. (k - 1)
      BY <1>1, LastPicks
    <3>2. 1 .. k # {}
      OBVIOUS
    <3>3. G[1 .. k] = G[1 .. (k - 1)] \o Units(seq[k], p)
      BY <1>8, <3>1, <3>2
    <3>4. h[k] = G[1 .. k] /\ h[k - 1] = G[1 .. (k - 1)]
      BY <1>1
    <3> QED
      BY <3>3, <3>4
  <2> QED
    BY <2>1, <2>2
<1>10. h[n] = G[1 .. n] /\ DOMAIN h = 0 .. n /\ h = [k \in 0 .. n |-> h[k]]
  BY <1>1
<1> HIDE DEF h
<1>11. \A k \in 0 .. n : h[k] \in Seq(Nat)
  <2> DEFINE A == {k \in 0 .. n : h[k] \in Seq(Nat)}
  <2>0. b \in Seq(Nat)
    BY <1>4 DEF Applies
  <2>1. 0 \in A
    BY <1>1, <1>9, <2>0
  <2>2. \A k \in 1 .. n : k - 1 \in A => k \in A
    <3> SUFFICES ASSUME NEW k \in 1 .. n, h[k - 1] \in Seq(Nat) PROVE h[k] \in Seq(Nat)
      BY <1>1
    <3> QED
      BY <1>1, <1>9, <1>t
  <2>3. \A k \in 0 .. n : k \in A
    <3> HIDE DEF A
    <3> QED
      BY <1>1, <2>1, <2>2, UpTo
  <2> QED
    BY <2>3
<1>12. \A k \in 1 .. n : h[k] = Joining(p)[<<h[k - 1], seq[k]>>]
  <2>1. \A k \in 1 .. n : k - 1 \in 0 .. n /\ seq[k] \in LineRow
    BY <1>1
  <2> QED
    BY <1>9, <1>11, <1>t, <2>1
<1>13. Runs(h, Seq(Nat), Joining(p), b, seq)
  BY <1>9, <1>10, <1>11, <1>12 DEF Runs, n
<1> QED
  BY <1>2, <1>10, <1>13 DEF n, b

\* The units of an empty cart ...
LEMMA UnitsOfNone == ASSUME NEW p PROVE UnitsIn(<<>>, p) = <<>>
<1>0. <<>> \in Seq(LineRow) /\ Len(<<>>) = 0
  OBVIOUS
<1>1. PICK h : Runs(h, Seq(Nat), Joining(p), <<>>, <<>>) /\ UnitsIn(<<>>, p) = h[Len(<<>>)]
  BY <1>0, UnitsRun
<1> QED
  BY <1>0, <1>1 DEF Runs

\* ... and of one line more.
LEMMA UnitsOfMore ==
    ASSUME NEW p, NEW lines \in Seq(LineRow), NEW l \in LineRow
    PROVE  /\ UnitsIn(lines, p) \in Seq(Nat)
           /\ UnitsIn(Append(lines, l), p) = UnitsIn(lines, p) \o Units(l, p)
<1>1. PICK h : Runs(h, Seq(Nat), Joining(p), <<>>, lines) /\ UnitsIn(lines, p) = h[Len(lines)]
  BY UnitsRun
<1>2. Append(lines, l) \in Seq(LineRow) /\ Len(Append(lines, l)) = Len(lines) + 1 /\ Len(lines) \in Nat
  OBVIOUS
<1>3. PICK g : /\ Runs(g, Seq(Nat), Joining(p), <<>>, Append(lines, l))
               /\ UnitsIn(Append(lines, l), p) = g[Len(lines) + 1]
  BY <1>2, UnitsRun
<1>4. h[Len(lines)] \in Seq(Nat)
  BY <1>1, <1>2 DEF Runs
<1>5. Applies(Joining(p), <<>>, Seq(Nat), LineRow) /\ Extends(lines, l, LineRow)
  BY JoiningApplies DEF Extends
<1>6. g[Len(lines) + 1] = Joining(p)[<<h[Len(lines)], l>>]
  BY <1>1, <1>3, <1>5, RunsOn
<1> QED
  BY <1>1, <1>3, <1>4, <1>6 DEF Joining

-----------------------------------------------------------------------------
(* What units are worth: w gives the worth of a unit of each price, its     *)
(* price itself, its points or just 1.  Of a sequence of prices ...         *)
LEMMA MadeByAppend ==
    ASSUME NEW S, NEW s \in Seq(S), NEW x \in S, NEW t \in Seq(S), Len(t) = Len(s) + 1,
           t[Len(s) + 1] = x, \A i \in 1 .. Len(s) : t[i] = s[i]
    PROVE  t = Append(s, x)
<1> DEFINE a == Append(s, x)
           n == Len(s)
<1>1. /\ a \in Seq(S) /\ Len(a) = n + 1 /\ a[n + 1] = x
      /\ \A i \in 1 .. n : a[i] = s[i]
  BY AppendProperties
<1>2. n \in Nat /\ Len(t) = n + 1 /\ t[n + 1] = x /\ \A i \in 1 .. n : t[i] = s[i]
  OBVIOUS
<1> HIDE DEF a, n
<1>3. \A i \in 1 .. n + 1 : i = n + 1 \/ i \in 1 .. n
  BY <1>2
<1>4. \A i \in 1 .. Len(t) : t[i] = a[i]
  BY <1>1, <1>2, <1>3
<1>5. t = a
  BY <1>1, <1>2, <1>4, SeqEqual
<1> QED
  BY <1>5 DEF a

\* Appending to the second of two sequences of products ...
LEMMA ConcatMore ==
    ASSUME NEW s \in Seq(Products), NEW t \in Seq(Products), NEW x \in Products
    PROVE  s \o Append(t, x) = Append(s \o t, x)
  OBVIOUS

\* ... or of prices appends to both.
LEMMA ConcatAppend ==
    ASSUME NEW s \in Seq(Nat), NEW t \in Seq(Nat), NEW x \in Nat
    PROVE  s \o Append(t, x) = Append(s \o t, x)
  OBVIOUS

Weigh(w, s) == [i \in 1 .. Len(s) |-> w[s[i]]]

Worth(w, s) == Total(Weigh(w, s))

\* The worth of the unit at i.
LEMMA WeighAt ==
    ASSUME NEW w \in [Nat -> Nat], NEW s \in Seq(Nat), NEW i \in 1 .. Len(s)
    PROVE  Weigh(w, s)[i] = w[s[i]]
  BY DEF Weigh

\* The worth of no units ...
LEMMA WorthOfNone == ASSUME NEW w PROVE Worth(w, <<>>) = 0
<1>1. Weigh(w, <<>>) = <<>>
  BY DEF Weigh
<1> QED
  BY <1>1, TotalOfNone DEF Worth

\* ... of one unit more ...
LEMMA WorthOfMore ==
    ASSUME NEW w \in [Nat -> Nat], NEW s \in Seq(Nat), NEW x \in Nat
    PROVE  Worth(w, s) \in Int /\ Worth(w, Append(s, x)) = Worth(w, s) + w[x]
<1>1. ASSUME NEW u \in Seq(Nat) PROVE Weigh(w, u) \in Seq(Int) /\ Len(Weigh(w, u)) = Len(u)
  <2>1. \A i \in 1 .. Len(u) : u[i] \in Nat
    BY ElementOfSeq
  <2>2. \A i \in 1 .. Len(u) : w[u[i]] \in Int
    BY <2>1
  <2>3. Len(u) \in Nat
    OBVIOUS
  <2> QED
    BY <2>2, <2>3 DEF Weigh
<1>2. w[x] \in Int /\ Len(s) \in Nat
  OBVIOUS
<1>3. Weigh(w, Append(s, x)) = Append(Weigh(w, s), w[x])
  <2> DEFINE t == Append(s, x)
  <2>1. /\ t \in Seq(Nat) /\ Len(t) = Len(s) + 1 /\ t[Len(s) + 1] = x
        /\ \A i \in 1 .. Len(s) : t[i] = s[i]
    BY AppendProperties
  <2> HIDE DEF t
  <2>2. /\ Weigh(w, s) \in Seq(Int) /\ Len(Weigh(w, s)) = Len(s)
        /\ Weigh(w, t) \in Seq(Int) /\ Len(Weigh(w, t)) = Len(s) + 1
    BY <1>1, <2>1
  <2>3. Weigh(w, t)[Len(s) + 1] = w[x]
    <3>1. Len(s) + 1 \in 1 .. Len(t)
      BY <1>2, <2>1
    <3> QED
      BY <2>1, <3>1, WeighAt
  <2>4. ASSUME NEW i \in 1 .. Len(s) PROVE Weigh(w, t)[i] = Weigh(w, s)[i]
    <3>1. i \in 1 .. Len(t) /\ t[i] = s[i]
      BY <1>2, <2>1
    <3>2. Weigh(w, t)[i] = w[t[i]] /\ Weigh(w, s)[i] = w[s[i]]
      BY <2>1, <3>1, WeighAt
    <3> QED
      BY <3>1, <3>2
  <2> DEFINE y == w[x]
             a == Weigh(w, s)
             b == Weigh(w, t)
  <2>6. /\ y \in Int /\ a \in Seq(Int) /\ b \in Seq(Int) /\ Len(b) = Len(a) + 1
        /\ b[Len(a) + 1] = y /\ \A i \in 1 .. Len(a) : b[i] = a[i]
    BY <1>2, <2>2, <2>3, <2>4
  <2> HIDE DEF y, a, b
  <2>7. b = Append(a, y)
    BY <2>6, MadeByAppend
  <2>5. Weigh(w, t) = Append(Weigh(w, s), w[x])
    BY <2>7 DEF a, b, y
  <2> QED
    BY <2>5 DEF t
<1>4. Total(Weigh(w, s)) \in Int /\ Total(Append(Weigh(w, s), w[x])) = Total(Weigh(w, s)) + w[x]
  BY <1>1, <1>2, TotalOfMore
<1> QED
  BY <1>3, <1>4 DEF Worth

\* ... of any ...
LEMMA WorthType ==
    ASSUME NEW w \in [Nat -> Nat], NEW s \in Seq(Nat) PROVE Worth(w, s) \in Int
  BY WorthOfMore, 0 \in Nat

\* ... of n units at one price ...
LEMMA WorthOfSame ==
    ASSUME NEW w \in [Nat -> Nat], NEW x \in Nat, NEW n \in Nat
    PROVE  Worth(w, [k \in 1 .. n |-> x]) = w[x] * n
<1> DEFINE same(m) == [k \in 1 .. m |-> x]
           A == {m \in 0 .. n : Worth(w, same(m)) = w[x] * m}
<1>0. w[x] \in Nat
  OBVIOUS
<1>1. 0 \in A
  <2>1. same(0) = <<>> /\ w[x] * 0 = 0
    BY <1>0
  <2> HIDE DEF same
  <2> QED
    BY <2>1, WorthOfNone
<1>2. ASSUME NEW m \in 1 .. n, m - 1 \in A PROVE m \in A
  <2>1. same(m - 1) \in Seq(Nat) /\ same(m) = Append(same(m - 1), x)
    OBVIOUS
  <2>2. Worth(w, same(m - 1)) = w[x] * (m - 1)
    BY <1>2
  <2> HIDE DEF same
  <2>3. Worth(w, same(m)) = Worth(w, same(m - 1)) + w[x]
    BY <2>1, WorthOfMore
  <2>4. w[x] * (m - 1) + w[x] = w[x] * m
    BY <1>0
  <2>5. m \in 0 .. n
    OBVIOUS
  <2> QED
    BY <2>2, <2>3, <2>4, <2>5
<1>3. n \in A
  <2> HIDE DEF A
  <2>1. \A m \in 0 .. n : m \in A
    BY <1>1, <1>2, UpTo
  <2> QED
    BY <2>1
<1> QED
  BY <1>3

\* ... and of two sequences.
LEMMA WorthOfBoth ==
    ASSUME NEW w \in [Nat -> Nat], NEW s \in Seq(Nat), NEW t \in Seq(Nat)
    PROVE  Worth(w, s \o t) = Worth(w, s) + Worth(w, t)
<1> DEFINE A == {u \in Seq(Nat) : Worth(w, s \o u) = Worth(w, s) + Worth(w, u)}
<1>0. Worth(w, s) \in Int
  BY WorthType
<1>1. <<>> \in A
  <2>1. s \o <<>> = s /\ <<>> \in Seq(Nat)
    OBVIOUS
  <2> QED
    BY <1>0, <2>1, WorthOfNone
<1>2. ASSUME NEW u \in Seq(Nat), u \in A, NEW x \in Nat PROVE Append(u, x) \in A
  <2>1. s \o Append(u, x) = Append(s \o u, x) /\ s \o u \in Seq(Nat) /\ Append(u, x) \in Seq(Nat)
    <3>1. s \o Append(u, x) = Append(s \o u, x)
      BY ConcatAppend
    <3>2. s \o u \in Seq(Nat) /\ Append(u, x) \in Seq(Nat)
      OBVIOUS
    <3> QED
      BY <3>1, <3>2
  <2>2. Worth(w, Append(s \o u, x)) = Worth(w, s \o u) + w[x]
    BY <2>1, WorthOfMore
  <2>3. Worth(w, Append(u, x)) = Worth(w, u) + w[x] /\ Worth(w, u) \in Int
    BY WorthOfMore
  <2>5. w[x] \in Int
    OBVIOUS
  <2>4. Worth(w, s \o u) = Worth(w, s) + Worth(w, u)
    BY <1>2
  <2>6. Worth(w, s \o Append(u, x)) = Worth(w, s) + Worth(w, Append(u, x))
    BY <1>0, <2>1, <2>2, <2>3, <2>4, <2>5
  <2> QED
    BY <2>1, <2>6
<1>3. \A u \in Seq(Nat) : u \in A
  <2> HIDE DEF A
  <2> QED
    BY <1>1, <1>2, SeqInduction
<1> QED
  BY <1>3

\* ... and of lines.
Priced(w, lines) == [i \in 1 .. Len(lines) |-> w[lines[i].price] * lines[i].quantity]

LinesWorth(w, lines) == Total(Priced(w, lines))

\* The worth of line i.
LEMMA PricedAt ==
    ASSUME NEW w, NEW lines, NEW i \in 1 .. Len(lines)
    PROVE  Priced(w, lines)[i] = w[lines[i].price] * lines[i].quantity
  BY DEF Priced

\* The worth of a line is a number ...
LEMMA LineWorthType ==
    ASSUME NEW w \in [Nat -> Nat], NEW l \in LineRow
    PROVE  w[l.price] \in Nat /\ l.quantity \in Nat /\ w[l.price] * l.quantity \in Int
<1>1. l.price \in Nat /\ l.quantity \in Nat
  BY DEF LineRow
<1>2. w[l.price] \in Nat
  BY <1>1
<1>3. \A x, y \in Nat : x * y \in Int
  OBVIOUS
<1> QED
  BY <1>1, <1>2, <1>3

\* ... and so is that of each.
LEMMA PricedType ==
    ASSUME NEW w \in [Nat -> Nat], NEW lines \in Seq(LineRow)
    PROVE  Priced(w, lines) \in Seq(Int) /\ Len(Priced(w, lines)) = Len(lines)
<1>1. \A i \in 1 .. Len(lines) : lines[i] \in LineRow
  OBVIOUS
<1>2. \A i \in 1 .. Len(lines) : w[lines[i].price] * lines[i].quantity \in Int
  BY <1>1, LineWorthType
<1>3. Len(lines) \in Nat
  OBVIOUS
<1> QED
  BY <1>2, <1>3 DEF Priced

\* The worth of an empty cart ...
LEMMA LinesWorthOfNone == ASSUME NEW w PROVE LinesWorth(w, <<>>) = 0
<1>1. Priced(w, <<>>) = <<>>
  BY DEF Priced
<1> QED
  BY <1>1, TotalOfNone DEF LinesWorth

\* ... of one line more ...
LEMMA LinesWorthOfMore ==
    ASSUME NEW w \in [Nat -> Nat], NEW lines \in Seq(LineRow), NEW l \in LineRow
    PROVE  /\ LinesWorth(w, lines) \in Int
           /\ LinesWorth(w, Append(lines, l)) = LinesWorth(w, lines) + w[l.price] * l.quantity
<1> DEFINE x == w[l.price] * l.quantity
           a == Priced(w, Append(lines, l))
           b == Append(Priced(w, lines), x)
<1>0. Len(lines) \in Nat
  OBVIOUS
<1>1. Priced(w, lines) \in Seq(Int) /\ Len(Priced(w, lines)) = Len(lines) /\ Len(lines) \in Nat
  <2> HIDE DEF x, a, b
  <2> QED
    BY Zenon, <1>0, PricedType
<1>2. x \in Int
  BY LineWorthType
<1>3. a = b
  <2> DEFINE t == Append(lines, l)
  <2>1. /\ t \in Seq(LineRow) /\ Len(t) = Len(lines) + 1 /\ t[Len(lines) + 1] = l
        /\ \A i \in 1 .. Len(lines) : t[i] = lines[i]
    BY AppendProperties
  <2> HIDE DEF t
  <2>2. Priced(w, t) \in Seq(Int) /\ Len(Priced(w, t)) = Len(lines) + 1
    BY <2>1, PricedType
  <2>3. Priced(w, t)[Len(lines) + 1] = x
    BY <1>1, <2>1 DEF Priced
  <2>5. ASSUME NEW i \in 1 .. Len(lines) PROVE Priced(w, t)[i] = Priced(w, lines)[i]
    <3>1. i \in 1 .. Len(t) /\ t[i] = lines[i]
      BY <1>1, <2>1
    <3>2. /\ Priced(w, t)[i] = w[t[i].price] * t[i].quantity
          /\ Priced(w, lines)[i] = w[lines[i].price] * lines[i].quantity
      BY <3>1, PricedAt
    <3> QED
      BY <3>1, <3>2
  <2> HIDE DEF x
  <2>6. Priced(w, t) = Append(Priced(w, lines), x)
    BY <1>1, <1>2, <2>2, <2>3, <2>5, MadeByAppend
  <2> QED
    BY <2>6 DEF t
<1> HIDE DEF x
<1>4. Total(Priced(w, lines)) \in Int /\ Total(b) = Total(Priced(w, lines)) + x
  BY <1>1, <1>2, TotalOfMore
<1> QED
  BY <1>3, <1>4 DEF LinesWorth, x

\* ... and of any.
LEMMA LinesWorthType ==
    ASSUME NEW w \in [Nat -> Nat], NEW lines \in Seq(LineRow) PROVE LinesWorth(w, lines) \in Int
<1>1. Priced(w, lines) \in Seq(Int)
  BY PricedType
<1> QED
  BY <1>1, TotalOfMore, 0 \in Int DEF LinesWorth

\* The units of a product are worth what its lines are.
WorthPer(w, lines) == [p \in Products |-> Worth(w, UnitsIn(lines, p))]

\* The worth of each product's units is a number.
LEMMA WorthPerType ==
    ASSUME NEW w \in [Nat -> Nat], NEW lines \in Seq(LineRow)
    PROVE  /\ \A p \in Products : UnitsIn(lines, p) \in Seq(Nat)
           /\ WorthPer(w, lines) \in [Products -> Int]
<1>1. UnitsIn(<<>>, None) = <<>>
  BY UnitsOfNone
<1>2. ASSUME NEW p \in Products PROVE UnitsIn(lines, p) \in Seq(Nat)
  <2>1. [product |-> p, price |-> 0, quantity |-> 0] \in LineRow
    BY DEF LineRow
  <2> QED
    BY <2>1, UnitsOfMore
<1> QED
  BY <1>2, WorthType DEF WorthPer

\* The sum over the lines is the sum over the products.
LEMMA LinesWorthSum ==
    ASSUME NEW w \in [Nat -> Nat], NEW lines \in Seq(LineRow)
    PROVE  LinesWorth(w, lines) = SumFunction(WorthPer(w, lines))
<1> DEFINE A == {s \in Seq(LineRow) : LinesWorth(w, s) = SumFunction(WorthPer(w, s))}
<1>0. IsFiniteSet(Products)
  BY PricingAssumption
<1>1. <<>> \in A
  <2>1. <<>> \in Seq(LineRow)
    OBVIOUS
  <2>2. \A p \in Products : WorthPer(w, <<>>)[p] = 0
    BY UnitsOfNone, WorthOfNone DEF WorthPer
  <2>3. SumFunction(WorthPer(w, <<>>)) = 0
    BY <1>0, <2>1, <2>2, WorthPerType, SumOfNone
  <2> QED
    BY <2>1, <2>3, LinesWorthOfNone
<1>2. ASSUME NEW s \in Seq(LineRow), s \in A, NEW l \in LineRow PROVE Append(s, l) \in A
  <2> DEFINE t == Append(s, l)
             q == l.product
             x == w[l.price] * l.quantity
  <2>1. t \in Seq(LineRow) /\ q \in Products /\ l.price \in Nat /\ l.quantity \in Nat
    BY DEF LineRow
  <2>2. WorthPer(w, s) \in [Products -> Int] /\ WorthPer(w, t) \in [Products -> Int]
    BY <2>1, WorthPerType
  <2>3. ASSUME NEW p \in Products
        PROVE  WorthPer(w, t)[p] = WorthPer(w, s)[p] + Worth(w, Units(l, p))
    <3>1. UnitsIn(s, p) \in Seq(Nat) /\ UnitsIn(t, p) = UnitsIn(s, p) \o Units(l, p)
      BY UnitsOfMore
    <3>2. Units(l, p) \in Seq(Nat)
      BY UnitsType
    <3>3. Worth(w, UnitsIn(s, p) \o Units(l, p)) = Worth(w, UnitsIn(s, p)) + Worth(w, Units(l, p))
      BY <3>1, <3>2, WorthOfBoth
    <3> QED
      BY <3>1, <3>3 DEF WorthPer
  <2>4. \A p \in Products \ {q} : WorthPer(w, t)[p] = WorthPer(w, s)[p]
    <3> SUFFICES ASSUME NEW p \in Products \ {q} PROVE WorthPer(w, t)[p] = WorthPer(w, s)[p]
      OBVIOUS
    <3>1. Units(l, p) = <<>>
      <4>1. Units(l, p) = [k \in 1 .. 0 |-> l.price]
        BY DEF Units
      <4> QED
        BY <4>1
    <3>2. WorthPer(w, t)[p] = WorthPer(w, s)[p] + 0
      BY <2>3, <3>1, WorthOfNone
    <3> QED
      BY <2>2, <3>2
  <2>5. WorthPer(w, t)[q] = WorthPer(w, s)[q] + x
    <3>1. Units(l, q) = [k \in 1 .. l.quantity |-> l.price]
      BY DEF Units
    <3>2. Worth(w, [k \in 1 .. l.quantity |-> l.price]) = w[l.price] * l.quantity
      BY <2>1, WorthOfSame
    <3>3. Worth(w, Units(l, q)) = x
      BY <3>1, <3>2
    <3> QED
      BY <2>1, <2>3, <3>3
  <2>6. LinesWorth(w, t) = LinesWorth(w, s) + x /\ LinesWorth(w, s) = SumFunction(WorthPer(w, s))
    BY <1>2, LinesWorthOfMore
  <2>7. x \in Int
    BY LineWorthType
  <2> DEFINE f == WorthPer(w, s)
             h == WorthPer(w, t)
  <2> HIDE DEF x, q, f, h
  <2>8. SumFunction(h) = SumFunction(f) + h[q] - f[q]
    BY <1>0, <2>1, <2>2, <2>4, SumAt DEF f, h
  <2>9. SumFunction(f) \in Int /\ f[q] \in Int
    BY <1>0, <2>1, <2>2, SumType DEF f
  <2>10. h[q] = f[q] + x
    BY <2>5 DEF f, h
  <2>11. SumFunction(h) = SumFunction(f) + x
    <3> DEFINE a == SumFunction(f)
               c == f[q]
    <3>1. SumFunction(h) = a + (c + x) - c
      BY <2>8, <2>10
    <3>2. a \in Int /\ c \in Int
      BY <2>9
    <3> HIDE DEF a, c
    <3>3. a + (c + x) - c = a + x
      BY <2>7, <3>2
    <3> QED
      BY <3>1, <3>3 DEF a
  <2> QED
    BY <2>1, <2>6, <2>11 DEF f, h
<1>3. \A s \in Seq(LineRow) : s \in A
  <2> HIDE DEF A
  <2> QED
    BY <1>1, <1>2, SeqInduction
<1> QED
  BY <1>3

-----------------------------------------------------------------------------
(* Taking a unit takes the first of its product's units.                    *)
LessAt(lines, i) == [lines EXCEPT ![i] = Less(lines[i])]

IsFirst(lines, q, i) == i \in With(lines, q) /\ \A j \in With(lines, q) : i <= j

\* A line with one unit less.
LEMMA LessType ==
    ASSUME NEW l \in LineRow, l.quantity > 0
    PROVE  /\ Less(l) \in LineRow /\ Less(l).product = l.product /\ Less(l).price = l.price
           /\ Less(l).quantity = l.quantity - 1
<1> DEFINE n == l.quantity - 1
<1>1. n \in Nat
  BY DEF LineRow
<1>2. Less(l) = [l EXCEPT !.quantity = n]
  BY Zenon DEF Less
<1> HIDE DEF n
<1>3. /\ Less(l) \in LineRow /\ Less(l).product = l.product /\ Less(l).price = l.price
      /\ Less(l).quantity = n
  BY <1>1, <1>2 DEF LineRow
<1> QED
  BY <1>3 DEF n

\* Lines with one unit less in line i.
LEMMA LessAtType ==
    ASSUME NEW lines \in Seq(LineRow), NEW i \in 1 .. Len(lines), lines[i].quantity > 0
    PROVE  /\ LessAt(lines, i) \in Seq(LineRow) /\ Len(LessAt(lines, i)) = Len(lines)
           /\ \A j \in 1 .. Len(lines) :
                 LessAt(lines, i)[j] = IF j = i THEN Less(lines[i]) ELSE lines[j]
<1>1. lines[i] \in LineRow
  BY ElementOfSeq
<1>2. Less(lines[i]) \in LineRow
  BY <1>1, LessType
<1> QED
  BY <1>2, ExceptSeq DEF LessAt

\* Of a line that is added last.
LEMMA AppendLess ==
    ASSUME NEW lines \in Seq(LineRow), NEW l \in LineRow
    PROVE  /\ \A i \in 1 .. Len(lines) :
                 lines[i].quantity > 0 =>
                    LessAt(Append(lines, l), i) = Append(LessAt(lines, i), l)
           /\ l.quantity > 0 =>
                 LessAt(Append(lines, l), Len(lines) + 1) = Append(lines, Less(l))
<1> DEFINE t == Append(lines, l)
           n == Len(lines)
<1>1. /\ t \in Seq(LineRow) /\ Len(t) = n + 1 /\ t[n + 1] = l
      /\ \A i \in 1 .. n : t[i] = lines[i]
  BY AppendProperties
<1>2. n \in Nat
  OBVIOUS
<1> HIDE DEF t
<1>3. ASSUME NEW i \in 1 .. n, lines[i].quantity > 0
      PROVE  LessAt(t, i) = Append(LessAt(lines, i), l)
  <2>1. i \in 1 .. Len(t) /\ t[i] = lines[i]
    BY <1>1, <1>2
  <2>2. /\ LessAt(t, i) \in Seq(LineRow) /\ Len(LessAt(t, i)) = n + 1
        /\ \A j \in 1 .. n + 1 : LessAt(t, i)[j] = IF j = i THEN Less(t[i]) ELSE t[j]
    BY <1>1, <1>3, <2>1, LessAtType
  <2>3. /\ LessAt(lines, i) \in Seq(LineRow) /\ Len(LessAt(lines, i)) = n
        /\ \A j \in 1 .. n : LessAt(lines, i)[j] = IF j = i THEN Less(lines[i]) ELSE lines[j]
    BY <1>3, LessAtType
  <2> HIDE DEF n
  <2>4. LessAt(t, i)[n + 1] = l
    BY <1>1, <1>2, <2>2
  <2>5. \A j \in 1 .. n : LessAt(t, i)[j] = LessAt(lines, i)[j]
    BY <1>1, <1>2, <2>1, <2>2, <2>3
  <2> QED
    BY <1>2, <2>2, <2>3, <2>4, <2>5, MadeByAppend
<1>4. ASSUME l.quantity > 0 PROVE LessAt(t, n + 1) = Append(lines, Less(l))
  <2>1. n + 1 \in 1 .. Len(t) /\ t[n + 1] = l
    BY <1>1, <1>2
  <2>2. /\ LessAt(t, n + 1) \in Seq(LineRow) /\ Len(LessAt(t, n + 1)) = n + 1
        /\ \A j \in 1 .. n + 1 : LessAt(t, n + 1)[j] = IF j = n + 1 THEN Less(l) ELSE t[j]
    BY <1>1, <1>4, <2>1, LessAtType
  <2>3. Less(l) \in LineRow
    BY <1>4, LessType
  <2>4. LessAt(t, n + 1)[n + 1] = Less(l)
    BY <1>2, <2>2
  <2>5. \A j \in 1 .. n : LessAt(t, n + 1)[j] = lines[j]
    BY <1>1, <1>2, <2>2
  <2> QED
    BY <2>2, <2>3, <2>4, <2>5, MadeByAppend
<1> QED
  BY <1>3, <1>4 DEF t

\* The lines with a unit of q, with one line more.
LEMMA AppendWith ==
    ASSUME NEW lines \in Seq(LineRow), NEW l \in LineRow, NEW q
    PROVE  With(Append(lines, l), q) =
             With(lines, q) \cup (IF l.product = q /\ l.quantity > 0 THEN {Len(lines) + 1} ELSE {})
<1> DEFINE t == Append(lines, l)
           n == Len(lines)
<1>1. /\ t \in Seq(LineRow) /\ Len(t) = n + 1 /\ t[n + 1] = l
      /\ \A i \in 1 .. n : t[i] = lines[i]
  BY AppendProperties
<1>2. n \in Nat
  OBVIOUS
<1> HIDE DEF t
<1>3. 1 .. Len(t) = (1 .. n) \cup {n + 1}
  BY <1>1, <1>2
<1>4. n + 1 \notin 1 .. n
  BY <1>2
<1>5. With(t, q) = With(lines, q) \cup (IF l.product = q /\ l.quantity > 0 THEN {n + 1} ELSE {})
  <2>1. \A i \in 1 .. n : i \in With(t, q) <=> i \in With(lines, q)
    BY <1>1, <1>3 DEF With
  <2>2. n + 1 \in With(t, q) <=> l.product = q /\ l.quantity > 0
    BY <1>1, <1>3 DEF With
  <2>3. With(t, q) \subseteq (1 .. n) \cup {n + 1} /\ With(lines, q) \subseteq 1 .. n
    BY <1>3 DEF With
  <2> QED
    BY <1>4, <2>1, <2>2, <2>3
<1> QED
  BY <1>5 DEF t

\* Without such lines there is no unit of q.
LEMMA NoUnits ==
    ASSUME NEW lines \in Seq(LineRow), NEW q, With(lines, q) = {} PROVE UnitsIn(lines, q) = <<>>
<1> DEFINE A == {s \in Seq(LineRow) : With(s, q) = {} => UnitsIn(s, q) = <<>>}
<1>1. <<>> \in A
  BY UnitsOfNone
<1>2. ASSUME NEW s \in Seq(LineRow), s \in A, NEW l \in LineRow PROVE Append(s, l) \in A
  <2> SUFFICES ASSUME With(Append(s, l), q) = {} PROVE UnitsIn(Append(s, l), q) = <<>>
    OBVIOUS
  <2>1. With(s, q) = {} /\ ~(l.product = q /\ l.quantity > 0)
    BY AppendWith
  <2>2. UnitsIn(s, q) = <<>>
    BY <1>2, <2>1
  <2>3. Units(l, q) = <<>>
    <3>1. l.quantity \in Nat
      BY DEF LineRow
    <3>2. (IF l.product = q THEN l.quantity ELSE 0) = 0
      BY <2>1, <3>1
    <3>3. Units(l, q) = [k \in 1 .. 0 |-> l.price]
      BY <3>2 DEF Units
    <3> QED
      BY <3>3
  <2>4. UnitsIn(Append(s, l), q) = UnitsIn(s, q) \o Units(l, q)
    BY UnitsOfMore
  <2> QED
    BY <2>2, <2>3, <2>4
<1>3. \A s \in Seq(LineRow) : s \in A
  <2> HIDE DEF A
  <2> QED
    BY <1>1, <1>2, SeqInduction
<1> QED
  BY <1>3

\* What is left is worth less by the unit that was taken.
LEMMA LessWorth ==
    ASSUME NEW w \in [Nat -> Nat], NEW lines \in Seq(LineRow), NEW i \in 1 .. Len(lines),
           lines[i].quantity > 0
    PROVE  LinesWorth(w, LessAt(lines, i)) = LinesWorth(w, lines) - w[lines[i].price]
<1> DEFINE Right(s) == \A k \in 1 .. Len(s) :
                          s[k].quantity > 0 =>
                            LinesWorth(w, LessAt(s, k)) = LinesWorth(w, s) - w[s[k].price]
           A == {s \in Seq(LineRow) : Right(s)}
<1>1. <<>> \in A
  OBVIOUS
<1>2. ASSUME NEW s \in Seq(LineRow), s \in A, NEW l \in LineRow PROVE Append(s, l) \in A
  <2> DEFINE t == Append(s, l)
             n == Len(s)
  <2>1. /\ t \in Seq(LineRow) /\ Len(t) = n + 1 /\ t[n + 1] = l
        /\ \A k \in 1 .. n : t[k] = s[k]
    BY AppendProperties
  <2>2. n \in Nat
    OBVIOUS
  <2>3. LinesWorth(w, t) = LinesWorth(w, s) + w[l.price] * l.quantity
    BY LinesWorthOfMore
  <2>4. /\ w[l.price] \in Nat /\ l.quantity \in Nat /\ w[l.price] * l.quantity \in Int
        /\ LinesWorth(w, s) \in Int
    BY LineWorthType, LinesWorthType
  <2>5. ASSUME NEW k \in 1 .. n, s[k].quantity > 0
        PROVE  LinesWorth(w, LessAt(t, k)) = LinesWorth(w, t) - w[s[k].price]
    <3>1. LessAt(t, k) = Append(LessAt(s, k), l)
      BY <2>5, AppendLess
    <3>2. LessAt(s, k) \in Seq(LineRow)
      BY <2>5, LessAtType
    <3>3. LinesWorth(w, LessAt(t, k)) = LinesWorth(w, LessAt(s, k)) + w[l.price] * l.quantity
      BY <3>1, <3>2, LinesWorthOfMore
    <3>4. LinesWorth(w, LessAt(s, k)) = LinesWorth(w, s) - w[s[k].price]
      BY <1>2, <2>5
    <3>5. w[s[k].price] \in Nat
      <4>1. s[k] \in LineRow
        BY ElementOfSeq
      <4> QED
        BY <4>1, LineWorthType
    <3> DEFINE x == w[l.price] * l.quantity
               y == w[s[k].price]
    <3>6. x \in Int /\ y \in Int
      <4>1. x \in Int
        BY <2>4
      <4>2. y \in Nat
        BY <3>5
      <4> HIDE DEF x, y
      <4> QED
        BY <4>1, <4>2
    <3> HIDE DEF x, y, t, A
    <3>7. LinesWorth(w, LessAt(t, k)) = (LinesWorth(w, s) - y) + x /\ LinesWorth(w, t) = LinesWorth(w, s) + x
      BY <2>3, <3>3, <3>4 DEF x, y
    <3>8. LinesWorth(w, LessAt(t, k)) = LinesWorth(w, t) - y
      BY <2>4, <3>6, <3>7
    <3> QED
      BY <3>8 DEF y
  <2>6. ASSUME l.quantity > 0 PROVE LinesWorth(w, LessAt(t, n + 1)) = LinesWorth(w, t) - w[l.price]
    <3>1. LessAt(t, n + 1) = Append(s, Less(l))
      BY <2>6, AppendLess
    <3>2. Less(l) \in LineRow /\ Less(l).price = l.price /\ Less(l).quantity = l.quantity - 1
      BY <2>6, LessType
    <3>3. LinesWorth(w, LessAt(t, n + 1)) = LinesWorth(w, s) + w[l.price] * (l.quantity - 1)
      BY <3>1, <3>2, LinesWorthOfMore
    <3> DEFINE x == w[l.price]
               y == l.quantity
    <3> HIDE DEF x, y, t, A, n
    <3>4. x \in Nat /\ y \in Nat /\ x * (y - 1) = x * y - x /\ x * y \in Int
      <4>1. x \in Nat /\ y \in Nat /\ x * y \in Int
        BY <2>4 DEF x, y
      <4> QED
        BY <4>1
    <3>5. LinesWorth(w, LessAt(t, n + 1)) = LinesWorth(w, s) + (x * y - x)
      BY <3>3, <3>4 DEF x, y
    <3>6. LinesWorth(w, t) = LinesWorth(w, s) + x * y
      BY <2>3 DEF x, y
    <3> DEFINE z == x * y
    <3> HIDE DEF z
    <3>7. z \in Int /\ x \in Int /\ LinesWorth(w, s) \in Int
      BY <2>4, <3>4 DEF z
    <3>8. LinesWorth(w, LessAt(t, n + 1)) = LinesWorth(w, s) + (z - x) /\ LinesWorth(w, t) = LinesWorth(w, s) + z
      BY <3>5, <3>6 DEF z
    <3>9. LinesWorth(w, LessAt(t, n + 1)) = LinesWorth(w, t) - x
      BY <3>7, <3>8
    <3> QED
      BY <3>9 DEF x
  <2>7. Right(t)
    <3>0. \A k \in 1 .. n + 1 : k = n + 1 \/ k \in 1 .. n
      <4> HIDE DEF n
      <4> QED
        BY <2>2
    <3> SUFFICES ASSUME NEW k \in 1 .. Len(t), t[k].quantity > 0
                 PROVE  LinesWorth(w, LessAt(t, k)) = LinesWorth(w, t) - w[t[k].price]
      OBVIOUS
    <3>1. CASE k = n + 1
      BY <2>1, <2>6, <3>1
    <3>2. CASE k # n + 1
      <4>1. k \in 1 .. n
        <5> HIDE DEF t, n
        <5> QED
          BY <2>1, <3>0, <3>2
      <4>2. t[k] = s[k]
        BY <2>1, <4>1
      <4> QED
        BY <2>5, <4>1, <4>2
    <3> QED
      BY <3>1, <3>2
  <2> QED
    BY <2>1, <2>7
<1>3. \A s \in Seq(LineRow) : s \in A
  <2> HIDE DEF A
  <2> QED
    BY <1>1, <1>2, SeqInduction
<1> QED
  BY <1>3

\* The units that are left: all but the first of the product.
LEMMA FirstTaken ==
    ASSUME NEW lines \in Seq(LineRow), NEW q, NEW i, IsFirst(lines, q, i)
    PROVE  /\ UnitsIn(lines, q) # <<>>
           /\ UnitsIn(LessAt(lines, i), q) = Tail(UnitsIn(lines, q))
           /\ \A p : p # q => UnitsIn(LessAt(lines, i), p) = UnitsIn(lines, p)
<1> DEFINE Right(s, k) == /\ UnitsIn(s, q) # <<>>
                          /\ UnitsIn(LessAt(s, k), q) = Tail(UnitsIn(s, q))
                          /\ \A p : p # q => UnitsIn(LessAt(s, k), p) = UnitsIn(s, p)
           A == {s \in Seq(LineRow) : \A k \in 1 .. Len(s) : IsFirst(s, q, k) => Right(s, k)}
<1>1. <<>> \in A
  OBVIOUS
<1>2. ASSUME NEW s \in Seq(LineRow), s \in A, NEW l \in LineRow PROVE Append(s, l) \in A
  <2> DEFINE t == Append(s, l)
             n == Len(s)
  <2>1. /\ t \in Seq(LineRow) /\ Len(t) = n + 1 /\ t[n + 1] = l
        /\ \A k \in 1 .. n : t[k] = s[k]
    BY AppendProperties
  <2>2. n \in Nat /\ n + 1 \notin 1 .. n /\ \A k \in 1 .. n : ~(n + 1 <= k)
    OBVIOUS
  <2>3. With(t, q) = With(s, q) \cup (IF l.product = q /\ l.quantity > 0 THEN {n + 1} ELSE {})
    BY AppendWith
  <2>4. With(s, q) \subseteq 1 .. n
    BY DEF With
  <2>5. \A p : UnitsIn(s, p) \in Seq(Nat) /\ UnitsIn(t, p) = UnitsIn(s, p) \o Units(l, p)
    BY UnitsOfMore
  <2>6. \A p : Units(l, p) \in Seq(Nat)
    BY UnitsType
  <2>7. ASSUME NEW k \in 1 .. n, IsFirst(t, q, k) PROVE Right(t, k)
    <3>1. IsFirst(s, q, k)
      BY <2>2, <2>3, <2>7 DEF IsFirst
    <3>2. Right(s, k)
      BY <1>2, <3>1
    <3>3. s[k].quantity > 0
      BY <3>1 DEF IsFirst, With
    <3>4. LessAt(t, k) = Append(LessAt(s, k), l) /\ LessAt(s, k) \in Seq(LineRow)
      BY <3>3, AppendLess, LessAtType
    <3>5. \A p : UnitsIn(LessAt(t, k), p) = UnitsIn(LessAt(s, k), p) \o Units(l, p)
      BY <3>4, UnitsOfMore
    <3>6. \A u, v \in Seq(Nat) : u # <<>> => u \o v # <<>> /\ Tail(u \o v) = Tail(u) \o v
      OBVIOUS
    <3> HIDE DEF t, n, A
    <3>7. UnitsIn(t, q) # <<>> /\ Tail(UnitsIn(t, q)) = Tail(UnitsIn(s, q)) \o Units(l, q)
      BY <2>5, <2>6, <3>2, <3>6
    <3>8. UnitsIn(LessAt(t, k), q) = Tail(UnitsIn(s, q)) \o Units(l, q)
      BY <3>2, <3>5
    <3>9. ASSUME NEW p, p # q PROVE UnitsIn(LessAt(t, k), p) = UnitsIn(t, p)
      BY <2>5, <3>2, <3>5, <3>9
    <3> QED
      BY <3>7, <3>8, <3>9
  <2>8. ASSUME IsFirst(t, q, n + 1) PROVE Right(t, n + 1)
    <3>1. l.product = q /\ l.quantity > 0
      BY <2>2, <2>3, <2>4, <2>8 DEF IsFirst
    <3>2. With(s, q) = {}
      BY <2>2, <2>3, <2>4, <2>8 DEF IsFirst
    <3>3. UnitsIn(s, q) = <<>>
      BY <3>2, NoUnits
    <3>4. LessAt(t, n + 1) = Append(s, Less(l))
      BY <3>1, AppendLess
    <3>5. /\ Less(l) \in LineRow /\ Less(l).product = l.product /\ Less(l).price = l.price
          /\ Less(l).quantity = l.quantity - 1
      BY <3>1, LessType
    <3>6. \A p : UnitsIn(LessAt(t, n + 1), p) = UnitsIn(s, p) \o Units(Less(l), p)
      BY <3>4, <3>5, UnitsOfMore
    <3>7. ASSUME NEW p, p # q PROVE Units(Less(l), p) = Units(l, p)
      <4>1. Units(Less(l), p) = [k \in 1 .. 0 |-> Less(l).price]
        BY <3>1, <3>5, <3>7 DEF Units
      <4>2. Units(l, p) = [k \in 1 .. 0 |-> l.price]
        BY <3>1, <3>7 DEF Units
      <4> QED
        BY <3>5, <4>1, <4>2
    <3>8. Units(l, q) # <<>> /\ Units(Less(l), q) = Tail(Units(l, q))
      <4> DEFINE x == l.price
                 y == l.quantity
      <4>1. Units(Less(l), q) = [k \in 1 .. y - 1 |-> x]
        BY <3>1, <3>5 DEF Units
      <4>2. Units(l, q) = [k \in 1 .. y |-> x]
        BY <3>1 DEF Units
      <4>3. x \in Nat /\ y \in Nat /\ y > 0
        BY <3>1 DEF LineRow
      <4> HIDE DEF x, y
      <4>4. [k \in 1 .. y |-> x] # <<>> /\ [k \in 1 .. y - 1 |-> x] = Tail([k \in 1 .. y |-> x])
        BY <4>3
      <4> QED
        BY <4>1, <4>2, <4>4
    <3>9. \A v \in Seq(Nat) : <<>> \o v = v
      OBVIOUS
    <3> HIDE DEF t, n, A
    <3>10. UnitsIn(t, q) = Units(l, q)
      BY <2>5, <2>6, <3>3, <3>9
    <3>11. UnitsIn(LessAt(t, n + 1), q) = Units(Less(l), q)
      BY <3>3, <3>5, <3>6, <3>9, UnitsType
    <3>12. ASSUME NEW p, p # q PROVE UnitsIn(LessAt(t, n + 1), p) = UnitsIn(t, p)
      BY <2>5, <3>6, <3>7, <3>12
    <3> QED
      BY <3>8, <3>10, <3>11, <3>12
  <2>9. \A k \in 1 .. n + 1 : k = n + 1 \/ k \in 1 .. n
    <3> HIDE DEF n
    <3> QED
      BY <2>2
  <2> HIDE DEF Right, t, n
  <2>10. \A k \in 1 .. Len(t) : IsFirst(t, q, k) => Right(t, k)
    BY <2>1, <2>7, <2>8, <2>9
  <2> QED
    BY <2>1, <2>10 DEF t
<1>3. \A s \in Seq(LineRow) : s \in A
  <2> HIDE DEF A
  <2> QED
    BY <1>1, <1>2, SeqInduction
<1>4. i \in 1 .. Len(lines)
  BY DEF IsFirst, With
<1>5. Right(lines, i)
  BY <1>3, <1>4
<1> QED
  BY <1>5

\* What TakeUnits leaves of the cart and what it adds up, of the first units it was asked for.
LEMMA TakeStep ==
    ASSUME NEW taken \in Taken, NEW q
    PROVE  \/ /\ UnitsIn(taken.lines, q) = <<>>
              /\ TakeUnit(taken, q) = [taken EXCEPT !.missing = TRUE]
           \/ \E i \in 1 .. Len(taken.lines) :
                /\ IsFirst(taken.lines, q, i) /\ taken.lines[i].quantity > 0
                /\ TakeUnit(taken, q).lines = LessAt(taken.lines, i)
                /\ TakeUnit(taken, q).price = taken.price + taken.lines[i].price
                /\ TakeUnit(taken, q).missing = taken.missing
<1>1. taken.lines \in Seq(LineRow)
  BY DEF Taken
<1>2. CASE /\ With(taken.lines, q) = {}
           /\ TakeUnit(taken, q) = [taken EXCEPT !.missing = TRUE]
  BY <1>1, <1>2, NoUnits
<1>3. ASSUME NEW i \in With(taken.lines, q), \A j \in With(taken.lines, q) : i <= j,
             TakeUnit(taken, q) = TakenFrom(taken, i)
      PROVE  /\ i \in 1 .. Len(taken.lines)
             /\ IsFirst(taken.lines, q, i) /\ taken.lines[i].quantity > 0
             /\ TakeUnit(taken, q).lines = LessAt(taken.lines, i)
             /\ TakeUnit(taken, q).price = taken.price + taken.lines[i].price
             /\ TakeUnit(taken, q).missing = taken.missing
  <2>1. /\ TakenFrom(taken, i).lines = LessAt(taken.lines, i)
        /\ TakenFrom(taken, i).price = taken.price + taken.lines[i].price
        /\ TakenFrom(taken, i).missing = taken.missing
    BY TakenFromIs DEF LessAt
  <2>2. i \in 1 .. Len(taken.lines) /\ taken.lines[i].quantity > 0 /\ IsFirst(taken.lines, q, i)
    BY <1>3 DEF With, IsFirst
  <2> QED
    BY <1>3, <2>1, <2>2
<1> QED
  BY <1>2, <1>3, TakeOne

\* Times, one more time.
LEMMA TimesOfMore ==
    ASSUME NEW S, NEW seq \in Seq(S), NEW x \in S, NEW p
    PROVE  /\ Times(seq, p) \in Nat
           /\ Times(Append(seq, x), p) = Times(seq, p) + (IF x = p THEN 1 ELSE 0)
<1> DEFINE n == Len(seq)
           t == Append(seq, x)
           I == {i \in 1 .. n : seq[i] = p}
<1>1. /\ n \in Nat /\ t \in Seq(S) /\ Len(t) = n + 1 /\ t[n + 1] = x
      /\ \A i \in 1 .. n : t[i] = seq[i]
  BY AppendProperties
<1>2. DOMAIN seq = 1 .. n /\ DOMAIN t = 1 .. n + 1
  BY <1>1
<1> HIDE DEF t, n
<1>3. IsFiniteSet(I) /\ n + 1 \notin I
  <2>1. IsFiniteSet(1 .. n) /\ n + 1 \notin 1 .. n
    BY <1>1, FS_Interval
  <2>2. I \subseteq 1 .. n
    OBVIOUS
  <2> HIDE DEF I
  <2> QED
    BY <2>1, <2>2, FS_Subset
<1>4. {i \in 1 .. n + 1 : t[i] = p} = IF x = p THEN I \cup {n + 1} ELSE I
  <2>1. 1 .. n + 1 = (1 .. n) \cup {n + 1} /\ n + 1 \notin 1 .. n
    BY <1>1
  <2> QED
    BY <1>1, <2>1
<1>5. Cardinality(I) \in Nat /\ Cardinality(I \cup {n + 1}) = Cardinality(I) + 1
  BY <1>3, FS_CardinalityType, FS_AddElement
<1>6. Times(seq, p) = Cardinality(I) /\ Times(t, p) = Cardinality({i \in 1 .. n + 1 : t[i] = p})
  BY <1>2 DEF Times
<1>7. CASE x = p
  <2>1. Times(t, p) = Cardinality(I \cup {n + 1})
    BY <1>4, <1>6, <1>7
  <2> HIDE DEF I
  <2> QED
    BY <1>5, <1>6, <1>7, <2>1 DEF t
<1>8. CASE x # p
  <2>1. Times(t, p) = Cardinality(I) /\ (IF x = p THEN 1 ELSE 0) = 0
    BY <1>4, <1>6, <1>8
  <2> HIDE DEF I
  <2>2. Times(t, p) = Times(seq, p) + 0 /\ Times(seq, p) \in Nat
    BY <1>5, <1>6, <2>1
  <2> QED
    BY <2>1, <2>2 DEF t
<1> QED
  BY <1>7, <1>8

\* Times, of nothing ...
LEMMA TimesOfNone == ASSUME NEW p PROVE Times(<<>>, p) = 0
<1>1. {i \in DOMAIN <<>> : <<>>[i] = p} = {}
  OBVIOUS
<1> QED
  BY <1>1, FS_EmptySet DEF Times

\* ... and of any sequence.
LEMMA TimesType == ASSUME NEW S, NEW seq \in Seq(S), NEW p PROVE Times(seq, p) \in Nat
<1>1. DOMAIN seq = 1 .. Len(seq) /\ Len(seq) \in Nat
  OBVIOUS
<1> DEFINE I == {i \in DOMAIN seq : seq[i] = p}
<1>2. IsFiniteSet(DOMAIN seq) /\ I \in SUBSET DOMAIN seq
  BY <1>1, FS_Interval
<1> HIDE DEF I
<1>3. Cardinality(I) \in Nat
  BY <1>2, FS_Subset, FS_CardinalityType
<1> QED
  BY <1>3 DEF Times, I

\* The units without the first n, and without one more.
Rest(u, n) == SubSeq(u, n + 1, Len(u))

\* How many are left.
LEMMA RestType ==
    ASSUME NEW u \in Seq(Nat), NEW n \in Nat
    PROVE  /\ Rest(u, n) \in Seq(Nat) /\ Len(Rest(u, n)) = (IF n <= Len(u) THEN Len(u) - n ELSE 0)
           /\ Rest(u, 0) = u
<1>1. Len(u) \in Nat
  OBVIOUS
<1>2. \A i \in n + 1 .. Len(u) : u[i] \in Nat
  <2>1. \A i \in n + 1 .. Len(u) : i \in 1 .. Len(u)
    BY <1>1
  <2> QED
    BY <2>1, ElementOfSeq
<1>3. /\ Rest(u, n) \in Seq(Nat)
      /\ Len(Rest(u, n)) = IF n + 1 <= Len(u) THEN Len(u) - (n + 1) + 1 ELSE 0
  BY <1>1, <1>2, SubSeqProperties DEF Rest
<1>4. Rest(u, 0) = SubSeq(u, 1, Len(u))
  BY DEF Rest
<1>5. Rest(u, 0) = u
  BY <1>4, SubSeqFull
<1> QED
  BY <1>1, <1>3, <1>5

\* One more is the first of the rest.
LEMMA RestOfRest ==
    ASSUME NEW u \in Seq(Nat), NEW n \in Nat
    PROVE  /\ Rest(u, n) # <<>> => n + 1 <= Len(u) /\ Tail(Rest(u, n)) = Rest(u, n + 1)
           /\ Rest(u, n) = <<>> => Rest(u, n + 1) = <<>>
<1>1. Len(u) \in Nat
  OBVIOUS
<1>2. CASE n + 1 <= Len(u)
  <2>1. n + 1 \in 1 .. Len(u) /\ Len(u) \in n + 1 .. Len(u)
    BY <1>1, <1>2
  <2>2. Tail(SubSeq(u, n + 1, Len(u))) = SubSeq(u, n + 1 + 1, Len(u))
    BY <2>1, HeadTailOfSubSeq
  <2>0. n <= Len(u) /\ Len(u) - n \in Nat \ {0}
    BY <1>1, <1>2
  <2>3. Len(Rest(u, n)) = Len(u) - n
    BY <2>0, RestType
  <2>4. Rest(u, n) # <<>>
    <3>1. Len(<<>>) = 0
      OBVIOUS
    <3> QED
      BY <2>0, <2>3, <3>1
  <2> QED
    BY <1>2, <2>2, <2>4 DEF Rest
<1>3. CASE ~(n + 1 <= Len(u))
  <2>1. Rest(u, n) = <<>>
    BY <1>1, <1>3, SubSeqEmpty DEF Rest
  <2>2. Rest(u, n + 1) = <<>>
    BY <1>1, <1>3, SubSeqEmpty DEF Rest
  <2> QED
    BY <2>1, <2>2
<1> QED
  BY <1>2, <1>3

\* What TakeUnits has after any products: of each, the units that were asked for are gone
\* from the lines, or all of them; the price is what the lines have lost; nothing is missing
\* only when there were enough units of each.
TakenRight(lines, seq) ==
    LET taken == TakeUnits(lines, seq)
    IN  /\ \A p \in Products :
              /\ UnitsIn(taken.lines, p) = Rest(UnitsIn(lines, p), Times(seq, p))
              /\ ~taken.missing => Times(seq, p) <= Len(UnitsIn(lines, p))
        /\ taken.price + LinesWorth([x \in Nat |-> x], taken.lines)
             = LinesWorth([x \in Nat |-> x], lines)

\* The loop is right, by induction over the free units.
LEMMA TakenRightAlways ==
    ASSUME NEW lines \in Seq(LineRow), NEW seq \in Seq(Products)
    PROVE  TakenRight(lines, seq)
<1> DEFINE A == {s \in Seq(Products) : TakenRight(lines, s)}
           w == [x \in Nat |-> x]
<1>0. w \in [Nat -> Nat] /\ \A x \in Nat : w[x] = x
  OBVIOUS
<1>u. \A p \in Products : UnitsIn(lines, p) \in Seq(Nat)
  BY WorthPerType, <1>0
<1>1. <<>> \in A
  <2>1. TakeUnits(lines, <<>>) = [lines |-> lines, price |-> 0, missing |-> FALSE]
    BY TakeNone DEF Untaken
  <2>2. \A p \in Products : Times(<<>>, p) = 0 /\ Rest(UnitsIn(lines, p), 0) = UnitsIn(lines, p)
    BY <1>u, TimesOfNone, RestType
  <2>3. \A p \in Products : 0 <= Len(UnitsIn(lines, p))
    BY <1>u
  <2> HIDE DEF w
  <2>4. LinesWorth(w, lines) \in Int
    BY <1>0, LinesWorthType
  <2>5. TakenRight(lines, <<>>)
    <3>1. /\ TakeUnits(lines, <<>>).lines = lines /\ TakeUnits(lines, <<>>).price = 0
      BY <2>1
    <3>2. 0 + LinesWorth(w, lines) = LinesWorth(w, lines)
      BY <2>4
    <3> QED
      BY <2>2, <2>3, <3>1, <3>2 DEF TakenRight, w
  <2> QED
    BY <2>5
<1>2. ASSUME NEW s \in Seq(Products), s \in A, NEW q \in Products PROVE Append(s, q) \in A
  <2> DEFINE t == TakeUnits(lines, s)
             v == TakeUnits(lines, Append(s, q))
  <2>1. t \in Taken /\ v = TakeUnit(t, q) /\ v \in Taken
    BY TakeMore, TakeType
  <2>2. TakenRight(lines, s)
    BY <1>2
  <2> HIDE DEF A, w
  <2>3. /\ \A p \in Products : /\ UnitsIn(t.lines, p) = Rest(UnitsIn(lines, p), Times(s, p))
                               /\ ~t.missing => Times(s, p) <= Len(UnitsIn(lines, p))
        /\ t.price + LinesWorth(w, t.lines) = LinesWorth(w, lines)
    BY <2>2 DEF TakenRight, w
  <2>4. \A p \in Products : /\ Times(s, p) \in Nat
                            /\ Times(Append(s, q), p) = Times(s, p) + (IF q = p THEN 1 ELSE 0)
    BY TimesOfMore
  <2> HIDE DEF t, v
  <2>5. t.lines \in Seq(LineRow) /\ t.price \in Nat /\ t.missing \in BOOLEAN
    BY <2>1 DEF Taken
  <2>6. \A p \in Products : p # q => Times(Append(s, q), p) = Times(s, p)
    BY <2>4
  <2>7. Times(Append(s, q), q) = Times(s, q) + 1
    BY <2>4
  <2>8. CASE UnitsIn(t.lines, q) = <<>> /\ v = [t EXCEPT !.missing = TRUE]
    <3>1. v.lines = t.lines /\ v.price = t.price /\ v.missing = TRUE
      BY <2>1, <2>8 DEF Taken
    <3>2. UnitsIn(v.lines, q) = Rest(UnitsIn(lines, q), Times(Append(s, q), q))
      <4>1. Rest(UnitsIn(lines, q), Times(s, q)) = <<>>
        BY <2>3, <2>8
      <4>2. Rest(UnitsIn(lines, q), Times(s, q) + 1) = <<>>
        BY <1>u, <2>4, <4>1, RestOfRest
      <4> QED
        BY <2>7, <2>8, <3>1, <4>2
    <3>3. \A p \in Products : UnitsIn(v.lines, p) = Rest(UnitsIn(lines, p), Times(Append(s, q), p))
      BY <2>3, <2>6, <3>1, <3>2
    <3> QED
      BY <2>3, <3>1, <3>3 DEF TakenRight, v, w, A
  <2>9. ASSUME NEW i \in 1 .. Len(t.lines), IsFirst(t.lines, q, i), t.lines[i].quantity > 0,
               v.lines = LessAt(t.lines, i), v.price = t.price + t.lines[i].price,
               v.missing = t.missing
        PROVE  Append(s, q) \in A
    <3>1. /\ UnitsIn(t.lines, q) # <<>>
          /\ UnitsIn(v.lines, q) = Tail(UnitsIn(t.lines, q))
          /\ \A p : p # q => UnitsIn(v.lines, p) = UnitsIn(t.lines, p)
      BY <2>5, <2>9, FirstTaken
    <3>2. /\ UnitsIn(v.lines, q) = Rest(UnitsIn(lines, q), Times(Append(s, q), q))
          /\ Times(Append(s, q), q) <= Len(UnitsIn(lines, q))
      <4>1. UnitsIn(t.lines, q) = Rest(UnitsIn(lines, q), Times(s, q))
        BY <2>3
      <4>2. /\ Times(s, q) + 1 <= Len(UnitsIn(lines, q))
            /\ Tail(Rest(UnitsIn(lines, q), Times(s, q))) = Rest(UnitsIn(lines, q), Times(s, q) + 1)
        BY <1>u, <2>4, <3>1, <4>1, RestOfRest
      <4> QED
        BY <2>7, <3>1, <4>1, <4>2
    <3>3. \A p \in Products : /\ UnitsIn(v.lines, p) = Rest(UnitsIn(lines, p), Times(Append(s, q), p))
                              /\ ~v.missing => Times(Append(s, q), p) <= Len(UnitsIn(lines, p))
      <4>1. ASSUME NEW p \in Products, p # q
            PROVE  /\ UnitsIn(v.lines, p) = Rest(UnitsIn(lines, p), Times(Append(s, q), p))
                   /\ ~v.missing => Times(Append(s, q), p) <= Len(UnitsIn(lines, p))
        BY <2>3, <2>6, <2>9, <3>1, <4>1
      <4> QED
        BY <3>2, <4>1
    <3>4. LinesWorth(w, v.lines) = LinesWorth(w, t.lines) - t.lines[i].price
      <4>1. t.lines[i] \in LineRow
        BY <2>5, ElementOfSeq
      <4>2. t.lines[i].price \in Nat
        BY <4>1 DEF LineRow
      <4>3. w[t.lines[i].price] = t.lines[i].price
        BY <1>0, <4>2
      <4>4. LinesWorth(w, LessAt(t.lines, i)) = LinesWorth(w, t.lines) - w[t.lines[i].price]
        BY <1>0, <2>5, <2>9, LessWorth
      <4> QED
        BY <2>9, <4>3, <4>4
    <3>5. v.price + LinesWorth(w, v.lines) = LinesWorth(w, lines)
      <4>1. LinesWorth(w, t.lines) \in Int
        BY <1>0, <2>5, LinesWorthType
      <4>2. t.lines[i].price \in Nat
        <5>1. t.lines[i] \in LineRow
          BY <2>5, ElementOfSeq
        <5> QED
          BY <5>1 DEF LineRow
      <4> DEFINE a == LinesWorth(w, t.lines)
                 b == t.lines[i].price
                 c == t.price
      <4>3. a \in Int /\ b \in Nat /\ c \in Nat
        BY <2>5, <4>1, <4>2
      <4>4. v.price = c + b /\ LinesWorth(w, v.lines) = a - b /\ c + a = LinesWorth(w, lines)
        BY <2>3, <2>9, <3>4
      <4> HIDE DEF a, b, c
      <4> QED
        BY <4>3, <4>4
    <3> QED
      BY <3>3, <3>5 DEF TakenRight, v, w, A
  <2> QED
    BY <2>1, <2>8, <2>9, TakeStep
<1>3. \A s \in Seq(Products) : s \in A
  <2> HIDE DEF A
  <2> QED
    BY <1>1, <1>2, SeqInduction
<1> QED
  BY <1>3

\* Losses add up.
LEMMA Chain ==
    ASSUME NEW a \in Int, NEW b \in Int, NEW c \in Int, NEW k \in Nat, NEW m \in Nat,
           a - b \in 0 .. k, b - c \in 0 .. m
    PROVE  a - c \in 0 .. k + m
  OBVIOUS

\* A step of the loop takes a unit or misses one.
LEMMA TakeEither ==
    ASSUME NEW t \in Taken, NEW q, NEW v, v = TakeUnit(t, q)
    PROVE  \/ v = [t EXCEPT !.missing = TRUE]
           \/ \E i \in 1 .. Len(t.lines) : t.lines[i].quantity > 0 /\ v.lines = LessAt(t.lines, i)
  BY TakeStep

\* It takes no more than the most a unit is worth.
LEMMA TakenLoses ==
    ASSUME NEW w \in [Nat -> Nat], NEW m \in Nat, \A x \in Nat : w[x] <= m,
           NEW t \in Taken, NEW q, NEW v, v = TakeUnit(t, q)
    PROVE  LinesWorth(w, t.lines) - LinesWorth(w, v.lines) \in 0 .. m
<1>0. t.lines \in Seq(LineRow)
  BY DEF Taken
<1>1. LinesWorth(w, t.lines) \in Int
  BY <1>0, LinesWorthType
<1>2. CASE v = [t EXCEPT !.missing = TRUE]
  <2>1. v.lines = t.lines
    BY <1>2 DEF Taken
  <2> DEFINE a == LinesWorth(w, t.lines)
  <2>2. a \in Int
    BY <1>1
  <2> HIDE DEF a
  <2>3. a - a \in 0 .. m
    BY <2>2
  <2> QED
    BY <2>1, <2>3 DEF a
<1>3. ASSUME NEW i \in 1 .. Len(t.lines), t.lines[i].quantity > 0, v.lines = LessAt(t.lines, i)
      PROVE  LinesWorth(w, t.lines) - LinesWorth(w, v.lines) \in 0 .. m
  <2>1. LinesWorth(w, LessAt(t.lines, i)) = LinesWorth(w, t.lines) - w[t.lines[i].price]
    BY <1>0, <1>3, LessWorth
  <2>2. t.lines[i].price \in Nat
    <3>1. t.lines[i] \in LineRow
      BY <1>0, ElementOfSeq
    <3> QED
      BY <3>1 DEF LineRow
  <2> DEFINE x == w[t.lines[i].price]
             a == LinesWorth(w, t.lines)
  <2>3. x \in Nat /\ x <= m
    BY <2>2
  <2>4. a \in Int /\ LinesWorth(w, v.lines) = a - x
    BY <1>1, <1>3, <2>1
  <2> HIDE DEF x, a
  <2>5. a - LinesWorth(w, v.lines) \in 0 .. m
    BY <2>3, <2>4
  <2> QED
    BY <2>5 DEF a
<1>4. \/ v = [t EXCEPT !.missing = TRUE]
      \/ \E i \in 1 .. Len(t.lines) : t.lines[i].quantity > 0 /\ v.lines = LessAt(t.lines, i)
  BY TakeEither
<1> QED
  BY <1>2, <1>3, <1>4

\* Each further unit that is taken lowers the worth of the lines, by what a unit is worth
\* at most.
LEMMA TakenWorth ==
    ASSUME NEW w \in [Nat -> Nat], NEW m \in Nat, \A x \in Nat : w[x] <= m,
           NEW lines \in Seq(LineRow), NEW seq \in Seq(Products), NEW more \in Seq(Products)
    PROVE  LinesWorth(w, TakeUnits(lines, seq).lines) - LinesWorth(w, TakeUnits(lines, seq \o more).lines)
             \in 0 .. m * Len(more)
<1> DEFINE worth(s) == LinesWorth(w, TakeUnits(lines, s).lines)
           A == {s \in Seq(Products) : worth(seq) - worth(seq \o s) \in 0 .. m * Len(s)}
<1>0. ASSUME NEW s \in Seq(Products) PROVE worth(s) \in Int
  <2>1. TakeUnits(lines, s).lines \in Seq(LineRow)
    BY TakeUnitsType DEF Taken
  <2> QED
    BY <2>1, LinesWorthType
<1>1. <<>> \in A
  <2>1. seq \o <<>> = seq /\ <<>> \in Seq(Products) /\ Len(<<>>) = 0
    OBVIOUS
  <2>2. worth(seq) \in Int
    BY <1>0
  <2> HIDE DEF worth
  <2>3. worth(seq) - worth(seq \o <<>>) = 0 /\ m * Len(<<>>) = 0
    BY <2>1, <2>2
  <2>4. worth(seq) - worth(seq \o <<>>) \in 0 .. m * Len(<<>>)
    BY <2>3, 0 \in 0 .. 0
  <2> QED
    BY <2>1, <2>4
<1>2. ASSUME NEW s \in Seq(Products), s \in A, NEW q \in Products PROVE Append(s, q) \in A
  <2> DEFINE u == seq \o s
             t == TakeUnits(lines, u)
             v == TakeUnits(lines, Append(u, q))
  <2>1. u \in Seq(Products) /\ Append(u, q) \in Seq(Products)
    OBVIOUS
  <2>2. seq \o Append(s, q) = Append(u, q)
    <3> HIDE DEF A
    <3> QED
      BY ConcatMore
  <2> HIDE DEF u
  <2>3. t \in Taken /\ v = TakeUnit(t, q)
    BY <2>1, TakeMore
  <2> HIDE DEF t, v
  <2>4. t.lines \in Seq(LineRow)
    BY <2>3 DEF Taken
  <2>5. LinesWorth(w, t.lines) - LinesWorth(w, v.lines) \in 0 .. m
    BY <2>3, TakenLoses
  <2>6. worth(u) = LinesWorth(w, t.lines) /\ worth(Append(u, q)) = LinesWorth(w, v.lines)
    BY DEF t, v
  <2>7. worth(seq) \in Int /\ worth(u) \in Int /\ worth(Append(u, q)) \in Int
    BY <1>0, <2>1
  <2>8. worth(seq) - worth(u) \in 0 .. m * Len(s)
    BY <1>2 DEF u
  <2>9. Len(Append(s, q)) = Len(s) + 1 /\ Len(s) \in Nat /\ Append(s, q) \in Seq(Products)
    OBVIOUS
  <2> HIDE DEF worth
  <2>10. m * (Len(s) + 1) = m * Len(s) + m /\ m * Len(s) \in Nat
    <3> DEFINE k == Len(s)
    <3>1. k \in Nat
      BY <2>9
    <3> HIDE DEF k
    <3>2. m * (k + 1) = m * k + m /\ m * k \in Nat
      BY <3>1
    <3> QED
      BY <3>2 DEF k
  <2>11. worth(seq) - worth(Append(u, q)) \in 0 .. m * (Len(s) + 1)
    <3> DEFINE k == m * Len(s)
    <3>1. k \in Nat /\ m * (Len(s) + 1) = k + m /\ worth(seq) - worth(u) \in 0 .. k
      BY <2>8, <2>10
    <3>2. worth(u) - worth(Append(u, q)) \in 0 .. m
      BY <2>5, <2>6
    <3> DEFINE a == worth(seq)
               b == worth(u)
               c == worth(Append(u, q))
    <3> HIDE DEF k
    <3>4. a \in Int /\ b \in Int /\ c \in Int /\ a - b \in 0 .. k /\ b - c \in 0 .. m
      BY <2>7, <3>1, <3>2
    <3> HIDE DEF a, b, c
    <3>3. a - c \in 0 .. k + m
      BY <3>1, <3>4, Chain
    <3> QED
      BY <3>1, <3>3 DEF a, c
  <2> QED
    BY <2>2, <2>9, <2>11
<1>3. \A s \in Seq(Products) : s \in A
  <2> HIDE DEF A
  <2> QED
    BY <1>1, <1>2, SeqInduction
<1> QED
  BY <1>3

-----------------------------------------------------------------------------
(* Types.                                                                   *)
Quotes == [custom : Nat, addons : Nat, rate : Nat, free : Seq(Products), offers : Seq(Offers),
           late : BOOLEAN, edited : BOOLEAN]

TypeInv ==
    /\ status \in {"none", "PENDING", "COMPLETED"}
    /\ items \in Seq(LineRow)
    /\ discount \in Nat /\ total \in Int
    /\ freeProduct \in Products \cup {None}
    /\ customer \in BOOLEAN
    /\ payments \in Seq(Int)
    /\ earned \in Int
    /\ quote \in Quotes

\* A cart is a sequence of lines.
LEMMA CartType == ASSUME NEW lines \in Carts PROVE lines \in Seq(LineRow)
<1>1. Lines \subseteq LineRow
  <2>1. \A m \in Menu : m[1] \in Products /\ m[2] \in Nat
    BY PricingAssumption DEF Products
  <2>2. Quantities \subseteq Nat
    BY PricingAssumption
  <2> QED
    BY <2>1, <2>2 DEF Lines, LineRow
<1>2. PICK m \in 0 .. MaxLines : lines \in [1 .. m -> Lines]
  BY DEF Carts, BoundedSeq, SeqOf
<1>3. m \in Nat
  BY PricingAssumption
<1> QED
  BY <1>1, <1>2, <1>3

\* The total of one number.
LEMMA TotalOfOne == ASSUME NEW x \in Int PROVE Total(<<x>>) = x
<1>1. <<>> \in Seq(Int) /\ Append(<<>>, x) = <<x>>
  OBVIOUS
<1>2. Total(Append(<<>>, x)) = Total(<<>>) + x
  BY <1>1, TotalOfMore
<1> QED
  BY <1>1, <1>2, TotalOfNone

\* These are numbers: the subtotal ...
LEMMA SubtotalType ==
    ASSUME NEW lines \in Seq(LineRow), NEW addons \in Nat
    PROVE  Subtotal(lines, addons) \in Int
<1> DEFINE amounts == [i \in DOMAIN lines |-> lines[i].price * lines[i].quantity]
<1>1. \A i \in 1 .. Len(lines) : lines[i].price * lines[i].quantity \in Int
  <2>1. \A l \in LineRow : l.price \in Nat /\ l.quantity \in Nat
    BY DEF LineRow
  <2>2. \A x, y \in Nat : x * y \in Int
    OBVIOUS
  <2>3. \A i \in 1 .. Len(lines) : lines[i] \in LineRow
    OBVIOUS
  <2> QED
    BY <2>1, <2>2, <2>3
<1>2. DOMAIN lines = 1 .. Len(lines) /\ Len(lines) \in Nat
  OBVIOUS
<1>3. amounts \in Seq(Int)
  <2>1. amounts \in [1 .. Len(lines) -> Int]
    BY <1>1, <1>2
  <2> QED
    BY <1>2, <2>1
<1>4. Subtotal(lines, addons) = Total(amounts) + addons
  BY DEF Subtotal, Mapped
<1> HIDE DEF amounts
<1> QED
  BY <1>3, <1>4, TotalOfMore

\* ... the total ...
LEMMA TotalsType ==
    ASSUME NEW subtotal \in Int, NEW off \in Nat, NEW rate \in Nat
    PROVE  computeOrderTotals(subtotal, off, rate) \in Int
<1>1. Max2(subtotal - off, 0) \in Int
  BY DEF Max2
<1>2. \A x \in Int : x * (100 + rate) \in Int
  OBVIOUS
<1> QED
  BY <1>1, <1>2 DEF computeOrderTotals

\* ... the rate ...
LEMMA RateType == ASSUME NEW s \in TaxSettings PROVE resolveTaxRatePct(s) \in Nat
<1>1. s \subseteq Nat
  BY PricingAssumption
<1>2. s # {} => (CHOOSE rate \in s : TRUE) \in s
  OBVIOUS
<1> QED
  BY <1>1, <1>2 DEF resolveTaxRatePct

\* roundMoney moves an amount by half a cent at most.
LEMMA RoundingIsFine ==
    ASSUME NEW x \in Int
    PROVE  roundMoney(x) \in Int /\ roundMoney(x) - x \in -50 .. 50
<1> DEFINE q == (x + 50) \div 100
<1>1. q \in Int /\ 100 * q <= x + 50 /\ x + 50 < 100 * q + 100
  OBVIOUS
<1>2. roundMoney(x) = 100 * q
  BY DEF roundMoney, Cent
<1> HIDE DEF q
<1> QED
  BY <1>1, <1>2

\* ... and the points.
LEMMA PointsType ==
    ASSUME NEW lines \in Seq(LineRow)
    PROVE  earnedPointsUnitsFromItems(lines) \in Int
<1> DEFINE points(l) == earnedPointsPerUnit(l.price) * Max2(l.quantity, 0)
           each == [i \in DOMAIN lines |-> points(lines[i])]
<1>1. \A l \in LineRow : points(l) \in Int
  <2> SUFFICES ASSUME NEW l \in LineRow PROVE points(l) \in Int
    OBVIOUS
  <2>1. l.price \in Nat /\ l.quantity \in Nat
    BY DEF LineRow
  <2>2. earnedPointsPerUnit(l.price) \in Nat
    BY <2>1 DEF earnedPointsPerUnit, Cent
  <2>3. Max2(l.quantity, 0) \in Nat
    BY <2>1 DEF Max2
  <2>4. \A x, y \in Nat : x * y \in Int
    OBVIOUS
  <2> QED
    BY <2>2, <2>3, <2>4
<1>2. earnedPointsUnitsFromItems(lines) = Total(each)
  BY DEF earnedPointsUnitsFromItems, Mapped
<1> HIDE DEF points
<1>3. DOMAIN lines = 1 .. Len(lines) /\ Len(lines) \in Nat /\ \A i \in 1 .. Len(lines) : lines[i] \in LineRow
  OBVIOUS
<1>4. each \in [1 .. Len(lines) -> Int]
  BY <1>1, <1>3
<1>5. each \in Seq(Int)
  BY <1>3, <1>4
<1> HIDE DEF each
<1> QED
  BY <1>2, <1>5, TotalOfMore

-----------------------------------------------------------------------------
(* The inductive invariant.                                                 *)

\* Until an edit the order is what the checkout made of the cart and the rewards.
QuoteInv ==
    AsQuoted =>
        LET bogo == GivenAway(quote.offers)
        IN  /\ ~TakeUnits(items, quote.free).missing /\ ~TakeUnits(items, bogo).missing
            /\ validateBogoRedemptions(items, quote.offers, quote.free)
            /\ discount = quote.custom + TakeUnits(items, quote.free).price
                                       + TakeUnits(items, bogo).price
            /\ total = computeOrderTotals(Subtotal(items, quote.addons), discount, quote.rate)
            /\ freeProduct = IF quote.free = <<>> THEN None ELSE quote.free[1]

\* What points were given for: all that was free, or by a late award one gift.
EarnedInv ==
    AsQuoted /\ earned # 0 =>
        earned = earnedPointsUnitsAfterFreeUnits(items,
                     IF ~quote.late THEN Free
                     ELSE IF freeProduct = None THEN <<>> ELSE <<freeProduct>>)

IInv == TypeInv /\ QuoteInv /\ EarnedInv /\ PaymentsCoverTotal

\* What rewards make free are products ...
LEMMA FreeType ==
    ASSUME NEW redemptions \in BoundedSeq(Redemptions, MaxRewards),
           \A i \in DOMAIN redemptions : Redeemable(redemptions[i])
    PROVE  Mapped(FreeOf, redemptions) \in Seq(Products)
<1>1. PICK m \in 0 .. MaxRewards : redemptions \in [1 .. m -> Redemptions]
  BY DEF BoundedSeq, SeqOf
<1>2. m \in Nat /\ DOMAIN redemptions = 1 .. m
  BY <1>1, PricingAssumption
<1>3. \A r \in Redemptions : Redeemable(r) => FreeOf(r) \in Products
  BY PricingAssumption DEF Redemptions, Redeemable, FreeOf
<1>4. Mapped(FreeOf, redemptions) = [i \in 1 .. m |-> FreeOf(redemptions[i])]
  BY <1>2 DEF Mapped
<1>5. \A i \in 1 .. m : FreeOf(redemptions[i]) \in Products
  BY <1>1, <1>2, <1>3
<1> QED
  BY <1>2, <1>4, <1>5

\* ... and so is what offers give away, one for each.
LEMMA GivenAwayType ==
    ASSUME NEW offers \in Seq(Offers)
    PROVE  /\ GivenAway(offers) \in Seq(Products) /\ Len(GivenAway(offers)) = Len(offers)
           /\ \A i \in 1 .. Len(offers) : GivenAway(offers)[i] = Offer[offers[i]].get
<1>1. \A o \in Offers : Offer[o].get \in Products
  BY PricingAssumption
<1>2. GivenAway(offers) = [i \in 1 .. Len(offers) |-> Offer[offers[i]].get]
  BY DEF GivenAway, Mapped
<1>3. \A i \in 1 .. Len(offers) : offers[i] \in Offers
  OBVIOUS
<1>4. Len(offers) \in Nat
  OBVIOUS
<1> QED
  BY <1>1, <1>2, <1>3, <1>4

\* Offers that are asked for are offers.
LEMMA OffersType ==
    ASSUME NEW offers \in BoundedSeq(Offers, MaxRewards) PROVE offers \in Seq(Offers)
<1>1. PICK m \in 0 .. MaxRewards : offers \in [1 .. m -> Offers]
  BY DEF BoundedSeq, SeqOf
<1>2. m \in Nat
  BY <1>1, PricingAssumption
<1> QED
  BY <1>1, <1>2

\* The invariant holds at first.
LEMMA InitInv == Init => IInv
<1> SUFFICES ASSUME Init PROVE IInv
  OBVIOUS
<1>1. TypeInv
  <2>1. <<>> \in Seq(LineRow) /\ <<>> \in Seq(Int) /\ <<>> \in Seq(Products) /\ <<>> \in Seq(Offers)
    OBVIOUS
  <2>2. quote \in Quotes
    BY <2>1 DEF Init, Quotes, Quote
  <2>3. /\ status = "none" /\ items = <<>> /\ discount = 0 /\ total = 0 /\ freeProduct = None
        /\ customer = FALSE /\ payments = <<>> /\ earned = 0
    BY DEF Init
  <2>4. 0 \in Nat /\ 0 \in Int
    OBVIOUS
  <2> QED
    BY <2>1, <2>2, <2>3, <2>4 DEF TypeInv
<1> QED
  BY <1>1 DEF Init, IInv, QuoteInv, EarnedInv, AsQuoted, PaymentsCoverTotal

\* A payment that is accepted covers the total.
LEMMA AcceptedCovers ==
    ASSUME NEW x \in Int, NEW amounts \in Seq(Int), resolvePaymentLines(amounts, x)
    PROVE  Total(amounts) - x \in
             IF Len(amounts) = 1 THEN -(Cent \div 2) .. Cent \div 2
             ELSE -((5 * Cent) \div 2) .. (5 * Cent) \div 2
<1> DEFINE r == roundMoney(x)
<1>1. r \in Int /\ r - x \in -50 .. 50
  BY RoundingIsFine
<1>2. Cent \div 2 = 50 /\ (5 * Cent) \div 2 = 250 /\ 2 * Cent = 200 /\ -2 * Cent = -200
  BY DEF Cent
<1>3. resolvePaymentLines(amounts, x) <=> amounts = <<r>> \/ SplitAccepted(amounts, r)
  BY DEF resolvePaymentLines
<1> HIDE DEF r
<1>4. Total(amounts) \in Int /\ Total(<<r>>) = r
  BY <1>1, TotalOfOne, TotalOfMore
<1>5. CASE amounts = <<r>>
  BY <1>1, <1>2, <1>4, <1>5
<1>6. CASE SplitAccepted(amounts, r)
  <2>1. Len(amounts) >= 2 /\ Total(amounts) - r \in -200 .. 200
    BY <1>2, <1>6 DEF SplitAccepted
  <2>2. Len(amounts) # 1
    <3>1. Len(amounts) \in Nat
      OBVIOUS
    <3>2. Len(amounts) >= 2
      BY <1>6 DEF SplitAccepted
    <3>3. \A k \in Nat : k >= 2 => k # 1
      OBVIOUS
    <3> QED
      BY <3>1, <3>2, <3>3
  <2> DEFINE t == Total(amounts)
  <2>t. t \in Int
    BY <1>4
  <2>4. t - r \in -200 .. 200
    BY <2>1
  <2> HIDE DEF t
  <2>5. t - x \in -250 .. 250
    BY <1>1, <2>t, <2>4
  <2>3. Total(amounts) - x \in -250 .. 250
    BY <2>5 DEF t
  <2> QED
    BY <1>2, <2>2, <2>3
<1> QED
  BY <1>3, <1>5, <1>6

\* The checkout keeps it.
LEMMA CreateInv == IInv /\ Create => IInv'
<1> SUFFICES ASSUME IInv, Create PROVE IInv'
  OBVIOUS
<1>1. PICK lines \in Carts, redemptions \in BoundedSeq(Redemptions, MaxRewards),
           offers \in BoundedSeq(Offers, MaxRewards), deferred \in BOOLEAN :
        RewardsAccepted(lines, redemptions, offers) /\ Checkout(lines, redemptions, offers, deferred)
  BY DEF Create
<1> DEFINE free == Mapped(FreeOf, redemptions)
           bogo == GivenAway(offers)
<1>2. PICK custom \in Discounts, addons \in AddonSums, setting \in TaxSettings :
        /\ discount' = custom + TakeUnits(lines, free).price + TakeUnits(lines, bogo).price
        /\ total' = computeOrderTotals(Subtotal(lines, addons), discount', resolveTaxRatePct(setting))
        /\ quote' = Quote(custom, addons, resolveTaxRatePct(setting), free, offers)
  BY <1>1 DEF Checkout
<1> DEFINE rate == resolveTaxRatePct(setting)
<1>3. /\ payments' \in {<<roundMoney(total')>>}
             \cup {<<Cent * part, roundMoney(total') + Cent * (skew - part)>> :
                     part \in Parts, skew \in Skews}
      /\ resolvePaymentLines(payments', total')
      /\ status' = IF deferred THEN "PENDING" ELSE "COMPLETED"
      /\ items' = lines
      /\ freeProduct' = IF free = <<>> THEN None ELSE free[1]
      /\ customer' \in BOOLEAN
      /\ earned' = IF customer' /\ ~deferred THEN CheckoutPoints(lines, free, bogo) ELSE 0
  BY <1>1 DEF Checkout
<1>4. /\ \A i \in DOMAIN redemptions : Redeemable(redemptions[i])
      /\ ~TakeUnits(lines, free).missing /\ ~TakeUnits(lines, bogo).missing
      /\ validateBogoRedemptions(lines, offers, free)
  BY <1>1 DEF RewardsAccepted
<1>5. lines \in Seq(LineRow) /\ offers \in Seq(Offers) /\ free \in Seq(Products) /\ bogo \in Seq(Products)
  BY <1>4, CartType, OffersType, FreeType, GivenAwayType
<1> HIDE DEF free, bogo
<1>6. custom \in Nat /\ addons \in Nat /\ rate \in Nat
  BY PricingAssumption, RateType
<1> HIDE DEF rate
<1>7. TakeUnits(lines, free) \in Taken /\ TakeUnits(lines, bogo) \in Taken
  BY <1>5, TakeUnitsType
<1>8. discount' \in Nat
  BY <1>2, <1>6, <1>7 DEF Taken
<1>9. total' \in Int
  <2>1. total' = computeOrderTotals(Subtotal(lines, addons), discount', rate)
    BY <1>2 DEF rate
  <2> QED
    BY <1>5, <1>6, <1>8, <2>1, SubtotalType, TotalsType
<1>10. payments' \in Seq(Int)
  <2>1. roundMoney(total') \in Int
    BY <1>9, RoundingIsFine
  <2>2. \A part \in Parts, skew \in Skews :
           Cent * part \in Int /\ roundMoney(total') + Cent * (skew - part) \in Int
    BY <2>1, PricingAssumption DEF Cent
  <2>3. \A x, y \in Int : <<x>> \in Seq(Int) /\ <<x, y>> \in Seq(Int)
    OBVIOUS
  <2>4. CASE payments' = <<roundMoney(total')>>
    BY <2>1, <2>3, <2>4
  <2>5. ASSUME NEW part \in Parts, NEW skew \in Skews,
               payments' = <<Cent * part, roundMoney(total') + Cent * (skew - part)>>
        PROVE  payments' \in Seq(Int)
    BY <2>2, <2>3, <2>5
  <2> QED
    BY <1>3, <2>4, <2>5
<1>11. free \o bogo \in Seq(Products)
  BY <1>5
<1>12. CheckoutPoints(lines, free, bogo) \in Int
  <2>1. TakeUnits(lines, free \o bogo) \in Taken
    BY <1>5, <1>11, TakeUnitsType
  <2> QED
    BY <2>1, PointsType DEF CheckoutPoints, earnedPointsUnitsAfterFreeUnits, Taken
<1>13. quote' = [custom |-> custom, addons |-> addons, rate |-> rate, free |-> free,
                 offers |-> offers, late |-> FALSE, edited |-> FALSE]
  BY <1>2 DEF rate, Quote
<1>14. TypeInv'
  <2>1. status' \in {"none", "PENDING", "COMPLETED"}
    BY <1>3
  <2>2. freeProduct' \in Products \cup {None}
    BY <1>3, <1>5
  <2>3. earned' \in Int
    BY <1>3, <1>12
  <2>4. quote' \in Quotes
    BY <1>5, <1>6, <1>13 DEF Quotes
  <2> QED
    BY <1>3, <1>5, <1>8, <1>9, <1>10, <2>1, <2>2, <2>3, <2>4 DEF TypeInv
<1>15. /\ quote'.custom = custom /\ quote'.addons = addons /\ quote'.rate = rate
       /\ quote'.free = free /\ quote'.offers = offers /\ quote'.late = FALSE
       /\ quote'.edited = FALSE
  BY <1>13
<1>16. QuoteInv'
  <2>1. /\ discount' = custom + TakeUnits(lines, free).price + TakeUnits(lines, bogo).price
        /\ total' = computeOrderTotals(Subtotal(lines, addons), discount', rate)
    BY <1>2 DEF rate
  <2> QED
    BY <1>3, <1>4, <1>15, <2>1 DEF QuoteInv, bogo
<1>17. EarnedInv'
  <2>1. Free' = free \o bogo
    BY <1>15 DEF Free, bogo
  <2>2. earned' # 0 => earned' = earnedPointsUnitsAfterFreeUnits(lines, free \o bogo)
    BY <1>3 DEF CheckoutPoints
  <2> QED
    BY <1>3, <1>15, <2>1, <2>2 DEF EarnedInv
<1>18. PaymentsCoverTotal'
  BY <1>3, <1>9, <1>10, AcceptedCovers DEF PaymentsCoverTotal
<1> QED
  BY <1>14, <1>16, <1>17, <1>18 DEF IInv

\* An edit keeps it.
LEMMA UpdateInv == IInv /\ Update => IInv'
<1> SUFFICES ASSUME IInv, Update PROVE IInv'
  OBVIOUS
<1>1. PICK lines \in EditCarts, addons \in AddonSums, setting \in TaxSettings :
        /\ discount' \in Discounts \cup {discount}
        /\ items' = lines
        /\ total' = computeOrderTotals(Subtotal(lines, addons), discount', resolveTaxRatePct(setting))
  BY DEF Update
<1>2. /\ payments' = IF Len(payments) = 1 THEN <<total'>> ELSE payments
      /\ customer' \in BOOLEAN
      /\ quote' = [quote EXCEPT !.edited = TRUE]
      /\ status' = status /\ freeProduct' = freeProduct /\ earned' = earned
  BY DEF Update, syncOrderTransactionsAfterEdit
<1>3. TypeInv
  BY DEF IInv
<1>4. lines \in Seq(LineRow) /\ addons \in Nat /\ resolveTaxRatePct(setting) \in Nat
  BY CartType, RateType, PricingAssumption
<1>5. discount' \in Nat
  BY <1>1, <1>3, PricingAssumption DEF TypeInv
<1>6. total' \in Int
  BY <1>1, <1>4, <1>5, SubtotalType, TotalsType
<1>7. quote' \in Quotes /\ quote'.edited = TRUE
  BY <1>2, <1>3 DEF TypeInv, Quotes
<1>8. payments' \in Seq(Int)
  BY <1>2, <1>3, <1>6 DEF TypeInv
<1>9. TypeInv'
  BY <1>1, <1>2, <1>3, <1>4, <1>5, <1>6, <1>7, <1>8 DEF TypeInv
<1>10. ~AsQuoted'
  BY <1>7 DEF AsQuoted
<1>11. PaymentsCoverTotal'
  <2> SUFFICES ASSUME Len(payments') = 1
               PROVE  Total(payments') - total' \in -(Cent \div 2) .. Cent \div 2
    BY <1>7 DEF PaymentsCoverTotal
  <2>1. payments' = <<total'>>
    BY <1>2
  <2>2. Total(payments') = total' /\ Cent \div 2 = 50
    BY <1>6, <2>1, TotalOfOne DEF Cent
  <2> QED
    BY <1>6, <2>2
<1> QED
  BY <1>9, <1>10, <1>11 DEF IInv, QuoteInv, EarnedInv

\* The deferred award keeps it.
LEMMA UpdateStatusInv == IInv /\ UpdateStatus => IInv'
<1> SUFFICES ASSUME IInv, UpdateStatus PROVE IInv'
  OBVIOUS
<1>1. /\ status # "none" /\ status' \in {"PENDING", "COMPLETED"}
      /\ items' = items /\ discount' = discount /\ total' = total /\ freeProduct' = freeProduct
      /\ customer' = customer /\ payments' = payments
  BY DEF UpdateStatus
<1>2. TypeInv /\ QuoteInv /\ EarnedInv /\ PaymentsCoverTotal
  BY DEF IInv
<1> DEFINE gift == IF freeProduct = None THEN <<>> ELSE <<freeProduct>>
<1>3. \/ earned' = earned /\ quote' = quote
      \/ /\ earned = 0 /\ earned' = earnedPointsUnitsAfterFreeUnits(items, gift)
         /\ quote' = [quote EXCEPT !.late = TRUE]
  BY DEF UpdateStatus, tryAwardDeferredLoyaltyPoints
<1>4. earnedPointsUnitsAfterFreeUnits(items, gift) \in Int
  <2>1. items \in Seq(LineRow) /\ gift \in Seq(Products)
    BY <1>2 DEF TypeInv
  <2> HIDE DEF gift
  <2>2. TakeUnits(items, gift) \in Taken
    BY <2>1, TakeUnitsType
  <2> QED
    BY <2>2, PointsType DEF earnedPointsUnitsAfterFreeUnits, Taken
<1>5. /\ quote' \in Quotes
      /\ quote'.custom = quote.custom /\ quote'.addons = quote.addons /\ quote'.rate = quote.rate
      /\ quote'.free = quote.free /\ quote'.offers = quote.offers /\ quote'.edited = quote.edited
      /\ quote' = quote \/ quote'.late = TRUE
  BY <1>2, <1>3 DEF TypeInv, Quotes
<1>6. TypeInv'
  <2>1. earned' \in Int
    BY <1>2, <1>3, <1>4 DEF TypeInv
  <2> QED
    BY <1>1, <1>2, <1>5, <2>1 DEF TypeInv
<1>7. AsQuoted' = AsQuoted
  BY <1>1, <1>5 DEF AsQuoted
<1>8. QuoteInv'
  BY <1>1, <1>2, <1>5, <1>7 DEF QuoteInv
<1>9. EarnedInv'
  <2>1. CASE earned' = earned /\ quote' = quote
    BY <1>1, <1>2, <1>7, <2>1 DEF EarnedInv, Free
  <2>2. CASE /\ earned' = earnedPointsUnitsAfterFreeUnits(items, gift)
             /\ quote' = [quote EXCEPT !.late = TRUE]
    <3>1. quote'.late = TRUE
      BY <1>2, <2>2 DEF TypeInv, Quotes
    <3> QED
      BY <1>1, <2>2, <3>1 DEF EarnedInv
  <2> QED
    BY <1>3, <2>1, <2>2
<1>10. PaymentsCoverTotal'
  BY <1>1, <1>2, <1>5 DEF PaymentsCoverTotal
<1> QED
  BY <1>6, <1>8, <1>9, <1>10 DEF IInv

\* IInv holds in every state.
THEOREM Inductive == Spec => []IInv
<1>1. Init => IInv
  BY InitInv
<1>2. IInv /\ [Next]_vars => IInv'
  <2>1. IInv /\ UNCHANGED vars => IInv'
    <3> SUFFICES ASSUME IInv, UNCHANGED vars PROVE IInv'
      OBVIOUS
    <3>1. TypeInv /\ QuoteInv /\ EarnedInv /\ PaymentsCoverTotal
      BY DEF IInv
    <3> QED
      BY <3>1 DEF vars, IInv, TypeInv, QuoteInv, EarnedInv, PaymentsCoverTotal, AsQuoted, Free
  <2> QED
    BY <2>1, CreateInv, UpdateInv, UpdateStatusInv DEF Next
<1> QED
  BY <1>1, <1>2, PTL DEF Spec

\* The payment rows add up to the total: a single one to half a cent, also after edits;
\* several to two and a half cents, until the order is edited.
THEOREM PaymentsCoverTotalHolds == Spec => []PaymentsCoverTotal
<1>1. IInv => PaymentsCoverTotal
  BY DEF IInv
<1> QED
  BY <1>1, Inductive, PTL

-----------------------------------------------------------------------------
(* What the properties say in these terms.                                  *)
LEMMA TimesOfBoth ==
    ASSUME NEW s \in Seq(Products), NEW t \in Seq(Products), NEW p
    PROVE  Times(s \o t, p) = Times(s, p) + Times(t, p)
<1> DEFINE A == {u \in Seq(Products) : Times(s \o u, p) = Times(s, p) + Times(u, p)}
<1>0. \A u \in Seq(Products) : Times(u, p) \in Nat
  BY TimesType
<1>1. <<>> \in A
  <2>1. s \o <<>> = s /\ <<>> \in Seq(Products)
    OBVIOUS
  <2> QED
    BY <1>0, <2>1, TimesOfNone
<1>2. ASSUME NEW u \in Seq(Products), u \in A, NEW x \in Products PROVE Append(u, x) \in A
  <2>1. s \o Append(u, x) = Append(s \o u, x)
    <3> HIDE DEF A
    <3> QED
      BY ConcatMore
  <2>2. s \o u \in Seq(Products) /\ Append(u, x) \in Seq(Products)
    OBVIOUS
  <2>3. Times(s \o u, p) = Times(s, p) + Times(u, p)
    BY <1>2
  <2> HIDE DEF A
  <2> DEFINE d == IF x = p THEN 1 ELSE 0
  <2>4. Times(Append(s \o u, x), p) = Times(s \o u, p) + d
    <3> DEFINE v == s \o u
    <3>1. v \in Seq(Products)
      BY <2>2
    <3> HIDE DEF v
    <3>2. Times(Append(v, x), p) = Times(v, p) + d
      BY <3>1, TimesOfMore
    <3> QED
      BY <3>2 DEF v
  <2>5. Times(Append(u, x), p) = Times(u, p) + d
    BY TimesOfMore
  <2>6. d \in Nat
    OBVIOUS
  <2> HIDE DEF d
  <2>7. Times(s, p) \in Nat /\ Times(u, p) \in Nat
    BY <1>0
  <2>8. Times(s \o Append(u, x), p) = Times(s, p) + Times(Append(u, x), p)
    BY <2>1, <2>3, <2>4, <2>5, <2>6, <2>7
  <2> QED
    BY <2>2, <2>8 DEF A
<1>3. \A u \in Seq(Products) : u \in A
  <2> HIDE DEF A
  <2> QED
    BY <1>1, <1>2, SeqInduction
<1> QED
  BY <1>3

\* What does not occur occurs zero times.
LEMMA NotAmong ==
    ASSUME NEW S, NEW seq \in Seq(S), NEW p, \A i \in 1 .. Len(seq) : seq[i] # p
    PROVE  Times(seq, p) = 0
<1>1. DOMAIN seq = 1 .. Len(seq)
  OBVIOUS
<1>2. {i \in DOMAIN seq : seq[i] = p} = {}
  BY <1>1
<1> QED
  BY <1>2, FS_EmptySet DEF Times

\* The range of a sequence.
LEMMA RangeIs ==
    ASSUME NEW S, NEW seq \in Seq(S)
    PROVE  Range(seq) = {seq[i] : i \in 1 .. Len(seq)}
<1>1. DOMAIN seq = 1 .. Len(seq)
  OBVIOUS
<1> QED
  BY <1>1 DEF Range

\* Worth in prices.
Price == [x \in Nat |-> x]

\* With a unit worth its price, the worth of lines is the subtotal without add-ons.
LEMMA PriceIs ==
    /\ Price \in [Nat -> Nat]
    /\ \A s \in Seq(Nat) : Worth(Price, s) = Total(s)
    /\ \A lines \in Seq(LineRow), addons \in Nat :
          Subtotal(lines, addons) = LinesWorth(Price, lines) + addons
<1>1. Price \in [Nat -> Nat] /\ \A x \in Nat : Price[x] = x
  BY DEF Price
<1>2. ASSUME NEW s \in Seq(Nat) PROVE Worth(Price, s) = Total(s)
  <2>1. \A i \in 1 .. Len(s) : Price[s[i]] = s[i]
    BY <1>1, ElementOfSeq
  <2>2. s = [i \in 1 .. Len(s) |-> s[i]]
    OBVIOUS
  <2>3. Weigh(Price, s) = s
    BY <2>1, <2>2 DEF Weigh
  <2> QED
    BY <2>3 DEF Worth
<1>3. ASSUME NEW lines \in Seq(LineRow), NEW addons \in Nat
      PROVE  Subtotal(lines, addons) = LinesWorth(Price, lines) + addons
  <2>1. DOMAIN lines = 1 .. Len(lines)
    OBVIOUS
  <2>2. Subtotal(lines, addons)
          = Total([i \in DOMAIN lines |-> lines[i].price * lines[i].quantity]) + addons
    BY DEF Subtotal, Mapped
  <2>3. \A i \in 1 .. Len(lines) : Price[lines[i].price] = lines[i].price
    <3>1. \A i \in 1 .. Len(lines) : lines[i] \in LineRow
      BY ElementOfSeq
    <3>2. \A l \in LineRow : l.price \in Nat
      BY DEF LineRow
    <3> QED
      BY <1>1, <3>1, <3>2
  <2>4. Priced(Price, lines) = [i \in DOMAIN lines |-> lines[i].price * lines[i].quantity]
    BY <2>1, <2>3 DEF Priced
  <2> QED
    BY <2>2, <2>4 DEF LinesWorth
<1> QED
  BY <1>1, <1>2, <1>3

\* In points.
Points == [x \in Nat |-> earnedPointsPerUnit(x)]

\* With a unit worth its points, the worth of lines is the points they earn.
LEMMA PointsIs ==
    /\ Points \in [Nat -> Nat] /\ \A x \in Nat : Points[x] <= 2
    /\ \A s \in Seq(Nat) : Worth(Points, s) = Total(Mapped(earnedPointsPerUnit, s))
    /\ \A lines \in Seq(LineRow) : earnedPointsUnitsFromItems(lines) = LinesWorth(Points, lines)
<1>1. \A x \in Nat : earnedPointsPerUnit(x) \in Nat /\ earnedPointsPerUnit(x) <= 2
  BY DEF earnedPointsPerUnit, Cent
<1>2. /\ Points \in [Nat -> Nat] /\ \A x \in Nat : Points[x] <= 2
      /\ \A x \in Nat : Points[x] = earnedPointsPerUnit(x)
  BY <1>1 DEF Points
<1>3. ASSUME NEW s \in Seq(Nat) PROVE Worth(Points, s) = Total(Mapped(earnedPointsPerUnit, s))
  <2>1. \A i \in 1 .. Len(s) : Points[s[i]] = earnedPointsPerUnit(s[i])
    BY <1>2, ElementOfSeq
  <2>2. DOMAIN s = 1 .. Len(s)
    OBVIOUS
  <2>3. Weigh(Points, s) = Mapped(earnedPointsPerUnit, s)
    BY <2>1, <2>2 DEF Weigh, Mapped
  <2> QED
    BY <2>3 DEF Worth
<1>4. ASSUME NEW lines \in Seq(LineRow)
      PROVE  earnedPointsUnitsFromItems(lines) = LinesWorth(Points, lines)
  <2>1. DOMAIN lines = 1 .. Len(lines)
    OBVIOUS
  <2>2. earnedPointsUnitsFromItems(lines)
          = Total([i \in DOMAIN lines |->
                     earnedPointsPerUnit(lines[i].price) * Max2(lines[i].quantity, 0)])
    BY DEF earnedPointsUnitsFromItems, Mapped
  <2>3. \A i \in 1 .. Len(lines) : /\ Points[lines[i].price] = earnedPointsPerUnit(lines[i].price)
                                   /\ Max2(lines[i].quantity, 0) = lines[i].quantity
    <3>1. \A i \in 1 .. Len(lines) : lines[i] \in LineRow
      BY ElementOfSeq
    <3>2. \A l \in LineRow : l.price \in Nat /\ l.quantity \in Nat
      BY DEF LineRow
    <3>3. \A n \in Nat : Max2(n, 0) = n
      BY DEF Max2
    <3> QED
      BY <1>2, <3>1, <3>2, <3>3
  <2>4. Priced(Points, lines)
          = [i \in DOMAIN lines |-> earnedPointsPerUnit(lines[i].price) * Max2(lines[i].quantity, 0)]
    BY <2>1, <2>3 DEF Priced
  <2> QED
    BY <2>2, <2>4 DEF LinesWorth
<1> QED
  BY <1>2, <1>3, <1>4

\* In units.
One == [x \in Nat |-> 1]

\* With a unit worth 1, the worth is the number of units.
LEMMA OneIs ==
    /\ One \in [Nat -> Nat] /\ \A x \in Nat : One[x] <= 1
    /\ \A s \in Seq(Nat) : Worth(One, s) = Len(s)
<1>1. One \in [Nat -> Nat] /\ \A x \in Nat : One[x] = 1
  BY DEF One
<1> DEFINE A == {s \in Seq(Nat) : Worth(One, s) = Len(s)}
<1>2. <<>> \in A
  <2>1. <<>> \in Seq(Nat) /\ Len(<<>>) = 0
    OBVIOUS
  <2> QED
    BY <2>1, WorthOfNone
<1>3. ASSUME NEW s \in Seq(Nat), s \in A, NEW x \in Nat PROVE Append(s, x) \in A
  <2>1. Worth(One, Append(s, x)) = Worth(One, s) + One[x]
    BY <1>1, WorthOfMore
  <2>2. One[x] = 1 /\ Worth(One, s) = Len(s)
    BY <1>1, <1>3
  <2>3. Append(s, x) \in Seq(Nat) /\ Len(Append(s, x)) = Len(s) + 1
    OBVIOUS
  <2>4. Worth(One, Append(s, x)) = Len(Append(s, x))
    BY <2>1, <2>2, <2>3
  <2> QED
    BY <2>3, <2>4
<1>4. \A s \in Seq(Nat) : s \in A
  <2> HIDE DEF A
  <2> QED
    BY <1>2, <1>3, SeqInduction
<1>5. \A x \in Nat : One[x] <= 1
  BY <1>1
<1> QED
  BY <1>1, <1>4, <1>5

\* The worth of the units that are left is that of the lines TakeUnits leaves.
LEMMA RestWorth ==
    ASSUME NEW w \in [Nat -> Nat], NEW lines \in Seq(LineRow), NEW seq \in Seq(Products)
    PROVE  LinesWorth(w, TakeUnits(lines, seq).lines)
             = SumFunction([p \in Products |-> Worth(w, Rest(UnitsIn(lines, p), Times(seq, p)))])
<1> DEFINE left == TakeUnits(lines, seq).lines
<1>1. left \in Seq(LineRow)
  BY TakeUnitsType DEF Taken
<1>2. \A p \in Products : UnitsIn(left, p) = Rest(UnitsIn(lines, p), Times(seq, p))
  BY TakenRightAlways DEF TakenRight
<1> HIDE DEF left
<1>3. WorthPer(w, left) = [p \in Products |-> Worth(w, Rest(UnitsIn(lines, p), Times(seq, p)))]
  BY <1>2 DEF WorthPer
<1>4. LinesWorth(w, left) = SumFunction(WorthPer(w, left))
  BY <1>1, LinesWorthSum
<1> QED
  BY <1>3, <1>4 DEF left

\* What is free in the order is typed, and counted by product.
LEMMA FreeIs ==
    ASSUME TypeInv
    PROVE  /\ quote.free \in Seq(Products) /\ quote.offers \in Seq(Offers)
           /\ GivenAway(quote.offers) \in Seq(Products) /\ Free \in Seq(Products)
           /\ quote.custom \in Nat /\ quote.addons \in Nat /\ quote.rate \in Nat
           /\ \A p : /\ Times(quote.free, p) \in Nat /\ Times(GivenAway(quote.offers), p) \in Nat
                     /\ Times(Free, p) = Times(quote.free, p) + Times(GivenAway(quote.offers), p)
<1>1. /\ quote.free \in Seq(Products) /\ quote.offers \in Seq(Offers)
      /\ quote.custom \in Nat /\ quote.addons \in Nat /\ quote.rate \in Nat
  BY DEF TypeInv, Quotes
<1>2. GivenAway(quote.offers) \in Seq(Products)
  BY <1>1, GivenAwayType
<1> DEFINE a == quote.free
           b == GivenAway(quote.offers)
<1>3. a \in Seq(Products) /\ b \in Seq(Products) /\ Free = a \o b
  BY <1>1, <1>2 DEF Free
<1> HIDE DEF a, b
<1>4. Free \in Seq(Products)
  BY <1>3
<1>5. \A p : Times(a, p) \in Nat /\ Times(b, p) \in Nat /\ Times(a \o b, p) = Times(a, p) + Times(b, p)
  BY <1>3, TimesType, TimesOfBoth
<1> QED
  BY <1>1, <1>2, <1>3, <1>4, <1>5 DEF a, b

\* The reference lists the units of the order's lines.
LEMMA UnitsOfItems ==
    ASSUME TypeInv
    PROVE  \A p \in Products : UnitsOf(p) = UnitsIn(items, p) /\ UnitsIn(items, p) \in Seq(Nat)
<1>1. items \in Seq(LineRow)
  BY DEF TypeInv
<1> QED
  BY <1>1, WorthPerType, OneIs DEF UnitsOf

\* What is left of the bill when two rewards are taken off.
LEMMA RestOfTheBill ==
    ASSUME NEW E \in Int, NEW W \in Int, NEW W1 \in Int, NEW W2 \in Int, NEW p1 \in Int,
           NEW p2 \in Int, NEW ad \in Int, NEW cu \in Int,
           E + W = W1 + W2, p1 + W1 = W, p2 + W2 = W
    PROVE  (W + ad) - (cu + p1 + p2) = E + ad - cu
<1> QED
  OBVIOUS

\* BuyersPayForTheRest is a matter of the state.
LEMMA BuyersPay == TypeInv /\ QuoteInv => BuyersPayForTheRest
<1> SUFFICES ASSUME TypeInv, QuoteInv, AsQuoted PROVE BuyersPayForTheRest
  BY DEF BuyersPayForTheRest
<1> DEFINE bogo == GivenAway(quote.offers)
           left(s) == TakeUnits(items, s).lines
           rest == SumOver(LAMBDA p : Total(PaidUnits(Free, p))) + quote.addons - quote.custom
<1>1. items \in Seq(LineRow)
  BY DEF TypeInv
<1>2. /\ quote.free \in Seq(Products) /\ bogo \in Seq(Products) /\ Free \in Seq(Products)
      /\ quote.custom \in Nat /\ quote.addons \in Nat /\ quote.rate \in Nat
      /\ \A p : /\ Times(quote.free, p) \in Nat /\ Times(bogo, p) \in Nat
                /\ Times(Free, p) = Times(quote.free, p) + Times(bogo, p)
  BY FreeIs
<1>3. /\ ~TakeUnits(items, quote.free).missing /\ ~TakeUnits(items, bogo).missing
      /\ discount = quote.custom + TakeUnits(items, quote.free).price + TakeUnits(items, bogo).price
      /\ total = computeOrderTotals(Subtotal(items, quote.addons), discount, quote.rate)
  BY DEF QuoteInv
<1>4. TakenRight(items, quote.free) /\ TakenRight(items, bogo)
  BY <1>1, <1>2, TakenRightAlways
<1>5. \A p \in Products : UnitsOf(p) = UnitsIn(items, p) /\ UnitsIn(items, p) \in Seq(Nat)
  BY UnitsOfItems
<1>6. \A p \in Products : Max2(Times(quote.free, p), Times(bogo, p)) <= Len(UnitsOf(p))
  BY <1>3, <1>4, <1>5 DEF TakenRight, Max2
<1>7. ASSUME Range(quote.free) \cap Range(bogo) = {}
      PROVE  total = Max2(rest, 0) * (100 + quote.rate)
  <2> DEFINE e == [p \in Products |-> Total(PaidUnits(Free, p))]
             k == WorthPer(Price, items)
             f == WorthPer(Price, left(quote.free))
             h == WorthPer(Price, left(bogo))
  <2>1. left(quote.free) \in Seq(LineRow) /\ left(bogo) \in Seq(LineRow)
    BY <1>1, <1>2, TakeUnitsType DEF Taken
  <2>2. k \in [Products -> Int] /\ f \in [Products -> Int] /\ h \in [Products -> Int]
    <3> HIDE DEF left
    <3> QED
      BY <1>1, <2>1, PriceIs, WorthPerType
  <2>3. ASSUME NEW p \in Products
        PROVE  e[p] \in Int /\ e[p] + k[p] = f[p] + h[p]
    <3> DEFINE u == UnitsIn(items, p)
               m == Times(quote.free, p)
               n == Times(bogo, p)
    <3>1. u \in Seq(Nat) /\ m \in Nat /\ n \in Nat
      BY <1>2, <1>5
    <3>2. e[p] = Total(Rest(u, m + n))
      BY <1>2, <1>5 DEF PaidUnits, Rest
    <3>3. k[p] = Worth(Price, u)
      BY DEF WorthPer
    <3>4. f[p] = Worth(Price, Rest(u, m))
      BY <1>4 DEF WorthPer, TakenRight
    <3>5. h[p] = Worth(Price, Rest(u, n))
      BY <1>4 DEF WorthPer, TakenRight
    <3>6. m = 0 \/ n = 0
      <4>1. CASE p \notin Range(quote.free)
        <5>1. \A i \in 1 .. Len(quote.free) : quote.free[i] # p
          BY <1>2, <4>1, RangeIs
        <5> QED
          BY <1>2, <5>1, NotAmong
      <4>2. CASE p \notin Range(bogo)
        <5>1. \A i \in 1 .. Len(bogo) : bogo[i] # p
          BY <1>2, <4>2, RangeIs
        <5> QED
          BY <1>2, <5>1, NotAmong
      <4> QED
        BY <1>7, <4>1, <4>2
    <3> HIDE DEF u, m, n, e, k, f, h
    <3>7. /\ Rest(u, m) \in Seq(Nat) /\ Rest(u, n) \in Seq(Nat) /\ Rest(u, m + n) \in Seq(Nat)
          /\ Rest(u, 0) = u
      <4>1. m + n \in Nat
        BY <3>1
      <4> QED
        BY <3>1, <4>1, RestType
    <3>8. Total(Rest(u, m + n)) = Worth(Price, Rest(u, m + n))
      BY <3>7, PriceIs
    <3>9. \A s \in Seq(Nat) : Worth(Price, s) \in Int
      BY PriceIs, WorthType
    <3>10. e[p] = Worth(Price, Rest(u, m + n)) /\ e[p] \in Int
      BY <3>2, <3>7, <3>8, <3>9
    <3>11. CASE m = 0
      <4>1. m + n = n /\ f[p] = Worth(Price, u)
        BY <3>1, <3>4, <3>7, <3>11
      <4>2. e[p] = h[p] /\ f[p] = k[p] /\ h[p] \in Int /\ k[p] \in Int
        BY <3>1, <3>3, <3>5, <3>7, <3>9, <3>10, <4>1
      <4>3. e[p] + k[p] = f[p] + h[p]
        BY <4>2
      <4> QED
        BY <3>10, <4>3
    <3>12. CASE n = 0
      <4>1. m + n = m /\ h[p] = Worth(Price, u)
        BY <3>1, <3>5, <3>7, <3>12
      <4>2. e[p] = f[p] /\ h[p] = k[p]
        BY <3>3, <3>4, <3>10, <4>1
      <4>3. e[p] + k[p] = f[p] + h[p]
        BY <4>2
      <4> QED
        BY <3>10, <4>3
    <3> QED
      BY <3>6, <3>11, <3>12
  <2>4. e \in [Products -> Int]
    BY <2>3
  <2>5. SumFunction(k) = LinesWorth(Price, items)
    BY <1>1, PriceIs, LinesWorthSum
  <2>6. /\ SumFunction(f) = LinesWorth(Price, left(quote.free))
        /\ SumFunction(h) = LinesWorth(Price, left(bogo))
    <3> HIDE DEF left
    <3> QED
      BY <2>1, PriceIs, LinesWorthSum
  <2>7. SumOver(LAMBDA p : Total(PaidUnits(Free, p))) = SumFunction(e)
    BY DEF SumOver
  <2>8. /\ TakeUnits(items, quote.free).price + LinesWorth(Price, left(quote.free)) = LinesWorth(Price, items)
        /\ TakeUnits(items, bogo).price + LinesWorth(Price, left(bogo)) = LinesWorth(Price, items)
    BY <1>4 DEF TakenRight, Price
  <2>9. TakeUnits(items, quote.free).price \in Nat /\ TakeUnits(items, bogo).price \in Nat
    BY <1>1, <1>2, TakeUnitsType DEF Taken
  <2> HIDE DEF e, k, f, h
  <2>10. SumFunction(e) + SumFunction(k) = SumFunction(f) + SumFunction(h)
    <3>1. IsFiniteSet(Products)
      BY PricingAssumption
    <3> QED
      BY <2>2, <2>3, <2>4, <3>1, SumOfFour
  <2>11. SumFunction(e) \in Int
    <3>1. IsFiniteSet(Products)
      BY PricingAssumption
    <3> QED
      BY <2>4, <3>1, SumType
  <2> DEFINE E == SumFunction(e)
             W == LinesWorth(Price, items)
             W1 == LinesWorth(Price, left(quote.free))
             W2 == LinesWorth(Price, left(bogo))
             p1 == TakeUnits(items, quote.free).price
             p2 == TakeUnits(items, bogo).price
  <2>12. W \in Int /\ W1 \in Int /\ W2 \in Int
    <3> HIDE DEF left
    <3> QED
      BY <1>1, <2>1, PriceIs, LinesWorthType
  <2>13. /\ E \in Int /\ E + W = W1 + W2 /\ p1 + W1 = W /\ p2 + W2 = W
         /\ p1 \in Nat /\ p2 \in Nat /\ discount = quote.custom + p1 + p2
         /\ rest = E + quote.addons - quote.custom
    BY <1>3, <2>5, <2>6, <2>7, <2>8, <2>9, <2>10, <2>11
  <2>14. Subtotal(items, quote.addons) = W + quote.addons
    BY <1>1, <1>2, PriceIs
  <2> HIDE DEF E, W, W1, W2, p1, p2, rest
  <2>15. Subtotal(items, quote.addons) - discount = rest
    <3> DEFINE ad == quote.addons
               cu == quote.custom
    <3>1. /\ ad \in Int /\ cu \in Int /\ discount = cu + p1 + p2 /\ rest = E + ad - cu
          /\ Subtotal(items, quote.addons) = W + ad
      BY <1>2, <2>13, <2>14
    <3> HIDE DEF ad, cu
    <3>2. (W + ad) - (cu + p1 + p2) = E + ad - cu
      <4>1. p1 \in Int /\ p2 \in Int
        BY <2>13
      <4> QED
        BY <2>12, <2>13, <3>1, <4>1, RestOfTheBill
    <3> QED
      BY <3>1, <3>2
  <2> QED
    BY <1>3, <2>15 DEF computeOrderTotals
<1> HIDE DEF rest, bogo
<1> QED
  BY <1>6, <1>7 DEF BuyersPayForTheRest, rest, bogo

\* At checkout the buyer pays, with tax, for the add-ons and every unit that no reward
\* makes free, less the cashier's discount; and a reward is always for a unit of the
\* cart (without a claim on the price when two rewards give the same product away).
THEOREM BuyersPayForTheRestHolds == Spec => []BuyersPayForTheRest
<1>1. IInv => BuyersPayForTheRest
  BY BuyersPay DEF IInv
<1> QED
  BY <1>1, Inductive, PTL

\* Concatenation is associative.
LEMMA ConcatThree ==
    ASSUME NEW s \in Seq(Products), NEW t \in Seq(Products), NEW u \in Seq(Products)
    PROVE  (s \o t) \o u = s \o (t \o u)
  OBVIOUS

\* The first of a sequence, and what follows with another.
LEMMA FirstAndMore ==
    ASSUME NEW s \in Seq(Products), s # <<>>, NEW t \in Seq(Products)
    PROVE  /\ <<s[1]>> \in Seq(Products) /\ Tail(s) \o t \in Seq(Products)
           /\ Len(Tail(s) \o t) = Len(s) - 1 + Len(t)
           /\ s \o t = <<s[1]>> \o (Tail(s) \o t)
<1> DEFINE h == <<s[1]>>
           r == Tail(s)
<1>1. /\ r \in Seq(Products) /\ Len(r) = Len(s) - 1 /\ Len(s) \in Nat \ {0}
      /\ \A i \in 1 .. Len(r) : r[i] = s[i + 1]
  BY HeadTailProperties, EmptySeq
<1>2. h \in Seq(Products) /\ Len(h) = 1 /\ h[1] = s[1]
  <2>1. s[1] \in Products
    BY <1>1, ElementOfSeq
  <2> QED
    BY <2>1
<1> HIDE DEF h, r
<1>3. h \o r = s
  <2>1. /\ h \o r \in Seq(Products) /\ Len(h \o r) = Len(h) + Len(r)
        /\ \A i \in 1 .. Len(h) + Len(r) :
              (h \o r)[i] = IF i <= Len(h) THEN h[i] ELSE r[i - Len(h)]
    BY <1>1, <1>2, ConcatProperties
  <2> DEFINE u == h \o r
             n == Len(s)
  <2>2. /\ u \in Seq(Products) /\ Len(u) = n /\ n \in Nat \ {0} /\ Len(r) = n - 1
        /\ \A i \in 1 .. n : u[i] = IF i <= 1 THEN h[i] ELSE r[i - 1]
    BY <1>1, <1>2, <2>1
  <2> HIDE DEF u, n
  <2>3. \A i \in 1 .. n : i = 1 \/ i - 1 \in 1 .. n - 1
    BY <2>2
  <2>4. ASSUME NEW i \in 1 .. n PROVE u[i] = s[i]
    <3>1. CASE i = 1
      BY <1>2, <2>2, <3>1
    <3>2. CASE i # 1
      <4>1. i - 1 \in 1 .. Len(r) /\ ~(i <= 1)
        BY <2>2, <2>3, <3>2
      <4>2. u[i] = r[i - 1] /\ r[i - 1] = s[(i - 1) + 1] /\ (i - 1) + 1 = i
        BY <1>1, <2>2, <4>1
      <4> QED
        BY <4>2
    <3> QED
      BY <3>1, <3>2
  <2>5. Len(s) = n
    BY DEF n
  <2>6. u = s
    BY <2>2, <2>4, <2>5, SeqEqual
  <2> QED
    BY <2>6 DEF u
<1>4. (h \o r) \o t = h \o (r \o t)
  <2>1. h \in Seq(Products) /\ r \in Seq(Products) /\ t \in Seq(Products)
    BY <1>1, <1>2
  <2> QED
    BY <2>1, ConcatThree
<1>5. r \o t \in Seq(Products) /\ Len(r \o t) = Len(r) + Len(t)
  BY <1>1, ConcatProperties
<1>6. s \o t = h \o (r \o t)
  BY <1>3, <1>4
<1>7. Len(r \o t) = Len(s) - 1 + Len(t)
  BY <1>1, <1>5
<1> QED
  BY <1>2, <1>5, <1>6, <1>7 DEF h, r

\* The points of the units that were paid for are those of the lines that are left.
LEMMA PaidPoints ==
    ASSUME TypeInv
    PROVE  SumOver(LAMBDA p : Total(Mapped(earnedPointsPerUnit, PaidUnits(Free, p))))
             = LinesWorth(Points, TakeUnits(items, Free).lines)
<1>1. items \in Seq(LineRow) /\ Free \in Seq(Products)
  BY FreeIs DEF TypeInv
<1> DEFINE e == [p \in Products |-> Total(Mapped(earnedPointsPerUnit, PaidUnits(Free, p)))]
           f == [p \in Products |-> Worth(Points, Rest(UnitsIn(items, p), Times(Free, p)))]
<1>2. ASSUME NEW p \in Products PROVE e[p] = f[p]
  <2>1. PaidUnits(Free, p) = Rest(UnitsIn(items, p), Times(Free, p))
    BY UnitsOfItems DEF PaidUnits, Rest
  <2>2. Rest(UnitsIn(items, p), Times(Free, p)) \in Seq(Nat)
    BY UnitsOfItems, FreeIs, RestType
  <2> DEFINE u == Rest(UnitsIn(items, p), Times(Free, p))
  <2>3. Worth(Points, u) = Total(Mapped(earnedPointsPerUnit, u))
    BY <2>2, PointsIs
  <2> QED
    BY <2>1, <2>3
<1>3. e = f
  BY <1>2
<1>4. SumOver(LAMBDA p : Total(Mapped(earnedPointsPerUnit, PaidUnits(Free, p)))) = SumFunction(e)
  BY DEF SumOver
<1>5. SumFunction(f) = LinesWorth(Points, TakeUnits(items, Free).lines)
  BY <1>1, PointsIs, RestWorth
<1> HIDE DEF e, f
<1> QED
  BY <1>3, <1>4, <1>5

\* PaidUnitsEarn is a matter of the state.
LEMMA PaidEarn == TypeInv /\ QuoteInv /\ EarnedInv => PaidUnitsEarn
<1> SUFFICES ASSUME TypeInv, QuoteInv, EarnedInv, AsQuoted, earned > 0 PROVE PaidUnitsEarn
  BY DEF PaidUnitsEarn
<1> DEFINE points == SumOver(LAMBDA p : Total(Mapped(earnedPointsPerUnit, PaidUnits(Free, p))))
           unseen == Len(Free) - (IF quote.free = <<>> THEN 0 ELSE 1)
           bogo == GivenAway(quote.offers)
           worth(s) == LinesWorth(Points, TakeUnits(items, s).lines)
<1>1. /\ items \in Seq(LineRow) /\ quote.free \in Seq(Products) /\ bogo \in Seq(Products)
      /\ Free \in Seq(Products) /\ Free = quote.free \o bogo
  BY FreeIs DEF TypeInv, Free
<1>2. points = worth(Free)
  BY PaidPoints
<1>3. earned # 0 /\ quote.late \in BOOLEAN
  BY DEF TypeInv, Quotes
<1>4. earned = earnedPointsUnitsAfterFreeUnits(items,
                   IF ~quote.late THEN Free
                   ELSE IF freeProduct = None THEN <<>> ELSE <<freeProduct>>)
  BY <1>3 DEF EarnedInv
<1>5. \A s \in Seq(Products) : /\ earnedPointsUnitsAfterFreeUnits(items, s) = worth(s)
                               /\ worth(s) \in Int
  <2>1. \A s \in Seq(Products) : TakeUnits(items, s).lines \in Seq(LineRow)
    BY <1>1, TakeUnitsType DEF Taken
  <2> QED
    BY <2>1, PointsIs, LinesWorthType DEF earnedPointsUnitsAfterFreeUnits
<1>6. freeProduct = IF quote.free = <<>> THEN None ELSE quote.free[1]
  BY DEF QuoteInv
<1>7. \A s, more \in Seq(Products) : worth(s) - worth(s \o more) \in 0 .. 2 * Len(more)
  BY <1>1, PointsIs, TakenWorth
<1> HIDE DEF points, worth
<1>8. CASE ~quote.late
  <2>1. earned = worth(Free) /\ worth(Free) \in Int
    BY <1>1, <1>4, <1>5, <1>8
  <2>2. earned - points = 0
    BY <1>2, <2>1
  <2>3. earned - points \in 0 .. (IF quote.late THEN 2 * unseen ELSE 0)
    <3> HIDE DEF unseen
    <3> QED
      BY <1>8, <2>2
  <2> QED
    BY <2>3 DEF PaidUnitsEarn, points
<1>9. CASE quote.late /\ quote.free = <<>>
  <2>1. <<>> \in Seq(Products) /\ <<>> \o Free = Free
    BY <1>1, ConcatEmptySeq, EmptySeq
  <2>2. earned = worth(<<>>)
    BY <1>4, <1>5, <1>6, <1>9, <2>1
  <2>3. worth(<<>>) - worth(Free) \in 0 .. 2 * Len(Free)
    BY <1>1, <1>7, <2>1
  <2>4. unseen = Len(Free)
    <3>1. Len(Free) \in Nat
      BY FreeIs, LenProperties
    <3> DEFINE n == Len(Free)
    <3>2. n \in Nat /\ unseen = n - 0
      BY <1>9, <3>1
    <3> HIDE DEF n, unseen
    <3>3. unseen = n
      BY <3>2
    <3> QED
      BY <3>3 DEF n
  <2> HIDE DEF unseen
  <2>5. earned - points \in 0 .. (IF quote.late THEN 2 * unseen ELSE 0)
    BY <1>2, <1>9, <2>2, <2>3, <2>4
  <2> QED
    BY <2>5 DEF PaidUnitsEarn, points, unseen
<1>10. CASE quote.late /\ quote.free # <<>>
  <2> DEFINE h == <<quote.free[1]>>
             more == Tail(quote.free) \o bogo
  <2>0. Len(quote.free) \in Nat \ {0} /\ quote.free[1] \in Products
    BY <1>1, <1>10, EmptySeq, ElementOfSeq
  <2>1. /\ h \in Seq(Products) /\ more \in Seq(Products)
        /\ Len(more) = Len(quote.free) - 1 + Len(bogo) /\ Free = h \o more
    BY <1>1, <1>10, FirstAndMore
  <2>2. freeProduct = quote.free[1] /\ freeProduct # None
    BY <1>6, <1>10, <2>0, PricingAssumption
  <2> HIDE DEF more
  <2>3. earned = worth(h)
    BY <1>4, <1>5, <1>10, <2>1, <2>2
  <2>4. worth(h) - worth(Free) \in 0 .. 2 * Len(more)
    <3> HIDE DEF h
    <3>1. worth(h) - worth(h \o more) \in 0 .. 2 * Len(more)
      BY <1>7, <2>1
    <3> QED
      BY <2>1, <3>1
  <2>5. Len(Free) = Len(quote.free) + Len(bogo)
    BY <1>1, ConcatProperties
  <2>6. unseen = Len(more)
    <3>1. unseen = Len(Free) - 1
      BY <1>10
    <3>2. Len(bogo) \in Nat
      BY <1>1
    <3> HIDE DEF unseen, bogo
    <3> QED
      BY <2>0, <2>1, <2>5, <3>1, <3>2
  <2> HIDE DEF unseen, h
  <2>7. earned - points \in 0 .. (IF quote.late THEN 2 * unseen ELSE 0)
    BY <1>2, <1>10, <2>3, <2>4, <2>6
  <2> QED
    BY <2>7 DEF PaidUnitsEarn, points, unseen
<1> QED
  BY <1>3, <1>8, <1>9, <1>10

\* Points are for units that were paid for: at checkout exactly, by a late award up to a
\* point too many for each free unit it does not see, and never too few.
THEOREM PaidUnitsEarnHolds == Spec => []PaidUnitsEarn
<1>1. IInv => PaidUnitsEarn
  BY PaidEarn DEF IInv
<1> QED
  BY <1>1, Inductive, PTL

-----------------------------------------------------------------------------
(* The units an offer counts.                                               *)
CountedOf(l, b) == IF b \in {l.product, None} THEN l.quantity ELSE 0

Counted(lines, b) == Total([i \in 1 .. Len(lines) |-> CountedOf(lines[i], b)])

\* The units an offer counts, with one line more ...
LEMMA CountedOfMore ==
    ASSUME NEW b, NEW lines \in Seq(LineRow), NEW l \in LineRow
    PROVE  /\ Counted(lines, b) \in Int
           /\ Counted(Append(lines, l), b) = Counted(lines, b) + CountedOf(l, b)
<1>1. \A k \in LineRow : CountedOf(k, b) \in Int
  <2>1. \A k \in LineRow : k.quantity \in Nat
    BY DEF LineRow
  <2> QED
    BY <2>1 DEF CountedOf
<1> DEFINE f(s) == [i \in 1 .. Len(s) |-> CountedOf(s[i], b)]
           t == Append(lines, l)
<1>2. ASSUME NEW s \in Seq(LineRow) PROVE f(s) \in Seq(Int) /\ Len(f(s)) = Len(s)
  <2>1. \A i \in 1 .. Len(s) : s[i] \in LineRow
    OBVIOUS
  <2>2. Len(s) \in Nat /\ \A i \in 1 .. Len(s) : CountedOf(s[i], b) \in Int
    BY <1>1, <2>1
  <2> QED
    BY <2>2
<1>3. /\ t \in Seq(LineRow) /\ Len(t) = Len(lines) + 1 /\ t[Len(lines) + 1] = l
      /\ \A i \in 1 .. Len(lines) : t[i] = lines[i]
  BY AppendProperties
<1>4. Len(lines) \in Nat
  OBVIOUS
<1> HIDE DEF t
<1>5. f(t)[Len(lines) + 1] = CountedOf(l, b) /\ \A i \in 1 .. Len(lines) : f(t)[i] = f(lines)[i]
  <2>1. \A i \in 1 .. Len(lines) : i \in 1 .. Len(t)
    BY <1>3, <1>4
  <2>2. Len(lines) + 1 \in 1 .. Len(t)
    BY <1>3, <1>4
  <2> QED
    BY <1>3, <2>1, <2>2
<1>6. /\ f(lines) \in Seq(Int) /\ Len(f(lines)) = Len(lines)
      /\ f(t) \in Seq(Int) /\ Len(f(t)) = Len(lines) + 1
  BY <1>2, <1>3
<1>7. Counted(lines, b) = Total(f(lines)) /\ Counted(t, b) = Total(f(t))
  BY DEF Counted
<1>8. CountedOf(l, b) \in Int
  BY <1>1
<1> HIDE DEF f
<1>9. f(t) = Append(f(lines), CountedOf(l, b))
  BY <1>5, <1>6, <1>8, MadeByAppend
<1>10. Total(f(lines)) \in Int /\ Total(f(t)) = Total(f(lines)) + CountedOf(l, b)
  BY <1>6, <1>8, <1>9, TotalOfMore
<1> QED
  BY <1>7, <1>10 DEF t

\* ... and of any lines.
LEMMA CountedType == ASSUME NEW b, NEW lines \in Seq(LineRow) PROVE Counted(lines, b) \in Int
<1>1. CASE lines = <<>>
  <2>1. Counted(lines, b) = Total(<<>>)
    BY <1>1 DEF Counted
  <2> QED
    BY <2>1, TotalOfNone
<1>2. CASE lines # <<>>
  <2>1. lines[1] \in LineRow
    BY <1>2, EmptySeq, ElementOfSeq
  <2> QED
    BY <2>1, CountedOfMore
<1> QED
  BY <1>1, <1>2

\* Of one product: how many units of it there are.
LEMMA CountedUnits ==
    ASSUME NEW b \in Products, NEW lines \in Seq(LineRow)
    PROVE  Counted(lines, b) = Len(UnitsIn(lines, b))
<1> DEFINE A == {s \in Seq(LineRow) : Counted(s, b) = Len(UnitsIn(s, b))}
<1>1. <<>> \in A
  <2>1. Counted(<<>>, b) = Total(<<>>)
    BY DEF Counted
  <2>2. <<>> \in Seq(LineRow) /\ Len(<<>>) = 0
    OBVIOUS
  <2> QED
    BY <2>1, <2>2, TotalOfNone, UnitsOfNone
<1>2. ASSUME NEW s \in Seq(LineRow), s \in A, NEW l \in LineRow PROVE Append(s, l) \in A
  <2>1. UnitsIn(s, b) \in Seq(Nat) /\ Units(l, b) \in Seq(Nat)
    BY UnitsOfMore, UnitsType
  <2>2. UnitsIn(Append(s, l), b) = UnitsIn(s, b) \o Units(l, b)
    BY UnitsOfMore
  <2>3. Len(UnitsIn(Append(s, l), b)) = Len(UnitsIn(s, b)) + Len(Units(l, b))
    BY <2>1, <2>2, ConcatProperties
  <2>4. Len(Units(l, b)) = CountedOf(l, b)
    <3>1. l.quantity \in Nat /\ b # None
      BY PricingAssumption DEF LineRow
    <3> DEFINE n == IF l.product = b THEN l.quantity ELSE 0
    <3>2. n \in Nat /\ Units(l, b) = [k \in 1 .. n |-> l.price] /\ CountedOf(l, b) = n
      BY <3>1 DEF Units, CountedOf
    <3> HIDE DEF n
    <3>3. Len([k \in 1 .. n |-> l.price]) = n
      BY <3>2
    <3> QED
      BY <3>2, <3>3
  <2>5. Counted(Append(s, l), b) = Counted(s, b) + CountedOf(l, b)
    BY CountedOfMore
  <2>6. Counted(s, b) = Len(UnitsIn(s, b)) /\ Append(s, l) \in Seq(LineRow)
    BY <1>2
  <2> QED
    BY <2>3, <2>4, <2>5, <2>6
<1>3. \A s \in Seq(LineRow) : s \in A
  <2> HIDE DEF A
  <2> QED
    BY <1>1, <1>2, SeqInduction
<1> QED
  BY <1>3

\* Of any product: all there are.
LEMMA CountedAll ==
    ASSUME NEW lines \in Seq(LineRow) PROVE Counted(lines, None) = LinesWorth(One, lines)
<1>1. \A i \in 1 .. Len(lines) : CountedOf(lines[i], None) = One[lines[i].price] * lines[i].quantity
  <2>1. \A i \in 1 .. Len(lines) : lines[i] \in LineRow
    BY ElementOfSeq
  <2>2. \A l \in LineRow : l.price \in Nat /\ l.quantity \in Nat
    BY DEF LineRow
  <2>3. \A x \in Nat : One[x] = 1
    BY DEF One
  <2>4. \A n \in Nat : 1 * n = n
    OBVIOUS
  <2> QED
    BY <2>1, <2>2, <2>3, <2>4 DEF CountedOf
<1>2. [i \in 1 .. Len(lines) |-> CountedOf(lines[i], None)] = Priced(One, lines)
  BY <1>1 DEF Priced
<1> QED
  BY <1>2 DEF Counted, LinesWorth

\* As many sets as there were free units do when there are more.
LEMMA EnoughSets ==
    ASSUME NEW count \in Nat \ {0}, NEW B \in Nat \ {0}, NEW G \in Nat \ {0}, NEW n \in Nat,
           NEW bought \in Int, n > 0 => n <= bought, count <= (n \div B) * G
    PROVE  \E sets \in 1 .. count : sets * G >= count /\ sets * B <= bought
<1> DEFINE q == n \div B
<1>1. q \in Nat /\ q * B <= n
  OBVIOUS
<1>2. count <= q * G
  OBVIOUS
<1> HIDE DEF q
<1>3. q # 0
  <2>1. 0 * G = 0
    OBVIOUS
  <2> QED
    BY <1>2, <2>1
<1>4. q * B >= q
  <2>1. B = 1 + (B - 1) /\ B - 1 \in Nat
    OBVIOUS
  <2> QED
    BY <1>1, <2>1
<1>5. n > 0 /\ q * B <= bought
  BY <1>1, <1>3, <1>4
<1>6. CASE q <= count
  <2>1. q \in 1 .. count
    BY <1>1, <1>3, <1>6
  <2> QED
    BY <1>2, <1>5, <2>1
<1>7. CASE q > count
  <2>1. count * G >= count
    <3>1. G = 1 + (G - 1) /\ G - 1 \in Nat
      OBVIOUS
    <3> QED
      BY <3>1
  <2>2. count * B <= q * B
    BY <1>1, <1>7
  <2>3. count * B <= bought
    <3>1. count * B \in Int /\ q * B \in Int
      BY <1>1
    <3> QED
      BY <1>5, <2>2, <3>1
  <2> QED
    BY <2>1, <2>3
<1> QED
  BY <1>1, <1>6, <1>7

\* Which of the units given away are an offer's, when the others give away nothing it counts.
LEMMA OwnUnits ==
    ASSUME NEW offers \in Seq(Offers), NEW o \in Offers, NEW b \in Products,
           \A x \in Range(offers) \ {o} : Offer[x].get # b
    PROVE  Times(GivenAway(offers), b) = IF Offer[o].get = b THEN Times(offers, o) ELSE 0
<1> DEFINE g == GivenAway(offers)
           n == Len(offers)
<1>1. /\ g \in Seq(Products) /\ Len(g) = n /\ n \in Nat
      /\ \A i \in 1 .. n : g[i] = Offer[offers[i]].get
  BY GivenAwayType
<1>2. \A i \in 1 .. n : offers[i] \in Range(offers)
  BY RangeIs
<1>3. DOMAIN offers = 1 .. n /\ DOMAIN g = 1 .. n
  BY <1>1
<1> HIDE DEF g, n
<1>4. CASE Offer[o].get = b
  <2>1. \A i \in 1 .. n : g[i] = b <=> offers[i] = o
    BY <1>1, <1>2, <1>4
  <2>2. {i \in DOMAIN g : g[i] = b} = {i \in DOMAIN offers : offers[i] = o}
    BY <1>3, <2>1
  <2> QED
    BY <1>4, <2>2 DEF Times, g
<1>5. CASE Offer[o].get # b
  <2>1. \A i \in 1 .. Len(g) : g[i] # b
    BY <1>1, <1>2, <1>5
  <2>2. Times(g, b) = 0
    BY <1>1, <2>1, NotAmong
  <2> QED
    BY <1>5, <2>2 DEF g
<1> QED
  BY <1>4, <1>5

\* How often something occurs that is all there is.
LEMMA AllOfThem ==
    ASSUME NEW offers \in Seq(Offers), NEW o, Range(offers) \subseteq {o}
    PROVE  Times(offers, o) = Len(offers)
<1>1. \A i \in 1 .. Len(offers) : offers[i] = o
  BY RangeIs
<1>2. DOMAIN offers = 1 .. Len(offers) /\ Len(offers) \in Nat
  OBVIOUS
<1>3. {i \in DOMAIN offers : offers[i] = o} = 1 .. Len(offers)
  BY <1>1, <1>2
<1>4. Cardinality(1 .. Len(offers)) = Len(offers)
  <2> DEFINE n == Len(offers)
  <2>1. n \in Nat
    BY <1>2
  <2> HIDE DEF n
  <2>2. Cardinality(1 .. n) = IF 1 > n THEN 0 ELSE n - 1 + 1
    BY <2>1, FS_Interval
  <2>3. Cardinality(1 .. n) = n
    BY <2>1, <2>2
  <2> QED
    BY <2>3 DEF n
<1> QED
  BY <1>3, <1>4 DEF Times

\* An offer that is used is used at least once.
LEMMA OccursThen ==
    ASSUME NEW offers \in Seq(Offers), NEW o \in Range(offers)
    PROVE  o \in Offers /\ Times(offers, o) \in Nat \ {0}
<1>1. PICK i \in 1 .. Len(offers) : offers[i] = o
  BY RangeIs
<1>2. o \in Offers
  BY <1>1, ElementOfSeq
<1>3. DOMAIN offers = 1 .. Len(offers) /\ Len(offers) \in Nat
  OBVIOUS
<1> DEFINE I == {j \in DOMAIN offers : offers[j] = o}
<1>4. IsFiniteSet(DOMAIN offers) /\ I \in SUBSET DOMAIN offers /\ i \in I
  BY <1>1, <1>3, FS_Interval
<1> HIDE DEF I
<1>5. IsFiniteSet(I) /\ Cardinality(I) \in Nat
  BY <1>4, FS_Subset, FS_CardinalityType
<1>6. Cardinality(I) # 0
  BY <1>4, <1>5, FS_EmptySet
<1> QED
  BY <1>2, <1>5, <1>6 DEF Times, I

\* What the validation counts as paid.
LEMMA PaidCount ==
    ASSUME NEW lines, NEW o, NEW count, NEW free
    PROVE  countPaidUnitsForBogoBuy(lines, o, count, free)
             = LET units == Total([i \in DOMAIN lines |-> CountedOf(lines[i], Offer[o].buy)])
               IN  CASE Offer[o].buy = None          -> Max2(Max2(units - count, 0) - Len(free), 0)
                     [] Offer[o].buy = Offer[o].get -> Max2(units - count, 0)
                     [] OTHER                       -> units
  BY DEF countPaidUnitsForBogoBuy, Mapped, CountedOf

\* The units of the cart that are paid for, of one product and of all.
LEMMA PaidOfOne ==
    ASSUME TypeInv, NEW b \in Products
    PROVE  /\ SumFunction([p \in {b} |-> Len(PaidUnits(Free, p))]) = Len(PaidUnits(Free, b))
           /\ Len(PaidUnits(Free, b)) = (IF Times(Free, b) <= Counted(items, b)
                                         THEN Counted(items, b) - Times(Free, b) ELSE 0)
<1>1. items \in Seq(LineRow) /\ Times(Free, b) \in Nat /\ UnitsIn(items, b) \in Seq(Nat)
  BY FreeIs, UnitsOfItems DEF TypeInv
<1>2. PaidUnits(Free, b) = Rest(UnitsIn(items, b), Times(Free, b))
  BY UnitsOfItems DEF PaidUnits, Rest
<1>3. Len(PaidUnits(Free, b)) = (IF Times(Free, b) <= Len(UnitsIn(items, b))
                                 THEN Len(UnitsIn(items, b)) - Times(Free, b) ELSE 0)
  <2> DEFINE u == UnitsIn(items, b)
             n == Times(Free, b)
  <2>1. u \in Seq(Nat) /\ n \in Nat /\ PaidUnits(Free, b) = Rest(u, n)
    BY <1>1, <1>2
  <2> HIDE DEF u, n
  <2>2. Len(Rest(u, n)) = (IF n <= Len(u) THEN Len(u) - n ELSE 0)
    BY <2>1, RestType
  <2> QED
    BY <2>1, <2>2 DEF u, n
<1>4. Counted(items, b) = Len(UnitsIn(items, b))
  BY <1>1, CountedUnits
<1>5. Len(PaidUnits(Free, b)) \in Int
  <2>1. Len(UnitsIn(items, b)) \in Nat
    BY <1>1
  <2> QED
    BY <1>1, <1>3, <2>1
<1> DEFINE f == [p \in {b} |-> Len(PaidUnits(Free, p))]
<1>6. f \in [{b} -> Int] /\ f[b] = Len(PaidUnits(Free, b))
  BY <1>5
<1> HIDE DEF f
<1>7. SumFunction(f) = f[b]
  BY <1>6, SumOne
<1> QED
  BY <1>3, <1>4, <1>6, <1>7 DEF f

\* All units but the free ones are paid for.
LEMMA PaidOfAll ==
    ASSUME TypeInv
    PROVE  /\ SumFunction([p \in Products |-> Len(PaidUnits(Free, p))]) \in Int
           /\ SumFunction([p \in Products |-> Len(PaidUnits(Free, p))])
                >= Counted(items, None) - Len(Free)
<1>1. items \in Seq(LineRow) /\ Free \in Seq(Products)
  BY FreeIs DEF TypeInv
<1> DEFINE e == [p \in Products |-> Len(PaidUnits(Free, p))]
           f == [p \in Products |-> Worth(One, Rest(UnitsIn(items, p), Times(Free, p)))]
<1>2. ASSUME NEW p \in Products PROVE e[p] = f[p]
  <2> DEFINE u == Rest(UnitsIn(items, p), Times(Free, p))
  <2>1. PaidUnits(Free, p) = u
    BY UnitsOfItems DEF PaidUnits, Rest
  <2>2. u \in Seq(Nat)
    BY UnitsOfItems, FreeIs, RestType
  <2>3. Worth(One, u) = Len(u)
    BY <2>2, OneIs
  <2> QED
    BY <2>1, <2>3
<1>3. e = f
  BY <1>2
<1>4. SumFunction(f) = LinesWorth(One, TakeUnits(items, Free).lines)
  BY <1>1, OneIs, RestWorth
<1>5. TakeUnits(items, Free).lines \in Seq(LineRow)
  BY <1>1, TakeUnitsType DEF Taken
<1>6. LinesWorth(One, TakeUnits(items, Free).lines) \in Int /\ LinesWorth(One, items) \in Int
  BY <1>1, <1>5, OneIs, LinesWorthType
<1>7. <<>> \in Seq(Products) /\ <<>> \o Free = Free
  BY <1>1, ConcatEmptySeq, EmptySeq
<1>8. TakeUnits(items, <<>>).lines = items
  BY <1>1, TakeNone DEF Untaken
<1>9. LinesWorth(One, TakeUnits(items, <<>>).lines) - LinesWorth(One, TakeUnits(items, <<>> \o Free).lines)
        \in 0 .. 1 * Len(Free)
  BY <1>1, <1>7, OneIs, TakenWorth, 1 \in Nat
<1>10. Len(Free) \in Nat
  BY <1>1, LenProperties
<1>11. Counted(items, None) = LinesWorth(One, items)
  BY <1>1, CountedAll
<1> DEFINE x == LinesWorth(One, items)
           y == LinesWorth(One, TakeUnits(items, Free).lines)
           n == Len(Free)
<1>12. x \in Int /\ y \in Int /\ n \in Nat /\ x - y \in 0 .. 1 * n
  BY <1>6, <1>7, <1>8, <1>9, <1>10
<1> HIDE DEF e, f, x, y, n
<1>13. y >= x - n
  BY <1>12
<1> QED
  BY <1>3, <1>4, <1>6, <1>11, <1>13 DEF e, x, y, n

\* OffersArePaidFor is a matter of the state.
LEMMA OffersPaid == TypeInv /\ QuoteInv => OffersArePaidFor
<1> DEFINE others(o) == {Offer[x].get : x \in Range(quote.offers) \ {o}}
                          \cup (IF Offer[o].buy = None THEN {} ELSE Range(quote.free))
           counted(o) == IF Offer[o].buy = None THEN Products ELSE {Offer[o].buy}
           bought(o) == SumFunction([p \in counted(o) |-> Len(PaidUnits(Free, p))])
<1>1. SUFFICES ASSUME TypeInv, QuoteInv, AsQuoted, NEW o \in Range(quote.offers),
                      others(o) \cap counted(o) = {}
               PROVE  \E sets \in 1 .. Times(quote.offers, o) :
                         /\ sets * Offer[o].getQty >= Times(quote.offers, o)
                         /\ sets * Offer[o].buyQty <= bought(o)
  BY DEF OffersArePaidFor
<1> DEFINE count == Times(quote.offers, o)
           buy == Offer[o].buy
           bogo == GivenAway(quote.offers)
           n == countPaidUnitsForBogoBuy(items, o, count, quote.free)
           units == Counted(items, buy)
<1>2. /\ items \in Seq(LineRow) /\ quote.offers \in Seq(Offers) /\ quote.free \in Seq(Products)
      /\ bogo \in Seq(Products) /\ Free \in Seq(Products)
      /\ \A p : /\ Times(quote.free, p) \in Nat /\ Times(bogo, p) \in Nat
                /\ Times(Free, p) = Times(quote.free, p) + Times(bogo, p)
  BY FreeIs, <1>1 DEF TypeInv
<1>3. o \in Offers /\ count \in Nat \ {0}
  BY <1>2, OccursThen
<1>4. /\ buy \in Products \cup {None} /\ Offer[o].buyQty \in Nat \ {0}
      /\ Offer[o].get \in Products /\ Offer[o].getQty \in Nat \ {0}
  BY <1>3, PricingAssumption
<1>5. count <= (n \div Offer[o].buyQty) * Offer[o].getQty
  BY <1>1 DEF QuoteInv, validateBogoRedemptions
<1>6. units \in Int
  BY <1>2, CountedType
<1>7. /\ buy = None => n = Max2(Max2(units - count, 0) - Len(quote.free), 0)
      /\ buy # None /\ buy = Offer[o].get => n = Max2(units - count, 0)
      /\ buy # None /\ buy # Offer[o].get => n = units
  <2>1. DOMAIN items = 1 .. Len(items)
    BY <1>2
  <2>2. n = CASE buy = None         -> Max2(Max2(units - count, 0) - Len(quote.free), 0)
              [] buy = Offer[o].get -> Max2(units - count, 0)
              [] OTHER              -> units
    BY <2>1, PaidCount DEF Counted
  <2>3. buy = None => buy # Offer[o].get
    BY <1>4, PricingAssumption
  <2> HIDE DEF n, units, count, buy
  <2> QED
    BY <2>2, <2>3
<1>8. Len(quote.free) \in Nat
  BY <1>2
<1>9. n \in Nat /\ (n > 0 => n <= bought(o)) /\ bought(o) \in Int
  <2>1. CASE buy = None
    <3>1. n = Max2(Max2(units - count, 0) - Len(quote.free), 0)
      BY <1>7, <2>1
    <3>2. \A x \in Range(quote.offers) : x \in Offers /\ Offer[x].get \in Products
      BY <1>2, OccursThen, PricingAssumption
    <3>3. Range(quote.offers) \subseteq {o}
      BY <1>1, <2>1, <3>2
    <3>4. count = Len(quote.offers)
      BY <1>2, <3>3, AllOfThem
    <3>5. Len(Free) = Len(quote.free) + count
      <4>1. Len(bogo) = Len(quote.offers)
        BY <1>2, GivenAwayType
      <4>2. Len(quote.free \o bogo) = Len(quote.free) + Len(bogo)
        BY <1>2, ConcatProperties
      <4> QED
        BY <3>4, <4>1, <4>2 DEF Free
    <3>6. bought(o) \in Int /\ bought(o) >= units - Len(Free)
      <4>1. bought(o) = SumFunction([p \in Products |-> Len(PaidUnits(Free, p))])
        BY <2>1
      <4> QED
        BY <1>1, <2>1, <4>1, PaidOfAll
    <3> DEFINE all == Len(Free)
               free == Len(quote.free)
    <3>7. /\ n = Max2(Max2(units - count, 0) - free, 0) /\ all = free + count
          /\ bought(o) \in Int /\ bought(o) >= units - all
          /\ free \in Nat /\ count \in Nat /\ units \in Int
      BY <1>3, <1>6, <1>8, <3>1, <3>5, <3>6
    <3> HIDE DEF n, units, count, bought, all, free
    <3> QED
      BY <3>7 DEF Max2
  <2>2. CASE buy # None
    <3>0. buy \in Products /\ counted(o) = {buy}
      BY <1>4, <2>2
    <3>1. /\ \A x \in Range(quote.offers) \ {o} : Offer[x].get # buy
          /\ buy \notin Range(quote.free)
      BY <1>1, <2>2
    <3>2. Times(bogo, buy) = IF Offer[o].get = buy THEN count ELSE 0
      BY <1>2, <1>3, <3>0, <3>1, OwnUnits
    <3>3. Times(quote.free, buy) = 0
      <4>1. \A i \in 1 .. Len(quote.free) : quote.free[i] # buy
        BY <1>2, <3>1, RangeIs
      <4> QED
        BY <1>2, <4>1, NotAmong
    <3>4. Times(Free, buy) = Times(bogo, buy)
      <4>1. Times(Free, buy) = Times(quote.free, buy) + Times(bogo, buy) /\ Times(bogo, buy) \in Nat
        BY <1>2
      <4> QED
        BY <3>3, <4>1
    <3>5. bought(o) = IF Times(Free, buy) <= units THEN units - Times(Free, buy) ELSE 0
      <4>1. bought(o) = SumFunction([p \in {buy} |-> Len(PaidUnits(Free, p))])
        BY <3>0
      <4> QED
        BY <1>1, <3>0, <4>1, PaidOfOne
    <3>6. units \in Nat
      <4>1. units = Len(UnitsIn(items, buy)) /\ UnitsIn(items, buy) \in Seq(Nat)
        BY <1>1, <1>2, <3>0, CountedUnits, UnitsOfItems
      <4> QED
        BY <4>1
    <3> HIDE DEF n, units, count, bought, buy
    <3>7. CASE buy = Offer[o].get
      <4>1. n = Max2(units - count, 0) /\ Times(Free, buy) = count
        BY <1>7, <2>2, <3>2, <3>4, <3>7
      <4> QED
        BY <1>3, <3>5, <3>6, <4>1 DEF Max2
    <3>8. CASE buy # Offer[o].get
      <4>1. n = units /\ Times(Free, buy) = 0
        BY <1>7, <2>2, <3>2, <3>4, <3>8
      <4> QED
        BY <3>5, <3>6, <4>1
    <3> QED
      BY <3>7, <3>8
  <2> QED
    BY <2>1, <2>2
<1> DEFINE B == Offer[o].buyQty
           G == Offer[o].getQty
           m == bought(o)
<1>10. /\ count \in Nat \ {0} /\ B \in Nat \ {0} /\ G \in Nat \ {0} /\ n \in Nat /\ m \in Int
       /\ n > 0 => n <= m
       /\ count <= (n \div B) * G
  BY <1>3, <1>4, <1>5, <1>9
<1> HIDE DEF count, n, B, G, m, bought, others
<1>11. \E sets \in 1 .. count : sets * G >= count /\ sets * B <= m
  BY <1>10, EnoughSets
<1> QED
  BY <1>11 DEF count, B, G, m

\* The free units of an offer are matched by units the buyer pays for, set by set, unless
\* another reward gives away units that the offer counts.
THEOREM OffersArePaidForHolds == Spec => []OffersArePaidFor
<1>1. IInv => OffersArePaidFor
  BY OffersPaid DEF IInv
<1> QED
  BY <1>1, Inductive, PTL
=============================================================================
