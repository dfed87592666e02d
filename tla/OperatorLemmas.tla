---------------------------- MODULE OperatorLemmas ----------------------------
(***************************************************************************)
(* What the operators of the model compute, for every input.  A fold is    *)
(* reasoned about through the sequence of its intermediate results, which  *)
(* Steps describes: FoldLeft is defined by a function on sets of positions,*)
(* which has values along the prefixes (FoldExists, FoldSteps), and what a *)
(* loop of the code maintains is then an induction over positions (UpTo,   *)
(* where a property is the set of the numbers that have it).               *)
(*                                                                         *)
(* The main results: Keeping filters (KeepingPicks, KeepingAll); the loop  *)
(* of the consolidation fills the table it is meant to fill (MergedTable,  *)
(* ConsolidateIsReference); the repair of numbers leaves none that         *)
(* continues the row before it and changes nothing else (RepairContinues,  *)
(* RepairOnlyNumbers); the fragments of a document are its lines, in their *)
(* order, without those traced as discarded (DocumentIsRead); and the      *)
(* batches planned for a provider hold every segment once and in order     *)
(* (GroupingIsComplete), within their limits and never emptier than these  *)
(* make them (GeminiGroupsFit, ChunksFit).                                 *)
(***************************************************************************)
EXTENDS Consolidation, BatchPlanning, FiniteSetTheorems, SequenceTheorems,
        WellFoundedInduction, TLAPS

------------------------------------------------------------------------------
(* Numbers, and folds over the entries of a sequence.                      *)

LessThan == {ss \in Nat \X Nat : ss[1] < ss[2]}

(* Every set of numbers that is not empty has a least one.                 *)
LEMMA LeastNumber ==
  ASSUME NEW S \in SUBSET Nat, S # {}
  PROVE  \E x \in S : \A y \in S : x <= y
<1>1. IsWellFoundedOn(LessThan, Nat)
  BY NatLessThanWellFounded, SMT DEF OpToRel, LessThan
<1>2. PICK x \in S : \A y \in S : ~ (<<y, x>> \in LessThan)
  BY <1>1, WFMin
<1>3. \A y \in S : ~ (y < x)
  BY <1>2 DEF LessThan
<1> QED
  BY <1>3

(* Induction up to n, for a property given as the set of numbers that have it. *)
LEMMA UpTo ==
  ASSUME NEW n \in Nat, NEW S, 0 \in S, \A k \in 0..(n - 1) : k \in S => k + 1 \in S
  PROVE  \A k \in 0..n : k \in S
<1> SUFFICES ASSUME NEW k \in 0..n, k \notin S PROVE FALSE
  OBVIOUS
<1> DEFINE B == {m \in 0..n : m \notin S}
<1>1. B \in SUBSET Nat /\ B # {}
  OBVIOUS
<1>2. PICK m \in B : \A y \in B : m <= y
  BY <1>1, LeastNumber
<1>3. m # 0 /\ m - 1 \in 0..n /\ m - 1 \notin B
  BY <1>2
<1> QED
  BY <1>2, <1>3

(* The greatest number of a prefix is its end.                             *)
LEMMA MaxOfPrefix ==
  ASSUME NEW k \in Nat, k # 0 PROVE Max(1..k) = k
BY DEF Max

(* Max finds the greatest of some positions.                               *)
LEMMA GreatestOfInterval ==
  ASSUME NEW n \in Nat, NEW S \in SUBSET (1..n), S # {}
  PROVE  Max(S) \in S /\ \A y \in S : Max(S) >= y
<1> DEFINE B == {m \in Nat : \A y \in S : y <= m}
<1>1. n \in B
  OBVIOUS
<1>2. PICK m \in B : \A y \in B : m <= y
  BY <1>1, LeastNumber
<1>3. m \in S
  <2> SUFFICES ASSUME m \notin S PROVE FALSE
    OBVIOUS
  <2>1. PICK y \in S : TRUE
    OBVIOUS
  <2>2. y \in Nat /\ m >= y /\ y # 0
    BY <1>2
  <2>3. m - 1 \in Nat
    BY <2>2
  <2>4. \A z \in S : z <= m - 1
    BY <1>2
  <2>5. m - 1 \in B
    BY <2>3, <2>4
  <2> QED
    BY <2>5, <1>2
<1> QED
  BY <1>2, <1>3 DEF Max

(* Min finds the least of some positions.                                  *)
LEMMA LeastOfInterval ==
  ASSUME NEW S \in SUBSET Nat, S # {}
  PROVE  Min(S) \in S /\ \A y \in S : Min(S) <= y
BY LeastNumber DEF Min

(* The function of the subsets of 1..n that folds g over the first n entries   *)
(* of a sequence.                                                              *)
Folds(h, A, g, base, seq, n) ==
  /\ h \in [SUBSET (1..n) -> A]
  /\ \A s \in SUBSET (1..n) :
       h[s] = IF s = {} THEN base ELSE g[<<h[s \ {Max(s)}], seq[Max(s)]>>]

(* There is such a function, for every sequence.                           *)
LEMMA FoldExists ==
  ASSUME NEW A, NEW E, NEW g \in [A \X E -> A], NEW base \in A, NEW n \in Nat,
         NEW seq, \A i \in 1..n : seq[i] \in E
  PROVE  \E h : Folds(h, A, g, base, seq, n)
<1> DEFINE Reached == {k \in 0..n : \E h : Folds(h, A, g, base, seq, k)}
<1>1. 0 \in Reached
  <2> DEFINE h == [s \in SUBSET (1..0) |-> base]
  <2>1. Folds(h, A, g, base, seq, 0)
    BY DEF Folds
  <2> QED
    BY <2>1
<1>2. ASSUME NEW k \in 0..(n - 1), k \in Reached
      PROVE  k + 1 \in Reached
  <2>1. PICK h : Folds(h, A, g, base, seq, k)
    BY <1>2
  <2> DEFINE h1 == [s \in SUBSET (1..(k + 1)) |->
                     IF k + 1 \in s THEN g[<<h[s \ {k + 1}], seq[k + 1]>>] ELSE h[s]]
  <2>2. ASSUME NEW s \in SUBSET (1..(k + 1))
        PROVE  /\ k + 1 \notin s => s \in SUBSET (1..k)
               /\ s \ {k + 1} \in SUBSET (1..k)
    OBVIOUS
  <2>3. h1 \in [SUBSET (1..(k + 1)) -> A]
    BY <2>1, <2>2 DEF Folds
  <2>4. ASSUME NEW s \in SUBSET (1..(k + 1))
        PROVE  h1[s] = IF s = {} THEN base ELSE g[<<h1[s \ {Max(s)}], seq[Max(s)]>>]
    <3>1. CASE k + 1 \in s
      <4>1. Max(s) = k + 1
        <5>1. s # {} /\ k + 1 \in Nat
          BY <3>1
        <5>2. Max(s) \in s /\ Max(s) >= k + 1
          BY <3>1, <5>1, GreatestOfInterval
        <5>3. Max(s) \in 1..(k + 1)
          BY <5>2
        <5> QED
          BY <5>2, <5>3
      <4>2. h1[s \ {k + 1}] = h[s \ {k + 1}]
        BY <2>2
      <4> QED
        BY <3>1, <4>1, <4>2
    <3>2. CASE k + 1 \notin s
      <4>1. s \in SUBSET (1..k) /\ h1[s] = h[s]
        BY <3>2, <2>2
      <4>2. s # {} => Max(s) \in s
        <5>1. k \in Nat
          OBVIOUS
        <5> QED
          BY <4>1, <5>1, GreatestOfInterval
      <4>3. s \ {Max(s)} \in SUBSET (1..k) /\ s \ {Max(s)} \in SUBSET (1..(k + 1))
        BY <4>1
      <4>4. h1[s \ {Max(s)}] = h[s \ {Max(s)}]
        BY <4>3
      <4> QED
        BY <4>1, <4>4, <2>1 DEF Folds
    <3> QED
      BY <3>1, <3>2
  <2>5. Folds(h1, A, g, base, seq, k + 1)
    BY <2>3, <2>4 DEF Folds
  <2> QED
    BY <2>5
<1> HIDE DEF Reached
<1>3. \A k \in 0..n : k \in Reached
  BY <1>1, <1>2, UpTo
<1>4. n \in Reached
  BY <1>3
<1> QED
  BY <1>4 DEF Reached

------------------------------------------------------------------------------
(* Filters.                                                                *)

(* The results of a fold after each entry, and that they are what g yields. *)
Steps(t, A, g, base, seq, result) ==
  /\ t \in [0..Len(seq) -> A]
  /\ t[0] = base
  /\ \A k \in 1..Len(seq) : t[k] = g[<<t[k - 1], seq[k]>>]
  /\ result = t[Len(seq)]

\* A function of prefixes that yields what g does.
Iterates(iter, A, g, base, seq) ==
  /\ iter[{}] = base
  /\ \A k \in 1..Len(seq) : iter[1..(k - 1)] \in A =>
        iter[1..k] = g[<<iter[1..(k - 1)], seq[k]>>]

(* What iterates g passes through typed results.                           *)
LEMMA FoldSteps ==
  ASSUME NEW A, NEW E, NEW g \in [A \X E -> A], NEW base \in A, NEW seq \in Seq(E),
         NEW iter, Iterates(iter, A, g, base, seq)
  PROVE  \E t : Steps(t, A, g, base, seq, iter[1..Len(seq)])
<1> DEFINE n == Len(seq)
           Typed == {k \in 0..n : iter[1..k] \in A}
<1>1. n \in Nat /\ \A k \in 1..n : seq[k] \in E
  OBVIOUS
<1>2. 0 \in Typed
  BY <1>1 DEF Iterates
<1>3. ASSUME NEW k \in 0..(n - 1), k \in Typed PROVE k + 1 \in Typed
  <2>1. k + 1 \in 1..n /\ (k + 1) - 1 = k
    BY <1>1
  <2>2. iter[1..(k + 1)] = g[<<iter[1..k], seq[k + 1]>>]
    BY <2>1, <1>3 DEF Iterates
  <2> QED
    BY <2>1, <2>2, <1>1, <1>3
<1> HIDE DEF Typed
<1>4. \A k \in 0..n : k \in Typed
  BY <1>1, <1>2, <1>3, UpTo
<1>5. \A k \in 0..n : iter[1..k] \in A
  BY <1>4 DEF Typed
<1>6. \A k \in 1..n : k - 1 \in 0..n /\ k \in 0..n
  BY <1>1
<1>7. 0 \in 0..n /\ 1..0 = {}
  BY <1>1
<1> DEFINE t == [k \in 0..n |-> iter[1..k]]
<1>8. Steps(t, A, g, base, seq, iter[1..Len(seq)])
  BY <1>1, <1>5, <1>6, <1>7 DEF Steps, Iterates
<1> QED
  BY <1>8

(* Keeping decides entry by entry.                                         *)
LEMMA KeepingSteps ==
  ASSUME NEW E, NEW seq \in Seq(E), NEW S
  PROVE  \E t : Steps(t, Seq(E), [p \in Seq(E) \X E |->
                                   IF p[2] \in S THEN Append(p[1], p[2]) ELSE p[1]],
                      << >>, seq, Keeping(seq, S))
<1> DEFINE n == Len(seq)
           D == 1..n
           g == [p \in Seq(E) \X E |-> IF p[2] \in S THEN Append(p[1], p[2]) ELSE p[1]]
           Rec(h) == h = [s \in SUBSET D |->
             IF s = {} THEN << >>
             ELSE IF seq[Max(s)] \in S THEN Append(h[s \ {Max(s)}], seq[Max(s)]) ELSE h[s \ {Max(s)}]]
           iter == CHOOSE h : Rec(h)
<1>1. n \in Nat /\ DOMAIN seq = D /\ \A i \in D : seq[i] \in E
  OBVIOUS
<1>2. Keeping(seq, S) = iter[D]
  BY <1>1 DEF Keeping, FoldLeft, MapThenFoldSet
<1>3. g \in [Seq(E) \X E -> Seq(E)] /\ << >> \in Seq(E)
  OBVIOUS
<1>4. PICK h : Folds(h, Seq(E), g, << >>, seq, n)
  BY <1>1, <1>3, FoldExists
<1>5. \A s \in SUBSET D : s # {} => Max(s) \in s /\ s \ {Max(s)} \in SUBSET D
  BY <1>1, GreatestOfInterval
<1>6. Rec(h)
  BY <1>4, <1>5, <1>1 DEF Folds
<1>7. Rec(iter)
  BY <1>6
<1> HIDE DEF iter
<1>8. iter[{}] = << >>
  BY <1>7
<1>9. ASSUME NEW k \in 1..n, iter[1..(k - 1)] \in Seq(E)
      PROVE  iter[1..k] = g[<<iter[1..(k - 1)], seq[k]>>]
  <2>0. k \in Nat /\ k # 0
    BY <1>1
  <2>1. /\ Max(1..k) = k /\ (1..k) \ {k} = 1..(k - 1)
    BY <2>0, MaxOfPrefix
  <2>2. 1..k \in SUBSET D /\ k \in 1..k
    BY <1>1, <2>0
  <2>3. seq[k] \in E
    BY <1>1
  <2>4. iter[1..k] = IF seq[k] \in S THEN Append(iter[1..(k - 1)], seq[k]) ELSE iter[1..(k - 1)]
    BY <2>1, <2>2, <1>7
  <2> QED
    BY <2>3, <2>4, <1>9
<1> HIDE DEF g
<1>9a. Iterates(iter, Seq(E), g, << >>, seq)
  BY <1>8, <1>9 DEF Iterates
<1> HIDE DEF Rec, D
<1>10. \E t : Steps(t, Seq(E), g, << >>, seq, iter[1..Len(seq)])
  BY <1>3, <1>9a, FoldSteps
<1> QED
  BY <1>2, <1>10 DEF g, D

(* Where the entries that a filter keeps come from. *)
Picks(at, kept, seq, S, k) ==
  /\ at \in [1..Len(kept) -> 1..k]
  /\ \A m \in 1..Len(kept) : kept[m] = seq[at[m]] /\ seq[at[m]] \in S
  /\ \A m, p \in 1..Len(kept) : m < p => at[m] < at[p]
  /\ \A i \in 1..k : seq[i] \in S => \E m \in 1..Len(kept) : at[m] = i

(* Keeping picks the entries in S, all of them and in their order.         *)
LEMMA KeepingPicks ==
  ASSUME NEW E, NEW seq \in Seq(E), NEW S
  PROVE  /\ Keeping(seq, S) \in Seq(E)
         /\ \E at : Picks(at, Keeping(seq, S), seq, S, Len(seq))
<1> DEFINE n == Len(seq)
           g == [p \in Seq(E) \X E |-> IF p[2] \in S THEN Append(p[1], p[2]) ELSE p[1]]
<1>1. PICK t : Steps(t, Seq(E), g, << >>, seq, Keeping(seq, S))
  BY KeepingSteps
<1> DEFINE Right == {k \in 0..n : \E at : Picks(at, t[k], seq, S, k)}
<1>2. n \in Nat /\ \A k \in 1..n : seq[k] \in E
  OBVIOUS
<1>3. 0 \in Right
  <2>1. t[0] = << >> /\ 0 \in 0..n
    BY <1>1, <1>2 DEF Steps
  <2> DEFINE at == [m \in 1..0 |-> 0]
  <2>2. Picks(at, << >>, seq, S, 0)
    BY DEF Picks
  <2> QED
    BY <2>1, <2>2
<1>4. ASSUME NEW k \in 0..(n - 1), k \in Right PROVE k + 1 \in Right
  <2>1. PICK at : Picks(at, t[k], seq, S, k)
    BY <1>4
  <2>2. k + 1 \in 1..n /\ k + 1 \in 0..n /\ k \in 0..n /\ k \in Nat /\ (k + 1) - 1 = k
    BY <1>2
  <2>3. t[k] \in Seq(E) /\ seq[k + 1] \in E
    BY <1>1, <1>2, <2>2 DEF Steps
  <2>4. t[k + 1] = IF seq[k + 1] \in S THEN Append(t[k], seq[k + 1]) ELSE t[k]
    BY <1>1, <2>2, <2>3 DEF Steps
  <2>5. CASE seq[k + 1] \in S
    <3> DEFINE more == Append(t[k], seq[k + 1])
               at1 == [m \in 1..Len(more) |-> IF m = Len(more) THEN k + 1 ELSE at[m]]
    <3>1. /\ Len(more) = Len(t[k]) + 1 /\ Len(t[k]) \in Nat
          /\ \A m \in 1..Len(t[k]) : more[m] = t[k][m]
          /\ more[Len(t[k]) + 1] = seq[k + 1]
      BY <2>3
    <3> HIDE DEF more
    <3>2. \A m \in 1..Len(more) : m = Len(more) \/ m \in 1..Len(t[k])
      BY <3>1
    <3>3. \A m \in 1..Len(t[k]) : at[m] \in 1..k
      BY <2>1 DEF Picks
    <3>4. at1 \in [1..Len(more) -> 1..(k + 1)]
      BY <3>2, <3>3, <2>2
    <3>5. \A m \in 1..Len(more) : more[m] = seq[at1[m]] /\ seq[at1[m]] \in S
      BY <3>1, <3>2, <2>1, <2>5 DEF Picks
    <3>6. \A m, p \in 1..Len(more) : m < p => at1[m] < at1[p]
      BY <3>1, <3>2, <3>3, <2>1, <2>2 DEF Picks
    <3>7. ASSUME NEW i \in 1..(k + 1), seq[i] \in S PROVE \E m \in 1..Len(more) : at1[m] = i
      <4>1. CASE i = k + 1
        <5>1. Len(more) \in 1..Len(more) /\ at1[Len(more)] = k + 1
          BY <3>1
        <5> QED
          BY <5>1, <4>1
      <4>2. CASE i \in 1..k
        <5>1. PICK m \in 1..Len(t[k]) : at[m] = i
          BY <4>2, <3>7, <2>1 DEF Picks
        <5>2. m \in 1..Len(more) /\ m # Len(more)
          BY <3>1
        <5> QED
          BY <5>1, <5>2
      <4> QED
        BY <4>1, <4>2, <2>2
    <3>8. Picks(at1, more, seq, S, k + 1)
      BY <3>4, <3>5, <3>6, <3>7 DEF Picks
    <3>9. t[k + 1] = more
      BY <2>4, <2>5 DEF more
    <3> QED
      BY <3>8, <3>9, <2>2
  <2>6. CASE seq[k + 1] \notin S
    <3>1. Picks(at, t[k], seq, S, k + 1)
      <4>1. 1..k \subseteq 1..(k + 1) /\ \A i \in 1..(k + 1) : i # k + 1 => i \in 1..k
        BY <2>2
      <4> QED
        BY <2>1, <2>6, <4>1 DEF Picks
    <3> QED
      BY <3>1, <2>4, <2>6, <2>2
  <2> QED
    BY <2>5, <2>6
<1> HIDE DEF Right
<1>5. \A k \in 0..n : k \in Right
  BY <1>2, <1>3, <1>4, UpTo
<1>6. Keeping(seq, S) = t[n] /\ t[n] \in Seq(E)
  BY <1>1, <1>2 DEF Steps
<1> QED
  BY <1>2, <1>5, <1>6 DEF Right

(* A filter that finds nothing to remove changes nothing. *)
LEMMA KeepingAll ==
  ASSUME NEW E, NEW seq \in Seq(E), NEW S, \A i \in 1..Len(seq) : seq[i] \in S
  PROVE  Keeping(seq, S) = seq
<1> DEFINE n == Len(seq)
           g == [p \in Seq(E) \X E |-> IF p[2] \in S THEN Append(p[1], p[2]) ELSE p[1]]
<1>1. PICK t : Steps(t, Seq(E), g, << >>, seq, Keeping(seq, S))
  BY KeepingSteps
<1> DEFINE Right == {k \in 0..n : Len(t[k]) = k /\ \A i \in 1..k : t[k][i] = seq[i]}
<1>2. n \in Nat /\ \A k \in 1..n : seq[k] \in E
  OBVIOUS
<1>3. 0 \in Right
  BY <1>1, <1>2 DEF Steps
<1>4. ASSUME NEW k \in 0..(n - 1), k \in Right PROVE k + 1 \in Right
  <2>1. k + 1 \in 1..n /\ k + 1 \in 0..n /\ k \in 0..n /\ k \in Nat /\ (k + 1) - 1 = k
    BY <1>2
  <2>2. t[k] \in Seq(E) /\ seq[k + 1] \in E
    <3> HIDE DEF g
    <3> QED
      BY <1>1, <1>2, <2>1 DEF Steps
  <2>3. t[k + 1] = Append(t[k], seq[k + 1])
    <3>1. t[k + 1] = g[<<t[k], seq[k + 1]>>]
      BY <1>1, <2>1 DEF Steps
    <3> QED
      BY <3>1, <2>1, <2>2
  <2>4. \A i \in 1..(k + 1) : i = k + 1 \/ i \in 1..k
    BY <2>1
  <2> QED
    BY <1>4, <2>1, <2>2, <2>3, <2>4
<1> HIDE DEF Right
<1>5. \A k \in 0..n : k \in Right
  BY <1>2, <1>3, <1>4, UpTo
<1>6. Keeping(seq, S) = t[n] /\ t[n] \in Seq(E)
  BY <1>1, <1>2 DEF Steps
<1> QED
  BY <1>2, <1>5, <1>6, SeqEqual DEF Right

------------------------------------------------------------------------------
(* What the consolidation is made of.                                      *)

(* The positions up to k of the items with the merge key of position i. *)
Alike(r, k, i) == {j \in 1..k : buildMergeKey(r[j]) = buildMergeKey(r[i])}

\* A position of first mention: no item before it has its key.
IsFirst(r, i) == \A j \in 1..(i - 1) : buildMergeKey(r[j]) # buildMergeKey(r[i])

(* The first among the best of a group of positions. *)
IsBest(r, b, group) ==
  /\ b \in group
  /\ \A j \in group : ~Better(r[j], r[b]) /\ (j < b => Better(r[b], r[j]))

\* Items with a confidence.
Rated(I) == \A x \in I : x.confidence \in Int

(* Better is a strict weak order.                                          *)
LEMMA BetterIsOrder ==
  ASSUME NEW I, Rated(I), NEW x \in I, NEW y \in I, NEW z \in I
  PROVE  /\ ~Better(x, x)
         /\ Better(x, y) => ~Better(y, x)
         /\ Better(x, y) /\ Better(y, z) => Better(x, z)
         /\ Better(x, z) => Better(x, y) \/ Better(y, z)
BY DEF Rated, Better, isManualReviewItem

(* keepCurrent replaces a row by a better item only.                       *)
LEMMA KeepCurrentIsBetter ==
  ASSUME NEW I, Rated(I), NEW x \in I, NEW y \in I
  PROVE  keepCurrent(x, y) <=> Better(y, x)
BY DEF Rated, Better, keepCurrent, isManualReviewItem

(* BestOf finds the first among the best.                                  *)
LEMMA BestOfIsBest ==
  ASSUME NEW r, NEW group \in SUBSET Nat, NEW b, IsBest(r, b, group)
  PROVE  BestOf(r, group) = b
<1> DEFINE top == {j \in group : \A k \in group : ~Better(r[k], r[j])}
<1>1. b \in top /\ top \in SUBSET Nat
  BY DEF IsBest
<1>2. Min(top) \in top /\ Min(top) <= b
  BY <1>1, LeastOfInterval
<1>3. ~ (Min(top) < b)
  BY <1>1, <1>2 DEF IsBest
<1>4. Min(top) = b
  BY <1>1, <1>2, <1>3
<1> QED
  BY <1>4 DEF BestOf

(* The best of a group and one more, behind all of them. *)
LEMMA BestWithOneMore ==
  ASSUME NEW I, Rated(I), NEW r, NEW n \in Nat, NEW group \in SUBSET (1..n), NEW b,
         \A j \in 1..(n + 1) : r[j] \in I, IsBest(r, b, group)
  PROVE  IsBest(r, IF Better(r[n + 1], r[b]) THEN n + 1 ELSE b, group \cup {n + 1})
<1>1. b \in 1..n /\ b \in 1..(n + 1) /\ n + 1 \in 1..(n + 1) /\ r[b] \in I /\ r[n + 1] \in I
  BY DEF IsBest
<1>2. \A j \in group : j \in 1..n /\ r[j] \in I /\ j < n + 1
  OBVIOUS
<1>3. CASE Better(r[n + 1], r[b])
  <2>1. ASSUME NEW j \in group PROVE ~Better(r[j], r[n + 1]) /\ Better(r[n + 1], r[j])
    <3>1. ~Better(r[j], r[b])
      BY DEF IsBest
    <3> QED
      BY <3>1, <1>1, <1>2, <1>3, BetterIsOrder
  <2>2. ~Better(r[n + 1], r[n + 1])
    BY <1>1, BetterIsOrder
  <2> QED
    BY <2>1, <2>2, <1>1, <1>3 DEF IsBest
<1>4. CASE ~Better(r[n + 1], r[b])
  BY <1>1, <1>4 DEF IsBest
<1> QED
  BY <1>3, <1>4

\* The resolutions of a set of items.
Traces(I) ==
  [merge_key : {buildMergeKey(x) : x \in I}, kept_item_uid : {x.uid : x \in I},
   dropped_item_uids : SUBSET {x.uid : x \in I}]

(* The accumulator of the loop. *)
Tables(I) == [items : Seq(I), resolutions : SUBSET Traces(I)]

\* Where the loop begins.
NoTable == [items |-> << >>, resolutions |-> {}]

\* The rows that hold the key of an item.
Held(acc, item) == {i \in 1..Len(acc.items) : buildMergeKey(acc.items[i]) = buildMergeKey(item)}

(* An item of a new key is appended.                                       *)
LEMMA MergeNew ==
  ASSUME NEW acc, NEW item, Held(acc, item) = {}
  PROVE  mergeItem(acc, item) = [acc EXCEPT !.items = Append(@, item)]
BY DEF mergeItem, Held

(* An item of a key that is held contends with its row.                    *)
LEMMA MergeHeld ==
  ASSUME NEW acc, NEW item, NEW i \in Nat, Held(acc, item) = {i}
  PROVE  mergeItem(acc, item) =
           IF keepCurrent(acc.items[i], item)
           THEN [items |-> [acc.items EXCEPT ![i] = item],
                 resolutions |-> resolution(acc.resolutions, buildMergeKey(item), item, acc.items[i])]
           ELSE [items |-> [acc.items EXCEPT ![i] = acc.items[i]],
                 resolutions |-> resolution(acc.resolutions, buildMergeKey(item), acc.items[i], item)]
<1>1. Min({i}) = i
  BY LeastOfInterval
<1> QED
  BY <1>1 DEF mergeItem, Held

(* The trace keeps its type.                                               *)
LEMMA ResolutionType ==
  ASSUME NEW I, NEW res \in SUBSET Traces(I), NEW item \in I, NEW kept \in I, NEW dropped \in I
  PROVE  resolution(res, buildMergeKey(item), kept, dropped) \in SUBSET Traces(I)
<1>1. \A x \in res : x.dropped_item_uids \in SUBSET {x1.uid : x1 \in I}
  BY DEF Traces
<1> QED
  BY <1>1 DEF resolution, Traces

(* A turn of the loop keeps the type of the accumulator.                   *)
LEMMA MergeType ==
  ASSUME NEW I, NEW acc \in Tables(I), NEW item \in I
  PROVE  mergeItem(acc, item) \in Tables(I)
<1>1. acc.items \in Seq(I) /\ acc.resolutions \in SUBSET Traces(I)
  BY DEF Tables
<1>2. CASE Held(acc, item) = {}
  <2>1. Append(acc.items, item) \in Seq(I)
    BY <1>1
  <2> QED
    BY <1>1, <1>2, <2>1, MergeNew DEF Tables
<1>3. CASE Held(acc, item) # {}
  <2> DEFINE i == Min(Held(acc, item))
             current == keepCurrent(acc.items[i], item)
             kept == IF current THEN item ELSE acc.items[i]
             dropped == IF current THEN acc.items[i] ELSE item
  <2>1. Held(acc, item) \in SUBSET (1..Len(acc.items)) /\ Held(acc, item) \in SUBSET Nat
    BY DEF Held
  <2>2. i \in 1..Len(acc.items)
    BY <2>1, <1>3, LeastOfInterval
  <2>3. acc.items[i] \in I
    BY <1>1, <2>2
  <2>4. kept \in I /\ dropped \in I
    BY <2>3
  <2>5. [acc.items EXCEPT ![i] = kept] \in Seq(I)
    BY <1>1, <2>2, <2>4, ExceptSeq
  <2>6. resolution(acc.resolutions, buildMergeKey(item), kept, dropped) \in SUBSET Traces(I)
    BY <1>1, <2>4, ResolutionType
  <2>7. mergeItem(acc, item) =
          [items |-> [acc.items EXCEPT ![i] = kept],
           resolutions |-> resolution(acc.resolutions, buildMergeKey(item), kept, dropped)]
    BY <1>3 DEF mergeItem, Held
  <2> HIDE DEF kept, dropped, i
  <2> QED
    BY <2>5, <2>6, <2>7 DEF Tables
<1> QED
  BY <1>2, <1>3

\* The accumulator after each turn of the loop.
MergeSteps(t, I, r) ==
  /\ t \in [0..Len(r) -> Tables(I)]
  /\ t[0] = NoTable
  /\ \A k \in 1..Len(r) : t[k] = mergeItem(t[k - 1], r[k])
  /\ t[Len(r)] = FoldLeft(mergeItem, NoTable, r)

(* The loop of the consolidation, turn by turn.                            *)
LEMMA MergeHasSteps ==
  ASSUME NEW I, NEW r \in Seq(I)
  PROVE  \E t : MergeSteps(t, I, r)
<1> DEFINE A == Tables(I)
           n == Len(r)
           D == 1..n
           g == [p \in A \X I |-> mergeItem(p[1], p[2])]
           Rec(h) == h = [s \in SUBSET D |->
             IF s = {} THEN NoTable ELSE mergeItem(h[s \ {Max(s)}], r[Max(s)])]
           iter == CHOOSE h : Rec(h)
<1>1. n \in Nat /\ DOMAIN r = D /\ \A i \in D : r[i] \in I
  OBVIOUS
<1>2. FoldLeft(mergeItem, NoTable, r) = iter[D]
  BY <1>1 DEF FoldLeft, MapThenFoldSet
<1>3. g \in [A \X I -> A] /\ NoTable \in A
  BY MergeType DEF NoTable, Tables
<1> HIDE DEF A
<1>4. PICK h : Folds(h, A, g, NoTable, r, n)
  BY <1>1, <1>3, FoldExists
<1>5. \A s \in SUBSET D : s # {} => Max(s) \in s /\ s \ {Max(s)} \in SUBSET D
  BY <1>1, GreatestOfInterval
<1>6. Rec(h)
  BY <1>4, <1>5, <1>1 DEF Folds
<1>7. Rec(iter)
  BY <1>6
<1> HIDE DEF iter
<1>8. iter[{}] = NoTable
  BY <1>7
<1>9. ASSUME NEW k \in 1..n, iter[1..(k - 1)] \in A
      PROVE  iter[1..k] = g[<<iter[1..(k - 1)], r[k]>>]
  <2>1. k \in Nat /\ k # 0
    BY <1>1
  <2>2. Max(1..k) = k /\ (1..k) \ {k} = 1..(k - 1)
    BY <2>1, MaxOfPrefix
  <2>3. 1..k \in SUBSET D /\ k \in 1..k
    BY <1>1, <2>1
  <2> QED
    BY <2>2, <2>3, <1>1, <1>7, <1>9
<1>10. Iterates(iter, A, g, NoTable, r)
  BY <1>8, <1>9 DEF Iterates
<1> HIDE DEF g
<1>11. PICK t : Steps(t, A, g, NoTable, r, iter[1..Len(r)])
  BY <1>3, <1>10, FoldSteps
<1>12. ASSUME NEW k \in 1..n PROVE t[k] = mergeItem(t[k - 1], r[k])
  <2>1. k - 1 \in 0..n /\ r[k] \in I
    BY <1>1
  <2>2. t[k - 1] \in A /\ t[k] = g[<<t[k - 1], r[k]>>]
    BY <2>1, <1>11 DEF Steps
  <2> QED
    BY <2>1, <2>2 DEF g
<1> QED
  BY <1>1, <1>2, <1>11, <1>12 DEF Steps, MergeSteps, A

------------------------------------------------------------------------------
(* The table row by row.                                                   *)

(* The table after k items: firsts are the positions of first mention.      *)
Rows(items, firsts, r, k) ==
  /\ Len(items) = Len(firsts)
  /\ \A m \in 1..Len(firsts) :
       /\ firsts[m] \in 1..k /\ IsFirst(r, firsts[m])
       /\ \E b \in 1..k : IsBest(r, b, Alike(r, k, firsts[m])) /\ items[m] = r[b]
  /\ \A i \in 1..k : IsFirst(r, i) => \E m \in 1..Len(firsts) : firsts[m] = i
  /\ \A m, p \in 1..Len(firsts) : firsts[m] = firsts[p] => m = p

(* The trace of the items alike that of position i, after k items.          *)
TraceAt(r, k, i) ==
  LET best == BestOf(r, Alike(r, k, i))
  IN  [merge_key         |-> buildMergeKey(r[i]),
       kept_item_uid     |-> r[best].uid,
       dropped_item_uids |-> {r[j].uid : j \in Alike(r, k, i) \ {best}}]

TracesAt(r, k) == {TraceAt(r, k, i) : i \in {i \in 1..k : Alike(r, k, i) # {i}}}

(* What an item changes for those of another merge key, and of its own. *)
LEMMA AlikeWithOneMore ==
  ASSUME NEW r, NEW k \in Nat, NEW i \in 1..(k + 1)
  PROVE  Alike(r, k + 1, i) = IF buildMergeKey(r[i]) = buildMergeKey(r[k + 1])
                              THEN Alike(r, k, i) \cup {k + 1} ELSE Alike(r, k, i)
BY DEF Alike

(* Items alike have the same group and the same trace. *)
LEMMA AlikeIsShared ==
  ASSUME NEW r, NEW k \in Nat, NEW i, NEW j, buildMergeKey(r[i]) = buildMergeKey(r[j])
  PROVE  Alike(r, k, i) = Alike(r, k, j) /\ TraceAt(r, k, i) = TraceAt(r, k, j)
BY DEF Alike, TraceAt

(* A position whose key was met before is alike to one of first mention. *)
LEMMA FirstMention ==
  ASSUME NEW r, NEW k \in Nat, ~IsFirst(r, k + 1)
  PROVE  \E i \in 1..k : IsFirst(r, i) /\ buildMergeKey(r[i]) = buildMergeKey(r[k + 1])
<1> DEFINE S == {j \in 1..k : buildMergeKey(r[j]) = buildMergeKey(r[k + 1])}
<1>1. S # {} /\ S \in SUBSET Nat
  BY DEF IsFirst
<1>2. PICK i \in S : \A j \in S : i <= j
  BY <1>1, LeastNumber
<1>3. IsFirst(r, i)
  BY <1>2 DEF IsFirst
<1> QED
  BY <1>2, <1>3

(* Two positions of first mention with one key are one position. *)
LEMMA FirstIsUnique ==
  ASSUME NEW r, NEW i \in Nat \ {0}, NEW j \in Nat \ {0}, IsFirst(r, i), IsFirst(r, j),
         buildMergeKey(r[i]) = buildMergeKey(r[j])
  PROVE  i = j
BY DEF IsFirst

(* The row of a position is of its key. *)
LEMMA RowKey ==
  ASSUME NEW r, NEW k, NEW items, NEW firsts, Rows(items, firsts, r, k), NEW m \in 1..Len(firsts)
  PROVE  buildMergeKey(items[m]) = buildMergeKey(r[firsts[m]])
BY DEF Rows, IsBest, Alike

(* An item of a new key, in the table and in the trace.                    *)
LEMMA NewRow ==
  ASSUME NEW I, Rated(I), NEW k \in Nat, NEW r, NEW firsts \in Seq(Nat), NEW acc \in Tables(I),
         r[k + 1] \in I,
         Rows(acc.items, firsts, r, k), acc.resolutions = TracesAt(r, k), IsFirst(r, k + 1)
  PROVE  LET new == mergeItem(acc, r[k + 1])
         IN  /\ Rows(new.items, Append(firsts, k + 1), r, k + 1)
             /\ new.resolutions = TracesAt(r, k + 1)
<1> DEFINE items == acc.items
           items1 == Append(items, r[k + 1])
           firsts1 == Append(firsts, k + 1)
<1>1. \A j \in 1..k : buildMergeKey(r[j]) # buildMergeKey(r[k + 1])
  BY DEF IsFirst
<1>2. /\ Len(items) = Len(firsts) /\ Len(firsts) \in Nat
      /\ items \in Seq(I)
      /\ \A m \in 1..Len(firsts) : firsts[m] \in 1..k
  <2>1. Len(items) = Len(firsts) /\ \A m \in 1..Len(firsts) : firsts[m] \in 1..k
    BY DEF Rows
  <2>2. items \in Seq(I) /\ Len(firsts) \in Nat
    BY DEF Tables
  <2> QED
    BY <2>1, <2>2
<1>3. Held(acc, r[k + 1]) = {}
  <2>1. ASSUME NEW m \in 1..Len(firsts) PROVE buildMergeKey(items[m]) # buildMergeKey(r[k + 1])
    <3>1. buildMergeKey(items[m]) = buildMergeKey(r[firsts[m]])
      BY RowKey
    <3> QED
      BY <3>1, <1>1, <1>2
  <2> QED
    BY <1>2, <2>1 DEF Held
<1>4. mergeItem(acc, r[k + 1]) = [items |-> items1, resolutions |-> acc.resolutions]
  <2>1. mergeItem(acc, r[k + 1]) = [acc EXCEPT !.items = Append(@, r[k + 1])]
    BY <1>3, MergeNew
  <2> QED
    BY <2>1 DEF Tables
<1>5. \A i \in 1..k : Alike(r, k + 1, i) = Alike(r, k, i)
  <2> SUFFICES ASSUME NEW i \in 1..k PROVE Alike(r, k + 1, i) = Alike(r, k, i)
    OBVIOUS
  <2>1. i \in 1..(k + 1)
    OBVIOUS
  <2> QED
    BY <1>1, <2>1, AlikeWithOneMore
<1>6. Alike(r, k + 1, k + 1) = {k + 1}
  BY <1>1 DEF Alike
<1>7. IsBest(r, k + 1, {k + 1})
  <2>1. ~Better(r[k + 1], r[k + 1])
    BY BetterIsOrder
  <2> QED
    BY <2>1 DEF IsBest
<1>8. /\ Len(items1) = Len(firsts) + 1 /\ Len(firsts1) = Len(firsts) + 1
      /\ items1[Len(firsts) + 1] = r[k + 1] /\ firsts1[Len(firsts) + 1] = k + 1
      /\ \A m \in 1..Len(firsts) : items1[m] = items[m] /\ firsts1[m] = firsts[m]
  BY <1>2
<1>9. \A m \in 1..(Len(firsts) + 1) : m = Len(firsts) + 1 \/ m \in 1..Len(firsts)
  BY <1>2
<1>10. 1..k \subseteq 1..(k + 1) /\ \A i \in 1..(k + 1) : i = k + 1 \/ i \in 1..k
  OBVIOUS
<1> HIDE DEF items1, firsts1
<1>11. Rows(items1, firsts1, r, k + 1)
  <2>1. ASSUME NEW m \in 1..Len(firsts1)
        PROVE  /\ firsts1[m] \in 1..(k + 1) /\ IsFirst(r, firsts1[m])
               /\ \E b \in 1..(k + 1) : IsBest(r, b, Alike(r, k + 1, firsts1[m])) /\ items1[m] = r[b]
    <3>1. CASE m = Len(firsts) + 1
      <4>1. firsts1[m] = k + 1 /\ items1[m] = r[k + 1] /\ k + 1 \in 1..(k + 1)
        BY <3>1, <1>8
      <4>2. IsBest(r, k + 1, Alike(r, k + 1, firsts1[m]))
        BY <4>1, <1>6, <1>7
      <4> QED
        BY <4>1, <4>2
    <3>2. CASE m \in 1..Len(firsts)
      <4>1. PICK b \in 1..k : IsBest(r, b, Alike(r, k, firsts[m])) /\ items[m] = r[b]
        BY <3>2 DEF Rows
      <4>2. Alike(r, k + 1, firsts1[m]) = Alike(r, k, firsts[m]) /\ items1[m] = items[m]
            /\ firsts1[m] \in 1..k /\ IsFirst(r, firsts1[m])
        BY <3>2, <1>2, <1>5, <1>8 DEF Rows
      <4> QED
        BY <4>1, <4>2, <1>10
    <3> QED
      BY <3>1, <3>2, <1>8, <1>9
  <2>2. ASSUME NEW i \in 1..(k + 1), IsFirst(r, i) PROVE \E m \in 1..Len(firsts1) : firsts1[m] = i
    <3>1. CASE i = k + 1
      BY <3>1, <1>8, <1>2
    <3>2. CASE i \in 1..k
      <4>1. PICK m \in 1..Len(firsts) : firsts[m] = i
        BY <3>2, <2>2 DEF Rows
      <4>2. m \in 1..Len(firsts1)
        BY <1>8, <1>2
      <4>3. firsts1[m] = firsts[m]
        BY <1>8
      <4> QED
        BY <4>1, <4>2, <4>3
    <3> QED
      BY <3>1, <3>2, <1>10
  <2>3. ASSUME NEW m \in 1..Len(firsts1), NEW p \in 1..Len(firsts1), firsts1[m] = firsts1[p]
        PROVE  m = p
    <3>1. \A l \in 1..Len(firsts) : firsts1[l] # k + 1
      BY <1>2, <1>8
    <3>2. CASE m = Len(firsts) + 1 \/ p = Len(firsts) + 1
      <4>1. m \in 1..(Len(firsts) + 1) /\ p \in 1..(Len(firsts) + 1)
        BY <1>8
      <4>2. m = Len(firsts) + 1 => p \notin 1..Len(firsts)
        BY <3>1, <2>3, <1>8
      <4>3. p = Len(firsts) + 1 => m \notin 1..Len(firsts)
        BY <3>1, <2>3, <1>8
      <4> QED
        BY <3>2, <4>1, <4>2, <4>3, <1>9
    <3>3. CASE m \in 1..Len(firsts) /\ p \in 1..Len(firsts)
      <4>1. firsts[m] = firsts[p]
        BY <3>3, <2>3, <1>8
      <4> QED
        BY <3>3, <4>1 DEF Rows
    <3> QED
      BY <3>2, <3>3, <1>8, <1>9
  <2> QED
    BY <1>8, <2>1, <2>2, <2>3 DEF Rows
<1>12. TracesAt(r, k + 1) = TracesAt(r, k)
  <2>1. \A i \in 1..k : TraceAt(r, k + 1, i) = TraceAt(r, k, i)
    BY <1>5 DEF TraceAt
  <2>2. {i \in 1..(k + 1) : Alike(r, k + 1, i) # {i}} = {i \in 1..k : Alike(r, k, i) # {i}}
    BY <1>5, <1>6, <1>10
  <2> QED
    BY <2>1, <2>2 DEF TracesAt
<1> QED
  BY <1>4, <1>11, <1>12 DEF firsts1

(* The item after k contends with that at b: b1 is kept, d is dropped.     *)
Contends(r, k, b, b1, d) ==
  /\ b1 = (IF Better(r[k + 1], r[b]) THEN k + 1 ELSE b)
  /\ d = (IF Better(r[k + 1], r[b]) THEN b ELSE k + 1)

(* What the trace of a key becomes when its group G, best b, meets one more. *)
LEMMA TraceGrows ==
  ASSUME NEW I, Rated(I), NEW k \in Nat, NEW r, \A j \in 1..(k + 1) : r[j] \in I, NEW i \in 1..k,
         buildMergeKey(r[i]) = buildMergeKey(r[k + 1]), NEW b, IsBest(r, b, Alike(r, k, i)),
         NEW b1, NEW d, Contends(r, k, b, b1, d)
  PROVE  resolution(TracesAt(r, k), buildMergeKey(r[k + 1]), r[b1], r[d]) = TracesAt(r, k + 1)
<1> DEFINE key(j) == buildMergeKey(r[j])
           G == Alike(r, k, i)
           others == {j \in 1..k : key(j) # key(k + 1) /\ Alike(r, k, j) # {j}}
           earlier == {x \in TracesAt(r, k) : x.merge_key = key(k + 1)}
           uids == {r[j].uid : j \in G \ {b}}
           new == [merge_key |-> key(k + 1), kept_item_uid |-> r[b1].uid,
                   dropped_item_uids |-> {r[d].uid} \cup uids]
<1>1. /\ G \in SUBSET (1..k) /\ b \in G /\ i \in G /\ k + 1 \notin G /\ G \in SUBSET Nat
      /\ 1..k \subseteq 1..(k + 1) /\ k + 1 \in 1..(k + 1)
      /\ \A j \in 1..(k + 1) : j = k + 1 \/ j \in 1..k
  BY DEF Alike, IsBest
<1>2. \A j \in 1..k : key(j) = key(k + 1) =>
        Alike(r, k, j) = G /\ TraceAt(r, k, j) = TraceAt(r, k, i)
  BY AlikeIsShared
<1>3. \A j \in 1..k : key(j) # key(k + 1) =>
        Alike(r, k + 1, j) = Alike(r, k, j) /\ TraceAt(r, k + 1, j) = TraceAt(r, k, j)
  BY <1>1, AlikeWithOneMore DEF TraceAt
<1>4. \A j \in 1..(k + 1) : key(j) = key(k + 1) =>
        Alike(r, k + 1, j) = G \cup {k + 1} /\ TraceAt(r, k + 1, j) = TraceAt(r, k + 1, k + 1)
  <2> SUFFICES ASSUME NEW j \in 1..(k + 1), key(j) = key(k + 1)
               PROVE  Alike(r, k + 1, j) = G \cup {k + 1} /\ TraceAt(r, k + 1, j) = TraceAt(r, k + 1, k + 1)
    OBVIOUS
  <2>1. Alike(r, k + 1, j) = Alike(r, k + 1, k + 1) /\ TraceAt(r, k + 1, j) = TraceAt(r, k + 1, k + 1)
    BY AlikeIsShared
  <2>2. i \in 1..(k + 1) /\ k + 1 \in Nat
    BY <1>1
  <2>3. Alike(r, k + 1, i) = G \cup {k + 1}
    BY <2>2, AlikeWithOneMore
  <2>4. Alike(r, k + 1, k + 1) = Alike(r, k + 1, i)
    BY <2>2, AlikeIsShared
  <2> QED
    BY <2>1, <2>3, <2>4
<1>5. IsBest(r, b1, G \cup {k + 1})
  BY <1>1, BestWithOneMore DEF Contends
<1>6. BestOf(r, G) = b /\ BestOf(r, G \cup {k + 1}) = b1
  BY <1>1, <1>5, BestOfIsBest
<1>7. (G \cup {k + 1}) \ {b1} = (G \ {b}) \cup {d}
  BY <1>1 DEF Contends
<1>8. TraceAt(r, k + 1, k + 1) = new
  <2>1. Alike(r, k + 1, k + 1) = G \cup {k + 1}
    BY <1>1, <1>4
  <2>2. {r[j].uid : j \in (G \cup {k + 1}) \ {b1}} = {r[d].uid} \cup uids
    BY <1>7
  <2> QED
    BY <2>1, <2>2, <1>6 DEF TraceAt
<1>9. TracesAt(r, k + 1) = {TraceAt(r, k, j) : j \in others} \cup {new}
  <2> DEFINE mine == {j \in 1..(k + 1) : key(j) = key(k + 1)}
  <2>1. {j \in 1..(k + 1) : Alike(r, k + 1, j) # {j}} = others \cup mine
    BY <1>1, <1>3, <1>4
  <2>2. \A j \in others : TraceAt(r, k + 1, j) = TraceAt(r, k, j)
    BY <1>3
  <2>3. \A j \in mine : TraceAt(r, k + 1, j) = new
    BY <1>4, <1>8
  <2>4. k + 1 \in mine
    BY <1>1
  <2>5. TracesAt(r, k + 1) = {TraceAt(r, k + 1, j) : j \in others \cup mine}
    BY <2>1 DEF TracesAt
  <2> HIDE DEF others, mine, new
  <2> QED
    BY <2>2, <2>3, <2>4, <2>5
<1>10. \A j : TraceAt(r, k, j).merge_key = key(j)
  BY DEF TraceAt
<1>11. TracesAt(r, k) \ earlier = {TraceAt(r, k, j) : j \in others}
  BY <1>10 DEF TracesAt
<1>12. UNION {x.dropped_item_uids : x \in earlier} = uids
  <2>1. TraceAt(r, k, i).dropped_item_uids = uids
    BY <1>6 DEF TraceAt
  <2>2. CASE G = {i}
    <3>1. earlier = {}
      <4> SUFFICES ASSUME NEW x \in earlier PROVE FALSE
        OBVIOUS
      <4>1. PICK j \in 1..k : x = TraceAt(r, k, j) /\ Alike(r, k, j) # {j}
        BY DEF TracesAt
      <4>2. key(j) = key(k + 1)
        BY <4>1, <1>10
      <4>3. Alike(r, k, j) = G /\ j \in Alike(r, k, j)
        BY <4>2, <1>2 DEF Alike
      <4> QED
        BY <4>1, <4>3, <2>2
    <3>2. uids = {}
      BY <2>2, <1>1
    <3> QED
      BY <3>1, <3>2
  <2>3. CASE G # {i}
    <3>1. earlier = {TraceAt(r, k, i)}
      BY <2>3, <1>2, <1>10, <1>1 DEF TracesAt
    <3> QED
      BY <2>1, <3>1
  <2> QED
    BY <2>2, <2>3
<1>13. resolution(TracesAt(r, k), key(k + 1), r[b1], r[d]) =
         (TracesAt(r, k) \ earlier) \cup {new}
  BY <1>12 DEF resolution
<1> QED
  BY <1>9, <1>11, <1>13

------------------------------------------------------------------------------
(* The table and its trace.                                                *)

(* An item of a key met before, in the table and in the trace.             *)
LEMMA OldRow ==
  ASSUME NEW I, Rated(I), NEW k \in Nat, NEW r, \A j \in 1..(k + 1) : r[j] \in I,
         NEW firsts \in Seq(Nat), NEW acc \in Tables(I),
         Rows(acc.items, firsts, r, k), acc.resolutions = TracesAt(r, k), ~IsFirst(r, k + 1)
  PROVE  LET new == mergeItem(acc, r[k + 1])
         IN  /\ Rows(new.items, firsts, r, k + 1)
             /\ new.resolutions = TracesAt(r, k + 1)
<1> DEFINE items == acc.items
           item == r[k + 1]
<1>1. PICK i \in 1..k : IsFirst(r, i) /\ buildMergeKey(r[i]) = buildMergeKey(item)
  BY FirstMention
<1>2. PICK m \in 1..Len(firsts) : firsts[m] = i
  BY <1>1 DEF Rows
<1>3. PICK b \in 1..k : IsBest(r, b, Alike(r, k, i)) /\ items[m] = r[b]
  BY <1>2 DEF Rows
<1>4. /\ Len(items) = Len(firsts) /\ Len(firsts) \in Nat /\ items \in Seq(I)
      /\ \A p \in 1..Len(firsts) : firsts[p] \in 1..k /\ IsFirst(r, firsts[p])
      /\ 1..k \subseteq 1..(k + 1) /\ 1..k \subseteq Nat \ {0} /\ k + 1 \in 1..(k + 1)
      /\ r[b] \in I /\ item \in I
  <2>1. Len(items) = Len(firsts) /\ \A p \in 1..Len(firsts) : firsts[p] \in 1..k /\ IsFirst(r, firsts[p])
    BY DEF Rows
  <2>2. items \in Seq(I) /\ Len(firsts) \in Nat
    BY DEF Tables
  <2>3. 1..k \subseteq 1..(k + 1) /\ 1..k \subseteq Nat \ {0} /\ k + 1 \in 1..(k + 1)
    OBVIOUS
  <2> QED
    BY <2>1, <2>2, <2>3
<1>5. \A p \in 1..Len(firsts) : buildMergeKey(items[p]) = buildMergeKey(item) <=> p = m
  <2> SUFFICES ASSUME NEW p \in 1..Len(firsts)
               PROVE  buildMergeKey(items[p]) = buildMergeKey(item) <=> p = m
    OBVIOUS
  <2>1. buildMergeKey(items[p]) = buildMergeKey(r[firsts[p]])
    BY RowKey
  <2>2. buildMergeKey(r[firsts[p]]) = buildMergeKey(r[i]) => firsts[p] = i
    BY <1>1, <1>4, FirstIsUnique
  <2>3. firsts[p] = i => p = m
    BY <1>2 DEF Rows
  <2> QED
    BY <2>1, <2>2, <2>3, <1>1, <1>2
<1>6. Held(acc, item) = {m}
  BY <1>4, <1>5 DEF Held
<1> DEFINE better == Better(item, r[b])
           b1 == IF better THEN k + 1 ELSE b
           d == IF better THEN b ELSE k + 1
           items1 == [items EXCEPT ![m] = r[b1]]
<1>7. mergeItem(acc, item) =
        [items |-> items1, resolutions |-> resolution(acc.resolutions, buildMergeKey(item), r[b1], r[d])]
  <2>1. keepCurrent(items[m], item) <=> better
    BY <1>3, <1>4, KeepCurrentIsBetter
  <2> QED
    BY <2>1, <1>3, <1>6, MergeHeld
<1>8. resolution(acc.resolutions, buildMergeKey(item), r[b1], r[d]) = TracesAt(r, k + 1)
  <2>1. Contends(r, k, b, b1, d)
    BY DEF Contends
  <2>2. buildMergeKey(r[i]) = buildMergeKey(r[k + 1]) /\ i \in 1..k /\ IsBest(r, b, Alike(r, k, i))
    BY <1>1, <1>3
  <2> HIDE DEF b1, d
  <2>3. resolution(TracesAt(r, k), buildMergeKey(r[k + 1]), r[b1], r[d]) = TracesAt(r, k + 1)
    BY <2>1, <2>2, TraceGrows, ZenonT(30)
  <2> QED
    BY <2>3
<1>9. IsBest(r, b1, Alike(r, k + 1, i))
  <2>1. Alike(r, k, i) \in SUBSET (1..k)
    BY DEF Alike
  <2>2. IsBest(r, b1, Alike(r, k, i) \cup {k + 1})
    BY <1>3, <2>1, BestWithOneMore
  <2>3. i \in 1..(k + 1)
    BY <1>4
  <2>4. Alike(r, k + 1, i) = Alike(r, k, i) \cup {k + 1}
    BY <1>1, <2>3, AlikeWithOneMore
  <2> QED
    BY <2>2, <2>4
<1>10. b1 \in 1..(k + 1)
  BY <1>4
<1>11. Len(items1) = Len(firsts) /\ \A p \in 1..Len(firsts) : items1[p] = IF p = m THEN r[b1] ELSE items[p]
  BY <1>4
<1> HIDE DEF items1, b1, d
<1>12. Rows(items1, firsts, r, k + 1)
  <2>1. ASSUME NEW p \in 1..Len(firsts)
        PROVE  /\ firsts[p] \in 1..(k + 1) /\ IsFirst(r, firsts[p])
               /\ \E c \in 1..(k + 1) : IsBest(r, c, Alike(r, k + 1, firsts[p])) /\ items1[p] = r[c]
    <3>1. CASE p = m
      BY <3>1, <1>2, <1>4, <1>9, <1>10, <1>11
    <3>2. CASE p # m
      <4>1. PICK c \in 1..k : IsBest(r, c, Alike(r, k, firsts[p])) /\ items[p] = r[c]
        BY DEF Rows
      <4>2. buildMergeKey(r[firsts[p]]) # buildMergeKey(item)
        BY <3>2, <1>5, RowKey
      <4>3. Alike(r, k + 1, firsts[p]) = Alike(r, k, firsts[p])
        BY <4>2, <1>4, AlikeWithOneMore
      <4>4. items1[p] = r[c] /\ c \in 1..(k + 1)
        BY <3>2, <4>1, <1>11, <1>4
      <4> QED
        BY <4>1, <4>3, <4>4, <1>4
    <3> QED
      BY <3>1, <3>2
  <2>2. ASSUME NEW j \in 1..(k + 1), IsFirst(r, j) PROVE \E p \in 1..Len(firsts) : firsts[p] = j
    <3>1. j \in 1..k
      BY <2>2, <1>4
    <3> QED
      BY <3>1, <2>2 DEF Rows
  <2> QED
    BY <2>1, <2>2, <1>11 DEF Rows
<1> QED
  BY <1>7, <1>8, <1>12

\* The positions of first mention, as the reference says it.
FirstMentions(r) == {i \in 1..Len(r) : Min(Duplicates(r, i)) = i}

(* The reference names the positions of first mention.                     *)
LEMMA FirstMentionsAreFirst ==
  ASSUME NEW r, NEW i \in 1..Len(r), Len(r) \in Nat
  PROVE  i \in FirstMentions(r) <=> IsFirst(r, i)
<1>1. i \in Duplicates(r, i) /\ Duplicates(r, i) \in SUBSET Nat
  BY DEF Duplicates
<1>2. Min(Duplicates(r, i)) \in Duplicates(r, i) /\ \A j \in Duplicates(r, i) : Min(Duplicates(r, i)) <= j
  BY <1>1, LeastOfInterval
<1>3. ASSUME Min(Duplicates(r, i)) = i PROVE IsFirst(r, i)
  BY <1>2, <1>3 DEF IsFirst, Duplicates
<1>4. ASSUME IsFirst(r, i) PROVE Min(Duplicates(r, i)) = i
  BY <1>1, <1>2, <1>4 DEF IsFirst, Duplicates
<1> QED
  BY <1>3, <1>4 DEF FirstMentions

(* The loop of the consolidation fills the table it is meant to fill, and   *)
(* traces what it drops.                                                    *)
LEMMA MergedTable ==
  ASSUME NEW I, Rated(I), NEW r \in Seq(I)
  PROVE  LET merged == FoldLeft(mergeItem, NoTable, r)
         IN  /\ merged \in Tables(I)
             /\ merged.items = ReferenceTable(r)
             /\ merged.resolutions = ReferenceResolutions(r)
<1> DEFINE n == Len(r)
           F == FirstMentions(r)
           all == [i \in 1..n |-> i]
           g == [p \in Seq(1..n) \X (1..n) |-> IF p[2] \in F THEN Append(p[1], p[2]) ELSE p[1]]
<1>1. n \in Nat /\ \A i \in 1..n : r[i] \in I
  OBVIOUS
<1>2. all \in Seq(1..n) /\ Len(all) = n /\ \A i \in 1..n : all[i] = i
  BY <1>1
<1> HIDE DEF all
<1>3. PICK t : MergeSteps(t, I, r)
  BY MergeHasSteps
<1>4. PICK u : Steps(u, Seq(1..n), g, << >>, all, Keeping(all, F))
  BY <1>2, KeepingSteps
<1> DEFINE Right == {k \in 0..n : Rows(t[k].items, u[k], r, k) /\ t[k].resolutions = TracesAt(r, k)}
<1>5. 0 \in Right
  <2>1. t[0] = NoTable /\ u[0] = << >>
    BY <1>3, <1>4 DEF MergeSteps, Steps
  <2>2. Rows(<< >>, << >>, r, 0)
    BY DEF Rows
  <2>3. TracesAt(r, 0) = {}
    BY DEF TracesAt
  <2>4. Rows(t[0].items, u[0], r, 0)
    BY <2>1, <2>2 DEF NoTable
  <2>5. t[0].resolutions = TracesAt(r, 0)
    BY <2>1, <2>3 DEF NoTable
  <2>6. 0 \in 0..n
    BY <1>1
  <2> QED
    BY <2>4, <2>5, <2>6
<1>6. ASSUME NEW k \in 0..(n - 1), k \in Right PROVE k + 1 \in Right
  <2>1. k \in Nat /\ k + 1 \in 1..n /\ k + 1 \in 0..n /\ k \in 0..n /\ (k + 1) - 1 = k /\ 1..(k + 1) \subseteq 1..n
    BY <1>1
  <2>2. t[k] \in Tables(I) /\ t[k + 1] = mergeItem(t[k], r[k + 1])
    BY <1>3, <2>1 DEF MergeSteps
  <2>3. u[k] \in Seq(1..n) /\ u[k + 1] = IF k + 1 \in F THEN Append(u[k], k + 1) ELSE u[k]
    <3>1. u[k] \in Seq(1..n) /\ u[k + 1] = g[<<u[k], all[k + 1]>>]
      BY <1>2, <1>4, <2>1 DEF Steps
    <3> QED
      BY <3>1, <2>1, <1>2
  <2>4. u[k] \in Seq(Nat)
    BY <2>3, <1>1
  <2>5. \A j \in 1..(k + 1) : r[j] \in I
    BY <1>1, <2>1
  <2>6. k + 1 \in F <=> IsFirst(r, k + 1)
    BY <1>1, <2>1, FirstMentionsAreFirst
  <2>7. Rows(t[k].items, u[k], r, k) /\ t[k].resolutions = TracesAt(r, k)
    BY <1>6
  <2> HIDE DEF F
  <2>8. CASE IsFirst(r, k + 1)
    BY <2>1, <2>2, <2>3, <2>4, <2>5, <2>6, <2>7, <2>8, NewRow
  <2>9. CASE ~IsFirst(r, k + 1)
    <3>1. /\ Rows(mergeItem(t[k], r[k + 1]).items, u[k], r, k + 1)
          /\ mergeItem(t[k], r[k + 1]).resolutions = TracesAt(r, k + 1)
      BY <2>1, <2>2, <2>4, <2>5, <2>7, <2>9, OldRow
    <3>2. t[k + 1] = mergeItem(t[k], r[k + 1]) /\ u[k + 1] = u[k]
      BY <2>2, <2>3, <2>6, <2>9
    <3>3. Rows(t[k + 1].items, u[k + 1], r, k + 1) /\ t[k + 1].resolutions = TracesAt(r, k + 1)
      BY <3>1, <3>2
    <3> QED
      BY <3>3, <2>1
  <2> QED
    BY <2>8, <2>9
<1> HIDE DEF Right
<1>7. \A k \in 0..n : k \in Right
  BY <1>1, <1>5, <1>6, UpTo
<1> DEFINE merged == FoldLeft(mergeItem, NoTable, r)
           firsts == Keeping(all, F)
<1>8. merged \in Tables(I) /\ Rows(merged.items, firsts, r, n) /\ merged.resolutions = TracesAt(r, n)
  BY <1>1, <1>2, <1>3, <1>4, <1>7 DEF MergeSteps, Steps, Right
<1> HIDE DEF merged
<1>9. ReferenceTable(r) = [m \in 1..Len(firsts) |-> r[BestOf(r, Duplicates(r, firsts[m]))]]
  BY DEF ReferenceTable, all, FirstMentions
<1>10. firsts \in Seq(1..n)
  BY <1>2, KeepingPicks
<1> HIDE DEF firsts
<1>11. ASSUME NEW m \in 1..Len(firsts) PROVE merged.items[m] = r[BestOf(r, Duplicates(r, firsts[m]))]
  <2>1. PICK b \in 1..n : IsBest(r, b, Alike(r, n, firsts[m])) /\ merged.items[m] = r[b]
    BY <1>8 DEF Rows
  <2>2. Alike(r, n, firsts[m]) = Duplicates(r, firsts[m]) /\ Alike(r, n, firsts[m]) \in SUBSET Nat
    BY DEF Alike, Duplicates
  <2> QED
    BY <2>1, <2>2, BestOfIsBest
<1>12. merged.items \in Seq(I) /\ Len(merged.items) = Len(firsts) /\ Len(firsts) \in Nat
  BY <1>8, <1>10 DEF Tables, Rows
<1>13. merged.items = ReferenceTable(r)
  BY <1>9, <1>11, <1>12
<1>14. TracesAt(r, n) = ReferenceResolutions(r)
  <2>1. \A i : Alike(r, n, i) = Duplicates(r, i)
    BY DEF Alike, Duplicates
  <2> QED
    BY <2>1 DEF TracesAt, TraceAt, ReferenceResolutions
<1> QED
  BY <1>8, <1>13, <1>14 DEF merged

------------------------------------------------------------------------------
(* Sequences of sequences.                                                 *)

(* A function on typed results and entries can be folded.                  *)
LEMMA StepsExist ==
  ASSUME NEW A, NEW E, NEW g \in [A \X E -> A], NEW base \in A, NEW seq \in Seq(E)
  PROVE  \E t : Steps(t, A, g, base, seq, t[Len(seq)])
<1> DEFINE n == Len(seq)
<1>1. n \in Nat /\ \A i \in 1..n : seq[i] \in E
  OBVIOUS
<1>2. PICK h : Folds(h, A, g, base, seq, n)
  BY <1>1, FoldExists
<1>3. h[{}] = base
  BY <1>2 DEF Folds
<1>4. ASSUME NEW k \in 1..n PROVE h[1..k] = g[<<h[1..(k - 1)], seq[k]>>]
  <2>1. k \in Nat /\ k # 0
    BY <1>1
  <2>2. Max(1..k) = k /\ (1..k) \ {k} = 1..(k - 1)
    BY <2>1, MaxOfPrefix
  <2>3. 1..k \in SUBSET (1..n) /\ k \in 1..k
    BY <1>1, <2>1
  <2> QED
    BY <2>2, <2>3, <1>2 DEF Folds
<1>5. Iterates(h, A, g, base, seq)
  BY <1>3, <1>4 DEF Iterates
<1>6. PICK t : Steps(t, A, g, base, seq, h[1..Len(seq)])
  BY <1>5, FoldSteps
<1>7. Steps(t, A, g, base, seq, t[Len(seq)])
  BY <1>6 DEF Steps
<1> QED
  BY <1>7

\* Chaining, as a function to fold.
Concatenation(E) == [p \in Seq(E) \X Seq(E) |-> p[1] \o p[2]]

(* FlattenSeq chains sequence after sequence.                              *)
LEMMA FlattenSteps ==
  ASSUME NEW E, NEW seqs \in Seq(Seq(E))
  PROVE  \E t : Steps(t, Seq(E), Concatenation(E), << >>, seqs, FlattenSeq(seqs))
<1> DEFINE n == Len(seqs)
           Rec(h) == h = [i \in 1..n |-> IF i = 1 THEN seqs[i] ELSE h[i - 1] \o seqs[i]]
           flatten == CHOOSE h : Rec(h)
<1>1. n \in Nat /\ \A i \in 1..n : seqs[i] \in Seq(E)
  OBVIOUS
<1>2. Concatenation(E) \in [Seq(E) \X Seq(E) -> Seq(E)] /\ << >> \in Seq(E)
  BY DEF Concatenation
<1>3. PICK t : Steps(t, Seq(E), Concatenation(E), << >>, seqs, t[n])
  BY <1>2, StepsExist
<1>4. ASSUME NEW k \in 1..n PROVE t[k] = t[k - 1] \o seqs[k]
  <2>1. k - 1 \in 0..n
    BY <1>1
  <2>2. t[k - 1] \in Seq(E) /\ seqs[k] \in Seq(E)
    BY <2>1, <1>1, <1>3 DEF Steps
  <2> QED
    BY <2>2, <1>3 DEF Steps, Concatenation
<1>5. t[0] = << >>
  BY <1>3 DEF Steps
<1>6. CASE n = 0
  <2>1. FlattenSeq(seqs) = << >>
    BY <1>6 DEF FlattenSeq
  <2> QED
    BY <2>1, <1>3, <1>5, <1>6 DEF Steps
<1>7. CASE n # 0
  <2>1. FlattenSeq(seqs) = flatten[n]
    BY <1>1, <1>7 DEF FlattenSeq
  <2>2. Rec([i \in 1..n |-> t[i]])
    <3>1. ASSUME NEW i \in 1..n PROVE t[i] = IF i = 1 THEN seqs[i] ELSE t[i - 1] \o seqs[i]
      <4>0. seqs[i] \in Seq(E)
        BY <1>1
      <4>1. t[i] = t[i - 1] \o seqs[i] /\ << >> \o seqs[i] = seqs[i]
        <5>1. << >> \o seqs[i] = seqs[i]
          BY <4>0
        <5> QED
          BY <5>1, <1>4
      <4>2. i = 1 => t[i - 1] = << >>
        BY <1>5
      <4> QED
        BY <4>1, <4>2
    <3>2. ASSUME NEW i \in 1..n, i # 1 PROVE i - 1 \in 1..n
      BY <1>1, <3>2
    <3> QED
      BY <3>1, <3>2
  <2>3. Rec(flatten)
    BY <2>2
  <2>3a. \A i \in 1..n : flatten[i] = IF i = 1 THEN seqs[i] ELSE flatten[i - 1] \o seqs[i]
    BY <2>3
  <2> HIDE DEF flatten
  <2> DEFINE Same == {k \in 0..n : k # 0 => flatten[k] = t[k]}
  <2>4. 0 \in Same
    BY <1>1
  <2>5. ASSUME NEW k \in 0..(n - 1), k \in Same PROVE k + 1 \in Same
    <3>1. k + 1 \in 1..n /\ k + 1 \in 0..n /\ (k + 1) - 1 = k /\ k \in Nat
      BY <1>1
    <3>2. CASE k = 0
      <4>1. 1 \in 1..n /\ 1 - 1 = 0
        BY <3>1, <3>2
      <4>2. flatten[1] = seqs[1] /\ t[1] = t[0] \o seqs[1] /\ seqs[1] \in Seq(E)
        BY <2>3a, <4>1, <1>1, <1>4
      <4>3. flatten[1] = t[1]
        BY <4>2, <1>5
      <4> QED
        BY <4>3, <3>1, <3>2
    <3>3. CASE k # 0
      <4>1. flatten[k + 1] = flatten[k] \o seqs[k + 1]
        <5>1. k + 1 # 1
          BY <3>1, <3>3
        <5>2. flatten[k + 1] = flatten[(k + 1) - 1] \o seqs[k + 1]
          BY <2>3a, <3>1, <5>1
        <5> QED
          BY <5>2, <3>1
      <4> QED
        BY <4>1, <3>1, <3>3, <1>4, <2>5
    <3> QED
      BY <3>2, <3>3
  <2> HIDE DEF Same
  <2>6. \A k \in 0..n : k \in Same
    BY <1>1, <2>4, <2>5, UpTo
  <2>7. n \in Same
    BY <1>1, <2>6
  <2>8. flatten[n] = t[n]
    BY <2>7, <1>7 DEF Same
  <2> QED
    BY <2>1, <2>8, <1>3 
<1> QED
  BY <1>6, <1>7

(* The chain is of the entries of its parts.                               *)
LEMMA FlattenType ==
  ASSUME NEW E, NEW seqs \in Seq(Seq(E))
  PROVE  FlattenSeq(seqs) \in Seq(E)
<1>1. Len(seqs) \in 0..Len(seqs)
  OBVIOUS
<1> QED
  BY <1>1, FlattenSteps DEF Steps

(* A chain with one more part.                                             *)
LEMMA FlattenAppend ==
  ASSUME NEW E, NEW seqs \in Seq(Seq(E)), NEW part \in Seq(E)
  PROVE  FlattenSeq(Append(seqs, part)) = FlattenSeq(seqs) \o part
<1> DEFINE n == Len(seqs)
           more == Append(seqs, part)
<1>1. /\ n \in Nat /\ more \in Seq(Seq(E)) /\ Len(more) = n + 1 /\ more[n + 1] = part
      /\ \A k \in 1..n : more[k] = seqs[k] /\ seqs[k] \in Seq(E)
  OBVIOUS
<1> HIDE DEF more
<1>2. PICK t : Steps(t, Seq(E), Concatenation(E), << >>, seqs, FlattenSeq(seqs))
  BY FlattenSteps
<1>3. PICK u : Steps(u, Seq(E), Concatenation(E), << >>, more, FlattenSeq(more))
  BY <1>1, FlattenSteps
<1> DEFINE Same == {k \in 0..n : u[k] = t[k]}
<1>4. 0 \in Same
  BY <1>1, <1>2, <1>3 DEF Steps
<1>5. ASSUME NEW k \in 0..(n - 1), k \in Same PROVE k + 1 \in Same
  <2>1. k + 1 \in 1..n /\ k + 1 \in 1..(n + 1) /\ k + 1 \in 0..n /\ (k + 1) - 1 = k
    BY <1>1
  <2>2. t[k + 1] = Concatenation(E)[<<t[k], seqs[k + 1]>>]
    BY <2>1, <1>2 DEF Steps
  <2>3. u[k + 1] = Concatenation(E)[<<u[k], more[k + 1]>>]
    BY <2>1, <1>1, <1>3 DEF Steps
  <2> QED
    BY <2>1, <2>2, <2>3, <1>1, <1>5
<1> HIDE DEF Same
<1>6. \A k \in 0..n : k \in Same
  BY <1>1, <1>4, <1>5, UpTo
<1>7. n \in Same
  BY <1>1, <1>6
<1>8. u[n] = t[n] /\ n \in 0..n
  BY <1>7, <1>1 DEF Same
<1>9. u[n] \in Seq(E) /\ u[n] = FlattenSeq(seqs)
  BY <1>8, <1>2 DEF Steps
<1>10. n + 1 \in 1..(n + 1) /\ (n + 1) - 1 = n
  BY <1>1
<1>11. u[n + 1] = Concatenation(E)[<<u[n], part>>] /\ u[n + 1] = FlattenSeq(more)
  BY <1>1, <1>3, <1>10 DEF Steps
<1>12. u[n + 1] = u[n] \o part
  BY <1>9, <1>11 DEF Concatenation
<1> QED
  BY <1>9, <1>11, <1>12 DEF more

(* The chain of nothing.                                                   *)
LEMMA FlattenNothing == FlattenSeq(<< >>) = << >>
BY DEF FlattenSeq

------------------------------------------------------------------------------
(* Sums.                                                                   *)

\* Adding, as a function to fold.
Addition == [p \in Int \X Int |-> p[1] + p[2]]

(* Total adds number after number.                                         *)
LEMMA TotalSteps ==
  ASSUME NEW numbers \in Seq(Int)
  PROVE  \E t : Steps(t, Int, Addition, 0, numbers, Total(numbers))
<1> DEFINE n == Len(numbers)
           D == 1..n
           Rec(h) == h = [s \in SUBSET D |-> IF s = {} THEN 0 ELSE h[s \ {Max(s)}] + numbers[Max(s)]]
           iter == CHOOSE h : Rec(h)
<1>1. n \in Nat /\ DOMAIN numbers = D /\ \A i \in D : numbers[i] \in Int
  OBVIOUS
<1>2. Total(numbers) = iter[D]
  BY <1>1 DEF Total, FoldLeft, MapThenFoldSet
<1>3. Addition \in [Int \X Int -> Int] /\ 0 \in Int
  BY DEF Addition
<1>4. PICK h : Folds(h, Int, Addition, 0, numbers, n)
  BY <1>1, <1>3, FoldExists
<1>5. \A s \in SUBSET D : s # {} => Max(s) \in s /\ s \ {Max(s)} \in SUBSET D
  BY <1>1, GreatestOfInterval
<1>6. Rec(h)
  BY <1>4, <1>5, <1>1 DEF Folds, Addition
<1>7. Rec(iter)
  BY <1>6
<1> HIDE DEF iter
<1>8. iter[{}] = 0
  BY <1>7
<1>9. ASSUME NEW k \in 1..n, iter[1..(k - 1)] \in Int
      PROVE  iter[1..k] = Addition[<<iter[1..(k - 1)], numbers[k]>>]
  <2>1. k \in Nat /\ k # 0
    BY <1>1
  <2>2. Max(1..k) = k /\ (1..k) \ {k} = 1..(k - 1)
    BY <2>1, MaxOfPrefix
  <2>3. 1..k \in SUBSET D /\ k \in 1..k
    BY <1>1, <2>1
  <2> QED
    BY <2>2, <2>3, <1>1, <1>7, <1>9 DEF Addition
<1>10. Iterates(iter, Int, Addition, 0, numbers)
  BY <1>8, <1>9 DEF Iterates
<1> HIDE DEF Rec, D
<1>11. \E t : Steps(t, Int, Addition, 0, numbers, iter[1..Len(numbers)])
  BY <1>3, <1>10, FoldSteps
<1> QED
  BY <1>2, <1>11 DEF D

(* Counting the entries of some sequences counts those of their chain.     *)
LEMMA TotalIsLength ==
  ASSUME NEW E, NEW seqs \in Seq(Seq(E)), NEW numbers \in Seq(Int),
         Len(numbers) = Len(seqs), \A i \in 1..Len(seqs) : numbers[i] = Len(seqs[i])
  PROVE  Total(numbers) = Len(FlattenSeq(seqs))
<1> DEFINE n == Len(seqs)
<1>1. PICK t : Steps(t, Seq(E), Concatenation(E), << >>, seqs, FlattenSeq(seqs))
  BY FlattenSteps
<1>2. PICK u : Steps(u, Int, Addition, 0, numbers, Total(numbers))
  BY TotalSteps
<1>3. n \in Nat /\ \A k \in 1..n : seqs[k] \in Seq(E)
  OBVIOUS
<1> DEFINE Right == {k \in 0..n : u[k] = Len(t[k])}
<1>4. 0 \in Right
  BY <1>1, <1>2, <1>3 DEF Steps
<1>5. ASSUME NEW k \in 0..(n - 1), k \in Right PROVE k + 1 \in Right
  <2>1. k + 1 \in 1..n /\ k + 1 \in 0..n /\ k \in 0..n /\ (k + 1) - 1 = k
    BY <1>3
  <2>2. t[k] \in Seq(E) /\ seqs[k + 1] \in Seq(E) /\ numbers[k + 1] = Len(seqs[k + 1])
    BY <2>1, <1>1, <1>3 DEF Steps
  <2>3. t[k + 1] = t[k] \o seqs[k + 1]
    BY <2>1, <2>2, <1>1 DEF Steps, Concatenation
  <2>4. u[k + 1] = u[k] + numbers[k + 1]
    <3>1. u[k + 1] = Addition[<<u[k], numbers[k + 1]>>] /\ u[k] \in Int
      BY <2>1, <1>2 DEF Steps
    <3>2. numbers[k + 1] \in Int
      BY <2>1
    <3> QED
      BY <3>1, <3>2 DEF Addition
  <2>5. Len(t[k + 1]) = Len(t[k]) + Len(seqs[k + 1])
    BY <2>2, <2>3
  <2> QED
    BY <2>1, <2>2, <2>4, <2>5, <1>5
<1> HIDE DEF Right
<1>6. \A k \in 0..n : k \in Right
  BY <1>3, <1>4, <1>5, UpTo
<1>7. n \in Right
  BY <1>3, <1>6
<1> QED
  BY <1>1, <1>2, <1>7 DEF Right, Steps

------------------------------------------------------------------------------
(* The visits of the repair of numbers.                                    *)

\* The labels as the repair reads them.
Raw(items) == [i \in 1..Len(items) |-> normalizeNullLikeString(items[i].number)]

(* The labels after each visit: the k-th changes at most the k-th label.   *)
Visits(t, raw) ==
  /\ t \in [0..Len(raw) -> Seq(Labels)]
  /\ t[0] = raw
  /\ \A k \in 1..Len(raw) : t[k] = [t[k - 1] EXCEPT ![k] = CanonicalLabel(t[k - 1], k)]
  /\ t[Len(raw)] = CanonicalLabels(raw)

(* A visit leaves a label.                                                 *)
LEMMA CanonicalLabelType ==
  ASSUME NEW labels \in Seq(Labels), NEW k \in 1..Len(labels)
  PROVE  CanonicalLabel(labels, k) \in Labels
<1>1. labels[k] \in Labels
  OBVIOUS
<1>2. Plain(labels[k].value) \in Labels
  BY <1>1 DEF Labels, Plain
<1> QED
  BY <1>1, <1>2 DEF CanonicalLabel

(* The labels after the repair are those after the last visit.             *)
LEMMA CanonicalLabelsVisits ==
  ASSUME NEW raw \in Seq(Labels)
  PROVE  \E t : Visits(t, raw)
<1> DEFINE n == Len(raw)
           D == 1..n
           all == [i \in D |-> i]
           A == {labels \in Seq(Labels) : Len(labels) = n}
           visit(labels, i) == [labels EXCEPT ![i] = CanonicalLabel(labels, i)]
           g == [p \in A \X D |-> visit(p[1], p[2])]
           Rec(h) == h = [s \in SUBSET D |-> IF s = {} THEN raw ELSE visit(h[s \ {Max(s)}], all[Max(s)])]
           iter == CHOOSE h : Rec(h)
<1>1. n \in Nat /\ DOMAIN raw = D
  OBVIOUS
<1>1a. all \in Seq(D) /\ Len(all) = n /\ DOMAIN all = D /\ \A i \in D : all[i] = i
  BY <1>1
<1>2. CanonicalLabels(raw) = iter[D]
  <2>1. [i \in DOMAIN raw |-> i] = all
    BY <1>1
  <2> QED
    BY <2>1, <1>1a DEF CanonicalLabels, FoldLeftDomain, FoldLeft, MapThenFoldSet
<1> HIDE DEF all
<1>3. g \in [A \X D -> A] /\ raw \in A
  <2>1. ASSUME NEW labels \in A, NEW i \in D PROVE visit(labels, i) \in A
    <3>1. CanonicalLabel(labels, i) \in Labels
      BY CanonicalLabelType
    <3>2. visit(labels, i) \in Seq(Labels) /\ Len(visit(labels, i)) = Len(labels)
      BY <3>1, ExceptSeq
    <3> QED
      BY <3>2
  <2> QED
    BY <2>1
<1>3a. \A p \in A \X D : g[p] = visit(p[1], p[2])
  OBVIOUS
<1>3b. \A i \in 1..n : all[i] \in D
  BY <1>1a
<1> HIDE DEF A, visit, g
<1>4. PICK h : Folds(h, A, g, raw, all, n)
  BY <1>1, <1>3, <1>3b, FoldExists
<1>5. \A s \in SUBSET D : s # {} => Max(s) \in s /\ s \ {Max(s)} \in SUBSET D
  BY <1>1, GreatestOfInterval
<1>6. Rec(h)
  <2>1. ASSUME NEW s \in SUBSET D, s # {} PROVE h[s] = visit(h[s \ {Max(s)}], all[Max(s)])
    <3>1. Max(s) \in D /\ all[Max(s)] \in D /\ s \ {Max(s)} \in SUBSET D
      BY <2>1, <1>3b, <1>5
    <3>2. h[s \ {Max(s)}] \in A /\ h[s] = g[<<h[s \ {Max(s)}], all[Max(s)]>>]
      BY <2>1, <3>1, <1>4 DEF Folds
    <3> QED
      BY <3>1, <3>2, <1>3a
  <2> QED
    BY <2>1, <1>4 DEF Folds
<1>7. Rec(iter)
  BY <1>6
<1> HIDE DEF iter
<1>8. iter[{}] = raw
  BY <1>7
<1>9. ASSUME NEW k \in 1..n, iter[1..(k - 1)] \in A
      PROVE  iter[1..k] = g[<<iter[1..(k - 1)], all[k]>>]
  <2>1. k \in Nat /\ k # 0
    BY <1>1
  <2>2. Max(1..k) = k /\ (1..k) \ {k} = 1..(k - 1)
    BY <2>1, MaxOfPrefix
  <2>3. 1..k \in SUBSET D /\ k \in 1..k
    BY <1>1, <2>1
  <2>4. iter[1..k] = visit(iter[1..(k - 1)], all[k])
    BY <2>2, <2>3, <1>7
  <2> QED
    BY <2>4, <1>3a, <1>3b, <1>9
<1>10. Iterates(iter, A, g, raw, all)
  BY <1>1a, <1>8, <1>9 DEF Iterates
<1>11. PICK t : Steps(t, A, g, raw, all, iter[1..Len(all)])
  BY <1>1a, <1>3, <1>10, FoldSteps
<1>12. ASSUME NEW k \in 1..n PROVE t[k] = visit(t[k - 1], k)
  <2>1. k - 1 \in 0..n /\ all[k] = k
    BY <1>1, <1>1a
  <2>2. t[k - 1] \in A /\ t[k] = g[<<t[k - 1], all[k]>>]
    BY <2>1, <1>1a, <1>11 DEF Steps
  <2> QED
    BY <2>1, <2>2, <1>3a
<1>13. t \in [0..n -> Seq(Labels)]
  BY <1>1a, <1>11 DEF Steps, A
<1> QED
  BY <1>1, <1>1a, <1>2, <1>11, <1>12, <1>13 DEF Steps, Visits, visit

------------------------------------------------------------------------------
(* What the repair comes to.                                               *)

(* What was visited stays, and what was not is as it was.                  *)
LEMMA VisitsGoThrough ==
  ASSUME NEW raw \in Seq(Labels), NEW t, Visits(t, raw), NEW k \in 0..Len(raw)
  PROVE  /\ Len(t[k]) = Len(raw)
         /\ \A j \in (k + 1)..Len(raw) : t[k][j] = raw[j]
<1> DEFINE n == Len(raw)
           Right == {m \in 0..n : Len(t[m]) = n /\ \A j \in (m + 1)..n : t[m][j] = raw[j]}
<1>1. n \in Nat
  OBVIOUS
<1>2. 0 \in Right
  BY <1>1 DEF Visits
<1>3. ASSUME NEW m \in 0..(n - 1), m \in Right PROVE m + 1 \in Right
  <2>1. m + 1 \in 1..n /\ m + 1 \in 0..n /\ m \in 0..n /\ (m + 1) - 1 = m
    BY <1>1
  <2>2. t[m] \in Seq(Labels) /\ t[m + 1] = [t[m] EXCEPT ![m + 1] = CanonicalLabel(t[m], m + 1)]
    BY <2>1 DEF Visits
  <2>3. Len(t[m + 1]) = n /\ \A j \in 1..n : j # m + 1 => t[m + 1][j] = t[m][j]
    BY <2>1, <2>2, <1>3
  <2>4. \A j \in ((m + 1) + 1)..n : j \in (m + 1)..n /\ j \in 1..n /\ j # m + 1
    BY <2>1
  <2> QED
    BY <2>1, <2>3, <2>4, <1>3
<1> HIDE DEF Right
<1>4. \A m \in 0..n : m \in Right
  BY <1>1, <1>2, <1>3, UpTo
<1> QED
  BY <1>4 DEF Right

(* A label that was visited stays as it is.                                *)
LEMMA VisitedStays ==
  ASSUME NEW raw \in Seq(Labels), NEW t, Visits(t, raw), NEW i \in 1..Len(raw), NEW k \in i..Len(raw)
  PROVE  t[k][i] = t[i][i]
<1> DEFINE n == Len(raw)
           Right == {m \in 0..(n - i) : t[i + m][i] = t[i][i]}
<1>1. n - i \in Nat /\ n \in Nat
  OBVIOUS
<1>2. 0 \in Right
  BY <1>1
<1>3. ASSUME NEW m \in 0..((n - i) - 1), m \in Right PROVE m + 1 \in Right
  <2>1. i + m \in 0..n /\ (i + m) + 1 \in 1..n /\ m + 1 \in 0..(n - i) /\ i # (i + m) + 1
        /\ ((i + m) + 1) - 1 = i + m /\ i + (m + 1) = (i + m) + 1
    BY <1>1
  <2>2. /\ t[i + m] \in Seq(Labels)
        /\ t[(i + m) + 1] = [t[i + m] EXCEPT ![(i + m) + 1] = CanonicalLabel(t[i + m], (i + m) + 1)]
    BY <2>1 DEF Visits
  <2>3. Len(t[i + m]) = n
    BY <2>1, VisitsGoThrough
  <2>4. t[(i + m) + 1][i] = t[i + m][i]
    BY <2>1, <2>2, <2>3
  <2> QED
    BY <2>1, <2>4, <1>3
<1> HIDE DEF Right
<1>4. \A m \in 0..(n - i) : m \in Right
  BY <1>1, <1>2, <1>3, UpTo
<1>5. k - i \in 0..(n - i) /\ i + (k - i) = k
  BY <1>1
<1>6. k - i \in Right
  BY <1>4, <1>5
<1> QED
  BY <1>5, <1>6 DEF Right

(* Every label is decided once, from those before it as they stay.         *)
Decided(c, raw, i, labels) ==
  /\ labels \in Seq(Labels) /\ Len(labels) = Len(raw)
  /\ labels[i] = raw[i]
  /\ \A j \in 1..(i - 1) : labels[j] = c[j]
  /\ c[i] = CanonicalLabel(labels, i)

(* So it is for every label.                                               *)
LEMMA CanonicalLabelsDecided ==
  ASSUME NEW raw \in Seq(Labels)
  PROVE  /\ CanonicalLabels(raw) \in Seq(Labels) /\ Len(CanonicalLabels(raw)) = Len(raw)
         /\ \A i \in 1..Len(raw) : \E labels : Decided(CanonicalLabels(raw), raw, i, labels)
<1> DEFINE n == Len(raw)
           c == CanonicalLabels(raw)
<1>1. PICK t : Visits(t, raw)
  BY CanonicalLabelsVisits
<1>2. n \in Nat /\ n \in 0..n
  OBVIOUS
<1>3. c = t[n] /\ c \in Seq(Labels)
  BY <1>1, <1>2 DEF Visits
<1>4. Len(c) = n
  BY <1>1, <1>2, <1>3, VisitsGoThrough
<1> HIDE DEF c
<1>5. ASSUME NEW i \in 1..n PROVE Decided(c, raw, i, t[i - 1])
  <2>1. i - 1 \in 0..n /\ i \in ((i - 1) + 1)..n /\ n \in i..n /\ i \in i..n
    BY <1>2
  <2>2. t[i - 1] \in Seq(Labels) /\ Len(t[i - 1]) = n /\ t[i - 1][i] = raw[i]
    <3>1. t[i - 1] \in Seq(Labels)
      BY <1>1, <2>1 DEF Visits
    <3>2. Len(t[i - 1]) = n /\ \A j \in ((i - 1) + 1)..n : t[i - 1][j] = raw[j]
      BY <1>1, <2>1, VisitsGoThrough
    <3> QED
      BY <3>1, <3>2, <2>1
  <2>3. c[i] = t[i][i]
    BY <1>1, <1>3, <2>1, VisitedStays
  <2>4. t[i][i] = CanonicalLabel(t[i - 1], i)
    <3>1. t[i] = [t[i - 1] EXCEPT ![i] = CanonicalLabel(t[i - 1], i)]
      BY <1>1 DEF Visits
    <3>2. i \in DOMAIN t[i - 1]
      BY <2>2
    <3> QED
      BY <3>1, <3>2
  <2>5. ASSUME NEW j \in 1..(i - 1) PROVE t[i - 1][j] = c[j]
    <3>1. j \in 1..n /\ i - 1 \in j..n /\ n \in j..n
      BY <1>2
    <3>2. t[i - 1][j] = t[j][j] /\ t[n][j] = t[j][j]
      BY <1>1, <3>1, VisitedStays
    <3> QED
      BY <3>2, <1>3
  <2> QED
    BY <2>2, <2>3, <2>4, <2>5 DEF Decided
<1> QED
  BY <1>3, <1>4, <1>5 DEF c

\* A set of items.
Itemised(I) == \A x \in I : IsItem(x)

(* The labels the repair starts from.                                      *)
LEMMA RawType ==
  ASSUME NEW I, Itemised(I), NEW items \in Seq(I)
  PROVE  Raw(items) \in Seq(Labels) /\ Len(Raw(items)) = Len(items)
<1>1. \A i \in 1..Len(items) : items[i] \in I
  OBVIOUS
<1>2. NoLabel \in Labels
  BY DEF NoLabel, Labels
<1>3. \A i \in 1..Len(items) : normalizeNullLikeString(items[i].number) \in Labels
  BY <1>1, <1>2 DEF Itemised, IsItem, normalizeNullLikeString
<1> QED
  BY <1>3 DEF Raw

(* The repair leaves no number that continues the one before it.           *)
LEMMA RepairContinues ==
  ASSUME NEW I, Itemised(I), NEW items \in Seq(I)
  PROVE  NumbersContinued(normalizeSequentialItemNumbers(items))
<1> DEFINE n == Len(items)
           raw == Raw(items)
           c == CanonicalLabels(raw)
           rows == normalizeSequentialItemNumbers(items)
           labels == [j \in 1..Len(rows) |-> rows[j].number]
<1>1. raw \in Seq(Labels) /\ Len(raw) = n /\ n \in Nat
  BY RawType
<1>2. c \in Seq(Labels) /\ Len(c) = n /\ \A i \in 1..n : \E at : Decided(c, raw, i, at)
  BY <1>1, CanonicalLabelsDecided
<1>3. Len(rows) = n /\ \A i \in 1..n : rows[i] = [items[i] EXCEPT
        !.number = c[i], !.warnings = IF c[i] = raw[i] THEN @ ELSE @ \cup {"renumbered"}]
  BY <1>1 DEF normalizeSequentialItemNumbers, Raw
<1> HIDE DEF rows, c, raw
<1>4. \A i \in 1..n : rows[i].number = c[i]
  <2> SUFFICES ASSUME NEW i \in 1..n PROVE rows[i].number = c[i]
    OBVIOUS
  <2>1. items[i] \in I
    OBVIOUS
  <2> QED
    BY <2>1, <1>3 DEF Itemised, IsItem
<1>5. labels = c
  <2>1. c = [i \in 1..n |-> c[i]]
    BY <1>1, <1>2
  <2>2. labels = [i \in 1..n |-> c[i]]
    BY <1>3, <1>4
  <2> QED
    BY <2>1, <2>2
<1>6. ASSUME NEW i \in 1..n, c[i].form = "ocr", NEW p \in findPreviousNumericLabel(c, i)
      PROVE  c[i].value # p + 1
  <2>1. PICK at : Decided(c, raw, i, at)
    BY <1>2
  <2>2. at[i] \in Labels /\ c[i] \in Labels
    BY <2>1, <1>1, <1>2 DEF Decided
  <2>3. findPreviousNumericLabel(at, i) = findPreviousNumericLabel(c, i)
    <3>1. \A j \in 1..(i - 1) : at[j] = c[j]
      BY <2>1 DEF Decided
    <3>2. {j \in 1..(i - 1) : Numeric(at[j])} = {j \in 1..(i - 1) : Numeric(c[j])}
      BY <3>1
    <3>3. CASE {j \in 1..(i - 1) : Numeric(c[j])} = {}
      BY <3>2, <3>3 DEF findPreviousNumericLabel
    <3>4. CASE {j \in 1..(i - 1) : Numeric(c[j])} # {}
      <4>1. i - 1 \in Nat
        BY <1>1
      <4>2. Max({j \in 1..(i - 1) : Numeric(c[j])}) \in 1..(i - 1)
        BY <3>4, <4>1, GreatestOfInterval
      <4> QED
        BY <3>1, <3>2, <3>4, <4>2 DEF findPreviousNumericLabel
    <3> QED
      BY <3>3, <3>4
  <2>4. c[i] = CanonicalLabel(at, i)
    BY <2>1 DEF Decided
  <2>5. Plain(at[i].value).form = "plain"
    BY DEF Plain
  <2>6. c[i] = at[i] /\ ~chooseSequentialCandidate(at[i].value,
          findPreviousNumericLabel(at, i), findNextNumericLabel(at, i))
    BY <2>4, <2>5, <1>6 DEF CanonicalLabel
  <2> QED
    BY <2>3, <2>6 DEF chooseSequentialCandidate
<1> QED
  <2>1. NumbersContinued(rows)
    <3>1. \A i \in 1..Len(rows) : labels[i].form = "ocr" =>
            \A p \in findPreviousNumericLabel(labels, i) : labels[i].value # p + 1
      BY <1>3, <1>5, <1>6
    <3> HIDE DEF labels
    <3> QED
      BY <3>1 DEF NumbersContinued, labels
  <2> QED
    BY <2>1 DEF rows

\* A row without what the repair changes.
Bare(row) == [row EXCEPT !.number = NoLabel, !.warnings = @ \ {"renumbered"}]

\* A row, field by field.
IsRow(r, u, x, y, z, w) ==
  r = [uid |-> u, number |-> x, name |-> y, confidence |-> z, warnings |-> w]

(* What Unnumbered leaves of a row.                                        *)
LEMMA BareRecord ==
  ASSUME NEW u, NEW x, NEW y, NEW z, NEW w, NEW r, IsRow(r, u, x, y, z, w)
  PROVE  IsRow(Bare(r), u, NoLabel, y, z, w \ {"renumbered"})
<1> DEFINE said == w \ {"renumbered"}
           v == Bare(r)
<1>1. r.warnings = w
  BY DEF IsRow
<1>2. v = [r EXCEPT !.number = NoLabel, !.warnings = said]
  BY <1>1 DEF Bare
<1> HIDE DEF said, v
<1>3. v = [uid |-> u, number |-> NoLabel, name |-> y, confidence |-> z, warnings |-> said]
  BY <1>2 DEF IsRow
<1> QED
  BY <1>3 DEF said, v, IsRow

(* And changes nothing but the numbers and what it says of them.           *)
LEMMA RepairOnlyNumbers ==
  ASSUME NEW I, Itemised(I), NEW items \in Seq(I)
  PROVE  /\ Len(normalizeSequentialItemNumbers(items)) = Len(items)
         /\ Unnumbered(normalizeSequentialItemNumbers(items)) = Unnumbered(items)
<1> DEFINE n == Len(items)
           c == CanonicalLabels(Raw(items))
           rows == normalizeSequentialItemNumbers(items)
           said(i) == IF c[i] = Raw(items)[i] THEN items[i].warnings
                      ELSE items[i].warnings \cup {"renumbered"}
<1>1. n \in Nat /\ \A i \in 1..n : items[i] \in I
  OBVIOUS
<1>2. Len(rows) = n /\ \A i \in 1..n : rows[i] = [items[i] EXCEPT !.number = c[i], !.warnings = said(i)]
  BY <1>1 DEF normalizeSequentialItemNumbers, Raw
<1>3. \A i \in 1..n : said(i) \ {"renumbered"} = items[i].warnings \ {"renumbered"}
  OBVIOUS
<1> HIDE DEF rows, c, said
<1>4. ASSUME NEW i \in 1..n PROVE Bare(rows[i]) = Bare(items[i])
  <2> DEFINE x == items[i]
  <2>1. IsRow(x, x.uid, x.number, x.name, x.confidence, x.warnings)
    BY <1>1 DEF Itemised, IsItem, IsRow
  <2>2. IsRow(rows[i], x.uid, c[i], x.name, x.confidence, said(i))
    BY <2>1, <1>2 DEF IsRow
  <2>3. IsRow(Bare(rows[i]), x.uid, NoLabel, x.name, x.confidence, said(i) \ {"renumbered"})
    BY <2>2, BareRecord
  <2>4. IsRow(Bare(x), x.uid, NoLabel, x.name, x.confidence, x.warnings \ {"renumbered"})
    BY <2>1, BareRecord
  <2> QED
    BY <2>3, <2>4, <1>3 DEF IsRow
<1>5. Unnumbered(rows) = [i \in 1..n |-> Bare(rows[i])] /\ Unnumbered(items) = [i \in 1..n |-> Bare(items[i])]
  BY <1>2 DEF Unnumbered, Bare
<1> QED
  BY <1>2, <1>4, <1>5 DEF rows

------------------------------------------------------------------------------
(* The review table of a run.                                              *)

\* An item as it enters the table from a batch to be reviewed.
ForReview(item) == [item EXCEPT !.warnings = @ \cup {"manual_review"}]

\* What enters the table of the items published.
Reviewable(J) == J \cup {ForReview(x) : x \in J}

(* They are items.                                                         *)
LEMMA ReviewableType ==
  ASSUME NEW J, Itemised(J)
  PROVE  Itemised(Reviewable(J)) /\ Rated(Reviewable(J))
<1>1. ASSUME NEW x \in J
      PROVE  LET y == ForReview(x)
             IN  /\ y = [uid |-> y.uid, number |-> y.number, name |-> y.name,
                         confidence |-> y.confidence, warnings |-> y.warnings]
                 /\ y.number \in Labels
                 /\ y.confidence \in Int
  <2> DEFINE said == x.warnings \cup {"manual_review"}
             y == ForReview(x)
  <2>1. /\ x = [uid |-> x.uid, number |-> x.number, name |-> x.name,
                confidence |-> x.confidence, warnings |-> x.warnings]
        /\ x.number \in Labels /\ x.confidence \in Int
    BY DEF Itemised, IsItem
  <2>2. y = [x EXCEPT !.warnings = said]
    BY DEF ForReview
  <2> HIDE DEF said, y
  <2>3. y = [uid |-> x.uid, number |-> x.number, name |-> x.name,
             confidence |-> x.confidence, warnings |-> said]
    BY <2>1, <2>2
  <2> QED
    BY <2>1, <2>3 DEF y
<1>2. Itemised(Reviewable(J))
  BY <1>1 DEF Itemised, IsItem, Reviewable
<1>3. Rated(Reviewable(J))
  BY <1>2 DEF Itemised, IsItem, Rated
<1> QED
  BY <1>2, <1>3

\* Batches publish items.
Published(J, B) == \A b \in B : b.output_json \in Seq(J)

(* The items of a batch enter as such.                                     *)
LEMMA EffectiveItemsType ==
  ASSUME NEW J, NEW B, Published(J, B), NEW b \in B
  PROVE  effectiveItems(b) \in Seq(Reviewable(J))
<1>1. \A i \in 1..Len(b.output_json) : b.output_json[i] \in J /\ Len(b.output_json) \in Nat
  BY DEF Published
<1>2. Len(b.output_json) \in Nat
  BY DEF Published
<1> DEFINE entered(i) == IF IsManualReview(b) THEN ForReview(b.output_json[i]) ELSE b.output_json[i]
<1>3. effectiveItems(b) = [i \in 1..Len(b.output_json) |-> entered(i)]
  BY DEF effectiveItems, ForReview
<1>4. \A i \in 1..Len(b.output_json) : entered(i) \in Reviewable(J)
  BY <1>1 DEF Reviewable
<1> HIDE DEF entered
<1> QED
  BY <1>2, <1>3, <1>4

(* And so do those of all batches.                                         *)
LEMMA ReviewTableType ==
  ASSUME NEW J, NEW B, Published(J, B), NEW batches \in Seq(B)
  PROVE  itemsForReviewTable(batches) \in Seq(Reviewable(J))
<1> DEFINE reviewed == acceptedBatches(batches) \o manualReviewBatches(batches)
           parts == [i \in 1..Len(reviewed) |-> effectiveItems(reviewed[i])]
<1>1. acceptedBatches(batches) \in Seq(B)
  BY KeepingPicks DEF acceptedBatches
<1>2. manualReviewBatches(batches) \in Seq(B)
  BY KeepingPicks DEF manualReviewBatches
<1>3. reviewed \in Seq(B)
  BY <1>1, <1>2
<1>4. Len(reviewed) \in Nat /\ \A i \in 1..Len(reviewed) : reviewed[i] \in B
  BY <1>3
<1> HIDE DEF reviewed
<1>5. \A i \in 1..Len(reviewed) : parts[i] \in Seq(Reviewable(J))
  BY <1>4, EffectiveItemsType
<1>6. parts \in Seq(Seq(Reviewable(J)))
  BY <1>4, <1>5
<1> HIDE DEF parts
<1>7. FlattenSeq(parts) \in Seq(Reviewable(J))
  BY <1>6, FlattenType
<1> QED
  BY <1>7 DEF itemsForReviewTable, parts, reviewed

(* What consolidate computes is what the reference says.                   *)
LEMMA ConsolidateIsReference ==
  ASSUME NEW J, Itemised(J), NEW B, Published(J, B), NEW batches \in Seq(B)
  PROVE  LET c == consolidate(batches)
             r == itemsForReviewTable(batches)
         IN  /\ c.items \in Seq(Reviewable(J))
             /\ c.items = ReferenceTable(r)
             /\ c.resolutions = ReferenceResolutions(r)
<1> DEFINE r == itemsForReviewTable(batches)
<1>1. r \in Seq(Reviewable(J)) /\ Rated(Reviewable(J))
  BY ReviewTableType, ReviewableType
<1>2. LET merged == FoldLeft(mergeItem, NoTable, r)
      IN  /\ merged \in Tables(Reviewable(J))
          /\ merged.items = ReferenceTable(r)
          /\ merged.resolutions = ReferenceResolutions(r)
  BY <1>1, MergedTable
<1>3. /\ consolidate(batches).items = FoldLeft(mergeItem, NoTable, r).items
      /\ consolidate(batches).resolutions = FoldLeft(mergeItem, NoTable, r).resolutions
  BY DEF consolidate, NoTable
<1> QED
  BY <1>2, <1>3 DEF Tables

(* When nothing is traced as dropped, every item is a row.                 *)
LEMMA NothingDropped ==
  ASSUME NEW I, NEW r \in Seq(I), ReferenceResolutions(r) = {}
  PROVE  Len(ReferenceTable(r)) = Len(r)
<1> DEFINE n == Len(r)
           all == [i \in 1..n |-> i]
           F == FirstMentions(r)
<1>1. n \in Nat /\ all \in Seq(1..n) /\ Len(all) = n /\ \A i \in 1..n : all[i] = i
  OBVIOUS
<1> HIDE DEF all
<1>2. \A i \in 1..n : Duplicates(r, i) = {i}
  BY DEF ReferenceResolutions
<1>3. \A i \in 1..n : Min(Duplicates(r, i)) = i
  <2> SUFFICES ASSUME NEW i \in 1..n PROVE Min({i}) = i
    BY <1>2
  <2> QED
    BY LeastOfInterval
<1>4. \A i \in 1..Len(all) : all[i] \in F
  BY <1>1, <1>3 DEF FirstMentions
<1> HIDE DEF F
<1>5. Keeping(all, F) = all
  BY <1>1, <1>4, KeepingAll
<1> QED
  BY <1>1, <1>5 DEF ReferenceTable, FirstMentions, F, all

(* When every batch is accepted, the table is made of all their items.     *)
LEMMA AllAccepted ==
  ASSUME NEW J, NEW B, Published(J, B), NEW batches \in Seq(B),
         \A i \in 1..Len(batches) : IsAccepted(batches[i])
  PROVE  LET numbers == [i \in 1..Len(batches) |-> Len(batches[i].output_json)]
         IN  /\ acceptedBatches(batches) = batches
             /\ Len(itemsForReviewTable(batches)) = Total(numbers)
<1> DEFINE n == Len(batches)
           none == manualReviewBatches(batches)
           parts == [i \in 1..n |-> effectiveItems(batches[i])]
           numbers == [i \in 1..n |-> Len(batches[i].output_json)]
<1>1. n \in Nat /\ \A i \in 1..n : batches[i] \in B /\ batches[i] \in Range(batches)
  BY DEF Range
<1>2. acceptedBatches(batches) = batches
  <2> DEFINE S == {b \in Range(batches) : IsAccepted(b)}
  <2>1. \A i \in 1..n : batches[i] \in S
    BY <1>1
  <2> HIDE DEF S
  <2>2. Keeping(batches, S) = batches
    BY <2>1, KeepingAll
  <2> QED
    BY <2>2 DEF acceptedBatches, S
<1>3. none = << >>
  <2> DEFINE S == {b \in Range(batches) : IsManualReview(b) /\ b.output_json # << >>}
  <2>1. none = Keeping(batches, S)
    BY DEF manualReviewBatches
  <2>2. none \in Seq(B) /\ \E at : Picks(at, none, batches, S, n)
    BY <2>1, KeepingPicks
  <2>3. ASSUME Len(none) # 0 PROVE FALSE
    <3>1. PICK at : Picks(at, none, batches, S, n)
      BY <2>2
    <3>2. 1 \in 1..Len(none)
      BY <2>2, <2>3
    <3>3. at[1] \in 1..n /\ batches[at[1]] \in S
      BY <3>1, <3>2 DEF Picks
    <3>4. IsManualReview(batches[at[1]]) /\ IsAccepted(batches[at[1]])
      BY <3>3
    <3> QED
      BY <3>4 DEF IsManualReview, IsAccepted
  <2> QED
    BY <2>2, <2>3
<1>4. itemsForReviewTable(batches) = FlattenSeq(parts)
  <2>1. batches \o << >> = batches
    OBVIOUS
  <2> QED
    BY <1>2, <1>3, <2>1 DEF itemsForReviewTable
<1>5. \A i \in 1..n : parts[i] \in Seq(Reviewable(J)) /\ numbers[i] = Len(parts[i]) /\ numbers[i] \in Nat
  <2> SUFFICES ASSUME NEW i \in 1..n
               PROVE  parts[i] \in Seq(Reviewable(J)) /\ numbers[i] = Len(parts[i]) /\ numbers[i] \in Nat
    OBVIOUS
  <2>1. effectiveItems(batches[i]) \in Seq(Reviewable(J))
    BY <1>1, EffectiveItemsType
  <2>2. Len(batches[i].output_json) \in Nat
    BY <1>1 DEF Published
  <2>3. Len(effectiveItems(batches[i])) = Len(batches[i].output_json)
    BY <2>2 DEF effectiveItems
  <2> QED
    BY <2>1, <2>2, <2>3
<1>6. parts \in Seq(Seq(Reviewable(J))) /\ numbers \in Seq(Int) /\ Len(numbers) = Len(parts) /\ Len(parts) = n
  BY <1>1, <1>5
<1> HIDE DEF parts, numbers
<1>7. Total(numbers) = Len(FlattenSeq(parts))
  BY <1>5, <1>6, TotalIsLength
<1> QED
  BY <1>2, <1>4, <1>7 DEF numbers

------------------------------------------------------------------------------
(* Batches of segments.                                                    *)

(* Where the n-th chunk of a sequence of that length ends.                 *)
ChunkEnd(length, size, n) == IF n * size < length THEN n * size ELSE length

(* The chunks reach the end, and none begins behind it.                    *)
LEMMA ChunksReachTheEnd ==
  ASSUME NEW length \in Nat, NEW size \in Nat, size # 0
  PROVE  LET count == (length + size - 1) \div size
         IN  /\ count \in Nat
             /\ ChunkEnd(length, size, 0) = 0 /\ ChunkEnd(length, size, count) = length
             /\ \A n \in 0..(count - 1) : ChunkEnd(length, size, n) = n * size /\ n * size < length
             /\ \A n \in 0..count : ChunkEnd(length, size, n) \in 0..length
<1> DEFINE count == (length + size - 1) \div size
<1>1. count \in Nat /\ count * size <= length + size - 1 /\ length + size - 1 < count * size + size
  OBVIOUS
<1> HIDE DEF count
<1>2. count * size >= length
  BY <1>1
<1>3. ASSUME NEW n \in 0..(count - 1) PROVE n * size < length
  <2>1. n \in Nat /\ count - 1 - n \in Nat
    BY <1>1
  <2>2. (count - 1 - n) * size >= 0
    BY <2>1
  <2>3. (count - 1 - n) * size = count * size - size - n * size
    BY <2>1, <1>1
  <2>4. n * size \in Int /\ count * size \in Int
    BY <2>1, <1>1
  <2> QED
    BY <2>2, <2>3, <2>4, <1>1
<1>4. \A n \in 0..count : n * size >= 0 /\ n * size \in Int
  BY <1>1
<1>5. ChunkEnd(length, size, 0) = 0
  BY DEF ChunkEnd
<1>6. ChunkEnd(length, size, count) = length
  BY <1>2, <1>4, <1>1 DEF ChunkEnd
<1>7. \A n \in 0..count : ChunkEnd(length, size, n) \in 0..length
  BY <1>4 DEF ChunkEnd
<1> QED
  BY <1>1, <1>3, <1>5, <1>6, <1>7 DEF count, ChunkEnd

(* Two neighbouring stretches of a sequence make one.                      *)
LEMMA StretchesJoin ==
  ASSUME NEW E, NEW s \in Seq(E), NEW a \in Nat, NEW b \in Nat, a <= b, b <= Len(s)
  PROVE  /\ SubSeq(s, 1, a) \in Seq(E) /\ SubSeq(s, a + 1, b) \in Seq(E)
         /\ SubSeq(s, 1, a) \o SubSeq(s, a + 1, b) = SubSeq(s, 1, b)
<1>1. 1 \in 1..(Len(s) + 1) /\ a \in (1 - 1)..Len(s) /\ b \in a..Len(s)
  OBVIOUS
<1>2. SubSeq(s, 1, a) \o SubSeq(s, a + 1, b) = SubSeq(s, 1, b)
  BY <1>1, ConcatAdjacentSubSeq
<1>3. \A i \in 1..Len(s) : s[i] \in E
  OBVIOUS
<1>4. SubSeq(s, 1, a) \in Seq(E)
  BY <1>1, <1>3, SubSeqProperties
<1>5. SubSeq(s, a + 1, b) \in Seq(E)
  BY <1>1, <1>3, SubSeqProperties
<1> QED
  BY <1>2, <1>4, <1>5

(* Chunks chained are the sequence that was cut.                           *)
LEMMA ChunksAreComplete ==
  ASSUME NEW E, NEW segments \in Seq(E), NEW size \in Nat, size # 0
  PROVE  /\ chunk(segments, size) \in Seq(Seq(E))
         /\ FlattenSeq(chunk(segments, size)) = segments
<1> DEFINE length == Len(segments)
           count == (length + size - 1) \div size
           groups == chunk(segments, size)
<1>1. length \in Nat
  OBVIOUS
<1>2. /\ count \in Nat
      /\ ChunkEnd(length, size, 0) = 0 /\ ChunkEnd(length, size, count) = length
      /\ \A n \in 0..(count - 1) : ChunkEnd(length, size, n) = n * size /\ n * size < length
      /\ \A n \in 0..count : ChunkEnd(length, size, n) \in 0..length
  BY <1>1, ChunksReachTheEnd
<1>3. groups = [n \in 1..count |-> SubSeq(segments, (n - 1) * size + 1, ChunkEnd(length, size, n))]
  BY DEF chunk, ChunkEnd
<1> HIDE DEF count, groups, length
<1>4. ASSUME NEW n \in 1..count
      PROVE  /\ groups[n] = SubSeq(segments, ChunkEnd(length, size, n - 1) + 1, ChunkEnd(length, size, n))
             /\ n - 1 \in 0..count
             /\ ChunkEnd(length, size, n - 1) <= ChunkEnd(length, size, n)
  <2>1. n - 1 \in 0..(count - 1) /\ n \in 0..count /\ n - 1 \in 0..count
    BY <1>2
  <2>2. ChunkEnd(length, size, n - 1) = (n - 1) * size /\ (n - 1) * size < length
    BY <1>2, <2>1
  <2>3. n * size = (n - 1) * size + size /\ n * size \in Int
    BY <1>2
  <2>4. ChunkEnd(length, size, n - 1) <= ChunkEnd(length, size, n)
    BY <2>2, <2>3, <1>1 DEF ChunkEnd
  <2> QED
    BY <2>1, <2>2, <2>4, <1>3
<1>5. ASSUME NEW n \in 1..count
      PROVE  /\ groups[n] \in Seq(E)
             /\ SubSeq(segments, 1, ChunkEnd(length, size, n - 1)) \o groups[n]
                  = SubSeq(segments, 1, ChunkEnd(length, size, n))
             /\ SubSeq(segments, 1, ChunkEnd(length, size, n)) \in Seq(E)
  <2> DEFINE a == ChunkEnd(length, size, n - 1)
             b == ChunkEnd(length, size, n)
  <2>1. a \in Nat /\ b \in Nat /\ a <= b /\ b <= Len(segments)
    <3>1. n - 1 \in 0..count /\ n \in 0..count /\ a <= b
      BY <1>2, <1>4
    <3>2. a \in 0..length /\ b \in 0..length
      BY <3>1, <1>2
    <3> HIDE DEF a, b
    <3> QED
      BY <3>1, <3>2, <1>1 DEF length
  <2>2. groups[n] = SubSeq(segments, a + 1, b)
    BY <1>4
  <2> HIDE DEF a, b
  <2>3. /\ SubSeq(segments, a + 1, b) \in Seq(E)
        /\ SubSeq(segments, 1, a) \o SubSeq(segments, a + 1, b) = SubSeq(segments, 1, b)
    BY <2>1, StretchesJoin
  <2>4. SubSeq(segments, 1, b) \in Seq(E)
    BY <2>1, StretchesJoin
  <2> QED
    BY <2>2, <2>3, <2>4 DEF a, b
<1>6. groups \in Seq(Seq(E)) /\ Len(groups) = count
  BY <1>2, <1>3, <1>5
<1>7. PICK t : Steps(t, Seq(E), Concatenation(E), << >>, groups, FlattenSeq(groups))
  BY <1>6, FlattenSteps
<1> DEFINE Right == {n \in 0..count : t[n] = SubSeq(segments, 1, ChunkEnd(length, size, n))}
<1>8. 0 \in Right
  <2>1. SubSeq(segments, 1, 0) = << >>
    OBVIOUS
  <2> QED
    BY <2>1, <1>2, <1>7 DEF Steps
<1>9. ASSUME NEW n \in 0..(count - 1), n \in Right PROVE n + 1 \in Right
  <2>1. n + 1 \in 1..count /\ n + 1 \in 0..count /\ (n + 1) - 1 = n /\ n \in 0..count
    BY <1>2
  <2>2. t[n] \in Seq(E) /\ groups[n + 1] \in Seq(E)
    BY <2>1, <1>5, <1>6, <1>7 DEF Steps
  <2>3. t[n + 1] = Concatenation(E)[<<t[n], groups[n + 1]>>]
    BY <2>1, <1>6, <1>7 DEF Steps
  <2>4. t[n + 1] = t[n] \o groups[n + 1]
    BY <2>2, <2>3 DEF Concatenation
  <2>5. t[n] = SubSeq(segments, 1, ChunkEnd(length, size, n))
    BY <1>9
  <2>6. SubSeq(segments, 1, ChunkEnd(length, size, n)) \o groups[n + 1]
          = SubSeq(segments, 1, ChunkEnd(length, size, n + 1))
    BY <2>1, <1>5
  <2> QED
    BY <2>1, <2>4, <2>5, <2>6
<1> HIDE DEF Right
<1>10. \A n \in 0..count : n \in Right
  BY <1>2, <1>8, <1>9, UpTo
<1>11. t[count] = SubSeq(segments, 1, length)
  <2>1. count \in Right
    BY <1>2, <1>10
  <2> QED
    BY <2>1, <1>2 DEF Right
<1>12. SubSeq(segments, 1, length) = segments
  BY DEF length
<1> QED
  BY <1>6, <1>7, <1>11, <1>12 DEF Steps, groups

\* What the Gemini grouping holds between two segments.
Groupings(E) == [groups : Seq(Seq(E)), current : Seq(E)]

\* Before the first segment.
NoGroups == [groups |-> << >>, current |-> << >>]

(* Flushing moves the open group behind the closed ones.                   *)
LEMMA FlushGroups ==
  ASSUME NEW E, NEW acc \in Groupings(E)
  PROVE  LET flushed == flushCurrentGroup(acc)
         IN  /\ flushed \in Groupings(E)
             /\ flushed.current = << >>
             /\ flushed.groups = IF acc.current = << >> THEN acc.groups
                                 ELSE Append(acc.groups, acc.current)
             /\ FlattenSeq(flushed.groups) = FlattenSeq(acc.groups) \o acc.current
<1>1. acc.groups \in Seq(Seq(E)) /\ acc.current \in Seq(E)
  BY DEF Groupings
<1>2. FlattenSeq(acc.groups) \in Seq(E)
  BY <1>1, FlattenType
<1>3. CASE acc.current = << >>
  <2>1. FlattenSeq(acc.groups) \o << >> = FlattenSeq(acc.groups)
    BY <1>2
  <2> QED
    BY <2>1, <1>3 DEF flushCurrentGroup
<1>4. CASE acc.current # << >>
  <2>1. FlattenSeq(Append(acc.groups, acc.current)) = FlattenSeq(acc.groups) \o acc.current
    BY <1>1, FlattenAppend
  <2>2. flushCurrentGroup(acc) = [groups |-> Append(acc.groups, acc.current), current |-> << >>]
    BY <1>4 DEF flushCurrentGroup
  <2>3. Append(acc.groups, acc.current) \in Seq(Seq(E))
    BY <1>1
  <2> QED
    BY <2>1, <2>2, <2>3, <1>4 DEF Groupings
<1> QED
  BY <1>3, <1>4

\* The segments that were grouped so far.
Grouped(acc) == FlattenSeq(acc.groups) \o acc.current

(* One segment more: it comes behind all others.                           *)
LEMMA GroupOneMore ==
  ASSUME NEW E, NEW acc \in Groupings(E), NEW s \in E, NEW size
  PROVE  /\ groupSegment(acc, s, size) \in Groupings(E)
         /\ Grouped(acc) \in Seq(E)
         /\ Grouped(groupSegment(acc, s, size)) = Append(Grouped(acc), s)
<1> DEFINE flushed == flushCurrentGroup(acc)
<1>1. acc.groups \in Seq(Seq(E)) /\ acc.current \in Seq(E)
  BY DEF Groupings
<1>2. /\ flushed \in Groupings(E) /\ flushed.current = << >>
      /\ FlattenSeq(flushed.groups) = Grouped(acc)
  BY FlushGroups DEF Grouped
<1>3. /\ flushed.groups \in Seq(Seq(E)) /\ FlattenSeq(flushed.groups) \in Seq(E)
      /\ FlattenSeq(acc.groups) \in Seq(E)
  BY <1>1, <1>2, FlattenType DEF Groupings
<1>4. <<s>> \in Seq(E) /\ Append(<< >>, s) = <<s>>
  OBVIOUS
<1> HIDE DEF flushed
<1>5. CASE Chars(s) >= GEMINI_LONG_SEGMENT_THRESHOLD
  <2>1. groupSegment(acc, s, size) = [flushed EXCEPT !.groups = Append(@, <<s>>)]
    BY <1>5 DEF groupSegment, flushed
  <2>2. FlattenSeq(Append(flushed.groups, <<s>>)) = Grouped(acc) \o <<s>>
    BY <1>2, <1>3, <1>4, FlattenAppend
  <2>3. Append(flushed.groups, <<s>>) \in Seq(Seq(E))
    BY <1>3, <1>4
  <2>4. /\ groupSegment(acc, s, size) \in Groupings(E)
        /\ groupSegment(acc, s, size).groups = Append(flushed.groups, <<s>>)
        /\ groupSegment(acc, s, size).current = << >>
    BY <2>1, <2>3, <1>2 DEF Groupings
  <2>5. Grouped(acc) \in Seq(E)
    BY <1>2, <1>3
  <2>6. (Grouped(acc) \o <<s>>) \o << >> = Append(Grouped(acc), s)
    BY <2>5, <1>4
  <2>7. Grouped(groupSegment(acc, s, size)) = FlattenSeq(Append(flushed.groups, <<s>>)) \o << >>
    BY <2>4 DEF Grouped
  <2> QED
    BY <2>2, <2>4, <2>5, <2>6, <2>7
<1>6. CASE ~ (Chars(s) >= GEMINI_LONG_SEGMENT_THRESHOLD)
  <2> DEFINE open == IF isFull(acc.current, s, size) THEN flushed ELSE acc
  <2>1. groupSegment(acc, s, size) = [open EXCEPT !.current = Append(@, s)]
    BY <1>6 DEF groupSegment, flushed
  <2>2. open \in Groupings(E) /\ Grouped(open) = Grouped(acc)
    <3>1. Grouped(flushed) = Grouped(acc)
      BY <1>2, <1>3 DEF Grouped
    <3> QED
      BY <3>1, <1>2
  <2> HIDE DEF open
  <2>3. open.groups \in Seq(Seq(E)) /\ open.current \in Seq(E)
    BY <2>2 DEF Groupings
  <2>4. FlattenSeq(open.groups) \in Seq(E) /\ Append(open.current, s) \in Seq(E)
    BY <2>3, FlattenType
  <2>5. /\ groupSegment(acc, s, size) \in Groupings(E)
        /\ groupSegment(acc, s, size).groups = open.groups
        /\ groupSegment(acc, s, size).current = Append(open.current, s)
    BY <2>1, <2>2, <2>4 DEF Groupings
  <2>6. FlattenSeq(open.groups) \o Append(open.current, s)
          = Append(FlattenSeq(open.groups) \o open.current, s)
    <3> DEFINE x == FlattenSeq(open.groups)
               y == open.current
               w == <<s>>
    <3>1. x \in Seq(E) /\ x \o open.current \in Seq(E)
      BY <2>3, <2>4
    <3> HIDE DEF x
    <3>2. Append(open.current, s) = open.current \o <<s>>
      BY <2>3, AppendIsConcat
    <3>3. Append(x \o open.current, s) = (x \o open.current) \o <<s>>
      BY <3>1, AppendIsConcat
    <3>4. x \in Seq(E) /\ y \in Seq(E) /\ w \in Seq(E)
      BY <3>1, <2>3, <1>4
    <3> HIDE DEF y, w
    <3>5. (x \o y) \o w = x \o (y \o w)
      BY <3>4, ConcatAssociative
    <3> QED
      BY <3>2, <3>3, <3>5 DEF x, y, w
  <2>7. Grouped(acc) \in Seq(E)
    <3>1. FlattenSeq(acc.groups) \o acc.current \in Seq(E)
      BY <1>1, <1>3
    <3> QED
      BY <3>1 DEF Grouped
  <2> QED
    BY <2>2, <2>5, <2>6, <2>7 DEF Grouped
<1> QED
  BY <1>5, <1>6

\* One segment, as a function to fold.
Grouping(E, size) == [p \in Groupings(E) \X E |-> groupSegment(p[1], p[2], size)]

\* The groups of a sequence of segments, the open one among them.
GroupAll(segments, size) ==
  FoldLeft(LAMBDA acc, s : groupSegment(acc, s, size), NoGroups, segments)

(* The Gemini grouping, segment by segment.                                *)
LEMMA GroupingSteps ==
  ASSUME NEW E, NEW segments \in Seq(E), NEW size
  PROVE  \E t : Steps(t, Groupings(E), Grouping(E, size), NoGroups, segments, GroupAll(segments, size))
<1> DEFINE n == Len(segments)
           D == 1..n
           A == Groupings(E)
           Rec(h) == h = [s \in SUBSET D |->
             IF s = {} THEN NoGroups ELSE groupSegment(h[s \ {Max(s)}], segments[Max(s)], size)]
           iter == CHOOSE h : Rec(h)
<1>1. n \in Nat /\ DOMAIN segments = D /\ \A i \in D : segments[i] \in E
  OBVIOUS
<1>2. GroupAll(segments, size) = iter[D]
  BY <1>1 DEF GroupAll, FoldLeft, MapThenFoldSet
<1>3. Grouping(E, size) \in [A \X E -> A] /\ NoGroups \in A
  <2>1. \A acc \in A, s \in E : groupSegment(acc, s, size) \in A
    BY GroupOneMore
  <2> QED
    BY <2>1 DEF Grouping, NoGroups, Groupings
<1>4. PICK h : Folds(h, A, Grouping(E, size), NoGroups, segments, n)
  BY <1>1, <1>3, FoldExists
<1>5. \A s \in SUBSET D : s # {} => Max(s) \in s /\ s \ {Max(s)} \in SUBSET D
  BY <1>1, GreatestOfInterval
<1> HIDE DEF A
<1>6. Rec(h)
  BY <1>4, <1>5, <1>1 DEF Folds, Grouping, A
<1>7. Rec(iter)
  BY <1>6
<1> HIDE DEF iter
<1>8. iter[{}] = NoGroups
  BY <1>7
<1>9. ASSUME NEW k \in 1..n, iter[1..(k - 1)] \in A
      PROVE  iter[1..k] = Grouping(E, size)[<<iter[1..(k - 1)], segments[k]>>]
  <2>1. k \in Nat /\ k # 0
    BY <1>1
  <2>2. Max(1..k) = k /\ (1..k) \ {k} = 1..(k - 1)
    BY <2>1, MaxOfPrefix
  <2>3. 1..k \in SUBSET D /\ k \in 1..k /\ segments[k] \in E
    BY <1>1, <2>1
  <2>4. iter[1..k] = groupSegment(iter[1..(k - 1)], segments[k], size)
    BY <2>2, <2>3, <1>7
  <2> QED
    BY <2>3, <2>4, <1>9 DEF Grouping, A
<1>10. Iterates(iter, A, Grouping(E, size), NoGroups, segments)
  BY <1>8, <1>9 DEF Iterates
<1> HIDE DEF Rec, D
<1>11. \E t : Steps(t, A, Grouping(E, size), NoGroups, segments, iter[1..Len(segments)])
  BY <1>3, <1>10, FoldSteps
<1> QED
  BY <1>2, <1>11 DEF D, A

(* Its groups chained are the sequence that was grouped.                   *)
LEMMA GroupsAreComplete ==
  ASSUME NEW E, NEW segments \in Seq(E), NEW requested
  PROVE  /\ buildGeminiSegmentGroups(segments, requested) \in Seq(Seq(E))
         /\ FlattenSeq(buildGeminiSegmentGroups(segments, requested)) = segments
<1> DEFINE n == Len(segments)
           size == resolveEffectiveBatchSize("gemini", requested)
           all == GroupAll(segments, size)
<1>1. PICK t : Steps(t, Groupings(E), Grouping(E, size), NoGroups, segments, all)
  BY GroupingSteps
<1>2. n \in Nat /\ \A k \in 1..n : segments[k] \in E
  OBVIOUS
<1>3. buildGeminiSegmentGroups(segments, requested) = flushCurrentGroup(all).groups
  BY DEF buildGeminiSegmentGroups, GroupAll, NoGroups
<1> HIDE DEF size, all
<1> DEFINE Right == {k \in 0..n : Grouped(t[k]) = SubSeq(segments, 1, k)}
<1>4. 0 \in Right
  <2>1. SubSeq(segments, 1, 0) = << >> /\ << >> \o << >> = << >>
    OBVIOUS
  <2>2. Grouped(NoGroups) = << >>
    BY <2>1, FlattenNothing DEF Grouped, NoGroups
  <2>3. t[0] = NoGroups /\ 0 \in 0..n
    BY <1>1, <1>2 DEF Steps
  <2> QED
    BY <2>1, <2>2, <2>3
<1>5. ASSUME NEW k \in 0..(n - 1), k \in Right PROVE k + 1 \in Right
  <2>1. k + 1 \in 1..n /\ k + 1 \in 0..n /\ (k + 1) - 1 = k /\ k \in 0..n /\ k \in Nat
    BY <1>2
  <2>2. t[k] \in Groupings(E) /\ segments[k + 1] \in E
    BY <2>1, <1>1, <1>2 DEF Steps
  <2>3. t[k + 1] = groupSegment(t[k], segments[k + 1], size)
    BY <2>1, <2>2, <1>1 DEF Steps, Grouping
  <2>4. Grouped(t[k + 1]) = Append(Grouped(t[k]), segments[k + 1])
    BY <2>2, <2>3, GroupOneMore
  <2>5. Append(SubSeq(segments, 1, k), segments[k + 1]) = SubSeq(segments, 1, k + 1)
    BY <2>1, <1>2
  <2> QED
    BY <2>1, <2>4, <2>5, <1>5
<1> HIDE DEF Right
<1>6. \A k \in 0..n : k \in Right
  BY <1>2, <1>4, <1>5, UpTo
<1>7. n \in 0..n /\ n \in Right
  BY <1>2, <1>6
<1>8. Grouped(t[n]) = SubSeq(segments, 1, n) /\ t[n] \in Groupings(E) /\ t[n] = all
  BY <1>7, <1>1 DEF Right, Steps
<1>9. SubSeq(segments, 1, n) = segments
  OBVIOUS
<1>10. /\ flushCurrentGroup(all) \in Groupings(E)
       /\ FlattenSeq(flushCurrentGroup(all).groups) = Grouped(all)
  BY <1>8, FlushGroups DEF Grouped
<1> QED
  BY <1>3, <1>8, <1>9, <1>10 DEF Groupings

(* A provider's batches, whatever their sizes, hold every segment once and *)
(* in order.                                                               *)
LEMMA GroupingIsComplete ==
  ASSUME NEW E, NEW segments \in Seq(E), NEW provider, NEW requested \in Int
  PROVE  LET groups == segmentGroups(segments, provider, requested)
         IN  groups \in Seq(Seq(E)) /\ FlattenSeq(groups) = segments
<1>1. CASE provider = "gemini"
  BY <1>1, GroupsAreComplete DEF segmentGroups
<1>2. CASE provider # "gemini"
  <2> DEFINE size == resolveEffectiveBatchSize(provider, requested)
  <2>1. size \in Nat /\ size # 0
    BY <1>2 DEF resolveEffectiveBatchSize, boundedSize, MaxRequestedSize
  <2>2. segmentGroups(segments, provider, requested) = chunk(segments, size)
    BY <1>2 DEF segmentGroups
  <2> HIDE DEF size
  <2> QED
    BY <2>1, <2>2, ChunksAreComplete
<1> QED
  BY <1>1, <1>2

------------------------------------------------------------------------------
(* How far the batches are filled.                                         *)

(* A sum with one more number.                                             *)
LEMMA TotalAppend ==
  ASSUME NEW numbers \in Seq(Int), NEW number \in Int
  PROVE  /\ Total(numbers) \in Int
         /\ Total(Append(numbers, number)) = Total(numbers) + number
<1> DEFINE n == Len(numbers)
           more == Append(numbers, number)
<1>1. /\ n \in Nat /\ more \in Seq(Int) /\ Len(more) = n + 1 /\ more[n + 1] = number
      /\ \A k \in 1..n : more[k] = numbers[k] /\ numbers[k] \in Int
  OBVIOUS
<1> HIDE DEF more
<1>2. PICK t : Steps(t, Int, Addition, 0, numbers, Total(numbers))
  BY TotalSteps
<1>3. PICK u : Steps(u, Int, Addition, 0, more, Total(more))
  BY <1>1, TotalSteps
<1> DEFINE Same == {k \in 0..n : u[k] = t[k]}
<1>4. 0 \in Same
  BY <1>1, <1>2, <1>3 DEF Steps
<1>5. ASSUME NEW k \in 0..(n - 1), k \in Same PROVE k + 1 \in Same
  <2>1. k + 1 \in 1..n /\ k + 1 \in 1..(n + 1) /\ k + 1 \in 0..n /\ (k + 1) - 1 = k
    BY <1>1
  <2>2. t[k + 1] = Addition[<<t[k], numbers[k + 1]>>]
    BY <2>1, <1>2 DEF Steps
  <2>3. u[k + 1] = Addition[<<u[k], more[k + 1]>>]
    BY <2>1, <1>1, <1>3 DEF Steps
  <2> QED
    BY <2>1, <2>2, <2>3, <1>1, <1>5
<1> HIDE DEF Same
<1>6. \A k \in 0..n : k \in Same
  BY <1>1, <1>4, <1>5, UpTo
<1>7. n \in Same /\ n \in 0..n
  BY <1>1, <1>6
<1>8. u[n] = t[n]
  BY <1>7 DEF Same
<1>9. u[n] \in Int /\ u[n] = Total(numbers)
  BY <1>7, <1>8, <1>2 DEF Steps
<1>10. n + 1 \in 1..(n + 1) /\ (n + 1) - 1 = n
  BY <1>1
<1>11. u[n + 1] = Addition[<<u[n], number>>] /\ u[n + 1] = Total(more)
  BY <1>1, <1>3, <1>10 DEF Steps
<1>12. u[n + 1] = u[n] + number
  BY <1>9, <1>11 DEF Addition
<1> QED
  BY <1>9, <1>11, <1>12 DEF more

\* Segments whose lines have a length.
Measured(E) == \A s \in E : Chars(s) \in Int

(* A group with one more segment.                                          *)
LEMMA CharsAppend ==
  ASSUME NEW E, Measured(E), NEW group \in Seq(E), NEW s \in E
  PROVE  /\ AllChars(group) \in Int
         /\ AllChars(Append(group, s)) = AllChars(group) + Chars(s)
<1> DEFINE n == Len(group)
           numbers == [i \in 1..n |-> Chars(group[i])]
           more == Append(group, s)
<1>1. n \in Nat /\ \A i \in 1..n : group[i] \in E
  OBVIOUS
<1>2. numbers \in Seq(Int) /\ Len(numbers) = n
  BY <1>1 DEF Measured
<1>3. Len(more) = n + 1 /\ more[n + 1] = s /\ \A i \in 1..n : more[i] = group[i]
  BY <1>1
<1> HIDE DEF more
<1>4. [i \in 1..Len(more) |-> Chars(more[i])] = Append(numbers, Chars(s))
  BY <1>1, <1>2, <1>3
<1>5. Chars(s) \in Int
  BY DEF Measured
<1> HIDE DEF numbers
<1>6. /\ Total(numbers) \in Int
      /\ Total(Append(numbers, Chars(s))) = Total(numbers) + Chars(s)
  BY <1>2, <1>5, TotalAppend
<1>7. AllChars(group) = Total(numbers) /\ AllChars(more) = Total([i \in 1..Len(more) |-> Chars(more[i])])
  BY DEF AllChars, numbers
<1> QED
  BY <1>4, <1>6, <1>7 DEF more

IsLong(s) == Chars(s) >= GEMINI_LONG_SEGMENT_THRESHOLD

\* A group that the provider takes.
Fits(group, size) ==
  /\ Len(group) \in 1..size
  /\ Len(group) > 1 => AllChars(group) <= GEMINI_BATCH_CHAR_BUDGET

\* A group that could not take what follows it.
Closed(group, following, size) ==
  \/ Len(group) = size
  \/ IsLong(following) \/ IsLong(group[1])
  \/ AllChars(group) + Chars(following) > GEMINI_BATCH_CHAR_BUDGET

\* Groups that fit, each closed for the next.
FitsAll(groups, size) ==
  /\ \A n \in 1..Len(groups) : Fits(groups[n], size)
  /\ \A n \in 1..(Len(groups) - 1) : Closed(groups[n], groups[n + 1][1], size)

\* The last group, if any, is closed for what follows.
ClosedBy(groups, following, size) ==
  groups # << >> => Closed(groups[Len(groups)], following, size)

(* One group more.                                                         *)
LEMMA FitsOneMore ==
  ASSUME NEW E, NEW groups \in Seq(Seq(E)), NEW group \in Seq(E), NEW size,
         FitsAll(groups, size), Fits(group, size), ClosedBy(groups, group[1], size)
  PROVE  LET more == Append(groups, group)
         IN  /\ FitsAll(more, size) /\ more # << >> /\ more[Len(more)] = group
             /\ more \in Seq(Seq(E))
<1> DEFINE n == Len(groups)
           more == Append(groups, group)
<1>1. /\ n \in Nat /\ Len(more) = n + 1 /\ more[n + 1] = group /\ more \in Seq(Seq(E))
      /\ \A k \in 1..n : more[k] = groups[k]
      /\ n > 0 <=> groups # << >>
  OBVIOUS
<1> HIDE DEF more
<1>2. \A k \in 1..Len(more) : Fits(more[k], size)
  <2>1. \A k \in 1..Len(more) : k = n + 1 \/ k \in 1..n
    BY <1>1
  <2> QED
    BY <2>1, <1>1 DEF FitsAll
<1>3. ASSUME NEW k \in 1..(Len(more) - 1) PROVE Closed(more[k], more[k + 1][1], size)
  <2>1. k \in 1..n /\ more[k] = groups[k]
    BY <1>1
  <2>2. CASE k = n
    <3>1. more[k + 1] = group /\ groups # << >>
      BY <2>1, <2>2, <1>1
    <3> QED
      BY <2>1, <2>2, <3>1 DEF ClosedBy
  <2>3. CASE k # n
    <3>1. k \in 1..(n - 1) /\ k + 1 \in 1..n
      BY <2>1, <2>3, <1>1
    <3> QED
      BY <2>1, <3>1, <1>1 DEF FitsAll
  <2> QED
    BY <2>2, <2>3
<1>4. more # << >>
  BY <1>1
<1> QED
  BY <1>1, <1>2, <1>3, <1>4 DEF FitsAll, more

\* What the grouping maintains: the open group fits, has no long segment, and
\* follows a closed one; without an open group, the last one was a long segment.
Bounded(acc, size) ==
  /\ FitsAll(acc.groups, size)
  /\ acc.current # << >> =>
       /\ Fits(acc.current, size)
       /\ ClosedBy(acc.groups, acc.current[1], size)
  /\ acc.current = << >> /\ acc.groups # << >> => IsLong(acc.groups[Len(acc.groups)][1])

(* Flushing closes the open group.                                         *)
LEMMA FlushFits ==
  ASSUME NEW E, NEW acc \in Groupings(E), NEW size, Bounded(acc, size)
  PROVE  LET flushed == flushCurrentGroup(acc)
         IN  /\ FitsAll(flushed.groups, size)
             /\ acc.current # << >> =>
                  flushed.groups # << >> /\ flushed.groups[Len(flushed.groups)] = acc.current
<1>1. acc.groups \in Seq(Seq(E)) /\ acc.current \in Seq(E)
  BY DEF Groupings
<1>2. CASE acc.current = << >>
  BY <1>2 DEF flushCurrentGroup, Bounded
<1>3. CASE acc.current # << >>
  <2>1. flushCurrentGroup(acc).groups = Append(acc.groups, acc.current)
    BY <1>3 DEF flushCurrentGroup
  <2>2. FitsAll(acc.groups, size) /\ Fits(acc.current, size) /\ ClosedBy(acc.groups, acc.current[1], size)
    BY <1>3 DEF Bounded
  <2> QED
    BY <2>1, <2>2, <1>1, FitsOneMore
<1> QED
  BY <1>2, <1>3

(* And so it goes on with every segment.                                   *)
LEMMA GroupingBounded ==
  ASSUME NEW E, Measured(E), NEW acc \in Groupings(E), NEW s \in E,
         NEW size \in Nat, size # 0, Bounded(acc, size)
  PROVE  Bounded(groupSegment(acc, s, size), size)
<1> DEFINE flushed == flushCurrentGroup(acc)
           next == groupSegment(acc, s, size)
<1>1. acc.groups \in Seq(Seq(E)) /\ acc.current \in Seq(E) /\ Chars(s) \in Int
  BY DEF Groupings, Measured
<1>2. /\ flushed \in Groupings(E) /\ flushed.current = << >>
      /\ flushed.groups \in Seq(Seq(E))
      /\ flushed.groups = IF acc.current = << >> THEN acc.groups
                          ELSE Append(acc.groups, acc.current)
  BY FlushGroups DEF Groupings
<1>3. /\ FitsAll(flushed.groups, size)
      /\ acc.current # << >> =>
           flushed.groups # << >> /\ flushed.groups[Len(flushed.groups)] = acc.current
  BY FlushFits
<1> HIDE DEF flushed
<1>4. <<s>> \in Seq(E) /\ Len(<<s>>) = 1 /\ <<s>>[1] = s /\ <<s>> # << >> /\ Append(<< >>, s) = <<s>>
  OBVIOUS
<1>5. Fits(<<s>>, size)
  BY <1>4 DEF Fits
<1>6. CASE IsLong(s)
  <2>1. next = [flushed EXCEPT !.groups = Append(@, <<s>>)]
    BY <1>6 DEF groupSegment, flushed, IsLong
  <2>2. next.groups = Append(flushed.groups, <<s>>) /\ next.current = << >>
    BY <2>1, <1>2 DEF Groupings
  <2>3. ClosedBy(flushed.groups, <<s>>[1], size)
    BY <1>4, <1>6 DEF ClosedBy, Closed
  <2> DEFINE more == Append(flushed.groups, <<s>>)
  <2>4. FitsAll(more, size) /\ more[Len(more)] = <<s>>
    <3> DEFINE groups == flushed.groups
               group == <<s>>
    <3>1. /\ groups \in Seq(Seq(E)) /\ group \in Seq(E) /\ FitsAll(groups, size)
          /\ Fits(group, size) /\ ClosedBy(groups, group[1], size)
      BY <2>3, <1>2, <1>3, <1>4, <1>5
    <3> HIDE DEF groups, group
    <3>2. /\ FitsAll(Append(groups, group), size)
          /\ Append(groups, group)[Len(Append(groups, group))] = group
      BY <3>1, FitsOneMore
    <3> QED
      BY <3>2 DEF groups, group
  <2>5. next.groups = more
    BY <2>2
  <2> HIDE DEF next, more
  <2>6. IsLong(next.groups[Len(next.groups)][1])
    BY <2>4, <2>5, <1>4, <1>6
  <2>7. Bounded(next, size)
    BY <2>2, <2>4, <2>5, <2>6 DEF Bounded
  <2> QED
    BY <2>7 DEF next
<1>7. CASE ~ IsLong(s) /\ isFull(acc.current, s, size)
  <2>1. next = [flushed EXCEPT !.current = Append(@, s)]
    BY <1>7 DEF groupSegment, flushed, IsLong
  <2>2. next.groups = flushed.groups /\ next.current = <<s>>
    BY <2>1, <1>2, <1>4 DEF Groupings
  <2>3. acc.current # << >>
    <3>1. ASSUME acc.current = << >> PROVE FALSE
      <4>1. Len(acc.current) = 0
        BY <3>1
      <4> QED
        BY <4>1, <3>1, <1>7 DEF isFull
    <3> QED
      BY <3>1
  <2>4. Closed(acc.current, s, size)
    <3>1. Fits(acc.current, size)
      BY <2>3 DEF Bounded
    <3>2. Len(acc.current) >= size => Len(acc.current) = size
      BY <3>1 DEF Fits
    <3> QED
      BY <3>2, <1>7 DEF isFull, Closed
  <2>5. ClosedBy(next.groups, next.current[1], size)
    BY <2>2, <2>3, <2>4, <1>3, <1>4 DEF ClosedBy
  <2> HIDE DEF next
  <2>6. Bounded(next, size)
    BY <2>2, <2>5, <1>3, <1>4, <1>5 DEF Bounded
  <2> QED
    BY <2>6 DEF next
<1>8. CASE ~ IsLong(s) /\ ~ isFull(acc.current, s, size)
  <2> DEFINE current == Append(acc.current, s)
  <2>1. next = [acc EXCEPT !.current = Append(@, s)]
    BY <1>8 DEF groupSegment, IsLong
  <2>2. next.groups = acc.groups /\ next.current = current
    BY <2>1 DEF Groupings
  <2>3. /\ Len(current) = Len(acc.current) + 1 /\ Len(acc.current) \in Nat /\ current # << >>
        /\ acc.current = << >> => current[1] = s
        /\ acc.current # << >> => current[1] = acc.current[1] /\ Len(acc.current) > 0
    <3>1. /\ Len(acc.current) \in Nat /\ Len(current) = Len(acc.current) + 1
          /\ current[Len(acc.current) + 1] = s
          /\ \A i \in 1..Len(acc.current) : current[i] = acc.current[i]
      BY <1>1, AppendProperties
    <3>2. acc.current = << >> <=> Len(acc.current) = 0
      BY <1>1, EmptySeq
    <3>3. current # << >>
      BY <3>1
    <3> HIDE DEF current
    <3> QED
      BY <3>1, <3>2, <3>3
  <2>4. /\ AllChars(acc.current) \in Int
        /\ AllChars(current) = AllChars(acc.current) + Chars(s)
    BY <1>1, CharsAppend
  <2> HIDE DEF current, next
  <2>5. Fits(current, size)
    <3>1. Len(acc.current) < size
      BY <2>3, <1>8 DEF isFull
    <3>2. Len(current) \in 1..size
      BY <3>1, <2>3
    <3>3. Len(current) > 1 => acc.current # << >>
      BY <2>3
    <3>4. acc.current # << >> => AllChars(acc.current) + Chars(s) <= GEMINI_BATCH_CHAR_BUDGET
      BY <2>4, <1>1, <1>8 DEF isFull, GEMINI_BATCH_CHAR_BUDGET
    <3> QED
      BY <3>2, <3>3, <3>4, <2>4 DEF Fits
  <2>6. ClosedBy(acc.groups, current[1], size)
    <3>1. CASE acc.current = << >>
      BY <3>1 DEF Bounded, ClosedBy, Closed
    <3>2. CASE acc.current # << >>
      BY <3>2, <2>3 DEF Bounded
    <3> QED
      BY <3>1, <3>2
  <2>7. Bounded(next, size)
    BY <2>2, <2>3, <2>5, <2>6 DEF Bounded
  <2> QED
    BY <2>7 DEF next
<1> QED
  BY <1>6, <1>7, <1>8

------------------------------------------------------------------------------
(* Filtering, mapping and flattening, of sequences in a row.               *)

(* Induction over a sequence, entry by entry, for a property given as the  *)
(* set of the sequences that have it.                                      *)
LEMMA EntryByEntry ==
  ASSUME NEW E, NEW P, << >> \in P, \A s \in Seq(E), e \in E : s \in P => Append(s, e) \in P
  PROVE  \A s \in Seq(E) : s \in P
<1> SUFFICES ASSUME NEW s \in Seq(E) PROVE s \in P
  OBVIOUS
<1> DEFINE n == Len(s)
           Right == {k \in 0..n : \A t \in Seq(E) : Len(t) = k => t \in P}
<1>1. n \in Nat
  OBVIOUS
<1>2. 0 \in Right
  BY <1>1, EmptySeq
<1>3. ASSUME NEW k \in 0..(n - 1), k \in Right PROVE k + 1 \in Right
  <2>1. k + 1 \in 0..n /\ k + 1 # 0 /\ k \in Nat
    BY <1>1
  <2>2. ASSUME NEW t \in Seq(E), Len(t) = k + 1 PROVE t \in P
    <3>1. t # << >>
      BY <2>1, <2>2, EmptySeq
    <3>2. PICK u \in Seq(E), e \in E : t = Append(u, e)
      BY <3>1, SequenceEmptyOrAppend
    <3>3. Len(t) = Len(u) + 1 /\ Len(u) \in Nat
      BY <3>2, AppendProperties
    <3>4. Len(u) = k
      BY <3>3, <2>1, <2>2
    <3> QED
      BY <3>2, <3>4, <1>3
  <2> QED
    BY <2>1, <2>2
<1> HIDE DEF Right
<1>4. \A k \in 0..n : k \in Right
  BY <1>1, <1>2, <1>3, UpTo
<1>5. n \in Right
  BY <1>1, <1>4
<1> QED
  BY <1>5 DEF Right

(* A filter, entry by entry.                                               *)
LEMMA KeepingNothing == ASSUME NEW S PROVE Keeping(<< >>, S) = << >>
<1>1. << >> \in Seq({}) /\ Len(<< >>) = 0
  OBVIOUS
<1>2. PICK t : Steps(t, Seq({}), [p \in Seq({}) \X {} |->
                                   IF p[2] \in S THEN Append(p[1], p[2]) ELSE p[1]],
                      << >>, << >>, Keeping(<< >>, S))
  BY <1>1, KeepingSteps
<1> QED
  BY <1>1, <1>2 DEF Steps

(* Keeping, of one entry more.                                             *)
LEMMA KeepingAppend ==
  ASSUME NEW E, NEW seq \in Seq(E), NEW e \in E, NEW S
  PROVE  /\ Keeping(seq, S) \in Seq(E)
         /\ Keeping(Append(seq, e), S) =
              IF e \in S THEN Append(Keeping(seq, S), e) ELSE Keeping(seq, S)
<1> DEFINE n == Len(seq)
           more == Append(seq, e)
           g == [p \in Seq(E) \X E |-> IF p[2] \in S THEN Append(p[1], p[2]) ELSE p[1]]
<1>1. /\ n \in Nat /\ more \in Seq(E) /\ Len(more) = n + 1 /\ more[n + 1] = e
      /\ \A k \in 1..n : more[k] = seq[k]
  BY AppendProperties
<1> HIDE DEF more
<1>2. PICK t : Steps(t, Seq(E), g, << >>, seq, Keeping(seq, S))
  BY KeepingSteps
<1>3. PICK u : Steps(u, Seq(E), g, << >>, more, Keeping(more, S))
  BY <1>1, KeepingSteps
<1>4. \A p \in Seq(E), x \in E : g[<<p, x>>] = IF x \in S THEN Append(p, x) ELSE p
  OBVIOUS
<1> HIDE DEF g
<1> DEFINE Same == {k \in 0..n : u[k] = t[k]}
<1>5. 0 \in Same
  BY <1>1, <1>2, <1>3 DEF Steps
<1>6. ASSUME NEW k \in 0..(n - 1), k \in Same PROVE k + 1 \in Same
  <2>1. k + 1 \in 1..n /\ k + 1 \in 1..(n + 1) /\ k + 1 \in 0..n /\ (k + 1) - 1 = k
    BY <1>1
  <2>2. t[k + 1] = g[<<t[k], seq[k + 1]>>]
    BY <2>1, <1>2 DEF Steps
  <2>3. u[k + 1] = g[<<u[k], more[k + 1]>>]
    BY <2>1, <1>1, <1>3 DEF Steps
  <2> QED
    BY <2>1, <2>2, <2>3, <1>1, <1>6
<1> HIDE DEF Same
<1>7. \A k \in 0..n : k \in Same
  BY <1>1, <1>5, <1>6, UpTo
<1>8. n \in Same
  BY <1>1, <1>7
<1>9. u[n] = t[n] /\ n \in 0..n /\ n + 1 \in 1..(n + 1) /\ (n + 1) - 1 = n
  BY <1>8, <1>1 DEF Same
<1>10. u[n] \in Seq(E) /\ u[n] = Keeping(seq, S)
  BY <1>9, <1>2 DEF Steps
<1>11. u[n + 1] = g[<<u[n], e>>] /\ u[n + 1] = Keeping(more, S)
  BY <1>1, <1>3, <1>9 DEF Steps
<1> QED
  BY <1>4, <1>10, <1>11 DEF more

(* What it keeps depends on the entries of the sequence only.              *)
LEMMA KeepingAgrees ==
  ASSUME NEW E, NEW seq \in Seq(E), NEW S, NEW T,
         \A i \in 1..Len(seq) : seq[i] \in S <=> seq[i] \in T
  PROVE  Keeping(seq, S) = Keeping(seq, T)
<1> DEFINE P == {s \in Seq(E) : (\A i \in 1..Len(s) : s[i] \in S <=> s[i] \in T)
                                => Keeping(s, S) = Keeping(s, T)}
<1>1. << >> \in P
  <2>1. Keeping(<< >>, S) = << >> /\ Keeping(<< >>, T) = << >>
    BY KeepingNothing
  <2>2. << >> \in Seq(E)
    OBVIOUS
  <2> QED
    BY <2>1, <2>2
<1>2. ASSUME NEW s \in Seq(E), NEW e \in E, s \in P PROVE Append(s, e) \in P
  <2> DEFINE more == Append(s, e)
  <2>1. /\ more \in Seq(E) /\ Len(more) = Len(s) + 1 /\ Len(s) \in Nat
        /\ \A i \in 1..Len(s) : more[i] = s[i]
        /\ more[Len(s) + 1] = e
    BY AppendProperties
  <2>2. /\ Keeping(s, S) \in Seq(E)
        /\ Keeping(more, S) = IF e \in S THEN Append(Keeping(s, S), e) ELSE Keeping(s, S)
    BY KeepingAppend, Zenon
  <2>2a. /\ Keeping(s, T) \in Seq(E)
         /\ Keeping(more, T) = IF e \in T THEN Append(Keeping(s, T), e) ELSE Keeping(s, T)
    BY KeepingAppend, Zenon
  <2> HIDE DEF more
  <2>3. ASSUME \A i \in 1..Len(more) : more[i] \in S <=> more[i] \in T
        PROVE  Keeping(more, S) = Keeping(more, T)
    <3>1. e \in S <=> e \in T
      BY <2>1, <2>3
    <3>2. \A i \in 1..Len(s) : s[i] \in S <=> s[i] \in T
      BY <2>1, <2>3
    <3> QED
      BY <3>1, <3>2, <2>2, <2>2a, <1>2
  <2> QED
    BY <2>1, <2>3 DEF more
<1> HIDE DEF P
<1>3. seq \in P
  BY <1>1, <1>2, EntryByEntry
<1> QED
  BY <1>3 DEF P

(* The entries that it keeps.                                              *)
LEMMA KeepingRange ==
  ASSUME NEW E, NEW seq \in Seq(E), NEW S
  PROVE  Range(Keeping(seq, S)) = Range(seq) \cap S
<1> DEFINE kept == Keeping(seq, S)
<1>1. kept \in Seq(E) /\ \E from : Picks(from, kept, seq, S, Len(seq))
  BY KeepingPicks
<1> HIDE DEF kept
<1>2. PICK from : Picks(from, kept, seq, S, Len(seq))
  BY <1>1
<1>3. Range(kept) = {kept[m] : m \in 1..Len(kept)} /\ Range(seq) = {seq[i] : i \in 1..Len(seq)}
  BY <1>1, RangeEquality
<1>4. \A m \in 1..Len(kept) : from[m] \in 1..Len(seq) /\ kept[m] = seq[from[m]] /\ kept[m] \in S
  BY <1>2 DEF Picks
<1>5. \A i \in 1..Len(seq) : seq[i] \in S => \E m \in 1..Len(kept) : kept[m] = seq[i]
  BY <1>2 DEF Picks
<1> QED
  BY <1>3, <1>4, <1>5 DEF kept

(* The chain of two chains.                                                *)
LEMMA AppendedPart ==
  ASSUME NEW E, NEW s \in Seq(E), NEW t \in Seq(E), NEW e \in E
  PROVE  s \o Append(t, e) = Append(s \o t, e)
<1> DEFINE w == <<e>>
<1>1. w \in Seq(E) /\ s \o t \in Seq(E)
  OBVIOUS
<1>2. Append(t, e) = t \o w /\ Append(s \o t, e) = (s \o t) \o w
  BY <1>1, AppendIsConcat
<1> HIDE DEF w
<1>3. (s \o t) \o w = s \o (t \o w)
  BY <1>1, ConcatAssociative
<1> QED
  BY <1>2, <1>3

(* What is kept of two sequences in a row is kept of each.                 *)
LEMMA KeepingConcat ==
  ASSUME NEW E, NEW s \in Seq(E), NEW t \in Seq(E), NEW S
  PROVE  Keeping(s \o t, S) = Keeping(s, S) \o Keeping(t, S)
<1> DEFINE P == {u \in Seq(E) : Keeping(s \o u, S) = Keeping(s, S) \o Keeping(u, S)}
<1> HIDE DEF P
<1>1. << >> \in P
  <2>1. Keeping(s, S) \in Seq(E)
    BY KeepingPicks
  <2>2. s \o << >> = s /\ Keeping(s, S) \o << >> = Keeping(s, S)
    BY <2>1, ConcatEmptySeq
  <2>3. Keeping(<< >>, S) = << >>
    BY KeepingNothing
  <2>4. Keeping(s \o << >>, S) = Keeping(s, S) \o Keeping(<< >>, S)
    BY <2>2, <2>3, Zenon
  <2>5. << >> \in Seq(E)
    OBVIOUS
  <2> QED
    BY <2>4, <2>5, Zenon DEF P
<1>2. ASSUME NEW u \in Seq(E), NEW e \in E, u \in P PROVE Append(u, e) \in P
  <2> DEFINE v == s \o u
  <2>1. v \in Seq(E) /\ Append(u, e) \in Seq(E)
    OBVIOUS
  <2>2. s \o Append(u, e) = Append(v, e)
    BY AppendedPart
  <2>3. Keeping(v, S) = Keeping(s, S) \o Keeping(u, S)
    BY <1>2 DEF P
  <2> HIDE DEF v
  <2>4. /\ Keeping(v, S) \in Seq(E)
        /\ Keeping(Append(v, e), S) = IF e \in S THEN Append(Keeping(v, S), e) ELSE Keeping(v, S)
    BY <2>1, KeepingAppend, Zenon
  <2>5. /\ Keeping(u, S) \in Seq(E)
        /\ Keeping(Append(u, e), S) = IF e \in S THEN Append(Keeping(u, S), e) ELSE Keeping(u, S)
    BY KeepingAppend, Zenon
  <2>6. Keeping(s, S) \in Seq(E)
    BY KeepingPicks, Zenon
  <2>7. Keeping(s, S) \o Append(Keeping(u, S), e) = Append(Keeping(s, S) \o Keeping(u, S), e)
    BY <2>5, <2>6, AppendedPart
  <2>8. Keeping(s \o Append(u, e), S) = Keeping(s, S) \o Keeping(Append(u, e), S)
    BY <2>2, <2>3, <2>4, <2>5, <2>7
  <2> QED
    BY <2>1, <2>8, Zenon DEF P
<1>3. t \in P
  BY <1>1, <1>2, EntryByEntry
<1> QED
  BY <1>3 DEF P

(* What maps a chain to the chain of what it maps the parts to.            *)
Homomorphism(h, E, F) ==
  /\ h \in [Seq(E) -> Seq(F)]
  /\ h[<< >>] = << >>
  /\ \A s, t \in Seq(E) : h[s \o t] = h[s] \o h[t]

\* The values of a function along a sequence.
Each(f, seq) == [i \in 1..Len(seq) |-> f[seq[i]]]

\* A function that yields values in F.
Into(f, E, F) == \A x \in E : f[x] \in F

(* One value more.                                                         *)
LEMMA EachAppend ==
  ASSUME NEW E, NEW F, NEW f, Into(f, E, F), NEW seq \in Seq(E), NEW e \in E
  PROVE  /\ Each(f, seq) \in Seq(F)
         /\ Each(f, Append(seq, e)) = Append(Each(f, seq), f[e])
<1> DEFINE n == Len(seq)
           more == Append(seq, e)
<1>1. /\ n \in Nat /\ more \in Seq(E) /\ Len(more) = n + 1 /\ more[n + 1] = e
      /\ \A k \in 1..n : more[k] = seq[k] /\ seq[k] \in E
  BY AppendProperties
<1>1a. \A x \in E : f[x] \in F
  BY DEF Into
<1> HIDE DEF more
<1>2. Each(f, seq) \in Seq(F) /\ Len(Each(f, seq)) = n
  BY <1>1, <1>1a DEF Each
<1>3. f[e] \in F
  BY <1>1a
<1>4. Each(f, more) \in Seq(F) /\ Len(Each(f, more)) = n + 1
  <2>1. \A k \in 1..(n + 1) : more[k] \in E
    BY <1>1
  <2> QED
    BY <2>1, <1>1, <1>1a DEF Each
<1> DEFINE longer == Append(Each(f, seq), f[e])
<1>5. /\ longer \in Seq(F) /\ Len(longer) = n + 1 /\ longer[n + 1] = f[e]
      /\ \A k \in 1..n : longer[k] = Each(f, seq)[k]
  BY <1>2, <1>3, AppendProperties
<1> HIDE DEF longer
<1>6. \A k \in 1..(n + 1) : Each(f, more)[k] = longer[k]
  <2>1. \A k \in 1..(n + 1) : k = n + 1 \/ k \in 1..n
    BY <1>1
  <2>2. \A k \in 1..n : Each(f, seq)[k] = f[seq[k]]
    BY DEF Each
  <2>3. \A k \in 1..(n + 1) : Each(f, more)[k] = f[more[k]]
    BY <1>1 DEF Each
  <2> QED
    BY <2>1, <2>2, <2>3, <1>1, <1>5
<1>7. Each(f, more) = longer
  BY <1>4, <1>5, <1>6, SeqEqual
<1> QED
  BY <1>2, <1>7 DEF more, longer

(* A map that takes sequences in a row to their images in a row may be     *)
(* applied before flattening or after it.                                  *)
LEMMA FlattenHomomorphism ==
  ASSUME NEW E, NEW F, NEW h, Homomorphism(h, E, F), NEW parts \in Seq(Seq(E))
  PROVE  /\ Each(h, parts) \in Seq(Seq(F))
         /\ h[FlattenSeq(parts)] = FlattenSeq(Each(h, parts))
<1> DEFINE X == Seq(E)
           Y == Seq(F)
           P == {ss \in Seq(X) : Each(h, ss) \in Seq(Y) /\ h[FlattenSeq(ss)] = FlattenSeq(Each(h, ss))}
<1>1. h[<< >>] = << >> /\ Into(h, X, Y)
  BY DEF Homomorphism, Into
<1> HIDE DEF X, Y, P
<1>2. << >> \in P
  <2>1. Each(h, << >>) = << >>
    BY DEF Each
  <2>2. << >> \in Seq(X) /\ << >> \in Seq(Y)
    OBVIOUS
  <2>3. h[FlattenSeq(<< >>)] = FlattenSeq(Each(h, << >>))
    BY <2>1, <1>1, FlattenNothing, Zenon
  <2>4. Each(h, << >>) \in Seq(Y)
    BY <2>1, <2>2
  <2> QED
    BY <2>2, <2>3, <2>4, Zenon DEF P
<1>3. ASSUME NEW ss \in Seq(X), NEW s \in X, ss \in P PROVE Append(ss, s) \in P
  <2>1. Each(h, ss) \in Seq(Y) /\ Each(h, Append(ss, s)) = Append(Each(h, ss), h[s])
    BY <1>1, EachAppend
  <2>2. h[s] \in Y /\ Append(ss, s) \in Seq(X) /\ Append(Each(h, ss), h[s]) \in Seq(Y)
    BY <1>1, <2>1 DEF Into
  <2>3. FlattenSeq(ss) \in Seq(E)
    BY FlattenType DEF X
  <2>4. FlattenSeq(Append(ss, s)) = FlattenSeq(ss) \o s
    BY FlattenAppend DEF X
  <2>5. h[FlattenSeq(ss) \o s] = h[FlattenSeq(ss)] \o h[s]
    BY <2>3 DEF Homomorphism, X
  <2>6. FlattenSeq(Append(Each(h, ss), h[s])) = FlattenSeq(Each(h, ss)) \o h[s]
    BY <2>1, <2>2, FlattenAppend DEF Y
  <2>7. h[FlattenSeq(ss)] = FlattenSeq(Each(h, ss))
    BY <1>3 DEF P
  <2>8. h[FlattenSeq(Append(ss, s))] = FlattenSeq(Each(h, Append(ss, s)))
    BY <2>1, <2>4, <2>5, <2>6, <2>7, Zenon
  <2> QED
    BY <2>1, <2>2, <2>8 DEF P
<1>4. parts \in P
  <2>1. parts \in Seq(X)
    BY DEF X
  <2> QED
    BY <2>1, <1>2, <1>3, EntryByEntry
<1> QED
  BY <1>4 DEF P, X, Y

(* Flattening two sequences of sequences in a row.                         *)
LEMMA FlattenConcat ==
  ASSUME NEW E, NEW s \in Seq(Seq(E)), NEW t \in Seq(Seq(E))
  PROVE  FlattenSeq(s \o t) = FlattenSeq(s) \o FlattenSeq(t)
<1> DEFINE P == {u \in Seq(Seq(E)) : FlattenSeq(s \o u) = FlattenSeq(s) \o FlattenSeq(u)}
<1> HIDE DEF P
<1>0. FlattenSeq(s) \in Seq(E)
  BY FlattenType
<1>1. << >> \in P
  <2>1. s \o << >> = s /\ FlattenSeq(s) \o << >> = FlattenSeq(s)
    BY <1>0, ConcatEmptySeq
  <2>2. FlattenSeq(s \o << >>) = FlattenSeq(s) \o FlattenSeq(<< >>)
    BY <2>1, FlattenNothing, Zenon
  <2>3. << >> \in Seq(Seq(E))
    OBVIOUS
  <2> QED
    BY <2>2, <2>3, Zenon DEF P
<1>2. ASSUME NEW u \in Seq(Seq(E)), NEW e \in Seq(E), u \in P PROVE Append(u, e) \in P
  <2>1. s \o u \in Seq(Seq(E)) /\ Append(u, e) \in Seq(Seq(E)) /\ FlattenSeq(u) \in Seq(E)
    BY FlattenType
  <2>2. s \o Append(u, e) = Append(s \o u, e)
    BY AppendedPart
  <2>3. FlattenSeq(Append(s \o u, e)) = FlattenSeq(s \o u) \o e
    BY <2>1, FlattenAppend
  <2>4. FlattenSeq(Append(u, e)) = FlattenSeq(u) \o e
    BY FlattenAppend
  <2>5. (FlattenSeq(s) \o FlattenSeq(u)) \o e = FlattenSeq(s) \o (FlattenSeq(u) \o e)
    <3> DEFINE x == FlattenSeq(s)
               y == FlattenSeq(u)
    <3>1. x \in Seq(E) /\ y \in Seq(E)
      BY <1>0, <2>1
    <3> HIDE DEF x, y
    <3>2. (x \o y) \o e = x \o (y \o e)
      BY <3>1, ConcatAssociative
    <3> QED
      BY <3>2 DEF x, y
  <2>6. FlattenSeq(s \o u) = FlattenSeq(s) \o FlattenSeq(u)
    BY <1>2 DEF P
  <2>7. FlattenSeq(s \o Append(u, e)) = FlattenSeq(s) \o FlattenSeq(Append(u, e))
    BY <2>2, <2>3, <2>4, <2>5, <2>6, Zenon
  <2> QED
    BY <2>1, <2>7, Zenon DEF P
<1>3. t \in P
  BY <1>1, <1>2, EntryByEntry
<1> QED
  BY <1>3 DEF P

------------------------------------------------------------------------------
(* What the fragmenter takes and discards, line by line.                   *)

\* The traces of the lines it discards.
Reasons == {"header", "note", "unclassified"}
Discards(L) == [line : L, reason : Reasons]

\* What the fragmenter holds between two lines.
Cuts(L) == [fragments : Seq(Seq(L)), buffer : Seq(L), discarded : Seq(Discards(L))]

NoCuts == [fragments |-> << >>, buffer |-> << >>, discarded |-> << >>]

\* The lines it took into a fragment so far, and those it discarded.
Taken(acc) == FlattenSeq(acc.fragments) \o acc.buffer

Dropped(discarded) == {d.line : d \in Range(discarded)}

(* Flushing closes the open fragment, and takes no line away.              *)
LEMMA FlushBuffer ==
  ASSUME NEW L, NEW acc \in Cuts(L)
  PROVE  LET flushed == flushBuffer(acc)
         IN  /\ flushed \in Cuts(L)
             /\ flushed.buffer = << >> /\ flushed.discarded = acc.discarded
             /\ FlattenSeq(flushed.fragments) \in Seq(L)
             /\ FlattenSeq(flushed.fragments) = Taken(acc)
<1>1. acc.fragments \in Seq(Seq(L)) /\ acc.buffer \in Seq(L)
  BY DEF Cuts
<1>2. FlattenSeq(acc.fragments) \in Seq(L)
  BY <1>1, FlattenType
<1>3. CASE acc.buffer = << >>
  <2>1. FlattenSeq(acc.fragments) \o << >> = FlattenSeq(acc.fragments)
    BY <1>2, ConcatEmptySeq
  <2> QED
    BY <2>1, <1>2, <1>3 DEF flushBuffer, Taken
<1>4. CASE acc.buffer # << >>
  <2> DEFINE more == Append(acc.fragments, acc.buffer)
  <2>0. more \in Seq(Seq(L)) /\ << >> \in Seq(L)
    BY <1>1
  <2>0a. FlattenSeq(more) = FlattenSeq(acc.fragments) \o acc.buffer
    BY <1>1, FlattenAppend
  <2>1. more \in Seq(Seq(L)) /\ FlattenSeq(more) = Taken(acc)
    BY <2>0, <2>0a DEF Taken
  <2>2. FlattenSeq(more) \in Seq(L)
    BY <2>1, FlattenType
  <2>3. flushBuffer(acc) = [acc EXCEPT !.fragments = more, !.buffer = << >>]
    BY <1>4 DEF flushBuffer
  <2> HIDE DEF more
  <2>4. /\ flushBuffer(acc) \in Cuts(L) /\ flushBuffer(acc).fragments = more
        /\ flushBuffer(acc).buffer = << >> /\ flushBuffer(acc).discarded = acc.discarded
    <3> DEFINE none == << >>
    <3>1. none \in Seq(L)
      OBVIOUS
    <3> HIDE DEF none
    <3>2. flushBuffer(acc) = [acc EXCEPT !.fragments = more, !.buffer = none]
      BY <2>3 DEF none
    <3>3. /\ flushBuffer(acc) \in Cuts(L) /\ flushBuffer(acc).fragments = more
          /\ flushBuffer(acc).buffer = none /\ flushBuffer(acc).discarded = acc.discarded
      BY <2>1, <3>1, <3>2 DEF Cuts
    <3> QED
      BY <3>3 DEF none
  <2> QED
    BY <2>1, <2>2, <2>4
<1> QED
  BY <1>3, <1>4

(* Discarding a line.                                                      *)
LEMMA DiscardOne ==
  ASSUME NEW L, NEW acc \in Cuts(L), NEW line \in L, NEW reason \in Reasons
  PROVE  /\ discard(acc, line, reason) \in Cuts(L)
         /\ Taken(discard(acc, line, reason)) = Taken(acc)
         /\ Dropped(discard(acc, line, reason).discarded) = Dropped(acc.discarded) \cup {line}
<1> DEFINE next == discard(acc, line, reason)
           D == Discards(L)
           d == [line |-> line, reason |-> reason]
           old == acc.discarded
           more == Append(old, d)
<1>1. old \in Seq(D) /\ d \in D
  <2>1. d \in D
    BY DEF Discards
  <2>2. old \in Seq(D)
    BY DEF Cuts
  <2> QED
    BY <2>1, <2>2
<1>2. d.line = line
  OBVIOUS
<1>3. next = [acc EXCEPT !.discarded = more]
  BY DEF discard
<1> HIDE DEF D, d
<1>4. /\ more \in Seq(D) /\ Len(more) = Len(old) + 1 /\ Len(old) \in Nat
      /\ \A i \in 1..Len(old) : more[i] = old[i]
      /\ more[Len(old) + 1] = d
  BY <1>1, AppendProperties
<1>5. Range(more) = Range(old) \cup {d}
  <2>1. Range(more) = {more[i] : i \in 1..Len(more)} /\ Range(old) = {old[i] : i \in 1..Len(old)}
    BY <1>1, <1>4, RangeEquality
  <2>2. \A i \in 1..Len(more) : i = Len(old) + 1 \/ i \in 1..Len(old)
    BY <1>4
  <2>3. \A i \in 1..Len(old) : i \in 1..Len(more)
    BY <1>4
  <2>4. Len(old) + 1 \in 1..Len(more)
    BY <1>4
  <2> HIDE DEF more, old
  <2> QED
    BY <2>1, <2>2, <2>3, <2>4, <1>4
<1>6. Dropped(more) = Dropped(old) \cup {line}
  BY <1>2, <1>5 DEF Dropped
<1> HIDE DEF more
<1>7. /\ next \in Cuts(L) /\ next.fragments = acc.fragments /\ next.buffer = acc.buffer
      /\ next.discarded = more
  BY <1>3, <1>4 DEF Cuts, D
<1> QED
  BY <1>6, <1>7 DEF Taken

(* One line more: it is blank, or taken behind all others, or discarded;   *)
(* the start of an item is taken.                                          *)
LEMMA FragmentOneMore ==
  ASSUME NEW L, NEW acc \in Cuts(L), NEW line \in L
  PROVE  LET next == fragmentLine(acc, line)
         IN  /\ next \in Cuts(L) /\ Taken(acc) \in Seq(L)
             /\ \/ /\ line.kind = "blank"
                   /\ Taken(next) = Taken(acc) /\ Dropped(next.discarded) = Dropped(acc.discarded)
                \/ /\ line.kind \notin {"blank", "start"}
                   /\ Taken(next) = Taken(acc)
                   /\ Dropped(next.discarded) = Dropped(acc.discarded) \cup {line}
                \/ /\ line.kind # "blank"
                   /\ Taken(next) = Append(Taken(acc), line)
                   /\ Dropped(next.discarded) = Dropped(acc.discarded)
<1> DEFINE next == fragmentLine(acc, line)
           flushed == flushBuffer(acc)
<1>1. acc.fragments \in Seq(Seq(L)) /\ acc.buffer \in Seq(L)
  BY DEF Cuts
<1>2. FlattenSeq(acc.fragments) \in Seq(L)
  BY <1>1, FlattenType
<1>3. Taken(acc) \in Seq(L)
  BY <1>1, <1>2, ConcatProperties DEF Taken
<1>4. /\ flushed \in Cuts(L) /\ flushed.buffer = << >> /\ flushed.discarded = acc.discarded
      /\ FlattenSeq(flushed.fragments) \in Seq(L)
      /\ FlattenSeq(flushed.fragments) = Taken(acc)
  BY FlushBuffer
<1>5. Taken(flushed) = Taken(acc)
  <2>1. FlattenSeq(flushed.fragments) \o << >> = FlattenSeq(flushed.fragments)
    BY <1>4, ConcatEmptySeq
  <2> QED
    BY <2>1, <1>4 DEF Taken
<1>6. CASE line.kind = "blank"
  BY <1>3, <1>6 DEF fragmentLine
<1>7. CASE line.kind \in {"header", "note"}
  <2>1. next = discard(flushed, line, line.kind)
    BY <1>7 DEF fragmentLine
  <2>2. line.kind \in {"header", "note", "unclassified"} /\ line.kind \notin {"blank", "start"}
    BY <1>7
  <2> DEFINE kind == line.kind
  <2>3. kind \in Reasons /\ next = discard(flushed, line, kind)
    BY <2>1, <2>2 DEF Reasons
  <2> HIDE DEF flushed, next, kind
  <2>4. /\ discard(flushed, line, kind) \in Cuts(L)
        /\ Taken(discard(flushed, line, kind)) = Taken(flushed)
        /\ Dropped(discard(flushed, line, kind).discarded) = Dropped(flushed.discarded) \cup {line}
    BY <2>3, <1>4, DiscardOne
  <2>5. /\ next \in Cuts(L) /\ Taken(next) = Taken(flushed)
        /\ Dropped(next.discarded) = Dropped(flushed.discarded) \cup {line}
    BY <2>3, <2>4
  <2> QED
    BY <2>2, <2>5, <1>3, <1>4, <1>5 DEF next
<1>8. CASE line.kind = "start"
  <2>1. next = [flushed EXCEPT !.buffer = <<line>>]
    BY <1>8 DEF fragmentLine
  <2>0. <<line>> \in Seq(L)
    OBVIOUS
  <2> HIDE DEF flushed, next
  <2>2. /\ next \in Cuts(L) /\ next.fragments = flushed.fragments
        /\ next.buffer = <<line>> /\ next.discarded = flushed.discarded
    BY <2>0, <2>1, <1>4 DEF Cuts
  <2>3. Append(Taken(acc), line) = Taken(acc) \o <<line>>
    BY <1>3, AppendIsConcat
  <2>4. Taken(next) = Append(Taken(acc), line)
    BY <2>2, <2>3, <1>4 DEF Taken
  <2> QED
    BY <2>2, <2>4, <1>3, <1>4, <1>8 DEF next
<1>9. CASE line.kind \notin {"blank", "header", "note", "start"} /\ acc.buffer # << >>
  <2>1. next = [acc EXCEPT !.buffer = Append(@, line)]
    BY <1>9 DEF fragmentLine
  <2>1a. Append(acc.buffer, line) \in Seq(L)
    BY <1>1
  <2> HIDE DEF next
  <2>2. /\ next \in Cuts(L) /\ next.fragments = acc.fragments
        /\ next.buffer = Append(acc.buffer, line) /\ next.discarded = acc.discarded
    BY <2>1, <2>1a DEF Cuts
  <2>3. FlattenSeq(acc.fragments) \o Append(acc.buffer, line)
          = Append(FlattenSeq(acc.fragments) \o acc.buffer, line)
    <3> DEFINE x == FlattenSeq(acc.fragments)
               y == acc.buffer
    <3>1. x \in Seq(L) /\ y \in Seq(L)
      BY <1>1, <1>2
    <3> HIDE DEF x, y
    <3>2. x \o Append(y, line) = Append(x \o y, line)
      BY <3>1, AppendedPart
    <3> QED
      BY <3>2 DEF x, y
  <2> QED
    BY <2>2, <2>3, <1>3, <1>9 DEF Taken, next
<1>10. CASE line.kind \notin {"blank", "header", "note", "start"} /\ acc.buffer = << >>
  <2> DEFINE kind == "unclassified"
  <2>1. kind \in Reasons /\ next = discard(acc, line, kind)
    BY <1>10 DEF fragmentLine, Reasons
  <2> HIDE DEF next, kind
  <2>1a. /\ discard(acc, line, kind) \in Cuts(L)
         /\ Taken(discard(acc, line, kind)) = Taken(acc)
         /\ Dropped(discard(acc, line, kind).discarded) = Dropped(acc.discarded) \cup {line}
    BY <2>1, DiscardOne
  <2>2. /\ next \in Cuts(L) /\ Taken(next) = Taken(acc)
        /\ Dropped(next.discarded) = Dropped(acc.discarded) \cup {line}
    BY <2>1, <2>1a
  <2> QED
    BY <2>2, <1>3, <1>10 DEF next
<1> QED
  BY <1>6, <1>7, <1>8, <1>9, <1>10

\* One line, as a function to fold.
Fragmenting(L) == [p \in Cuts(L) \X L |-> fragmentLine(p[1], p[2])]

\* The lines of a segment, the open fragment among its fragments.
CutAll(lines) == FoldLeft(fragmentLine, NoCuts, lines)

(* The fragmenter, line by line.                                           *)
LEMMA FragmentingSteps ==
  ASSUME NEW L, NEW lines \in Seq(L)
  PROVE  \E t : Steps(t, Cuts(L), Fragmenting(L), NoCuts, lines, CutAll(lines))
<1> DEFINE n == Len(lines)
           D == 1..n
           A == Cuts(L)
           Rec(h) == h = [s \in SUBSET D |->
             IF s = {} THEN NoCuts ELSE fragmentLine(h[s \ {Max(s)}], lines[Max(s)])]
           iter == CHOOSE h : Rec(h)
<1>1. n \in Nat /\ DOMAIN lines = D /\ \A i \in D : lines[i] \in L
  OBVIOUS
<1>2. CutAll(lines) = iter[D]
  BY <1>1 DEF CutAll, FoldLeft, MapThenFoldSet
<1>3. Fragmenting(L) \in [A \X L -> A] /\ NoCuts \in A
  <2>1. \A acc \in A, line \in L : fragmentLine(acc, line) \in A
    BY FragmentOneMore
  <2>2. NoCuts \in A
    BY DEF NoCuts, Cuts
  <2> HIDE DEF A
  <2>3. Fragmenting(L) \in [A \X L -> A]
    BY <2>1 DEF Fragmenting, A
  <2> QED
    BY <2>2, <2>3
<1>4. PICK h : Folds(h, A, Fragmenting(L), NoCuts, lines, n)
  BY <1>1, <1>3, FoldExists
<1>5. \A s \in SUBSET D : s # {} => Max(s) \in s /\ s \ {Max(s)} \in SUBSET D
  BY <1>1, GreatestOfInterval
<1> HIDE DEF A
<1>6. Rec(h)
  BY <1>4, <1>5, <1>1 DEF Folds, Fragmenting, A
<1>7. Rec(iter)
  BY <1>6
<1> HIDE DEF iter
<1>8. iter[{}] = NoCuts
  BY <1>7
<1>9. ASSUME NEW k \in 1..n, iter[1..(k - 1)] \in A
      PROVE  iter[1..k] = Fragmenting(L)[<<iter[1..(k - 1)], lines[k]>>]
  <2>1. k \in Nat /\ k # 0
    BY <1>1
  <2>2. Max(1..k) = k /\ (1..k) \ {k} = 1..(k - 1)
    BY <2>1, MaxOfPrefix
  <2>3. 1..k \in SUBSET D /\ k \in 1..k /\ lines[k] \in L
    BY <1>1, <2>1
  <2>4. iter[1..k] = fragmentLine(iter[1..(k - 1)], lines[k])
    BY <2>2, <2>3, <1>7
  <2> QED
    BY <2>3, <2>4, <1>9 DEF Fragmenting, A
<1>10. Iterates(iter, A, Fragmenting(L), NoCuts, lines)
  BY <1>8, <1>9 DEF Iterates
<1> HIDE DEF Rec, D
<1>11. \E t : Steps(t, A, Fragmenting(L), NoCuts, lines, iter[1..Len(lines)])
  BY <1>3, <1>10, FoldSteps
<1> QED
  BY <1>2, <1>11 DEF D, A

\* The lines that go on to a provider: not blank, and not discarded.
Sent(L, dropped) == {line \in L : line.kind # "blank" /\ line \notin dropped}

\* No line occurs twice.
AllDifferent(lines) == \A i, j \in 1..Len(lines) : lines[i] = lines[j] => i = j

\* What was read of a stretch of lines: those taken are those to be sent, in
\* order, and those discarded are of the stretch and start no item.
ReadSoFar(acc, L, stretch) ==
  /\ Taken(acc) = Keeping(stretch, Sent(L, Dropped(acc.discarded)))
  /\ Dropped(acc.discarded) \subseteq Range(stretch)
  /\ \A line \in Dropped(acc.discarded) : line.kind \notin {"blank", "start"}

(* And one line more.                                                      *)
LEMMA ReadOneMore ==
  ASSUME NEW L, NEW acc \in Cuts(L), NEW stretch \in Seq(L), NEW line \in L,
         line \notin Range(stretch), ReadSoFar(acc, L, stretch)
  PROVE  ReadSoFar(fragmentLine(acc, line), L, Append(stretch, line))
<1> DEFINE next == fragmentLine(acc, line)
           before == Dropped(acc.discarded)
           after == Dropped(next.discarded)
           more == Append(stretch, line)
<1>1. /\ next \in Cuts(L) /\ Taken(acc) \in Seq(L)
      /\ \/ line.kind = "blank" /\ Taken(next) = Taken(acc) /\ after = before
         \/ /\ line.kind \notin {"blank", "start"}
            /\ Taken(next) = Taken(acc) /\ after = before \cup {line}
         \/ line.kind # "blank" /\ Taken(next) = Append(Taken(acc), line) /\ after = before
  BY FragmentOneMore
<1>2. /\ Taken(acc) = Keeping(stretch, Sent(L, before)) /\ before \subseteq Range(stretch)
      /\ \A gone \in before : gone.kind \notin {"blank", "start"}
  BY DEF ReadSoFar
<1>3. Range(more) = Range(stretch) \cup {line}
  <2>1. more = stretch \o <<line>> /\ <<line>> \in Seq(L)
    BY AppendIsConcat
  <2>2. Range(more) = Range(stretch) \cup Range(<<line>>)
    BY <2>1, RangeConcatenation
  <2>3. Range(<<line>>) = {line}
    <3>1. <<line>> \in Seq(L) /\ Len(<<line>>) = 1 /\ <<line>>[1] = line
      OBVIOUS
    <3>2. Range(<<line>>) = {<<line>>[i] : i \in 1..Len(<<line>>)}
      BY <3>1, RangeEquality
    <3>3. 1..1 = {1}
      OBVIOUS
    <3> QED
      BY <3>1, <3>2, <3>3
  <2> QED
    BY <2>2, <2>3
<1> DEFINE S == Sent(L, after)
<1>4. /\ Keeping(stretch, S) \in Seq(L)
      /\ Keeping(Append(stretch, line), S) =
           IF line \in S THEN Append(Keeping(stretch, S), line) ELSE Keeping(stretch, S)
  <2> HIDE DEF S
  <2> QED
    BY KeepingAppend, Zenon
<1> HIDE DEF next, before, after
<1>5. after \subseteq before \cup {line}
  BY <1>1
<1>6. \A i \in 1..Len(stretch) : stretch[i] \in L /\ stretch[i] # line
  <2>1. Range(stretch) = {stretch[i] : i \in 1..Len(stretch)}
    BY RangeEquality
  <2> QED
    BY <2>1
<1>7. \A i \in 1..Len(stretch) : stretch[i] \in S <=> stretch[i] \in Sent(L, before)
  BY <1>1, <1>6 DEF Sent
<1>8. Keeping(stretch, S) = Taken(acc)
  <2> DEFINE T == Sent(L, before)
  <2> HIDE DEF S, T
  <2>1. \A i \in 1..Len(stretch) : stretch[i] \in S <=> stretch[i] \in T
    BY <1>7 DEF T
  <2>2. Keeping(stretch, S) = Keeping(stretch, T)
    BY <2>1, KeepingAgrees
  <2> QED
    BY <2>2, <1>2 DEF T
<1>9. line \notin before
  BY <1>2
<1>10. Taken(next) = Keeping(more, S)
  <2>1. line \in S <=> line.kind # "blank" /\ line \notin after
    BY DEF Sent
  <2> HIDE DEF S
  <2> QED
    BY <2>1, <1>1, <1>4, <1>8, <1>9
<1>11. \A gone \in after : gone.kind \notin {"blank", "start"}
  BY <1>1, <1>2
<1>12. after \subseteq Range(more)
  BY <1>2, <1>3, <1>5
<1> QED
  BY <1>10, <1>11, <1>12 DEF ReadSoFar, next, after

(* A segment is cut without losing a line: its fragments, chained, are the *)
(* lines that are neither blank nor traced as discarded.                   *)
LEMMA SegmentIsRead ==
  ASSUME NEW L, NEW parent, parent.lines \in Seq(L), AllDifferent(parent.lines)
  PROVE  LET cut == fragmentSegment(parent)
             dropped == Dropped(cut.discarded)
         IN  /\ cut \in Cuts(L)
             /\ FlattenSeq(cut.fragments) = Keeping(parent.lines, Sent(L, dropped))
             /\ dropped \subseteq Range(parent.lines)
             /\ \A line \in dropped : line.kind \notin {"blank", "start"}
<1> DEFINE lines == parent.lines
           n == Len(lines)
           all == CutAll(lines)
<1>1. fragmentSegment(parent) = flushBuffer(all)
  BY DEF fragmentSegment, CutAll, NoCuts
<1>2. lines \in Seq(L) /\ AllDifferent(lines)
  OBVIOUS
<1>3. n \in Nat /\ \A k \in 1..n : lines[k] \in L
  BY <1>2
<1> HIDE DEF lines, all
<1>4. PICK t : Steps(t, Cuts(L), Fragmenting(L), NoCuts, lines, all)
  BY <1>2, FragmentingSteps DEF all
<1> DEFINE Right == {k \in 0..n : ReadSoFar(t[k], L, SubSeq(lines, 1, k))}
<1>5. 0 \in Right
  <2>1. SubSeq(lines, 1, 0) = << >> /\ << >> \o << >> = << >>
    OBVIOUS
  <2>2. Range(<< >>) = {}
    BY DEF Range
  <2>3. Taken(NoCuts) = << >> /\ Dropped(NoCuts.discarded) = {}
    BY <2>1, <2>2, FlattenNothing DEF Taken, NoCuts, Dropped
  <2>4. Keeping(<< >>, Sent(L, {})) = << >>
    BY KeepingNothing
  <2>5. ReadSoFar(NoCuts, L, << >>)
    BY <2>3, <2>4 DEF ReadSoFar
  <2>6. t[0] = NoCuts /\ 0 \in 0..n
    BY <1>3, <1>4 DEF Steps
  <2> QED
    BY <2>1, <2>5, <2>6
<1>6. ASSUME NEW k \in 0..(n - 1), k \in Right PROVE k + 1 \in Right
  <2> DEFINE stretch == SubSeq(lines, 1, k)
             line == lines[k + 1]
  <2>1. k + 1 \in 1..n /\ k + 1 \in 0..n /\ (k + 1) - 1 = k /\ k \in 0..n /\ k \in Nat
    BY <1>3
  <2>2. t[k] \in Cuts(L) /\ line \in L
    BY <2>1, <1>3, <1>4 DEF Steps
  <2>3. t[k + 1] = fragmentLine(t[k], line)
    BY <2>1, <2>2, <1>4 DEF Steps, Fragmenting
  <2>4. /\ stretch \in Seq(L) /\ Len(stretch) = k
        /\ \A i \in 1..k : stretch[i] = lines[i] /\ i \in 1..n
    BY <2>1, <1>2, <1>3
  <2>5. Append(stretch, line) = SubSeq(lines, 1, k + 1)
    BY <2>1, <1>2
  <2>6. ReadSoFar(t[k], L, stretch)
    BY <1>6
  <2> HIDE DEF stretch
  <2>7. line \notin Range(stretch)
    <3>1. Range(stretch) = {stretch[i] : i \in 1..Len(stretch)}
      BY <2>4, RangeEquality
    <3>2. \A i \in 1..k : i # k + 1
      BY <2>1
    <3> QED
      BY <3>1, <3>2, <2>1, <2>4, <1>2 DEF AllDifferent
  <2> HIDE DEF line
  <2>8. ReadSoFar(fragmentLine(t[k], line), L, Append(stretch, line))
    BY <2>2, <2>4, <2>6, <2>7, ReadOneMore
  <2> QED
    BY <2>1, <2>3, <2>5, <2>8
<1> HIDE DEF Right
<1>7. \A k \in 0..n : k \in Right
  BY <1>3, <1>5, <1>6, UpTo
<1>8. n \in 0..n /\ n \in Right
  BY <1>3, <1>7
<1>9. ReadSoFar(t[n], L, SubSeq(lines, 1, n)) /\ t[n] \in Cuts(L) /\ t[n] = all
  BY <1>8, <1>4 DEF Right, Steps
<1>10. SubSeq(lines, 1, n) = lines
  BY <1>2
<1>11. ReadSoFar(all, L, lines) /\ all \in Cuts(L)
  BY <1>9, <1>10
<1>12. /\ flushBuffer(all) \in Cuts(L) /\ flushBuffer(all).discarded = all.discarded
       /\ FlattenSeq(flushBuffer(all).fragments) = Taken(all)
  BY <1>11, FlushBuffer
<1> QED
  BY <1>1, <1>11, <1>12 DEF ReadSoFar, lines

------------------------------------------------------------------------------
(* What it takes and discards of a whole document.                         *)

(* The values along two sequences in a row.                                *)
LEMMA EachConcat ==
  ASSUME NEW E, NEW F, NEW f, Into(f, E, F), NEW s \in Seq(E), NEW t \in Seq(E)
  PROVE  /\ Each(f, s) \in Seq(F) /\ Each(f, t) \in Seq(F)
         /\ Each(f, s \o t) = Each(f, s) \o Each(f, t)
<1> DEFINE n == Len(s)
           m == Len(t)
           both == s \o t
           a == Each(f, s)
           b == Each(f, t)
           c == Each(f, both)
<1>1. /\ n \in Nat /\ m \in Nat /\ both \in Seq(E) /\ Len(both) = n + m
      /\ \A i \in 1..(n + m) : both[i] = IF i <= n THEN s[i] ELSE t[i - n]
  BY ConcatProperties
<1>2. /\ \A i \in 1..n : s[i] \in E
      /\ \A i \in 1..m : t[i] \in E
      /\ \A x \in E : f[x] \in F
  BY DEF Into
<1> HIDE DEF both
<1>3. a \in Seq(F) /\ Len(a) = n /\ \A i \in 1..n : a[i] = f[s[i]]
  BY <1>1, <1>2 DEF Each
<1>4. b \in Seq(F) /\ Len(b) = m /\ \A i \in 1..m : b[i] = f[t[i]]
  BY <1>1, <1>2 DEF Each
<1>5. c \in Seq(F) /\ Len(c) = n + m /\ \A i \in 1..(n + m) : c[i] = f[both[i]]
  <2>1. n + m \in Nat /\ \A i \in 1..(n + m) : both[i] \in E
    BY <1>1
  <2>2. \A i \in 1..(n + m) : f[both[i]] \in F
    BY <2>1, <1>2
  <2>3. c = [i \in 1..(n + m) |-> f[both[i]]]
    BY <1>1 DEF Each
  <2> HIDE DEF c
  <2> QED
    BY <2>1, <2>2, <2>3
<1> HIDE DEF a, b, c
<1>6. /\ a \o b \in Seq(F) /\ Len(a \o b) = n + m
      /\ \A i \in 1..(n + m) : (a \o b)[i] = IF i <= n THEN a[i] ELSE b[i - n]
  <2>1. /\ a \o b \in Seq(F) /\ Len(a \o b) = Len(a) + Len(b)
        /\ \A i \in 1..(Len(a) + Len(b)) : (a \o b)[i] = IF i <= Len(a) THEN a[i] ELSE b[i - Len(a)]
    <3>1. a \in Seq(F) /\ b \in Seq(F)
      BY <1>3, <1>4
    <3> QED
      BY <3>1, ConcatProperties
  <2> QED
    BY <2>1, <1>3, <1>4
<1>7. ASSUME NEW i \in 1..(n + m) PROVE c[i] = (a \o b)[i]
  <2>1. CASE i <= n
    <3>1. i \in 1..n
      BY <2>1, <1>1
    <3>2. both[i] = s[i] /\ (a \o b)[i] = a[i]
      BY <2>1, <1>1, <1>6
    <3> QED
      BY <3>1, <3>2, <1>3, <1>5
  <2>2. CASE ~ (i <= n)
    <3>1. i - n \in 1..m
      BY <2>2, <1>1
    <3>2. both[i] = t[i - n] /\ (a \o b)[i] = b[i - n]
      BY <2>2, <1>1, <1>6
    <3> QED
      BY <3>1, <3>2, <1>4, <1>5
  <2> QED
    BY <2>1, <2>2
<1>8. c = a \o b
  <2> DEFINE d == a \o b
  <2>1. d \in Seq(F) /\ Len(d) = Len(c) /\ \A i \in 1..Len(c) : c[i] = d[i]
    BY <1>5, <1>6, <1>7
  <2> HIDE DEF d
  <2>2. c = d
    BY <2>1, <1>5, SeqEqual
  <2> QED
    BY <2>2 DEF d
<1> QED
  BY <1>3, <1>4, <1>8 DEF a, b, c, both

(* The entries of a chain are those of its parts.                          *)
LEMMA FlattenRange ==
  ASSUME NEW E, NEW parts \in Seq(Seq(E)), NEW e
  PROVE  e \in Range(FlattenSeq(parts)) <=> \E i \in 1..Len(parts) : e \in Range(parts[i])
<1> DEFINE P == {ss \in Seq(Seq(E)) :
                  e \in Range(FlattenSeq(ss)) <=> \E i \in 1..Len(ss) : e \in Range(ss[i])}
<1> HIDE DEF P
<1>1. << >> \in P
  <2>1. Range(<< >>) = {} /\ FlattenSeq(<< >>) = << >>
    BY FlattenNothing DEF Range
  <2>2. << >> \in Seq(Seq(E)) /\ ~ \E i \in 1..Len(<< >>) : e \in Range(<< >>[i])
    OBVIOUS
  <2> QED
    BY <2>1, <2>2 DEF P
<1>2. ASSUME NEW ss \in Seq(Seq(E)), NEW s \in Seq(E), ss \in P PROVE Append(ss, s) \in P
  <2> DEFINE n == Len(ss)
             more == Append(ss, s)
  <2>1. /\ more \in Seq(Seq(E)) /\ n \in Nat /\ Len(more) = n + 1 /\ more[n + 1] = s
        /\ \A i \in 1..n : more[i] = ss[i]
    BY AppendProperties
  <2>2. FlattenSeq(ss) \in Seq(E)
    BY FlattenType
  <2>3. FlattenSeq(more) = FlattenSeq(ss) \o s
    BY FlattenAppend
  <2>4. Range(FlattenSeq(ss) \o s) = Range(FlattenSeq(ss)) \cup Range(s)
    BY <2>2, RangeConcatenation
  <2>5. e \in Range(FlattenSeq(ss)) <=> \E i \in 1..n : e \in Range(ss[i])
    BY <1>2 DEF P
  <2> HIDE DEF more
  <2>6. (\E i \in 1..Len(more) : e \in Range(more[i]))
          <=> e \in Range(s) \/ \E i \in 1..n : e \in Range(ss[i])
    <3>1. \A i \in 1..Len(more) : i = n + 1 \/ i \in 1..n
      BY <2>1
    <3>2. n + 1 \in 1..Len(more) /\ \A i \in 1..n : i \in 1..Len(more)
      BY <2>1
    <3> QED
      BY <3>1, <3>2, <2>1
  <2>7. e \in Range(FlattenSeq(more)) <=> e \in Range(s) \/ e \in Range(FlattenSeq(ss))
    BY <2>3, <2>4
  <2>8. e \in Range(FlattenSeq(more)) <=> \E i \in 1..Len(more) : e \in Range(more[i])
    BY <2>5, <2>6, <2>7
  <2>9. more \in P
    BY <2>1, <2>8 DEF P
  <2> QED
    BY <2>9 DEF more
<1>3. parts \in P
  <2> DEFINE X == Seq(E)
  <2>1. parts \in Seq(X) /\ << >> \in P /\ \A ss \in Seq(X), s \in X : ss \in P => Append(ss, s) \in P
    BY <1>1, <1>2
  <2> HIDE DEF X
  <2> QED
    BY <2>1, EntryByEntry
<1> QED
  BY <1>3 DEF P

Tagging(parent, L) == [lines \in Seq(L) |-> Entries(parent, lines)]

(* Lines in a row keep their ids.                                          *)
LEMMA TaggingIsHomomorphism ==
  ASSUME NEW L, NEW Ids, NEW parent \in Ids
  PROVE  Homomorphism(Tagging(parent, L), L, Ids \X L)
<1> DEFINE F == Ids \X L
           f == [line \in L |-> <<parent, line>>]
<1>1. Into(f, L, F)
  BY DEF Into
<1>2. \A lines \in Seq(L) : Entries(parent, lines) = Each(f, lines)
  BY DEF Entries, Each
<1> HIDE DEF f, F
<1>3. \A s, t \in Seq(L) : Each(f, s) \in Seq(F) /\ Each(f, s \o t) = Each(f, s) \o Each(f, t)
  BY <1>1, EachConcat
<1>4. << >> \in Seq(L) /\ Each(f, << >>) = << >> /\ \A s, t \in Seq(L) : s \o t \in Seq(L)
  BY DEF Each
<1>5. \A s \in Seq(L) : Tagging(parent, L)[s] = Each(f, s)
  BY <1>2 DEF Tagging
<1>6. Tagging(parent, L) \in [Seq(L) -> Seq(F)]
  BY <1>2, <1>3 DEF Tagging
<1> DEFINE h == Tagging(parent, L)
<1>7. h[<< >>] = << >>
  BY <1>4, <1>5
<1>8. \A s, t \in Seq(L) : h[s \o t] = h[s] \o h[t]
  BY <1>3, <1>4, <1>5
<1> HIDE DEF h
<1> QED
  BY <1>6, <1>7, <1>8 DEF Homomorphism, F, h

Filtering(S, E) == [s \in Seq(E) |-> Keeping(s, S)]

(* A filter goes through the parts of a chain.                             *)
LEMMA FilteringIsHomomorphism ==
  ASSUME NEW E, NEW S
  PROVE  Homomorphism(Filtering(S, E), E, E)
<1>1. \A s \in Seq(E) : Keeping(s, S) \in Seq(E)
  BY KeepingPicks
<1>2. \A s, t \in Seq(E) : Keeping(s \o t, S) = Keeping(s, S) \o Keeping(t, S)
  BY KeepingConcat
<1>3. Keeping(<< >>, S) = << >>
  BY KeepingNothing
<1>4. << >> \in Seq(E) /\ \A s, t \in Seq(E) : s \o t \in Seq(E)
  OBVIOUS
<1> QED
  BY <1>1, <1>2, <1>3, <1>4 DEF Homomorphism, Filtering

(* Kept lines with their id are kept with their id.                        *)
LEMMA EntriesOfKept ==
  ASSUME NEW L, NEW Ids, NEW parent \in Ids, NEW lines \in Seq(L), NEW S, NEW T,
         \A k \in 1..Len(lines) : lines[k] \in S <=> <<parent, lines[k]>> \in T
  PROVE  /\ Entries(parent, lines) \in Seq(Ids \X L)
         /\ Entries(parent, Keeping(lines, S)) = Keeping(Entries(parent, lines), T)
<1> DEFINE F == Ids \X L
           f == [line \in L |-> <<parent, line>>]
           Alike2(s) == \A k \in 1..Len(s) : s[k] \in S <=> <<parent, s[k]>> \in T
           P == {s \in Seq(L) : Alike2(s) => Each(f, Keeping(s, S)) = Keeping(Each(f, s), T)}
<1>1. Into(f, L, F) /\ \A line \in L : f[line] = <<parent, line>>
  BY DEF Into
<1>2. \A s \in Seq(L) : Entries(parent, s) = Each(f, s)
  BY DEF Entries, Each
<1> HIDE DEF f, F, P
<1>3. << >> \in P
  <2>1. Each(f, << >>) = << >>
    BY DEF Each
  <2>2. Keeping(<< >>, S) = << >>
    BY KeepingNothing
  <2>3. Keeping(<< >>, T) = << >>
    BY KeepingNothing
  <2>4. << >> \in Seq(L)
    OBVIOUS
  <2>5. Each(f, Keeping(<< >>, S)) = Keeping(Each(f, << >>), T)
    BY <2>1, <2>2, <2>3, Zenon
  <2> QED
    BY <2>4, <2>5 DEF P
<1>4. ASSUME NEW s \in Seq(L), NEW line \in L, s \in P PROVE Append(s, line) \in P
  <2> DEFINE more == Append(s, line)
  <2>1. /\ more \in Seq(L) /\ Len(more) = Len(s) + 1 /\ Len(s) \in Nat
        /\ \A i \in 1..Len(s) : more[i] = s[i]
        /\ more[Len(s) + 1] = line
    BY AppendProperties
  <2>2. ASSUME Alike2(more) PROVE Each(f, Keeping(more, S)) = Keeping(Each(f, more), T)
    <3>1. Alike2(s) /\ (line \in S <=> f[line] \in T)
      <4>1. \A i \in 1..Len(s) : i \in 1..Len(more)
        BY <2>1
      <4>2. Len(s) + 1 \in 1..Len(more)
        BY <2>1
      <4>3. f[line] = <<parent, line>>
        BY <1>1
      <4> HIDE DEF more
      <4>4. \A i \in 1..Len(more) : more[i] \in S <=> <<parent, more[i]>> \in T
        BY <2>2
      <4>5. line \in S <=> <<parent, line>> \in T
        BY <4>2, <4>4, <2>1
      <4>6. \A i \in 1..Len(s) : s[i] \in S <=> <<parent, s[i]>> \in T
        BY <4>1, <4>4, <2>1
      <4> QED
        BY <4>3, <4>5, <4>6
    <3>2. Each(f, Keeping(s, S)) = Keeping(Each(f, s), T)
      BY <3>1, <1>4 DEF P
    <3>3. /\ Keeping(s, S) \in Seq(L)
          /\ Keeping(more, S) = IF line \in S THEN Append(Keeping(s, S), line) ELSE Keeping(s, S)
      BY KeepingAppend, Zenon
    <3>4. Each(f, s) \in Seq(F) /\ Each(f, more) = Append(Each(f, s), f[line])
      BY <1>1, EachAppend
    <3> DEFINE kept == Keeping(s, S)
               values == Each(f, s)
               value == f[line]
    <3>5. value \in F
      BY <1>1 DEF Into
    <3> HIDE DEF kept, values, value, more
    <3>6. /\ Keeping(values, T) \in Seq(F)
          /\ Keeping(Append(values, value), T) =
               IF value \in T THEN Append(Keeping(values, T), value) ELSE Keeping(values, T)
      BY <3>4, <3>5, KeepingAppend DEF values, value
    <3>7. Each(f, kept) \in Seq(F) /\ Each(f, Append(kept, line)) = Append(Each(f, kept), f[line])
      BY <3>3, <1>1, EachAppend DEF kept
    <3> QED
      BY <3>1, <3>2, <3>3, <3>4, <3>6, <3>7 DEF kept, values, value
  <2> QED
    BY <2>1, <2>2 DEF P
<1>5. lines \in P
  BY <1>3, <1>4, EntryByEntry
<1>6. Each(f, Keeping(lines, S)) = Keeping(Each(f, lines), T)
  BY <1>5 DEF P
<1>7. Keeping(lines, S) \in Seq(L)
  BY KeepingPicks
<1>8. Each(f, lines) \in Seq(F)
  BY <1>1, EachConcat
<1> QED
  BY <1>2, <1>6, <1>7, <1>8 DEF F

\* Segments with an id and lines, no line of which occurs twice.
Readable(segments, Ids, L) ==
  /\ \A i \in 1..Len(segments) :
       /\ segments[i].segment_id \in Ids /\ segments[i].lines \in Seq(L)
       /\ AllDifferent(segments[i].lines)
  /\ \A i, j \in 1..Len(segments) : i # j =>
       Range(segments[i].lines) \cap Range(segments[j].lines) = {}

\* What a fragment is before it gets its number, and then.
Fragments(Ids, L) == [segment_id : Ids \X Nat, lines : Seq(L)]
Candidates(Ids, L) == [segment_id : Ids \X Nat, segment_index : Int, lines : Seq(L)]

CutOf(segments) == [i \in 1..Len(segments) |-> fragmentSegment(segments[i])]
GoneOf(segments, i) == Dropped(CutOf(segments)[i].discarded)
NamedOf(segments, i) ==
  [k \in 1..Len(CutOf(segments)[i].fragments) |->
    [segment_id |-> <<segments[i].segment_id, k>>, lines |-> CutOf(segments)[i].fragments[k]]]
AllNamed(segments) == [i \in 1..Len(segments) |-> NamedOf(segments, i)]

\* The lines of a fragment, with the id of the segment it is of.
OfParent(Ids, L) == [s \in Fragments(Ids, L) |-> Entries(s.segment_id[1], s.lines)]

\* And those of many.
OfParents(Ids, L) == [ss \in Seq(Fragments(Ids, L)) |-> FlattenSeq(Each(OfParent(Ids, L), ss))]

(* The lines of a fragment, so tagged, have the type they should have.     *)
LEMMA OfParentIsInto ==
  ASSUME NEW Ids, NEW L
  PROVE  Into(OfParent(Ids, L), Fragments(Ids, L), Seq(Ids \X L))
<1> SUFFICES ASSUME NEW s \in Fragments(Ids, L)
             PROVE  Entries(s.segment_id[1], s.lines) \in Seq(Ids \X L)
  BY DEF Into, OfParent
<1> DEFINE parent == s.segment_id[1]
           lines == s.lines
<1>1. parent \in Ids /\ lines \in Seq(L)
  BY DEF Fragments
<1> HIDE DEF parent, lines
<1>2. \A k \in 1..Len(lines) : lines[k] \in L
  BY <1>1
<1>3. Len(lines) \in Nat
  BY <1>1
<1>4. Entries(parent, lines) \in Seq(Ids \X L)
  BY <1>1, <1>2, <1>3 DEF Entries
<1> QED
  BY <1>4 DEF parent, lines

(* The lines of two runs of fragments are those of the one, then those of  *)
(* the other.                                                              *)
LEMMA OfParentsIsHomomorphism ==
  ASSUME NEW Ids, NEW L
  PROVE  Homomorphism(OfParents(Ids, L), Fragments(Ids, L), Ids \X L)
<1> DEFINE N == Fragments(Ids, L)
           F == Ids \X L
           X == Seq(F)
           f == OfParent(Ids, L)
           h == OfParents(Ids, L)
<1>1. Into(f, N, X)
  BY OfParentIsInto
<1>2. \A s \in Seq(N) : h[s] = FlattenSeq(Each(f, s))
  BY DEF OfParents
<1>2a. h = [s \in Seq(N) |-> FlattenSeq(Each(f, s))]
  BY DEF OfParents
<1> HIDE DEF f, h, N, X
<1>3. \A s, t \in Seq(N) : Each(f, s) \in Seq(X) /\ Each(f, t) \in Seq(X)
                           /\ Each(f, s \o t) = Each(f, s) \o Each(f, t)
  BY <1>1, EachConcat
<1>4. << >> \in Seq(N) /\ Each(f, << >>) = << >> /\ \A s, t \in Seq(N) : s \o t \in Seq(N)
  BY DEF Each
<1>5. \A s \in Seq(N) : FlattenSeq(Each(f, s)) \in Seq(F)
  <2>1. \A s \in Seq(N) : Each(f, s) \in Seq(Seq(F))
    BY <1>3 DEF X
  <2> HIDE DEF F
  <2> QED
    BY <2>1, FlattenType
<1>6. h \in [Seq(N) -> Seq(F)]
  BY <1>2a, <1>5
<1>7. h[<< >>] = << >>
  BY <1>2, <1>4, FlattenNothing
<1>8. ASSUME NEW s \in Seq(N), NEW t \in Seq(N) PROVE h[s \o t] = h[s] \o h[t]
  <2> DEFINE a == Each(f, s)
             b == Each(f, t)
  <2>1. a \in Seq(Seq(F)) /\ b \in Seq(Seq(F))
    BY <1>3 DEF X
  <2> HIDE DEF a, b, F
  <2>2. FlattenSeq(a \o b) = FlattenSeq(a) \o FlattenSeq(b)
    BY <2>1, FlattenConcat
  <2>3. s \o t \in Seq(N) /\ Each(f, s \o t) = a \o b
    BY <1>3, <1>4 DEF a, b
  <2>4. h[s \o t] = FlattenSeq(a \o b)
    BY <2>3, <1>2
  <2>5. h[s] = FlattenSeq(a) /\ h[t] = FlattenSeq(b)
    BY <1>2 DEF a, b
  <2> QED
    BY <2>2, <2>4, <2>5, Zenon
<1> QED
  BY <1>6, <1>7, <1>8 DEF Homomorphism, N, F, h

(* The fragments of a segment, with the id of the segment, are its lines   *)
(* that are to be sent.                                                    *)
LEMMA NamedFragments ==
  ASSUME NEW Ids, NEW L, NEW E, NEW segments \in Seq(E), Readable(segments, Ids, L),
         NEW i \in 1..Len(segments)
  PROVE  /\ CutOf(segments)[i] \in Cuts(L)
         /\ GoneOf(segments, i) \subseteq Range(segments[i].lines)
         /\ \A line \in GoneOf(segments, i) : line.kind \notin {"blank", "start"}
         /\ NamedOf(segments, i) \in Seq(Fragments(Ids, L))
         /\ OfParents(Ids, L)[NamedOf(segments, i)] =
              Entries(segments[i].segment_id, Keeping(segments[i].lines, Sent(L, GoneOf(segments, i))))
<1> DEFINE parent == segments[i]
           cut == fragmentSegment(parent)
           id == parent.segment_id
           fragments == cut.fragments
           named == NamedOf(segments, i)
           N == Fragments(Ids, L)
           F == Ids \X L
           X == Seq(L)
           Y == Seq(F)
           f == OfParent(Ids, L)
           g == Tagging(id, L)
<1>1. id \in Ids /\ parent.lines \in Seq(L) /\ AllDifferent(parent.lines)
  BY DEF Readable
<1>2. CutOf(segments)[i] = cut
  BY DEF CutOf
<1> HIDE DEF parent
<1>3. /\ cut \in Cuts(L)
      /\ FlattenSeq(cut.fragments) = Keeping(parent.lines, Sent(L, Dropped(cut.discarded)))
      /\ Dropped(cut.discarded) \subseteq Range(parent.lines)
      /\ \A line \in Dropped(cut.discarded) : line.kind \notin {"blank", "start"}
  BY <1>1, SegmentIsRead
<1> HIDE DEF cut
<1>4. fragments \in Seq(X) /\ Len(fragments) \in Nat /\ \A k \in 1..Len(fragments) : fragments[k] \in X
  BY <1>3 DEF Cuts
<1>5. named = [k \in 1..Len(fragments) |-> [segment_id |-> <<id, k>>, lines |-> fragments[k]]]
  BY <1>2 DEF NamedOf, parent
<1> HIDE DEF fragments, named, id
<1>6. /\ named \in Seq(N) /\ Len(named) = Len(fragments)
      /\ \A k \in 1..Len(fragments) : /\ named[k] \in N
                                      /\ named[k].segment_id[1] = id /\ named[k].lines = fragments[k]
  <2>1. \A k \in 1..Len(fragments) : [segment_id |-> <<id, k>>, lines |-> fragments[k]] \in N
    BY <1>1, <1>4 DEF Fragments, id
  <2> HIDE DEF N, X
  <2> QED
    BY <2>1, <1>4, <1>5
<1>7. \A k \in 1..Len(fragments) : f[named[k]] = g[fragments[k]]
  BY <1>4, <1>6 DEF OfParent, Tagging
<1> HIDE DEF N, X, Y, f, g
<1>8. Each(f, named) = Each(g, fragments)
  BY <1>6, <1>7 DEF Each
<1>9. Homomorphism(g, L, F)
  <2> HIDE DEF F
  <2> QED
    BY <1>1, TaggingIsHomomorphism DEF F, g, id
<1> HIDE DEF F
<1>10. g[FlattenSeq(fragments)] = FlattenSeq(Each(g, fragments))
  <2>1. fragments \in Seq(Seq(L))
    BY <1>4 DEF X
  <2> QED
    BY <2>1, <1>9, FlattenHomomorphism
<1>11. OfParents(Ids, L)[named] = FlattenSeq(Each(f, named))
  BY <1>6 DEF OfParents, N, f
<1>12. FlattenSeq(fragments) \in Seq(L)
  BY <1>4, FlattenType DEF X
<1>13. g[FlattenSeq(fragments)] = Entries(id, FlattenSeq(fragments))
  BY <1>12 DEF Tagging, g
<1>14. OfParents(Ids, L)[named] = Entries(id, FlattenSeq(fragments))
  BY <1>8, <1>10, <1>11, <1>13
<1> QED
  BY <1>2, <1>3, <1>6, <1>14 DEF parent, named, N, id, fragments, GoneOf

(* Every fragment gets its place for a number, and nothing else changes.   *)
LEMMA FragmentsAreNumbered ==
  ASSUME NEW Ids, NEW L, NEW E, NEW segments \in Seq(E), Readable(segments, Ids, L)
  PROVE  LET all == FlattenSeq(AllNamed(segments))
             candidate == fragment(segments).candidateSegments
         IN  /\ AllNamed(segments) \in Seq(Seq(Fragments(Ids, L)))
             /\ Len(AllNamed(segments)) = Len(segments)
             /\ all \in Seq(Fragments(Ids, L))
             /\ candidate \in Seq(Candidates(Ids, L)) /\ Len(candidate) = Len(all)
             /\ \A n \in 1..Len(all) :
                  /\ candidate[n].segment_id = all[n].segment_id
                  /\ candidate[n].segment_index = n - 1
                  /\ candidate[n].lines = all[n].lines
<1> DEFINE N == Fragments(Ids, L)
           named == AllNamed(segments)
           all == FlattenSeq(named)
           candidate == fragment(segments).candidateSegments
<1>1. Len(segments) \in Nat /\ \A i \in 1..Len(segments) : NamedOf(segments, i) \in Seq(N)
  BY NamedFragments
<1>2. named \in Seq(Seq(N)) /\ Len(named) = Len(segments)
  BY <1>1 DEF AllNamed
<1>3. candidate = [n \in 1..Len(all) |->
        [segment_id |-> all[n].segment_id, segment_index |-> n - 1, lines |-> all[n].lines]]
  BY DEF fragment, AllNamed, NamedOf, CutOf
<1> HIDE DEF N, named
<1>4. all \in Seq(N)
  BY <1>2, FlattenType
<1> HIDE DEF all
<1>5. Len(all) \in Nat /\ \A n \in 1..Len(all) : all[n] \in N
  BY <1>4
<1>6. \A n \in 1..Len(all) :
        [segment_id |-> all[n].segment_id, segment_index |-> n - 1, lines |-> all[n].lines]
          \in Candidates(Ids, L)
  BY <1>5 DEF N, Fragments, Candidates
<1> DEFINE C == Candidates(Ids, L)
<1> HIDE DEF C, candidate
<1>7. candidate \in Seq(C) /\ Len(candidate) = Len(all)
  BY <1>3, <1>5, <1>6 DEF C
<1>8. \A n \in 1..Len(all) : /\ candidate[n].segment_id = all[n].segment_id
                             /\ candidate[n].segment_index = n - 1
                             /\ candidate[n].lines = all[n].lines
  BY <1>3
<1> QED
  BY <1>2, <1>4, <1>7, <1>8 DEF N, named, all, candidate, C

(* The discarded lines of a document are those of its segments.            *)
LEMMA DiscardedLines ==
  ASSUME NEW Ids, NEW L, NEW E, NEW segments \in Seq(E), Readable(segments, Ids, L), NEW line
  PROVE  line \in Dropped(fragment(segments).discardedLines)
           <=> \E i \in 1..Len(segments) : line \in GoneOf(segments, i)
<1> DEFINE D == Discards(L)
           traces == [i \in 1..Len(segments) |-> CutOf(segments)[i].discarded]
<1>1. fragment(segments).discardedLines = FlattenSeq(traces)
  BY DEF fragment, CutOf
<1>2. Len(segments) \in Nat /\ \A i \in 1..Len(segments) : CutOf(segments)[i] \in Cuts(L)
  BY NamedFragments
<1>3. \A i \in 1..Len(segments) : CutOf(segments)[i].discarded \in Seq(D)
  BY <1>2 DEF Cuts
<1>4. traces \in Seq(Seq(D)) /\ Len(traces) = Len(segments)
  BY <1>2, <1>3
<1>5. \A i \in 1..Len(segments) : traces[i] = CutOf(segments)[i].discarded
  OBVIOUS
<1> HIDE DEF D, traces
<1>6. \A d : d \in Range(FlattenSeq(traces)) <=> \E i \in 1..Len(traces) : d \in Range(traces[i])
  BY <1>4, FlattenRange
<1> DEFINE gone == fragment(segments).discardedLines
           n == Len(segments)
<1>7. \A d : d \in Range(gone) <=> \E i \in 1..n : d \in Range(CutOf(segments)[i].discarded)
  BY <1>1, <1>4, <1>5, <1>6
<1> HIDE DEF gone, n
<1>8. line \in Dropped(gone) <=> \E i \in 1..n : line \in Dropped(CutOf(segments)[i].discarded)
  BY <1>7 DEF Dropped
<1> QED
  BY <1>8 DEF gone, n, GoneOf

\* The entries that are to be sent of a document, given what was discarded.
ToSend(whole, dropped) ==
  {entry \in Range(whole) : entry[2].kind # "blank" /\ entry[2] \notin dropped}

(* No line of a document is lost in the fragments, sent twice or moved.    *)
LEMMA DocumentIsRead ==
  ASSUME NEW Ids, NEW L, NEW E, NEW segments \in Seq(E), Readable(segments, Ids, L)
  PROVE  LET candidate == fragment(segments).candidateSegments
             dropped == Dropped(fragment(segments).discardedLines)
             whole == DocumentLines(segments)
         IN  /\ whole \in Seq(Ids \X L)
             /\ FlattenSeq([n \in 1..Len(candidate) |->
                             Entries(candidate[n].segment_id[1], candidate[n].lines)])
                  = Keeping(whole, ToSend(whole, dropped))
             /\ \A line \in dropped : line.kind \notin {"blank", "start"}
<1>0. ASSUME NEW i \in 1..Len(segments)
      PROVE  /\ CutOf(segments)[i] \in Cuts(L)
             /\ GoneOf(segments, i) \subseteq Range(segments[i].lines)
             /\ \A line \in GoneOf(segments, i) : line.kind \notin {"blank", "start"}
             /\ NamedOf(segments, i) \in Seq(Fragments(Ids, L))
             /\ OfParents(Ids, L)[NamedOf(segments, i)] =
                  Entries(segments[i].segment_id, Keeping(segments[i].lines, Sent(L, GoneOf(segments, i))))
  BY NamedFragments
<1> DEFINE F == Ids \X L
           N == Fragments(Ids, L)
           n == Len(segments)
           named == AllNamed(segments)
           all == FlattenSeq(named)
           candidate == fragment(segments).candidateSegments
           dropped == Dropped(fragment(segments).discardedLines)
           gone(i) == GoneOf(segments, i)
           entries == [i \in 1..n |-> Entries(segments[i].segment_id, segments[i].lines)]
           whole == DocumentLines(segments)
           T == ToSend(whole, dropped)
           f == OfParent(Ids, L)
           h == OfParents(Ids, L)
           k == Filtering(T, F)
<1>1. n \in Nat
  OBVIOUS
<1>2. /\ named \in Seq(Seq(N)) /\ Len(named) = n /\ all \in Seq(N)
      /\ Len(candidate) = Len(all)
      /\ \A m \in 1..Len(all) : /\ candidate[m].segment_id = all[m].segment_id
                                /\ candidate[m].lines = all[m].lines
  BY FragmentsAreNumbered
<1>3. \A i \in 1..n :
        /\ segments[i].segment_id \in Ids /\ segments[i].lines \in Seq(L)
        /\ gone(i) \subseteq Range(segments[i].lines)
        /\ \A line \in gone(i) : line.kind \notin {"blank", "start"}
        /\ named[i] = NamedOf(segments, i)
        /\ h[named[i]] = Entries(segments[i].segment_id, Keeping(segments[i].lines, Sent(L, gone(i))))
  <2> SUFFICES ASSUME NEW i \in 1..n
               PROVE  /\ segments[i].segment_id \in Ids /\ segments[i].lines \in Seq(L)
                      /\ gone(i) \subseteq Range(segments[i].lines)
                      /\ \A line \in gone(i) : line.kind \notin {"blank", "start"}
                      /\ named[i] = NamedOf(segments, i)
                      /\ h[named[i]] = Entries(segments[i].segment_id,
                                               Keeping(segments[i].lines, Sent(L, gone(i))))
    OBVIOUS
  <2>1. named[i] = NamedOf(segments, i)
    BY DEF AllNamed
  <2>2. segments[i].segment_id \in Ids /\ segments[i].lines \in Seq(L)
    BY DEF Readable
  <2> QED
    BY <2>1, <2>2, <1>0
<1>4. \A line : line \in dropped <=> \E i \in 1..n : line \in gone(i)
  BY DiscardedLines
<1> HIDE DEF named, candidate, dropped, gone
<1>5. \A line \in dropped : line.kind \notin {"blank", "start"}
  BY <1>3, <1>4
<1>6. entries \in Seq(Seq(F)) /\ Len(entries) = n
  <2>1. \A i \in 1..n : Entries(segments[i].segment_id, segments[i].lines) \in Seq(F)
    <3> SUFFICES ASSUME NEW i \in 1..n
                 PROVE  Entries(segments[i].segment_id, segments[i].lines) \in Seq(F)
      OBVIOUS
    <3> DEFINE parent == segments[i].segment_id
               lines == segments[i].lines
    <3>1. parent \in Ids /\ lines \in Seq(L)
      BY <1>3
    <3> HIDE DEF parent, lines
    <3>2. Len(lines) \in Nat /\ \A j \in 1..Len(lines) : lines[j] \in L
      BY <3>1
    <3>3. Entries(parent, lines) \in Seq(F)
      BY <3>1, <3>2 DEF Entries
    <3> QED
      BY <3>3 DEF parent, lines
  <2> HIDE DEF F
  <2> QED
    BY <2>1, <1>1
<1>7. whole = FlattenSeq(entries)
  BY DEF DocumentLines
<1>8. \A i \in 1..n : entries[i] = Entries(segments[i].segment_id, segments[i].lines)
  OBVIOUS
<1> HIDE DEF entries, whole
<1>9. whole \in Seq(F)
  <2> HIDE DEF F
  <2> QED
    BY <1>6, <1>7, FlattenType
<1>10. \A e : e \in Range(whole) <=> \E i \in 1..n : e \in Range(entries[i])
  <2> HIDE DEF F
  <2> QED
    BY <1>6, <1>7, FlattenRange
<1>11. ASSUME NEW i \in 1..n PROVE h[named[i]] = k[entries[i]]
  <2> DEFINE parent == segments[i].segment_id
             lines == segments[i].lines
             S == Sent(L, gone(i))
  <2>1. parent \in Ids /\ lines \in Seq(L) /\ h[named[i]] = Entries(parent, Keeping(lines, S))
    BY <1>3
  <2>2. entries[i] = Entries(parent, lines) /\ gone(i) \subseteq Range(lines)
    BY <1>3, <1>8
  <2>3. ASSUME NEW j \in 1..Len(lines)
        PROVE  lines[j] \in S <=> <<parent, lines[j]>> \in T
    <3> DEFINE line == lines[j]
    <3>1. line \in L /\ line \in Range(lines)
      BY <2>1, RangeEquality
    <3>2. <<parent, line>> \in Range(entries[i])
      <4>1. Range(entries[i]) = {<<parent, lines[m]>> : m \in 1..Len(lines)}
        BY <2>2 DEF Entries, Range
      <4> QED
        BY <4>1
    <3>3. <<parent, line>> \in Range(whole)
      BY <3>2, <1>10
    <3>4. line \in dropped <=> line \in gone(i)
      <4>1. ASSUME NEW m \in 1..n, line \in gone(m) PROVE m = i
        <5>1. line \in Range(segments[m].lines)
          BY <4>1, <1>3
        <5> QED
          BY <5>1, <3>1 DEF Readable
      <4> QED
        BY <4>1, <1>4
    <3>5. <<parent, line>> \in T <=> line.kind # "blank" /\ line \notin dropped
      <4> HIDE DEF line, parent
      <4>1. <<parent, line>>[2] = line
        OBVIOUS
      <4> QED
        BY <4>1, <3>3 DEF ToSend
    <3> QED
      BY <3>1, <3>4, <3>5 DEF Sent
  <2> HIDE DEF parent, lines, S, T
  <2>4. /\ Entries(parent, lines) \in Seq(F)
        /\ Entries(parent, Keeping(lines, S)) = Keeping(Entries(parent, lines), T)
    <3> HIDE DEF F, h, k, n, N, f, all
    <3>1. /\ Entries(parent, lines) \in Seq(Ids \X L)
          /\ Entries(parent, Keeping(lines, S)) = Keeping(Entries(parent, lines), T)
      BY <2>1, <2>3, EntriesOfKept
    <3> QED
      BY <3>1 DEF F
  <2>5. k[entries[i]] = Keeping(entries[i], T)
    <3> HIDE DEF F
    <3>1. entries[i] \in Seq(F)
      BY <2>2, <2>4
    <3> QED
      BY <3>1 DEF Filtering
  <2> QED
    BY <2>1, <2>2, <2>4, <2>5
<1> HIDE DEF F, N, h, k, T
<1>12. Each(h, named) = Each(k, entries)
  BY <1>2, <1>6, <1>11 DEF Each
<1>13. h[all] = FlattenSeq(Each(h, named))
  <2>1. Homomorphism(h, N, F)
    BY OfParentsIsHomomorphism DEF h, N, F
  <2> QED
    BY <2>1, <1>2, FlattenHomomorphism
<1>14. k[whole] = FlattenSeq(Each(k, entries))
  <2>1. Homomorphism(k, F, F)
    BY FilteringIsHomomorphism DEF k
  <2> QED
    BY <2>1, <1>6, <1>7, FlattenHomomorphism
<1>15. k[whole] = Keeping(whole, T)
  BY <1>9 DEF Filtering, k
<1>16. h[all] = FlattenSeq(Each(f, all))
  BY <1>2 DEF OfParents, h, N
<1>17. Each(f, all) = [m \in 1..Len(candidate) |->
                        Entries(candidate[m].segment_id[1], candidate[m].lines)]
  <2> HIDE DEF all
  <2>1. \A m \in 1..Len(all) : all[m] \in N
    BY <1>2
  <2>2. \A m \in 1..Len(all) : f[all[m]] = Entries(candidate[m].segment_id[1], candidate[m].lines)
    BY <2>1, <1>2 DEF OfParent, N
  <2> HIDE DEF f
  <2> QED
    BY <2>2, <1>2 DEF Each
<1>18. FlattenSeq(Each(f, all)) = Keeping(whole, T)
  BY <1>12, <1>13, <1>14, <1>15, <1>16
<1> QED
  BY <1>5, <1>9, <1>17, <1>18 DEF whole, F, candidate, dropped, T

------------------------------------------------------------------------------
(* The groups of a provider fit.                                           *)

(* The length of a text of lines with lengths.                             *)
LEMMA CharsType ==
  ASSUME NEW s, NEW L, s.lines \in Seq(L), \A line \in L : line.chars \in Int
  PROVE  Chars(s) \in Int
<1> DEFINE numbers == [k \in 1..Len(s.lines) |-> s.lines[k].chars]
<1>1. Len(s.lines) \in Nat /\ \A k \in 1..Len(s.lines) : s.lines[k].chars \in Int
  OBVIOUS
<1>2. numbers \in Seq(Int)
  BY <1>1
<1>3. Chars(s) = Len(s.lines) - 1 + Total(numbers)
  BY DEF Chars
<1> HIDE DEF numbers
<1>4. Total(numbers) \in Int
  <2>1. 0 \in Int
    OBVIOUS
  <2> QED
    BY <1>2, <2>1, TotalAppend
<1> QED
  BY <1>1, <1>3, <1>4

(* The Gemini groups are within their bounds, and none could take the      *)
(* first segment of the next.                                              *)
LEMMA GeminiGroupsFit ==
  ASSUME NEW E, Measured(E), NEW segments \in Seq(E), NEW requested,
         resolveEffectiveBatchSize("gemini", requested) \in Nat \ {0}
  PROVE  FitsAll(buildGeminiSegmentGroups(segments, requested),
                 resolveEffectiveBatchSize("gemini", requested))
<1> DEFINE n == Len(segments)
           size == resolveEffectiveBatchSize("gemini", requested)
           all == GroupAll(segments, size)
<1>1. PICK t : Steps(t, Groupings(E), Grouping(E, size), NoGroups, segments, all)
  BY GroupingSteps
<1>2. n \in Nat /\ \A k \in 1..n : segments[k] \in E
  OBVIOUS
<1>3. buildGeminiSegmentGroups(segments, requested) = flushCurrentGroup(all).groups
  BY DEF buildGeminiSegmentGroups, GroupAll, NoGroups
<1>4. size \in Nat /\ size # 0
  OBVIOUS
<1> HIDE DEF size, all
<1> DEFINE Right == {k \in 0..n : Bounded(t[k], size)}
<1>5. 0 \in Right
  <2>1. Bounded(NoGroups, size)
    BY DEF Bounded, NoGroups, FitsAll
  <2> QED
    BY <2>1, <1>1, <1>2 DEF Steps
<1>6. ASSUME NEW k \in 0..(n - 1), k \in Right PROVE k + 1 \in Right
  <2>1. k + 1 \in 1..n /\ k + 1 \in 0..n /\ (k + 1) - 1 = k /\ k \in 0..n
    BY <1>2
  <2>2. t[k] \in Groupings(E) /\ segments[k + 1] \in E
    BY <2>1, <1>1, <1>2 DEF Steps
  <2>3. t[k + 1] = groupSegment(t[k], segments[k + 1], size)
    BY <2>1, <2>2, <1>1 DEF Steps, Grouping
  <2>4. Bounded(t[k + 1], size)
    BY <2>2, <2>3, <1>4, <1>6, GroupingBounded
  <2> QED
    BY <2>1, <2>4
<1> HIDE DEF Right
<1>7. \A k \in 0..n : k \in Right
  BY <1>2, <1>5, <1>6, UpTo
<1>8. n \in 0..n /\ n \in Right
  BY <1>2, <1>7
<1>9. Bounded(all, size) /\ all \in Groupings(E)
  BY <1>8, <1>1 DEF Right, Steps
<1>10. FitsAll(flushCurrentGroup(all).groups, size)
  BY <1>9, FlushFits
<1> QED
  BY <1>3, <1>10 DEF size

(* The chunks of other providers are full, but for the last one.           *)
LEMMA ChunksFit ==
  ASSUME NEW E, NEW segments \in Seq(E), NEW size \in Nat, size # 0
  PROVE  LET groups == chunk(segments, size)
         IN  /\ \A n \in 1..Len(groups) : Len(groups[n]) \in 1..size
             /\ \A n \in 1..(Len(groups) - 1) : Len(groups[n]) = size
<1> DEFINE length == Len(segments)
           count == (length + size - 1) \div size
           groups == chunk(segments, size)
           last(n) == ChunkEnd(length, size, n)
<1>1. length \in Nat
  OBVIOUS
<1>2. /\ count \in Nat /\ last(count) = length
      /\ \A n \in 0..(count - 1) : last(n) = n * size /\ n * size < length
      /\ \A n \in 0..count : last(n) \in 0..length
  BY <1>1, ChunksReachTheEnd
<1>3. groups = [n \in 1..count |-> SubSeq(segments, (n - 1) * size + 1, last(n))]
  BY DEF chunk, ChunkEnd
<1> HIDE DEF count, groups
<1>4. Len(groups) = count
  BY <1>2, <1>3
<1>5. ASSUME NEW n \in 1..count
      PROVE  /\ Len(groups[n]) \in 1..size
             /\ n # count => Len(groups[n]) = size
  <2> DEFINE a == (n - 1) * size
             b == last(n)
  <2>1. n - 1 \in 0..(count - 1) /\ n \in 0..count /\ n * size = a + size
    BY <1>2
  <2>2. a \in Int /\ a >= 0 /\ a < length
    <3>1. \A m \in 0..(count - 1) : m * size < length
      BY <1>2
    <3> DEFINE m == n - 1
    <3>2. m \in 0..(count - 1) /\ m \in Nat
      BY <2>1
    <3> HIDE DEF m, count, last
    <3>3. m * size < length /\ m * size \in Int /\ m * size >= 0
      BY <3>1, <3>2
    <3> QED
      BY <3>3 DEF m
  <2>3. n # count => n \in 0..(count - 1)
    BY <2>1, <1>2
  <2>4. n # count => b = a + size
    <3>1. \A m \in 0..(count - 1) : last(m) = m * size
      BY <1>2
    <3> HIDE DEF last
    <3>2. n # count => last(n) = n * size
      BY <2>3, <3>1
    <3> QED
      BY <2>1, <3>2
  <2>5. b \in 0..length /\ (n = count => b = length)
    BY <2>1, <1>2
  <2>6. b = length => length <= a + size
    <3>1. b = IF a + size < length THEN a + size ELSE length
      BY <2>1 DEF ChunkEnd
    <3> HIDE DEF a, b
    <3> QED
      BY <3>1, <2>2, <1>1
  <2>7. groups[n] = SubSeq(segments, a + 1, b)
    BY <1>3
  <2> HIDE DEF a, b, last
  <2>8. b > a /\ b <= a + size /\ b <= length
    BY <2>2, <2>4, <2>5, <2>6, <1>1
  <2>9. a + 1 \in Int /\ b \in Int /\ \A i \in (a + 1)..b : segments[i] \in E
    <3>1. a \in Nat /\ b \in Nat
      BY <2>2, <2>5, <1>1
    <3>2. \A i \in (a + 1)..b : i \in 1..Len(segments)
      BY <3>1, <2>8
    <3> QED
      BY <3>1, <3>2
  <2>10. Len(SubSeq(segments, a + 1, b)) = IF a + 1 <= b THEN b - (a + 1) + 1 ELSE 0
    BY <2>9, SubSeqProperties
  <2>11. Len(groups[n]) = b - a
    BY <2>2, <2>7, <2>8, <2>9, <2>10
  <2> QED
    BY <2>2, <2>4, <2>8, <2>9, <2>11
<1>6. \A n \in 1..(count - 1) : n \in 1..count /\ n # count
  BY <1>2
<1> QED
  BY <1>4, <1>5, <1>6 DEF groups
==============================================================================
