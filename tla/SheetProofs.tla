----------------------------- MODULE SheetProofs -----------------------------
(***************************************************************************)
(* The cue sheet, however many cues, groups, levels, edits and imports     *)
(* there are: references stay sound, deletes keep the order of what stays, *)
(* drops land where the line was, and the selection grows and shrinks.     *)
(*                                                                         *)
(* Sound is the set of the sheets whose references are: every operation of *)
(* the program is shown to take a sound sheet to a sound one, and every    *)
(* step to store one.  That a group is not above itself is stated with     *)
(* Above, the program's climb through the parents; the proofs use that it  *)
(* is the least set closed under parents (AboveIsLeast), so that no        *)
(* induction over the forest is needed.  Folds over rows are unwound by    *)
(* FoldExists and PrefixIn, and orders by RanksAreOneToOne and SortedOnce. *)
(* The other properties hold of every sound sheet.                         *)
(***************************************************************************)
EXTENDS ShowImport, FiniteSetTheorems, WellFoundedInduction, TLAPS

-----------------------------------------------------------------------------
(* Numbers, finite sets, folds and orders, as the operators of the sheet use them. *)

\* A set of numbers that is not empty has a least one.
LEMMA LeastNumber ==
  ASSUME NEW S \in SUBSET Nat, S # {}
  PROVE  \E n \in S : \A m \in S : n <= m
  <1> DEFINE R == {r \in Nat \X Nat : r[1] < r[2]}
  <1>1. IsWellFoundedOn(R, Nat)
    BY NatLessThanWellFounded DEF OpToRel
  <1>2. PICK n \in S : \A m \in S : ~(<<m, n>> \in R)
    <2> HIDE DEF R
    <2> QED BY <1>1, WFMin
  <1>3. \A m \in S : ~(m < n)
    BY <1>2
  <1> QED BY <1>3

\* What holds at 0 and from each number to the next holds up to n.
LEMMA Upward ==
  ASSUME NEW n \in Nat, NEW S, 0 \in S, \A i \in 0..(n - 1) : i \in S => i + 1 \in S
  PROVE  \A i \in 0..n : i \in S
  <1> DEFINE T == {i \in 0..n : i \notin S}
  <1> SUFFICES ASSUME T # {} PROVE FALSE
    OBVIOUS
  <1>0. T \in SUBSET Nat
    OBVIOUS
  <1>1. PICK x \in T : \A y \in T : x <= y
    <2> HIDE DEF T
    <2> QED BY <1>0, LeastNumber
  <1>2. x > 0
    BY <1>1
  <1>3. x - 1 \in 0..(n - 1) /\ x - 1 \notin T
    BY <1>1, <1>2
  <1> QED BY <1>1, <1>2, <1>3

\* Max and Min of a finite set of integers, as LastPos, NextGroupId and Span take them.
LEMMA FiniteExtremes ==
  ASSUME NEW S, IsFiniteSet(S), S \subseteq Int, S # {}
  PROVE  /\ Max(S) \in S /\ \A y \in S : y <= Max(S)
         /\ Min(S) \in S /\ \A y \in S : y >= Min(S)
  <1>0. PICK n \in Nat : ExistsSurjection(1..n, S)
    BY FS_NatSurjection
  <1>1. PICK f \in Surjection(1..n, S) : TRUE
    BY <1>0 DEF ExistsSurjection
  <1>2. f \in [1..n -> S] /\ \A y \in S : \E i \in 1..n : f[i] = y
    BY <1>1 DEF Surjection
  <1> DEFINE Bound(k, x, z) == \A i \in 1..k : z <= f[i] /\ f[i] <= x
             K == {k \in 0..n : \E x, z \in S : Bound(k, x, z)}
  <1>3. \A k \in 0..(n - 1) : k \in K => k + 1 \in K
    <2> TAKE k \in 0..(n - 1)
    <2> HAVE k \in K
    <2>1. PICK x, z \in S : Bound(k, x, z)
      OBVIOUS
    <2>2. k + 1 \in 1..n /\ f[k + 1] \in S /\ 1..(k + 1) = 1..k \cup {k + 1}
      BY <1>2
    <2> DEFINE hi == IF f[k + 1] > x THEN f[k + 1] ELSE x
               lo == IF f[k + 1] < z THEN f[k + 1] ELSE z
    <2>3. hi \in S /\ lo \in S
      BY <2>2
    <2>4. ASSUME NEW i \in 1..(k + 1) PROVE lo <= f[i] /\ f[i] <= hi
      <3>0. i \in 1..n /\ f[i] \in S
        BY <1>2, <2>2
      <3>1. f[i] \in Int /\ x \in Int /\ z \in Int /\ f[k + 1] \in Int
        BY <3>0, <2>2
      <3>2. CASE i = k + 1
        BY <3>1, <3>2
      <3>3. CASE i \in 1..k
        <4>1. z <= f[i] /\ f[i] <= x
          BY <2>1, <3>3
        <4> QED BY <4>1, <3>1
      <3> QED BY <2>2, <3>2, <3>3
    <2>5. Bound(k + 1, hi, lo)
      BY <2>4
    <2> HIDE DEF hi, lo, Bound
    <2> QED BY <2>2, <2>3, <2>5
  <1>4. n # 0
    <2>1. PICK y \in S : TRUE
      OBVIOUS
    <2>2. PICK i \in 1..n : f[i] = y
      BY <1>2
    <2> QED BY <2>2
  <1>5. 0 \in K
    <2>1. PICK v \in S : TRUE
      OBVIOUS
    <2>2. Bound(0, v, v)
      OBVIOUS
    <2> HIDE DEF Bound
    <2> QED BY <2>2
  <1>6. n \in K
    <2> HIDE DEF K
    <2>1. \A i \in 0..n : i \in K
      BY <1>3, <1>5, Upward
    <2> QED BY <2>1
  <1>7. PICK x, z \in S : \A y \in S : z <= y /\ y <= x
    <2>1. PICK x, z \in S : Bound(n, x, z)
      BY <1>6
    <2>2. \A y \in S : z <= y /\ y <= x
      BY <1>2, <2>1
    <2> QED BY <2>2
  <1> DEFINE Top(v) == \A y \in S : v >= y
             Low(v) == \A y \in S : v =< y
  <1>8. (\E v \in S : Top(v)) /\ \E v \in S : Low(v)
    BY <1>7
  <1>9. Max(S) = (CHOOSE v \in S : Top(v)) /\ Min(S) = (CHOOSE v \in S : Low(v))
    BY DEF Max, Min
  <1> HIDE DEF Top, Low
  <1>10. Max(S) \in S /\ Top(Max(S)) /\ Min(S) \in S /\ Low(Min(S))
    BY <1>8, <1>9, Zenon
  <1>11. \A y \in S : y \in Int
    OBVIOUS
  <1> QED BY <1>10, <1>11 DEF Top, Low

\* A fold from the left over a sequence of n elements: the steps, where op is given by
\* the function step.
FoldOf(f, n, X, base, step) ==
  /\ f \in [SUBSET (1..n) -> X]
  /\ \A z \in SUBSET (1..n) :
       /\ z = {} => f[z] = base
       /\ z # {} => /\ Max(z) \in 1..n /\ f[z \ {Max(z)}] \in X
                   /\ f[z] = step[<<Max(z), f[z \ {Max(z)}]>>]
\* The function a FoldLeft chooses exists: it is built one position after the other.
LEMMA FoldExists ==
  ASSUME NEW n \in Nat, NEW X, NEW base \in X, NEW step \in [(1..n) \X X -> X]
  PROVE  \E f : FoldOf(f, n, X, base, step)
  <1> DEFINE Folds(f, k) == /\ f \in [SUBSET (1..k) -> X]
                           /\ \A s \in SUBSET (1..k) :
                                f[s] = IF s = {} THEN base ELSE step[<<Max(s), f[s \ {Max(s)}]>>]
             K == {k \in 0..n : \E f : Folds(f, k)}
  <1>0. ASSUME NEW s \in SUBSET (1..n), s # {} PROVE Max(s) \in s /\ \A y \in s : y <= Max(s)
    <2>1. IsFiniteSet(1..n)
      BY FS_Interval, 1 \in Int, n \in Int
    <2>2. IsFiniteSet(s)
      BY <2>1, FS_Subset
    <2>3. s \subseteq Int
      OBVIOUS
    <2> QED BY <2>2, <2>3, <1>0, FiniteExtremes
  <1>1. 0 \in K
    <2> DEFINE f == [s \in SUBSET (1..0) |-> base]
    <2>1. SUBSET (1..0) = {{}}
      OBVIOUS
    <2>2. Folds(f, 0)
      BY <2>1
    <2> HIDE DEF f, Folds
    <2> QED BY <2>2
  <1>2. \A k \in 0..(n - 1) : k \in K => k + 1 \in K
    <2> TAKE k \in 0..(n - 1)
    <2> HAVE k \in K
    <2>1. PICK f : Folds(f, k)
      OBVIOUS
    <2>2. 1..(k + 1) = 1..k \cup {k + 1} /\ k + 1 \notin 1..k /\ k + 1 \in 1..n
      OBVIOUS
    <2> DEFINE g == [s \in SUBSET (1..(k + 1)) |->
                       IF k + 1 \in s THEN step[<<k + 1, f[s \ {k + 1}]>>] ELSE f[s]]
    <2>3. \A s \in SUBSET (1..(k + 1)) : s \ {k + 1} \in SUBSET (1..k)
      BY <2>2
    <2>4. g \in [SUBSET (1..(k + 1)) -> X]
      <3>1. ASSUME NEW s \in SUBSET (1..(k + 1)) PROVE g[s] \in X
        <4>1. f[s \ {k + 1}] \in X /\ <<k + 1, f[s \ {k + 1}]>> \in (1..n) \X X
          BY <2>1, <2>2, <2>3
        <4>2. k + 1 \notin s => s \ {k + 1} = s
          OBVIOUS
        <4> QED BY <4>1, <4>2
      <3> QED BY <3>1
    <2>5. ASSUME NEW s \in SUBSET (1..(k + 1))
          PROVE  g[s] = IF s = {} THEN base ELSE step[<<Max(s), g[s \ {Max(s)}]>>]
      <3>1. CASE k + 1 \in s
        <4>1. Max(s) = k + 1
          <5>1. s \in SUBSET (1..n) /\ s # {} /\ \A y \in s : y <= k + 1 /\ y \in Int
            BY <2>2, <3>1
          <5>2. Max(s) \in s /\ \A y \in s : y <= Max(s)
            BY <5>1, <1>0
          <5>3. Max(s) <= k + 1 /\ k + 1 <= Max(s) /\ Max(s) \in Int
            BY <5>1, <5>2, <3>1
          <5> QED BY <5>3
        <4>2. g[s] = step[<<k + 1, f[s \ {k + 1}]>>] /\ s # {}
          BY <3>1
        <4>3. g[s \ {k + 1}] = f[s \ {k + 1}]
          BY <2>3
        <4> QED BY <4>1, <4>2, <4>3
      <3>2. CASE k + 1 \notin s
        <4>1. s \in SUBSET (1..k) /\ s \ {Max(s)} \in SUBSET (1..(k + 1)) /\ s \ {Max(s)} \in SUBSET (1..k)
              /\ k + 1 \notin s \ {Max(s)}
          BY <3>2, <2>2
        <4>2. g[s] = f[s] /\ g[s \ {Max(s)}] = f[s \ {Max(s)}]
          BY <4>1, <3>2
        <4> QED BY <4>1, <4>2, <2>1
      <3> QED BY <3>1, <3>2
    <2>6. Folds(g, k + 1)
      BY <2>4, <2>5
    <2>7. k + 1 \in 0..n
      OBVIOUS
    <2> HIDE DEF g, Folds
    <2> QED BY <2>6, <2>7
  <1>3. n \in K
    <2> HIDE DEF K
    <2>1. \A k \in 0..n : k \in K
      BY <1>1, <1>2, Upward
    <2> QED BY <2>1
  <1>4. PICK f : Folds(f, n)
    BY <1>3
  <1>5. \A z \in SUBSET (1..n) : z # {} => Max(z) \in 1..n
    BY <1>0
  <1> HIDE DEF K
  <1>6. f \in [SUBSET (1..n) -> X]
    BY <1>4
  <1>7. \A z \in SUBSET (1..n) :
          /\ z = {} => f[z] = base
          /\ z # {} => f[z] = step[<<Max(z), f[z \ {Max(z)}]>>]
    BY <1>4
  <1>8. FoldOf(f, n, X, base, step)
    BY <1>5, <1>6, <1>7 DEF FoldOf
  <1> QED BY <1>8

\* What a fold has after n elements, stage by stage.
LEMMA PrefixIn ==
  ASSUME NEW n \in Nat, NEW X, NEW f,
         f[1..0] \in X[0],
         \A i \in 1..n : f[1..(i - 1)] \in X[i - 1] => f[1..i] \in X[i]
  PROVE  f[1..n] \in X[n]
  <1> DEFINE K == {k \in 0..n : f[1..k] \in X[k]}
  <1>1. 0 \in K
    OBVIOUS
  <1>2. \A k \in 0..(n - 1) : k \in K => k + 1 \in K
    <2> TAKE k \in 0..(n - 1)
    <2> HAVE k \in K
    <2>1. k + 1 \in 1..n /\ (k + 1) - 1 = k /\ k + 1 \in 0..n
      OBVIOUS
    <2> QED BY <2>1
  <1>3. \A k \in 0..n : k \in K
    <2> HIDE DEF K
    <2> QED BY <1>1, <1>2, Upward
  <1> QED BY <1>3

\* A function that is iterated on a first value.
LEMMA IterationExists ==
  ASSUME NEW n \in Nat, NEW X, NEW first \in X, NEW step \in [X -> X]
  PROVE  \E f \in [0..n -> X] : \A i \in 0..n : f[i] = IF i = 0 THEN first ELSE step[f[i - 1]]
  <1> DEFINE Runs(f, k) == /\ f \in [0..k -> X]
                           /\ \A i \in 0..k : f[i] = IF i = 0 THEN first ELSE step[f[i - 1]]
             K == {k \in 0..n : \E f : Runs(f, k)}
  <1>1. 0 \in K
    <2> DEFINE f == [i \in 0..0 |-> first]
    <2>1. Runs(f, 0)
      OBVIOUS
    <2> HIDE DEF f, Runs
    <2> QED BY <2>1
  <1>2. \A k \in 0..(n - 1) : k \in K => k + 1 \in K
    <2> TAKE k \in 0..(n - 1)
    <2> HAVE k \in K
    <2>1. PICK f : Runs(f, k)
      OBVIOUS
    <2> DEFINE g == [i \in 0..(k + 1) |-> IF i = k + 1 THEN step[f[k]] ELSE f[i]]
    <2>2. f[k] \in X /\ k + 1 \in 0..n
      BY <2>1
    <2>3. g \in [0..(k + 1) -> X]
      <3>1. ASSUME NEW i \in 0..(k + 1) PROVE i = k + 1 \/ i \in 0..k
        OBVIOUS
      <3> QED BY <2>1, <2>2, <3>1
    <2>4. ASSUME NEW i \in 0..(k + 1) PROVE g[i] = IF i = 0 THEN first ELSE step[g[i - 1]]
      <3>1. CASE i = k + 1
        <4>1. i - 1 = k /\ k \in 0..(k + 1) /\ k # k + 1 /\ i # 0
          BY <3>1
        <4>2. g[k] = f[k]
          BY <4>1
        <4> QED BY <3>1, <4>1, <4>2
      <3>2. CASE i # k + 1
        <4>1. i \in 0..k /\ (i # 0 => i - 1 \in 0..(k + 1) /\ i - 1 # k + 1)
          BY <3>2
        <4>2. g[i] = f[i] /\ (i # 0 => g[i - 1] = f[i - 1])
          BY <3>2, <4>1
        <4> QED BY <2>1, <4>1, <4>2
      <3> QED BY <3>1, <3>2
    <2>5. Runs(g, k + 1)
      BY <2>3, <2>4
    <2> HIDE DEF g, Runs
    <2> QED BY <2>2, <2>5
  <1>3. n \in K
    <2> HIDE DEF K
    <2>1. \A k \in 0..n : k \in K
      BY <1>1, <1>2, Upward
    <2> QED BY <2>1
  <1> QED BY <1>3

\* In a strict order of a finite set the elements have the ranks from 0 on, one each.
StrictOrder(S, R) ==
  /\ \A a \in S : <<a, a>> \notin R
  /\ \A a, b \in S : a = b \/ <<a, b>> \in R \/ <<b, a>> \in R
  /\ \A a, b, c \in S : <<a, b>> \in R /\ <<b, c>> \in R => <<a, c>> \in R
Rank(S, R) == [r \in S |-> Cardinality({q \in S : <<q, r>> \in R})]
OneToOne(S, rank) ==
  /\ Cardinality(S) \in Nat
  /\ \A r \in S : rank[r] \in 0..(Cardinality(S) - 1)
  /\ \A a, b \in S : rank[a] = rank[b] => a = b
  /\ \A k \in 0..(Cardinality(S) - 1) : \E r \in S : rank[r] = k

\* Counting the smaller elements numbers a strictly ordered set without gaps: what makes
\* the CHOOSE of Ordered, the SQL ORDER BY of the sheet, pick one row for every place.
LEMMA RanksAreOneToOne ==
  ASSUME NEW S, IsFiniteSet(S), NEW R, StrictOrder(S, R)
  PROVE  OneToOne(S, Rank(S, R))
  <1> USE DEF StrictOrder
  <1> DEFINE N == Cardinality(S)
             rank == Rank(S, R)
             low(r) == {q \in S : <<q, r>> \in R}
  <1>1. N \in Nat
    BY FS_CardinalityType
  <1>2. \A r \in S : low(r) \in SUBSET (S \ {r}) /\ IsFiniteSet(low(r)) /\ Cardinality(low(r)) \in Nat
    <2> TAKE r \in S
    <2>1. low(r) \in SUBSET (S \ {r}) /\ low(r) \in SUBSET S
      OBVIOUS
    <2>2. IsFiniteSet(low(r))
      BY <2>1, FS_Subset
    <2> QED BY <2>1, <2>2, FS_CardinalityType
  <1>3. \A r \in S : rank[r] \in 0..(N - 1)
    <2> TAKE r \in S
    <2>1. IsFiniteSet(S \ {r}) /\ Cardinality(S \ {r}) = N - 1
      BY FS_RemoveElement
    <2>3. rank[r] = Cardinality(low(r))
      BY DEF Rank
    <2>2. Cardinality(low(r)) <= N - 1
      <3> HIDE DEF low
      <3>1. low(r) \in SUBSET (S \ {r})
        BY <1>2
      <3>2. Cardinality(low(r)) <= Cardinality(S \ {r})
        BY <2>1, <3>1, FS_Subset
      <3> QED BY <2>1, <3>2
    <2>4. Cardinality(low(r)) \in Nat
      BY <1>2
    <2> HIDE DEF low, rank, N
    <2> QED BY <1>1, <2>2, <2>3, <2>4
  <1>4. ASSUME NEW a \in S, NEW b \in S, <<a, b>> \in R PROVE rank[a] < rank[b]
    <2>1. low(a) \in SUBSET low(b) /\ a \in low(b) /\ a \notin low(a)
      BY <1>4
    <2>2. Cardinality(low(a)) <= Cardinality(low(b)) /\ Cardinality(low(a)) # Cardinality(low(b))
      <3> HIDE DEF low
      <3> QED BY <1>2, <2>1, FS_Subset
    <2>3. rank[a] = Cardinality(low(a)) /\ rank[b] = Cardinality(low(b))
      BY DEF Rank
    <2> HIDE DEF low
    <2> QED BY <1>2, <2>2, <2>3
  <1>5. DOMAIN rank = S /\ rank \in [S -> 0..(N - 1)] /\ \A a, b \in S : rank[a] = rank[b] => a = b
    <2>1. DOMAIN rank = S /\ rank = [r \in S |-> rank[r]]
      BY DEF Rank
    <2>2. rank \in [S -> 0..(N - 1)]
      <3> HIDE DEF rank, N
      <3> QED BY <2>1, <1>3
    <2> SUFFICES \A a, b \in S : rank[a] = rank[b] => a = b
      BY <2>1, <2>2
    <2> TAKE a, b \in S
    <2>3. rank[a] \in Int /\ rank[b] \in Int
      BY <1>1, <1>3
    <2>4. (<<a, b>> \in R => rank[a] < rank[b]) /\ (<<b, a>> \in R => rank[b] < rank[a])
      BY <1>4
    <2> QED BY <2>3, <2>4
  <1>6. rank \in Injection(S, 0..(N - 1))
    <2> HIDE DEF rank, N
    <2> QED BY <1>5 DEF Injection, IsInjective
  <1>7. IsFiniteSet(0..(N - 1)) /\ Cardinality(0..(N - 1)) = N
    BY <1>1, FS_Interval, 0 \in Int, N - 1 \in Int
  <1>8. rank \in Surjection(S, 0..(N - 1))
    BY <1>6, <1>7, FS_Injection
  <1> QED BY <1>1, <1>3, <1>5, <1>8 DEF Surjection, OneToOne

\* SetToSeq lists every element of a finite set once.
LEMMA SetToSeqLists ==
  ASSUME NEW S, IsFiniteSet(S)
  PROVE  /\ Cardinality(S) \in Nat /\ SetToSeq(S) \in [1..Cardinality(S) -> S]
         /\ \A i, j \in 1..Cardinality(S) : SetToSeq(S)[i] = SetToSeq(S)[j] => i = j
         /\ \A x \in S : \E i \in 1..Cardinality(S) : SetToSeq(S)[i] = x
  <1> DEFINE N == Cardinality(S)
             Lists1(f) == f \in [1..N -> S] /\ IsInjective(f)
  <1>1. N \in Nat /\ ExistsBijection(1..N, S)
    BY FS_CardinalityType
  <1>2. \E f \in [1..N -> S] : IsInjective(f)
    BY <1>1 DEF ExistsBijection, Bijection, Injection
  <1>3. SetToSeq(S) = CHOOSE f \in [1..N -> S] : IsInjective(f)
    BY DEF SetToSeq
  <1>4. SetToSeq(S) \in [1..N -> S] /\ IsInjective(SetToSeq(S))
    <2> HIDE DEF N
    <2> QED BY <1>2, <1>3, Zenon
  <1>5. SetToSeq(S) \in Injection(1..N, S)
    BY <1>4 DEF Injection
  <1>6. Cardinality(1..N) = N
    BY <1>1, FS_Interval, 1 \in Int, N \in Int
  <1>7. SetToSeq(S) \in Surjection(1..N, S)
    BY <1>5, <1>6, FS_Injection
  <1>8. DOMAIN SetToSeq(S) = 1..N
    BY <1>4
  <1> QED BY <1>1, <1>4, <1>7, <1>8 DEF IsInjective, Surjection

-----------------------------------------------------------------------------
(* The groups above a group: the least set that has the one it is in and theirs. *)

\* The group above h, if there is one, and sets that hold the groups above their groups.
Up(s, h) == {s.group[h].up} \cap DOMAIN s.group
Closed(s, C) == \A h \in C : Up(s, h) \subseteq C

\* Above is the least such set: the climb is as long as there are groups, and each step of
\* it but the last adds one.
LEMMA AboveIsLeast ==
  ASSUME NEW s, IsFiniteSet(DOMAIN s.group), NEW g
  PROVE  /\ Above(s, g) \subseteq DOMAIN s.group /\ Up(s, g) \subseteq Above(s, g)
         /\ Closed(s, Above(s, g))
         /\ \A C : Up(s, g) \subseteq C /\ Closed(s, C) => Above(s, g) \subseteq C
<1> DEFINE D == DOMAIN s.group
           N == Cardinality(D)
           wider(low) == low \cup UNION {Up(s, h) : h \in low}
           first == Up(s, g)
           Climbs(f) == f = [n \in 0..N |-> IF n = 0 THEN first ELSE wider(f[n - 1])]
<1>1. N \in Nat /\ first \in SUBSET D /\ \A low \in SUBSET D : wider(low) \in SUBSET D
  BY FS_CardinalityType DEF Up
<1>2. \E f : Climbs(f)
  <2> DEFINE step == [low \in SUBSET D |-> wider(low)]
  <2>1. step \in [SUBSET D -> SUBSET D]
    BY <1>1
  <2>2. PICK f \in [0..N -> SUBSET D] :
          \A i \in 0..N : f[i] = IF i = 0 THEN first ELSE step[f[i - 1]]
    <3> DEFINE X == SUBSET D
    <3>1. N \in Nat /\ first \in X /\ step \in [X -> X]
      BY <1>1, <2>1
    <3> HIDE DEF step, N, first, D, X
    <3>2. \E f \in [0..N -> X] : \A i \in 0..N : f[i] = IF i = 0 THEN first ELSE step[f[i - 1]]
      BY <3>1, IterationExists
    <3> QED BY <3>2 DEF X
  <2>3. \A i \in 0..N : f[i] = IF i = 0 THEN first ELSE wider(f[i - 1])
    <3> TAKE i \in 0..N
    <3>1. CASE i = 0
      BY <2>2, <3>1
    <3>2. CASE i # 0
      <4>1. i - 1 \in 0..N
        BY <1>1, <3>2
      <4>2. f[i - 1] \in SUBSET D
        BY <2>2, <4>1
      <4> HIDE DEF wider, D, N, first
      <4> QED BY <2>2, <3>2, <4>2
    <3> QED BY <3>1, <3>2
  <2>4. f = [n \in 0..N |-> IF n = 0 THEN first ELSE wider(f[n - 1])]
    <3> HIDE DEF wider, D, N, first
    <3> QED BY <2>2, <2>3
  <2> HIDE DEF wider, first, N, D
  <2> QED BY <2>4
<1> DEFINE climb == CHOOSE f : Climbs(f)
<1>3. Above(s, g) = climb[N]
  BY DEF Above, Up
<1>4. Climbs(climb)
  <2> HIDE DEF Climbs
  <2> QED BY <1>2, Zenon
<1> HIDE DEF climb
<1>5. climb[0] = first /\ \A n \in 1..N : climb[n] = wider(climb[n - 1])
  <2>1. 0 \in 0..N /\ \A n \in 1..N : n \in 0..N /\ n # 0
    BY <1>1
  <2> HIDE DEF wider, first, N, D
  <2> QED BY <1>4, <2>1
<1>6. \A n \in 0..N : climb[n] \in SUBSET D /\ first \subseteq climb[n]
  <2> DEFINE K == {n \in 0..N : climb[n] \in SUBSET D /\ first \subseteq climb[n]}
  <2>1. 0 \in K
    BY <1>1, <1>5
  <2>2. \A n \in 0..(N - 1) : n \in K => n + 1 \in K
    <3> TAKE n \in 0..(N - 1)
    <3> HAVE n \in K
    <3>1. n + 1 \in 1..N /\ (n + 1) - 1 = n /\ n + 1 \in 0..N
      BY <1>1
    <3>2. climb[n + 1] = wider(climb[n])
      BY <1>5, <3>1
    <3>3. climb[n + 1] \in SUBSET D /\ climb[n] \subseteq climb[n + 1]
      BY <1>1, <3>2
    <3> HIDE DEF first, N
    <3> QED BY <3>1, <3>3
  <2> HIDE DEF K
  <2>3. \A n \in 0..N : n \in K
    BY <1>1, <2>1, <2>2, Upward
  <2> QED BY <2>3 DEF K
<1>7. \A n \in 0..N : Closed(s, climb[n]) \/ Cardinality(climb[n]) >= n + 1
  <2> DEFINE K == {n \in 0..N : Closed(s, climb[n]) \/ Cardinality(climb[n]) >= n + 1}
  <2>0. \A n \in 0..N : IsFiniteSet(climb[n]) /\ Cardinality(climb[n]) \in Nat
    BY <1>6, FS_Subset, FS_CardinalityType
  <2>1. 0 \in K
    <3>1. 0 \in 0..N
      BY <1>1
    <3>2. climb[0] = {} => Closed(s, climb[0])
      BY DEF Closed
    <3>3. climb[0] # {} => Cardinality(climb[0]) # 0
      BY <2>0, <3>1, FS_EmptySet
    <3>4. climb[0] # {} => Cardinality(climb[0]) >= 0 + 1
      BY <2>0, <3>1, <3>3
    <3> HIDE DEF N
    <3> QED BY <3>1, <3>2, <3>4
  <2>2. \A n \in 0..(N - 1) : n \in K => n + 1 \in K
    <3> TAKE n \in 0..(N - 1)
    <3> HAVE n \in K
    <3>1. n \in 0..N /\ n + 1 \in 1..N /\ (n + 1) - 1 = n /\ n + 1 \in 0..N /\ n \in Nat
      BY <1>1
    <3>2. climb[n + 1] = wider(climb[n])
      BY <1>5, <3>1
    <3>3. CASE Closed(s, climb[n])
      <4>1. climb[n + 1] = climb[n]
        BY <3>2, <3>3 DEF Closed
      <4> HIDE DEF N, wider
      <4> QED BY <3>1, <3>3, <4>1
    <3>4. CASE ~Closed(s, climb[n])
      <4>1. climb[n] \in SUBSET climb[n + 1]
        BY <3>2
      <4>2. climb[n] # climb[n + 1]
        BY <3>2, <3>4 DEF Closed
      <4>3. Cardinality(climb[n]) <= Cardinality(climb[n + 1]) /\ Cardinality(climb[n]) # Cardinality(climb[n + 1])
        BY <2>0, <3>1, <4>1, <4>2, FS_Subset
      <4>4. Cardinality(climb[n]) >= n + 1
        BY <3>4
      <4>5. Cardinality(climb[n + 1]) >= (n + 1) + 1
        <5>1. Cardinality(climb[n]) \in Nat /\ Cardinality(climb[n + 1]) \in Nat
          BY <2>0, <3>1
        <5> QED BY <5>1, <4>3, <4>4, <3>1
      <4> HIDE DEF N, wider
      <4> QED BY <3>1, <4>5
    <3> QED BY <3>3, <3>4
  <2> HIDE DEF K
  <2>3. \A n \in 0..N : n \in K
    BY <1>1, <2>1, <2>2, Upward
  <2> QED BY <2>3 DEF K
<1>8. Closed(s, climb[N])
  <2>1. N \in 0..N /\ climb[N] \in SUBSET D
    BY <1>1, <1>6
  <2>2. Cardinality(climb[N]) <= N /\ Cardinality(climb[N]) \in Nat
    BY <2>1, FS_Subset, FS_CardinalityType
  <2>3. ~(Cardinality(climb[N]) >= N + 1)
    BY <1>1, <2>2
  <2> HIDE DEF N
  <2> QED BY <1>7, <2>1, <2>3
<1>9. ASSUME NEW C, first \subseteq C, Closed(s, C) PROVE climb[N] \subseteq C
  <2> DEFINE K == {n \in 0..N : climb[n] \subseteq C}
  <2>1. 0 \in K
    BY <1>1, <1>5, <1>9
  <2>2. \A n \in 0..(N - 1) : n \in K => n + 1 \in K
    <3> TAKE n \in 0..(N - 1)
    <3> HAVE n \in K
    <3>1. n + 1 \in 1..N /\ (n + 1) - 1 = n /\ n + 1 \in 0..N
      BY <1>1
    <3>2. climb[n + 1] = wider(climb[n])
      BY <1>5, <3>1
    <3>3. climb[n + 1] \subseteq C
      BY <3>2, <1>9 DEF Closed
    <3> HIDE DEF N, wider
    <3> QED BY <3>1, <3>3
  <2> HIDE DEF K
  <2>3. \A n \in 0..N : n \in K
    BY <1>1, <2>1, <2>2, Upward
  <2>4. N \in K
    BY <1>1, <2>3
  <2> QED BY <2>4 DEF K
<1>10. N \in 0..N
  BY <1>1
<1> HIDE DEF N, wider
<1> QED BY <1>3, <1>6, <1>8, <1>9, <1>10

-----------------------------------------------------------------------------
(* Forests: no group is above itself. *)

\* Parents are groups, and no group is above itself.
Tree(s) ==
  \A g \in DOMAIN s.group : s.group[g].up \in {0} \cup DOMAIN s.group /\ g \notin Above(s, g)

\* A forest that loses groups, or whose groups go to the top, is one.
LEMMA TreeShrinks ==
  ASSUME NEW s, NEW t, IsFiniteSet(DOMAIN s.group), Tree(s), DOMAIN t.group \subseteq DOMAIN s.group,
         \A h \in DOMAIN t.group :
           t.group[h].up \in {0} \cup DOMAIN t.group /\ Up(t, h) \subseteq Up(s, h)
  PROVE  Tree(t) /\ IsFiniteSet(DOMAIN t.group) /\ \A g \in DOMAIN t.group : Above(t, g) \subseteq Above(s, g)
<1>1. IsFiniteSet(DOMAIN t.group)
  BY FS_Subset
<1>2. ASSUME NEW g \in DOMAIN t.group PROVE Above(t, g) \subseteq Above(s, g)
  <2> DEFINE C == Above(s, g) \cap DOMAIN t.group
  <2>1. Up(s, g) \subseteq Above(s, g) /\ Closed(s, Above(s, g))
    BY AboveIsLeast
  <2>2. Up(t, g) \subseteq C /\ Closed(t, C)
    BY <2>1 DEF Closed, Up
  <2>3. Above(t, g) \subseteq C
    BY <1>1, <2>2, AboveIsLeast
  <2> QED BY <2>3
<1> QED BY <1>1, <1>2 DEF Tree

\* A new group goes under nothing or under a group of the sheet.
LEMMA TreeGrows ==
  ASSUME NEW s, NEW t, IsFiniteSet(DOMAIN s.group), Tree(s), NEW n, n # 0,
         n \notin DOMAIN s.group, DOMAIN t.group = DOMAIN s.group \cup {n},
         \A h \in DOMAIN s.group : t.group[h].up = s.group[h].up,
         t.group[n].up \in {0} \cup DOMAIN s.group
  PROVE  Tree(t) /\ IsFiniteSet(DOMAIN t.group)
<1> DEFINE D == DOMAIN s.group
<1>1. IsFiniteSet(DOMAIN t.group)
  BY FS_AddElement
<1>2. \A h \in D : Up(t, h) = Up(s, h)
  BY DEF Up, Tree
<1>3. ASSUME NEW h \in D PROVE Above(t, h) \subseteq Above(s, h)
  <2>1. Up(s, h) \subseteq Above(s, h) /\ Closed(s, Above(s, h)) /\ Above(s, h) \subseteq D
    BY AboveIsLeast
  <2>2. Up(t, h) \subseteq Above(s, h) /\ Closed(t, Above(s, h))
    BY <1>2, <2>1 DEF Closed
  <2> QED BY <1>1, <2>2, AboveIsLeast
<1>4. n \notin Above(t, n)
  <2> DEFINE p == t.group[n].up
             C == IF p \in D THEN {p} \cup Above(s, p) ELSE {}
  <2>1. p \in D => Up(s, p) \subseteq Above(s, p) /\ Closed(s, Above(s, p)) /\ Above(s, p) \subseteq D
    BY AboveIsLeast
  <2>2. C \subseteq D /\ Closed(s, C)
    BY <2>1 DEF Closed
  <2>3. Closed(t, C)
    BY <1>2, <2>2 DEF Closed
  <2>4. Up(t, n) \subseteq C
    BY DEF Up
  <2>5. Above(t, n) \subseteq C
    <3> HIDE DEF C
    <3> QED BY <1>1, <2>3, <2>4, AboveIsLeast
  <2> QED BY <2>2, <2>5
<1> QED BY <1>1, <1>3, <1>4 DEF Tree

\* ValidParent: a group that goes under one it is not above makes no cycle.
LEMMA TreeMoves ==
  ASSUME NEW s, NEW t, IsFiniteSet(DOMAIN s.group), Tree(s), NEW g \in DOMAIN s.group, NEW p,
         0 \notin DOMAIN s.group, DOMAIN t.group = DOMAIN s.group,
         \A h \in DOMAIN s.group \ {g} : t.group[h].up = s.group[h].up,
         t.group[g].up = p,
         p = 0 \/ (p \in DOMAIN s.group /\ p # g /\ g \notin Above(s, p))
  PROVE  Tree(t)
<1> DEFINE D == DOMAIN s.group
           U == IF p = 0 THEN {} ELSE {p} \cup Above(s, p)
<1>1. \A h \in D \ {g} : Up(t, h) = Up(s, h)
  BY DEF Up
<1>2. U \subseteq D /\ g \notin U /\ Closed(s, U)
  BY AboveIsLeast DEF Closed
<1>3. Closed(t, U) /\ Up(t, g) \subseteq U
  BY <1>1, <1>2 DEF Closed, Up
<1>4. g \notin Above(t, g)
  BY <1>2, <1>3, AboveIsLeast
<1>5. ASSUME NEW h \in D, h # g PROVE h \notin Above(t, h)
  <2>1. /\ Up(s, h) \subseteq Above(s, h) /\ Closed(s, Above(s, h)) /\ h \notin Above(s, h)
        /\ Above(s, h) \subseteq D
    BY AboveIsLeast DEF Tree
  <2>2. CASE h \in U
    <3> DEFINE C == Above(s, h) \cap U
    <3>1. Up(t, h) \subseteq C /\ Closed(t, C)
      BY <1>1, <1>2, <2>1, <2>2, <1>5 DEF Closed
    <3>2. Above(t, h) \subseteq C
      BY <3>1, AboveIsLeast
    <3> QED BY <2>1, <3>2
  <2>3. CASE h \notin U
    <3> DEFINE C == Above(s, h) \cup U
    <3>1. Up(t, h) \subseteq C
      BY <1>1, <2>1, <1>5
    <3>2. ASSUME NEW k \in C PROVE Up(t, k) \subseteq C
      <4>1. CASE k \in U
        BY <4>1, <1>3 DEF Closed
      <4>2. CASE k = g
        BY <4>2, <1>3
      <4>3. CASE k # g /\ k \in Above(s, h)
        BY <4>3, <1>1, <2>1 DEF Closed
      <4> QED BY <4>1, <4>2, <4>3
    <3>3. Above(t, h) \subseteq C
      <4>1. Closed(t, C)
        BY <3>2 DEF Closed
      <4> HIDE DEF C
      <4> QED BY <3>1, <4>1, AboveIsLeast
    <3> QED BY <2>1, <2>3, <3>3
  <2> QED BY <2>2, <2>3
<1> QED BY <1>4, <1>5 DEF Tree

-----------------------------------------------------------------------------
(* The records of a sheet, and the orders they are read in. *)

\* What the cues, the groups and a sheet are.
CueRec == [pos : Nat \ {0}, idx : Int, parent : Nat]
GroupRec == [idx : Int, up : Nat, collapse : BOOLEAN]
GoodCues(c) ==
  /\ DOMAIN c \subseteq Cues /\ c \in [DOMAIN c -> CueRec]
  /\ \A x, y \in DOMAIN c : c[x].pos = c[y].pos => x = y
GoodGroups(g) ==
  /\ DOMAIN g \subseteq Nat \ {0} /\ IsFiniteSet(DOMAIN g) /\ g \in [DOMAIN g -> GroupRec]

\* The rows of a sound sheet.
GoodRows(s) == GoodCues(s.cue) /\ GoodGroups(s.group)

Lists(q, S) ==
  /\ q \in Seq(S)
  /\ \A i, j \in DOMAIN q : q[i] = q[j] => i = j
  /\ \A x \in S : \E i \in DOMAIN q : q[i] = x

\* What the rows of a sheet with good fields are.
LEMMA RowsAreTwoKinds ==
  ASSUME CueSheetAssumption, NEW s, GoodRows(s)
  PROVE  /\ DOMAIN s.cue \cap DOMAIN s.group = {} /\ IsFiniteSet(DOMAIN s.cue) /\ IsFiniteSet(Rows(s))
         /\ \A r \in Rows(s) : Index(s, r) \in Int /\ Number(s, r) \in Int
         /\ \A r \in DOMAIN s.group : r \in Int /\ r > 0 /\ ~IsCue(s, r)
         /\ \A c \in DOMAIN s.cue : s.cue[c].pos \in Nat \ {0}
         /\ \A c \in DOMAIN s.cue : s.cue[c].idx \in Int
         /\ \A g \in DOMAIN s.group : s.group[g].idx \in Int
<1>1. IsFiniteSet(DOMAIN s.cue) /\ IsFiniteSet(DOMAIN s.group)
  BY FS_Subset DEF CueSheetAssumption, GoodRows, GoodCues, GoodGroups
<1>2. IsFiniteSet(Rows(s))
  BY <1>1, FS_Union DEF Rows
<1>3. \A c \in DOMAIN s.cue : s.cue[c] \in CueRec /\ c \notin DOMAIN s.group
  BY DEF CueSheetAssumption, GoodRows, GoodCues, GoodGroups
<1>4. \A g \in DOMAIN s.group : s.group[g] \in GroupRec /\ g \in Nat \ {0}
  BY DEF GoodRows, GoodGroups
<1> QED BY <1>1, <1>2, <1>3, <1>4 DEF Index, Number, IsCue, Rows, CueRec, GroupRec

\* The order of Ordered, the ORDER BY of the sheet, on some rows.
Ranked(s, rows, leaders) == {p \in rows \X rows : Precedes(s, p[1], p[2], leaders)}

\* The order is strict: of two rows one is before the other, and before is transitive.
LEMMA PrecedesIsStrict ==
  ASSUME CueSheetAssumption, NEW s, GoodRows(s), NEW rows \in SUBSET Rows(s), NEW leaders,
         leaders = DOMAIN s.cue \/ leaders = DOMAIN s.group \/ rows \subseteq DOMAIN s.cue
  PROVE  StrictOrder(rows, Ranked(s, rows, leaders))
<1> DEFINE R == {p \in rows \X rows : Precedes(s, p[1], p[2], leaders)}
<1>0. IsFiniteSet(rows)
  BY RowsAreTwoKinds, FS_Subset
<1> DEFINE C(a) == a \in DOMAIN s.cue
           ind(a) == Index(s, a)
           num(a) == Number(s, a)
<1>1. \A a, b \in rows :
        <<a, b>> \in R <=> \/ ind(a) < ind(b)
                           \/ ind(a) = ind(b) /\ (C(a) <=> C(b)) /\ num(a) < num(b)
                           \/ ind(a) = ind(b) /\ ~(C(a) <=> C(b)) /\ a \in leaders
  <2> TAKE a, b \in rows
  <2>1. <<a, b>> \in R <=> Precedes(s, a, b, leaders)
    OBVIOUS
  <2>2. (IsCue(s, a) = IsCue(s, b)) <=> (C(a) <=> C(b))
    BY DEF IsCue
  <2> QED BY <2>1, <2>2 DEF Precedes
<1>2. \A a \in rows : ind(a) \in Int /\ num(a) \in Int /\ (~C(a) <=> a \in DOMAIN s.group)
  BY RowsAreTwoKinds DEF Rows
<1>3. \A a, b \in rows : (C(a) <=> C(b)) /\ num(a) = num(b) => a = b
  BY RowsAreTwoKinds DEF IsCue, Number, Rows, GoodRows, GoodCues
<1>4. \A a, b \in rows : ~(C(a) <=> C(b)) => (a \in leaders <=> b \notin leaders)
  BY <1>2
<1>4a. \A a, b, c \in rows : (C(a) <=> C(b)) /\ ~(C(a) <=> C(c)) => (a \in leaders <=> b \in leaders)
  BY <1>2
<1> HIDE DEF R, C, ind, num
<1>5. \A a \in rows : <<a, a>> \notin R
  BY <1>1, <1>2
<1>6. \A a, b \in rows : a = b \/ <<a, b>> \in R \/ <<b, a>> \in R
  <2> TAKE a, b \in rows
  <2>1. ind(a) \in Int /\ ind(b) \in Int /\ num(a) \in Int /\ num(b) \in Int
    BY <1>2
  <2> QED BY <1>1, <1>3, <1>4, <2>1
<1>7. \A a, b, c \in rows : <<a, b>> \in R /\ <<b, c>> \in R => <<a, c>> \in R
  <2> TAKE a, b, c \in rows
  <2>1. \A x \in {a, b, c} : ind(x) \in Int /\ num(x) \in Int
    BY <1>2
  <2>2. CASE C(a) <=> C(b)
    <3>1. CASE C(b) <=> C(c)
      BY <1>1, <2>1, <2>2, <3>1
    <3>2. CASE ~(C(b) <=> C(c))
      BY <1>1, <1>4a, <2>1, <2>2, <3>2
    <3> QED BY <3>1, <3>2
  <2>3. CASE ~(C(a) <=> C(b))
    <3>1. CASE C(b) <=> C(c)
      BY <1>1, <1>4, <1>4a, <2>1, <2>3, <3>1
    <3>2. CASE ~(C(b) <=> C(c))
      BY <1>1, <1>4, <1>4a, <2>1, <2>3, <3>2
    <3> QED BY <3>1, <3>2
  <2> QED BY <2>2, <2>3
<1> QED BY <1>5, <1>6, <1>7 DEF StrictOrder, Ranked, R

\* Ordered is a list of the rows, each once: LoadSequence, Items and CueOrder.
LEMMA OrderedLists ==
  ASSUME CueSheetAssumption, NEW s, GoodRows(s), NEW rows \in SUBSET Rows(s), NEW leaders,
         leaders = DOMAIN s.cue \/ leaders = DOMAIN s.group \/ rows \subseteq DOMAIN s.cue
  PROVE  /\ Lists(Ordered(s, rows, leaders), rows)
         /\ Cardinality(rows) \in Nat
         /\ Ordered(s, rows, leaders) \in [1..Cardinality(rows) -> rows]
<1> DEFINE R == Ranked(s, rows, leaders)
           rank == Rank(rows, R)
           N == Cardinality(rows)
           seq == Ordered(s, rows, leaders)
<1>0. IsFiniteSet(rows)
  BY RowsAreTwoKinds, FS_Subset
<1>1. /\ N \in Nat
      /\ \A r \in rows : rank[r] \in 0..(N - 1)
      /\ \A a, b \in rows : rank[a] = rank[b] => a = b
      /\ \A k \in 0..(N - 1) : \E r \in rows : rank[r] = k
  <2>1. StrictOrder(rows, R)
    BY PrecedesIsStrict
  <2>2. OneToOne(rows, rank)
    <3> HIDE DEF R
    <3> QED BY <1>0, <2>1, RanksAreOneToOne
  <2> QED BY <2>2 DEF OneToOne
<1>2. seq = [i \in 1..N |-> CHOOSE r \in rows : rank[r] = i - 1]
  <2>1. rank = [r \in rows |-> Cardinality({q \in rows : Precedes(s, q, r, leaders)})]
    <3>1. \A r \in rows : {q \in rows : <<q, r>> \in R} = {q \in rows : Precedes(s, q, r, leaders)}
      BY DEF Ranked
    <3> QED BY <3>1 DEF Rank
  <2> HIDE DEF rank
  <2> QED BY <2>1 DEF Ordered
<1> HIDE DEF rank, seq, R
<1>3. \A i \in 1..N : seq[i] \in rows /\ rank[seq[i]] = i - 1
  <2> TAKE i \in 1..N
  <2>1. seq[i] = CHOOSE r \in rows : rank[r] = i - 1
    BY <1>2
  <2>2. \E r \in rows : rank[r] = i - 1
    <3>1. i - 1 \in 0..(N - 1)
      BY <1>1
    <3> QED BY <3>1, <1>1
  <2> QED BY <2>1, <2>2
<1>4. seq \in [1..N -> rows] /\ DOMAIN seq = 1..N
  BY <1>2, <1>3
<1>5. \A i, j \in 1..N : seq[i] = seq[j] => i = j
  <2> TAKE i, j \in 1..N
  <2>1. rank[seq[i]] = i - 1 /\ rank[seq[j]] = j - 1
    BY <1>3
  <2> QED BY <2>1
<1>6. \A r \in rows : \E i \in 1..N : seq[i] = r
  <2> TAKE r \in rows
  <2>1. rank[r] + 1 \in 1..N /\ (rank[r] + 1) - 1 = rank[r]
    BY <1>1
  <2>2. seq[rank[r] + 1] = r
    BY <2>1, <1>1, <1>3
  <2> QED BY <2>1, <2>2
<1>7. seq \in Seq(rows)
  BY <1>1, <1>4
<1> QED BY <1>1, <1>4, <1>5, <1>6, <1>7 DEF Lists, seq

\* At finds the place of a row that is in the sequence.
LEMMA AtIsIndex ==
  ASSUME NEW q, NEW i \in DOMAIN q
  PROVE  At(q, q[i]) \in DOMAIN q /\ q[At(q, q[i])] = q[i]
BY DEF At

-----------------------------------------------------------------------------
(* Dragged rows are lifted out of a sequence and put back in. *)

Places(q, rows) == {i \in DOMAIN q : q[i] \in rows}

\* The rows of a sequence that are in a set, in their order: each place once.
LEMMA InOrderLists ==
  ASSUME NEW S, NEW q \in Seq(S), NEW rows
  PROVE  /\ Cardinality(Places(q, rows)) \in Nat
         /\ InOrder(q, rows) \in [1..Cardinality(Places(q, rows)) -> S \cap rows]
         /\ \A i \in Places(q, rows) : \E k \in 1..Cardinality(Places(q, rows)) : InOrder(q, rows)[k] = q[i]
         /\ (\A i, j \in DOMAIN q : q[i] = q[j] => i = j) =>
              \A k, l \in DOMAIN InOrder(q, rows) : InOrder(q, rows)[k] = InOrder(q, rows)[l] => k = l
<1> DEFINE at == Places(q, rows)
           N == Cardinality(at)
           R == {p \in at \X at : p[1] < p[2]}
           rank == Rank(at, R)
           c == [k \in 1..N |-> CHOOSE i \in at : Cardinality({j \in at : j < i}) = k - 1]
<1>1. at \in SUBSET (1..Len(q)) /\ at \subseteq Int /\ IsFiniteSet(at)
  <2>1. Len(q) \in Nat /\ DOMAIN q = 1..Len(q)
    OBVIOUS
  <2>2. IsFiniteSet(1..Len(q))
    BY <2>1, FS_Interval, 1 \in Int, Len(q) \in Int
  <2> QED BY <2>1, <2>2, FS_Subset DEF Places
<1>2. StrictOrder(at, R)
  BY <1>1 DEF StrictOrder
<1>3. OneToOne(at, rank)
  BY <1>1, <1>2, RanksAreOneToOne
<1>4. \A i \in at : rank[i] = Cardinality({j \in at : j < i})
  BY DEF Rank
<1>5. InOrder(q, rows) = [k \in 1..N |-> q[c[k]]]
  BY DEF InOrder, Places
<1> HIDE DEF rank
<1>6. \A k \in 1..N : c[k] \in at /\ rank[c[k]] = k - 1
  <2> TAKE k \in 1..N
  <2> DEFINE P(i) == Cardinality({j \in at : j < i}) = k - 1
  <2>1. k - 1 \in 0..(N - 1)
    BY <1>3 DEF OneToOne
  <2>2. \E i \in at : P(i)
    <3>1. PICK i \in at : rank[i] = k - 1
      BY <2>1, <1>3 DEF OneToOne
    <3> QED BY <3>1, <1>4
  <2>3. c[k] = CHOOSE i \in at : P(i)
    OBVIOUS
  <2> HIDE DEF c, P
  <2>4. c[k] \in at /\ P(c[k])
    BY <2>2, <2>3, Zenon
  <2> QED BY <2>4, <1>4 DEF P
<1> HIDE DEF c
<1>7. \A i \in at : \E k \in 1..N : c[k] = i
  <2> TAKE i \in at
  <2>1. rank[i] + 1 \in 1..N /\ (rank[i] + 1) - 1 = rank[i]
    BY <1>3 DEF OneToOne
  <2>2. c[rank[i] + 1] = i
    BY <2>1, <1>3, <1>6 DEF OneToOne
  <2> QED BY <2>1, <2>2
<1>8. \A k \in 1..N : InOrder(q, rows)[k] = q[c[k]] /\ q[c[k]] \in S \cap rows /\ c[k] \in DOMAIN q
  <2> TAKE k \in 1..N
  <2>1. c[k] \in at
    BY <1>6
  <2>2. c[k] \in DOMAIN q /\ q[c[k]] \in rows /\ q[c[k]] \in S
    BY <2>1, <1>1 DEF Places
  <2> QED BY <1>5, <2>2
<1>9. DOMAIN InOrder(q, rows) = 1..N /\ InOrder(q, rows) \in [1..N -> S \cap rows] /\ N \in Nat
  BY <1>3, <1>5, <1>8 DEF OneToOne
<1>10. \A i \in at : \E k \in 1..N : InOrder(q, rows)[k] = q[i]
  BY <1>7, <1>8
<1>11. ASSUME \A i, j \in DOMAIN q : q[i] = q[j] => i = j
       PROVE  \A k, l \in 1..N : InOrder(q, rows)[k] = InOrder(q, rows)[l] => k = l
  <2> TAKE k, l \in 1..N
  <2> HAVE InOrder(q, rows)[k] = InOrder(q, rows)[l]
  <2>1. c[k] = c[l]
    BY <1>8, <1>11
  <2>2. k - 1 = l - 1
    BY <2>1, <1>6
  <2> QED BY <2>2
<1> QED BY <1>9, <1>10, <1>11

Staying(q, block) == {i \in DOMAIN q : q[i] \notin ToSet(block)}

\* The rows that stay, and how many of them are in a prefix.
LEMMA LiftedLists ==
  ASSUME NEW S, NEW q \in Seq(S), NEW block
  PROVE  /\ Lifted(q, block) \in Seq(S) /\ Len(Lifted(q, block)) \in Nat
         /\ Len(Lifted(q, block)) = Cardinality(Staying(q, block))
         /\ \A i \in DOMAIN q : q[i] \notin ToSet(block) => \E k \in DOMAIN Lifted(q, block) : Lifted(q, block)[k] = q[i]
         /\ \A k \in DOMAIN Lifted(q, block) : Lifted(q, block)[k] \in ToSet(q) \ ToSet(block)
<1> DEFINE rows == ToSet(q) \ ToSet(block)
           L == InOrder(q, rows)
           N == Cardinality(Places(q, rows))
<1>1. Lifted(q, block) = L
  BY DEF Lifted
<1>2. Places(q, rows) = Staying(q, block)
  BY DEF Places, ToSet, Staying
<1>3. /\ N \in Nat /\ L \in [1..N -> S \cap rows]
      /\ \A i \in Places(q, rows) : \E k \in 1..N : L[k] = q[i]
  <2> HIDE DEF rows
  <2> QED BY InOrderLists
<1>4. L \in Seq(S) /\ Len(L) = N /\ DOMAIN L = 1..N
  <2> HIDE DEF L, N
  <2> QED BY <1>3
<1> HIDE DEF L, N, rows
<1>5. \A k \in DOMAIN L : L[k] \in rows
  BY <1>3, <1>4
<1> QED BY <1>1, <1>2, <1>3, <1>4, <1>5 DEF rows, N, Staying

\* The rows a prefix keeps are places of the rest.
LEMMA KeptIsSlot ==
  ASSUME NEW S, NEW q \in Seq(S), NEW block, NEW i \in 0..Len(q)
  PROVE  /\ Kept(q, block, i) \in 0..Len(Lifted(q, block))
         /\ Kept(q, block, i) = Cardinality(Staying(q, block) \cap 1..i)
<1> DEFINE p == SubSeq(q, 1, i)
           all == Staying(q, block)
           here == Staying(p, block)
<1>1. p \in Seq(S) /\ DOMAIN p = 1..i /\ (\A j \in 1..i : p[j] = q[j]) /\ 1..i \subseteq DOMAIN q
  OBVIOUS
<1>2. here = all \cap 1..i
  BY <1>1 DEF Staying
<1>3. Len(Lifted(p, block)) = Cardinality(here) /\ Len(Lifted(p, block)) \in Nat
  <2> HIDE DEF p
  <2> QED BY <1>1, LiftedLists
<1>4. here \in SUBSET all /\ IsFiniteSet(all)
  <2>1. Len(q) \in Nat /\ DOMAIN q = 1..Len(q)
    OBVIOUS
  <2>2. IsFiniteSet(1..Len(q))
    BY <2>1, FS_Interval, 1 \in Int, Len(q) \in Int
  <2>3. all \in SUBSET (1..Len(q))
    BY <2>1 DEF Staying
  <2> HIDE DEF all, here
  <2> QED BY <1>2, <2>2, <2>3, FS_Subset
<1>5. Cardinality(here) <= Cardinality(all)
  <2> HIDE DEF all, here
  <2> QED BY <1>4, FS_Subset
<1>6. Len(Lifted(q, block)) = Cardinality(all) /\ Len(Lifted(q, block)) \in Nat
  BY LiftedLists
<1>7. Kept(q, block, i) = Cardinality(here) /\ Cardinality(here) = Cardinality(all \cap 1..i)
  BY <1>2, <1>3 DEF Kept
<1>8. Kept(q, block, i) \in 0..Len(Lifted(q, block))
  <2> HIDE DEF all, here, p
  <2> QED BY <1>3, <1>5, <1>6, <1>7
<1> QED BY <1>7, <1>8

\* Where the page draws its lines: a slot is in 0..Len(Lifted(q, block)).
Slots(q, block) == 0..Len(Lifted(q, block))

\* The lines above and below a row are slots of the rest.
LEMMA LinesAreSlots ==
  ASSUME NEW S, NEW q \in Seq(S), NEW block, NEW i \in DOMAIN q
  PROVE  /\ SlotAbove(q, block, q[i]) \in Slots(q, block) /\ SlotBelow(q, block, q[i]) \in Slots(q, block)
         /\ SlotEnd(q, block) \in Slots(q, block)
         /\ q[i] \notin ToSet(block) => SlotFirst(q, block, q[i]) \in Slots(q, block)
<1> DEFINE r == q[i]
           k == At(q, r)
           all == Staying(q, block)
<1>1. Len(q) \in Nat /\ DOMAIN q = 1..Len(q) /\ Len(Lifted(q, block)) \in Nat
  BY LiftedLists
<1>2. k \in 1..Len(q) /\ q[k] = r
  BY <1>1, AtIsIndex
<1>3. k - 1 \in 0..Len(q) /\ k \in 0..Len(q)
  BY <1>1, <1>2
<1>4. Kept(q, block, k - 1) \in Slots(q, block) /\ Kept(q, block, k) \in Slots(q, block)
  <2> HIDE DEF k
  <2> QED BY <1>3, KeptIsSlot DEF Slots
<1>5. ASSUME r \notin ToSet(block) PROVE Kept(q, block, k - 1) + 1 = Kept(q, block, k)
  <2> DEFINE low == all \cap 1..(k - 1)
  <2>1. k \in all
    BY <1>1, <1>2, <1>5 DEF Staying
  <2>2. all \cap 1..k = low \cup {k} /\ k \notin low
    BY <1>2, <2>1
  <2>3. IsFiniteSet(low)
    <3>1. IsFiniteSet(1..Len(q))
      BY <1>1, FS_Interval, 1 \in Int, Len(q) \in Int
    <3>2. low \in SUBSET (1..Len(q))
      BY <1>1 DEF Staying
    <3> HIDE DEF low
    <3> QED BY <3>1, <3>2, FS_Subset
  <2>4. Cardinality(low \cup {k}) = Cardinality(low) + 1
    <3> HIDE DEF low, k
    <3> QED BY <2>2, <2>3, FS_AddElement
  <2>5. Kept(q, block, k - 1) = Cardinality(low) /\ Kept(q, block, k) = Cardinality(all \cap 1..k)
    <3> HIDE DEF k
    <3> QED BY <1>3, KeptIsSlot
  <2> HIDE DEF low, k, all
  <2> QED BY <2>2, <2>4, <2>5
<1>6. SlotEnd(q, block) \in Slots(q, block)
  BY <1>1 DEF SlotEnd, Slots
<1> HIDE DEF k
<1> QED BY <1>4, <1>5, <1>6 DEF SlotAbove, SlotBelow, SlotFirst, k

\* Put back in at a slot, no row is lost.
LEMMA SpliceKeepsRows ==
  ASSUME NEW S, NEW q \in Seq(S), NEW T, NEW block \in Seq(T), NEW at \in Slots(q, block)
  PROVE  /\ Splice(q, block, at) \in Seq(S \cup T)
         /\ \A x \in ToSet(q) \cup ToSet(block) :
              \E i \in DOMAIN Splice(q, block, at) : Splice(q, block, at)[i] = x
<1> DEFINE rest == Lifted(q, block)
           a == SubSeq(rest, 1, at)
           z == SubSeq(rest, at + 1, Len(rest))
           new == a \o block \o z
<1>1. rest \in Seq(S) /\ Len(rest) \in Nat
  BY LiftedLists
<1>2. /\ at \in Nat /\ at <= Len(rest)
  BY <1>1 DEF Slots
<1>3. /\ a \in Seq(S) /\ Len(a) = at /\ \A j \in 1..at : a[j] = rest[j]
      /\ z \in Seq(S) /\ Len(z) = Len(rest) - at /\ \A j \in 1..(Len(rest) - at) : z[j] = rest[j + at]
  <2> HIDE DEF rest
  <2> QED BY <1>1, <1>2
<1>4. Splice(q, block, at) = new
  BY DEF Splice
<1> HIDE DEF rest, a, z
<1>5. /\ new \in Seq(S \cup T) /\ Len(new) = at + Len(block) + (Len(rest) - at) /\ DOMAIN new = 1..Len(new)
      /\ \A j \in 1..at : new[j] = a[j]
      /\ \A j \in 1..Len(block) : new[j + at] = block[j]
      /\ \A j \in 1..(Len(rest) - at) : new[j + (at + Len(block))] = z[j]
  <2> DEFINE U == S \cup T
             ab == a \o block
  <2>1. a \in Seq(U) /\ z \in Seq(U) /\ block \in Seq(U) /\ Len(block) \in Nat
    BY <1>3
  <2> HIDE DEF U
  <2>2. /\ ab \in Seq(U) /\ Len(ab) = Len(a) + Len(block)
        /\ \A j \in 1..Len(a) : ab[j] = a[j]
        /\ \A j \in 1..Len(block) : ab[j + Len(a)] = block[j]
    BY <2>1
  <2>3. new = ab \o z
    OBVIOUS
  <2> HIDE DEF ab, new
  <2>4. /\ new \in Seq(U) /\ Len(new) = Len(ab) + Len(z) /\ DOMAIN new = 1..Len(new)
        /\ \A j \in 1..Len(ab) : new[j] = ab[j]
        /\ \A j \in 1..Len(z) : new[j + Len(ab)] = z[j]
    <3>1. ab \in Seq(U) /\ z \in Seq(U)
      BY <2>1, <2>2
    <3>2. /\ (ab \o z) \in Seq(U) /\ Len(ab \o z) = Len(ab) + Len(z)
          /\ \A j \in 1..Len(ab) : (ab \o z)[j] = ab[j]
          /\ \A j \in 1..Len(z) : (ab \o z)[j + Len(ab)] = z[j]
      BY <3>1
    <3>3. DOMAIN new = 1..Len(new)
      BY <3>2, <2>3
    <3> QED BY <3>2, <3>3, <2>3
  <2>5. Len(a) = at /\ Len(ab) = at + Len(block) /\ Len(z) = Len(rest) - at
    BY <1>3, <2>2
  <2>6. ASSUME NEW j \in 1..at PROVE new[j] = a[j]
    <3>1. j \in 1..Len(ab) /\ j \in 1..Len(a)
      BY <1>2, <2>1, <2>5
    <3> QED BY <3>1, <2>2, <2>4
  <2>7. ASSUME NEW j \in 1..Len(block) PROVE new[j + at] = block[j]
    <3>1. j + at \in 1..Len(ab)
      BY <1>2, <2>1, <2>5
    <3> QED BY <3>1, <2>2, <2>4, <2>5
  <2> QED BY <2>4, <2>5, <2>6, <2>7 DEF U
<1>6. ASSUME NEW x \in ToSet(block) PROVE \E i \in DOMAIN new : new[i] = x
  <2>1. PICK j \in 1..Len(block) : block[j] = x
    BY DEF ToSet
  <2>2. j + at \in 1..Len(new) /\ new[j + at] = x
    BY <1>1, <1>2, <1>5, <2>1
  <2> QED BY <1>5, <2>2
<1>7. ASSUME NEW x \in ToSet(q) \ ToSet(block) PROVE \E i \in DOMAIN new : new[i] = x
  <2>1. PICK i \in DOMAIN q : q[i] = x
    BY DEF ToSet
  <2>2. PICK k \in DOMAIN rest : rest[k] = x
    <3>1. q[i] \notin ToSet(block)
      BY <2>1
    <3> QED BY <2>1, <3>1, LiftedLists DEF rest
  <2>3. k \in 1..Len(rest)
    BY <1>1
  <2>4. CASE k <= at
    <3>1. k \in 1..at /\ k \in 1..Len(new)
      BY <1>1, <1>2, <1>5, <2>3, <2>4
    <3>2. new[k] = x
      BY <1>3, <1>5, <2>2, <3>1
    <3> QED BY <1>5, <3>1, <3>2
  <2>5. CASE k > at
    <3>1. /\ k - at \in 1..(Len(rest) - at) /\ (k - at) + at = k
          /\ (k - at) + (at + Len(block)) \in 1..Len(new)
      BY <1>1, <1>2, <1>5, <2>3, <2>5
    <3>2. new[(k - at) + (at + Len(block))] = x
      BY <1>3, <1>5, <2>2, <3>1
    <3> QED BY <1>5, <3>1, <3>2
  <2> QED BY <1>1, <1>2, <2>3, <2>4, <2>5
<1> QED BY <1>4, <1>5, <1>6, <1>7

-----------------------------------------------------------------------------
(* Sound sheets. *)

CueMaps == {c \in UNION {[D -> CueRec] : D \in SUBSET Cues} : GoodCues(c)}
GroupMaps == {g \in UNION {[D -> GroupRec] : D \in SUBSET (Nat \ {0})} : GoodGroups(g)}
Fields == [cue : CueMaps, group : GroupMaps, anchor : Int, set : SUBSET Int]
Members(c, g) == \A x \in DOMAIN c : c[x].parent \in {0} \cup DOMAIN g

\* The sheets whose references are sound.
Sound == {s \in Fields : Members(s.cue, s.group) /\ Tree(s)}

Sh(c, g, a, e) == [cue |-> c, group |-> g, anchor |-> a, set |-> e]

\* The groups g are some of those of h, under the same group or none.
Kin(h, g) ==
  /\ DOMAIN g \subseteq DOMAIN h
  /\ \A x \in DOMAIN g : g[x].up \in {0} \cup DOMAIN g /\ (g[x].up = h[x].up \/ g[x].up = 0)

\* A record with these four fields is this sheet.
LEMMA OneSheet ==
  ASSUME NEW c, NEW g, NEW a, NEW e, NEW t \in [cue : {c}, group : {g}, anchor : {a}, set : {e}]
  PROVE  t = Sh(c, g, a, e)
BY DEF Sh

\* The sets of cue and group maps are those whose records are good.
LEMMA Maps ==
  /\ \A c : GoodCues(c) <=> c \in CueMaps
  /\ \A g : GoodGroups(g) <=> g \in GroupMaps
<1>1. \A c : GoodCues(c) => c \in CueMaps
  BY DEF GoodCues, CueMaps
<1>2. \A g : GoodGroups(g) => g \in GroupMaps
  BY DEF GoodGroups, GroupMaps
<1> QED BY <1>1, <1>2 DEF CueMaps, GroupMaps

\* What a sound sheet consists of.
LEMMA SoundParts ==
  ASSUME NEW s \in Sound
  PROVE  /\ s = Sh(s.cue, s.group, s.anchor, s.set) /\ GoodRows(s)
         /\ GoodCues(s.cue) /\ GoodGroups(s.group) /\ s.anchor \in Int /\ s.set \in SUBSET Int
         /\ Members(s.cue, s.group) /\ Tree(s)
<1>1. s \in Fields /\ Members(s.cue, s.group) /\ Tree(s)
  BY DEF Sound
<1>2. s = Sh(s.cue, s.group, s.anchor, s.set)
  BY <1>1 DEF Fields, Sh
<1>3. s.cue \in CueMaps /\ s.group \in GroupMaps /\ s.anchor \in Int /\ s.set \in SUBSET Int
  BY <1>1 DEF Fields
<1> QED BY <1>1, <1>2, <1>3, Maps DEF GoodRows

\* How a sheet is shown to be sound, in general ...
LEMMA IsSound ==
  ASSUME NEW c, NEW g, NEW a \in Int, NEW e \in SUBSET Int, GoodCues(c), GoodGroups(g), Members(c, g),
         Tree(Sh(c, g, a, e))
  PROVE  Sh(c, g, a, e) \in Sound
<1>1. c \in CueMaps /\ g \in GroupMaps
  BY Maps
<1>2. Sh(c, g, a, e) \in Fields /\ Sh(c, g, a, e).cue = c /\ Sh(c, g, a, e).group = g
  BY <1>1 DEF Sh, Fields
<1> HIDE DEF Sh
<1> QED BY <1>2 DEF Sound

\* ... and when its groups are some of those of a sound one.
LEMMA MakeSound ==
  ASSUME NEW s \in Sound, NEW c, NEW g, NEW a \in Int, NEW e \in SUBSET Int,
         GoodCues(c), GoodGroups(g), Members(c, g), Kin(s.group, g)
  PROVE  Sh(c, g, a, e) \in Sound
<1> DEFINE t == Sh(c, g, a, e)
<1>1. t.group = g
  BY DEF Sh
<1>2. IsFiniteSet(DOMAIN s.group) /\ Tree(s) /\ DOMAIN s.group \subseteq Nat \ {0}
  BY SoundParts DEF GoodGroups
<1>3. DOMAIN t.group \subseteq DOMAIN s.group
  BY <1>1 DEF Kin
<1>4. \A h \in DOMAIN t.group : t.group[h].up \in {0} \cup DOMAIN t.group /\ Up(t, h) \subseteq Up(s, h)
  BY <1>1, <1>2 DEF Kin, Up
<1> HIDE DEF t
<1>5. Tree(t)
  BY <1>2, <1>3, <1>4, TreeShrinks
<1> QED BY <1>5, IsSound DEF t

\* The groups of a sound sheet are kin to themselves.
LEMMA KinItself == ASSUME NEW s \in Sound PROVE Kin(s.group, s.group)
  BY SoundParts DEF Kin, Tree

\* Only the cues, or only the selection, of a sheet change.
LEMMA NewCuesSound ==
  ASSUME NEW s \in Sound, NEW c, GoodCues(c), Members(c, s.group)
  PROVE  Sh(c, s.group, s.anchor, s.set) \in Sound /\ [s EXCEPT !.cue = c] = Sh(c, s.group, s.anchor, s.set)
<1>1. Sh(c, s.group, s.anchor, s.set) \in Sound
  BY SoundParts, KinItself, MakeSound
<1>2. [s EXCEPT !.cue = c] = Sh(c, s.group, s.anchor, s.set)
  BY DEF Sound, Fields, Sh
<1> QED BY <1>1, <1>2

\* The selection is any integers: a stale one is not a dangling reference.
LEMMA SelectionSound ==
  ASSUME NEW s \in Sound, NEW a \in Int, NEW e \in SUBSET Int
  PROVE  /\ [s EXCEPT !.anchor = a, !.set = e] \in Sound /\ [s EXCEPT !.anchor = a] \in Sound
         /\ [s EXCEPT !.set = e] \in Sound
         /\ [s EXCEPT !.anchor = a, !.set = e] = Sh(s.cue, s.group, a, e)
         /\ [s EXCEPT !.anchor = a] = Sh(s.cue, s.group, a, s.set)
         /\ [s EXCEPT !.set = e] = Sh(s.cue, s.group, s.anchor, e)
<1>1. /\ [s EXCEPT !.anchor = a, !.set = e] = Sh(s.cue, s.group, a, e)
      /\ [s EXCEPT !.anchor = a] = Sh(s.cue, s.group, a, s.set)
      /\ [s EXCEPT !.set = e] = Sh(s.cue, s.group, s.anchor, e)
  <2>0. s \in [cue : CueMaps, group : GroupMaps, anchor : Int, set : SUBSET Int]
    BY DEF Sound, Fields
  <2>1. [s EXCEPT !.anchor = a, !.set = e] = Sh(s.cue, s.group, a, e)
    <3>1. [s EXCEPT !.anchor = a, !.set = e] \in [cue : {s.cue}, group : {s.group}, anchor : {a}, set : {e}]
      BY <2>0
    <3> QED BY <3>1, OneSheet
  <2>2. [s EXCEPT !.anchor = a] = Sh(s.cue, s.group, a, s.set)
    BY <2>0 DEF Sh
  <2>3. [s EXCEPT !.set = e] = Sh(s.cue, s.group, s.anchor, e)
    BY <2>0 DEF Sh
  <2> QED BY <2>1, <2>2, <2>3
<1>2. /\ Sh(s.cue, s.group, a, e) \in Sound /\ Sh(s.cue, s.group, a, s.set) \in Sound
      /\ Sh(s.cue, s.group, s.anchor, e) \in Sound
  BY SoundParts, KinItself, MakeSound
<1> QED BY <1>1, <1>2

\* ExpandGroup, SetGroupCollapsed false: a flag of one group.
LEMMA ExpandSound ==
  ASSUME NEW s \in Sound, NEW g
  PROVE  /\ ExpandGroup(s, g) \in Sound
         /\ ExpandGroup(s, g).cue = s.cue /\ DOMAIN ExpandGroup(s, g).group = DOMAIN s.group
         /\ \A h \in DOMAIN s.group : /\ ExpandGroup(s, g).group[h].up = s.group[h].up
                                      /\ ExpandGroup(s, g).group[h].idx = s.group[h].idx
         /\ ExpandGroup(s, g).anchor = s.anchor /\ ExpandGroup(s, g).set = s.set
<1>1. CASE g = 0
  BY <1>1 DEF ExpandGroup
<1>2. CASE g # 0
  <2> DEFINE new == [s.group EXCEPT ![g].collapse = FALSE]
             t == Sh(s.cue, new, s.anchor, s.set)
  <2>1. ExpandGroup(s, g) = t
    BY <1>2 DEF ExpandGroup, Sound, Fields, Sh
  <2>2. GoodGroups(s.group) /\ Tree(s) /\ Members(s.cue, s.group)
    BY SoundParts
  <2>3. /\ DOMAIN new = DOMAIN s.group
        /\ \A h \in DOMAIN new : new[h] \in GroupRec /\ new[h].up = s.group[h].up /\ new[h].idx = s.group[h].idx
    BY <2>2 DEF GoodGroups, GroupRec
  <2>4. new \in [DOMAIN new -> GroupRec]
    <3>1. new = [h \in DOMAIN new |-> new[h]]
      OBVIOUS
    <3> HIDE DEF new
    <3> QED BY <2>3, <3>1
  <2> HIDE DEF new
  <2>5. GoodGroups(new) /\ Kin(s.group, new) /\ Members(s.cue, new)
    BY <2>2, <2>3, <2>4 DEF GoodGroups, Kin, Members, Tree
  <2>6. t \in Sound
    BY <2>5, SoundParts, MakeSound
  <2>7. t.cue = s.cue /\ t.group = new /\ t.anchor = s.anchor /\ t.set = s.set
    BY DEF Sh
  <2> HIDE DEF t
  <2> QED BY <2>1, <2>3, <2>6, <2>7
<1> QED BY <1>1, <1>2

-----------------------------------------------------------------------------
(* Storing an order. *)

\* A sequence that has every row of the sheet.
Covers(q, s) == (\E S : q \in Seq(S)) /\ \A r \in Rows(s) : \E i \in DOMAIN q : q[i] = r

\* The place of a row that is in the sequence, with its type.
LEMMA AtIsPlace ==
  ASSUME NEW q, NEW S, q \in Seq(S), NEW r, \E i \in DOMAIN q : q[i] = r
  PROVE  At(q, r) \in DOMAIN q /\ At(q, r) \in 1..Len(q) /\ q[At(q, r)] = r /\ At(q, r) \in Nat \ {0}
<1>1. At(q, r) \in DOMAIN q /\ q[At(q, r)] = r
  BY AtIsIndex
<1> QED BY <1>1

\* The orders of a sound sheet list its rows, each once.
LEMMA SequenceCovers ==
  ASSUME CueSheetAssumption, NEW s \in Sound
  PROVE  /\ Lists(LoadSequence(s), Rows(s)) /\ Lists(Items(s), Rows(s)) /\ Lists(CueOrder(s), DOMAIN s.cue)
         /\ Covers(LoadSequence(s), s)
<1>1. GoodRows(s) /\ Rows(s) \in SUBSET Rows(s) /\ DOMAIN s.cue \in SUBSET Rows(s)
  BY SoundParts DEF Rows
<1>2. Lists(LoadSequence(s), Rows(s))
  BY <1>1, OrderedLists DEF LoadSequence
<1>3. Lists(Items(s), Rows(s))
  BY <1>1, OrderedLists DEF Items
<1>4. Lists(CueOrder(s), DOMAIN s.cue)
  BY <1>1, OrderedLists DEF CueOrder
<1> QED BY <1>2, <1>3, <1>4 DEF Lists, Covers

\* Cues that differ from those of a sheet in index and parent only.
LEMMA ReseatedCues ==
  ASSUME NEW c, GoodCues(c), NEW d, d = [x \in DOMAIN c |-> d[x]],
         \A x \in DOMAIN c : d[x] \in CueRec /\ d[x].pos = c[x].pos
  PROVE  GoodCues(d)
<1>1. DOMAIN d = DOMAIN c /\ d \in [DOMAIN c -> CueRec]
  BY Zenon
<1> QED BY <1>1 DEF GoodCues

\* applyOrder writes indexes to all rows and parents that are groups: it stays sound.
LEMMA ApplyOrderSound ==
  ASSUME CueSheetAssumption, NEW s \in Sound, NEW seq, Covers(seq, s), NEW parents,
         \A c \in DOMAIN s.cue : parents[c] \in {0} \cup DOMAIN s.group
  PROVE  /\ ApplyOrder(s, seq, parents) \in Sound
         /\ DOMAIN ApplyOrder(s, seq, parents).cue = DOMAIN s.cue
         /\ ApplyOrder(s, seq, parents).anchor = s.anchor
<1> DEFINE c == [x \in DOMAIN s.cue |-> [s.cue[x] EXCEPT !.idx = (At(seq, x) - 1) * Step, !.parent = parents[x]]]
           g == [x \in DOMAIN s.group |-> [s.group[x] EXCEPT !.idx = (At(seq, x) - 1) * Step]]
           t == Sh(c, g, s.anchor, s.set)
<1>1. ApplyOrder(s, seq, parents) = t
  <2>1. s \in [cue : CueMaps, group : GroupMaps, anchor : Int, set : SUBSET Int]
    BY DEF Sound, Fields
  <2>2. ApplyOrder(s, seq, parents) = [s EXCEPT !.cue = c, !.group = g]
    BY DEF ApplyOrder
  <2> HIDE DEF c, g
  <2>3. [s EXCEPT !.cue = c, !.group = g] \in [cue : {c}, group : {g}, anchor : {s.anchor}, set : {s.set}]
    BY <2>1
  <2> QED BY <2>2, <2>3, OneSheet
<1>2. \A r \in Rows(s) : (At(seq, r) - 1) * Step \in Int
  <2> TAKE r \in Rows(s)
  <2>1. At(seq, r) \in Nat
    BY AtIsPlace DEF Covers
  <2>2. Step \in Nat
    BY DEF CueSheetAssumption
  <2> QED BY <2>1, <2>2
<1>3. GoodCues(s.cue) /\ GoodGroups(s.group) /\ Tree(s)
  BY SoundParts
<1>4. \A x \in DOMAIN s.cue : c[x] \in CueRec /\ c[x].pos = s.cue[x].pos /\ c[x].parent = parents[x]
  <2> TAKE x \in DOMAIN s.cue
  <2>1. s.cue[x] \in CueRec /\ x \in Rows(s) /\ parents[x] \in Nat
    BY <1>3 DEF GoodCues, GoodGroups, Rows
  <2>2. (At(seq, x) - 1) * Step \in Int
    BY <2>1, <1>2
  <2> QED BY <2>1, <2>2 DEF CueRec
<1>5. \A x \in DOMAIN s.group : g[x] \in GroupRec /\ g[x].up = s.group[x].up
  <2> TAKE x \in DOMAIN s.group
  <2>1. s.group[x] \in GroupRec /\ x \in Rows(s)
    BY <1>3 DEF GoodGroups, Rows
  <2>2. (At(seq, x) - 1) * Step \in Int
    BY <2>1, <1>2
  <2> QED BY <2>1, <2>2 DEF GroupRec
<1>6. c = [x \in DOMAIN s.cue |-> c[x]] /\ g = [x \in DOMAIN s.group |-> g[x]]
      /\ DOMAIN c = DOMAIN s.cue /\ DOMAIN g = DOMAIN s.group
  OBVIOUS
<1> HIDE DEF c, g
<1>7. GoodCues(c) /\ Members(c, g)
  BY <1>3, <1>4, <1>6, ReseatedCues DEF Members
<1>8. GoodGroups(g) /\ Kin(s.group, g)
  <2>1. g \in [DOMAIN s.group -> GroupRec]
    BY <1>5, <1>6
  <2> QED BY <2>1, <1>3, <1>5, <1>6 DEF GoodGroups, Kin, Tree
<1>9. t \in Sound
  BY <1>7, <1>8, SoundParts, MakeSound
<1> QED BY <1>1, <1>6, <1>9 DEF Sh

\* The parents applyOrder is given are none or groups.
LEMMA ParentsStored ==
  ASSUME NEW s \in Sound, NEW cues, NEW p \in {0} \cup DOMAIN s.group
  PROVE  \A c \in DOMAIN s.cue : /\ StoredParents(s)[c] \in {0} \cup DOMAIN s.group
                                 /\ Parented(s, cues, p)[c] \in {0} \cup DOMAIN s.group
BY SoundParts DEF StoredParents, Parented, Members

\* Renumbering gives 1..N in the order of the sheet: no two cues at one position.
LEMMA RenumberedSound ==
  ASSUME CueSheetAssumption, NEW s \in Sound
  PROVE  /\ Renumbered(s) \in Sound /\ DOMAIN Renumbered(s).cue = DOMAIN s.cue
         /\ Renumbered(s).anchor = s.anchor
<1> DEFINE q == CueOrder(s)
           c == [x \in DOMAIN s.cue |-> [s.cue[x] EXCEPT !.pos = At(q, x)]]
<1>1. Renumbered(s) = [s EXCEPT !.cue = c]
  BY DEF Renumbered
<1>2. Lists(q, DOMAIN s.cue)
  BY SequenceCovers
<1> HIDE DEF q
<1>3. \A x \in DOMAIN s.cue : At(q, x) \in Nat \ {0} /\ q[At(q, x)] = x
  BY <1>2, AtIsPlace DEF Lists
<1>4. GoodCues(s.cue) /\ Members(s.cue, s.group)
  BY SoundParts
<1>5. \A x \in DOMAIN s.cue : c[x] \in CueRec /\ c[x].pos = At(q, x) /\ c[x].parent = s.cue[x].parent
  <2> TAKE x \in DOMAIN s.cue
  <2>1. s.cue[x] \in CueRec
    BY <1>4 DEF GoodCues
  <2> QED BY <2>1, <1>3 DEF CueRec
<1>6. c = [x \in DOMAIN s.cue |-> c[x]] /\ DOMAIN c = DOMAIN s.cue
  OBVIOUS
<1> HIDE DEF c
<1>7. c \in [DOMAIN c -> CueRec]
  BY <1>5, <1>6
<1>8. \A x, y \in DOMAIN c : c[x].pos = c[y].pos => x = y
  <2> TAKE x, y \in DOMAIN c
  <2> HAVE c[x].pos = c[y].pos
  <2>1. At(q, x) = At(q, y) /\ q[At(q, x)] = x /\ q[At(q, y)] = y
    BY <1>3, <1>5, <1>6
  <2> HIDE DEF c, q
  <2> QED BY <2>1, Zenon
<1>9. GoodCues(c) /\ Members(c, s.group)
  BY <1>4, <1>5, <1>6, <1>7, <1>8 DEF GoodCues, Members
<1>10. Sh(c, s.group, s.anchor, s.set) \in Sound /\ Renumbered(s) = Sh(c, s.group, s.anchor, s.set)
  BY <1>1, <1>9, NewCuesSound
<1> QED BY <1>6, <1>10 DEF Sh

\* The selection is remapped to a position or to none.
LEMMA OldToNewIsPosition ==
  ASSUME CueSheetAssumption, NEW s \in Sound, NEW p
  PROVE  OldToNew(s, p) \in Int
<1>1. CASE Named(s, p) = {}
  BY <1>1 DEF OldToNew
<1>2. CASE Named(s, p) # {}
  <2> DEFINE c == CHOOSE x \in Named(s, p) : TRUE
  <2>1. c \in DOMAIN s.cue
    BY <1>2 DEF Named
  <2>2. At(CueOrder(s), c) \in Nat
    <3> HIDE DEF c
    <3> QED BY <2>1, SequenceCovers, AtIsPlace DEF Lists
  <2> QED BY <1>2, <2>2 DEF OldToNew
<1> QED BY <1>1, <1>2

\* Rows of cues that go leave the rest as it is.
LEMMA WithoutSound ==
  ASSUME NEW s \in Sound, NEW cues
  PROVE  /\ Without(s, cues) \in Sound /\ DOMAIN Without(s, cues).cue = DOMAIN s.cue \ cues
         /\ \A x \in DOMAIN s.cue \ cues : Without(s, cues).cue[x] = s.cue[x]
         /\ Without(s, cues).group = s.group /\ Without(s, cues).anchor = s.anchor /\ Without(s, cues).set = s.set
<1> DEFINE c == [x \in DOMAIN s.cue \ cues |-> s.cue[x]]
<1>1. Without(s, cues) = [s EXCEPT !.cue = c]
  BY DEF Without, Restrict
<1>2. GoodCues(c) /\ Members(c, s.group)
  BY SoundParts DEF GoodCues, Members
<1>3. DOMAIN c = DOMAIN s.cue \ cues /\ \A x \in DOMAIN s.cue \ cues : c[x] = s.cue[x]
  OBVIOUS
<1> HIDE DEF c
<1>4. Sh(c, s.group, s.anchor, s.set) \in Sound /\ Without(s, cues) = Sh(c, s.group, s.anchor, s.set)
  BY <1>1, <1>2, NewCuesSound
<1> QED BY <1>3, <1>4 DEF Sh

-----------------------------------------------------------------------------
(* Healing groups that were torn apart. *)

Heal(t, seq) ==
  [t EXCEPT !.cue = [c \in DOMAIN t.cue |->
     [t.cue[c] EXCEPT !.parent = IF c \in Separated(t, seq) THEN 0 ELSE @]]]

\* One pass over the separated cues only takes parents away.
LEMMA HealOnce ==
  ASSUME NEW t \in Sound, NEW seq
  PROVE  /\ Heal(t, seq) \in Sound /\ DOMAIN Heal(t, seq).cue = DOMAIN t.cue /\ Heal(t, seq).anchor = t.anchor
<1> DEFINE c == [x \in DOMAIN t.cue |-> [t.cue[x] EXCEPT !.parent = IF x \in Separated(t, seq) THEN 0 ELSE @]]
<1>1. Heal(t, seq) = [t EXCEPT !.cue = c]
  BY DEF Heal
<1>2. GoodCues(t.cue) /\ Members(t.cue, t.group)
  BY SoundParts
<1>3. \A x \in DOMAIN t.cue : c[x] \in CueRec /\ c[x].pos = t.cue[x].pos /\ c[x].parent \in {0, t.cue[x].parent}
  <2> TAKE x \in DOMAIN t.cue
  <2>1. t.cue[x] \in CueRec
    BY <1>2 DEF GoodCues
  <2> QED BY <2>1 DEF CueRec
<1>4. c = [x \in DOMAIN t.cue |-> c[x]] /\ DOMAIN c = DOMAIN t.cue
  OBVIOUS
<1> HIDE DEF c
<1>5. GoodCues(c) /\ Members(c, t.group)
  BY <1>2, <1>3, <1>4, ReseatedCues DEF Members
<1>6. Sh(c, t.group, t.anchor, t.set) \in Sound /\ Heal(t, seq) = Sh(c, t.group, t.anchor, t.set)
  BY <1>1, <1>5, NewCuesSound
<1> QED BY <1>4, <1>6 DEF Sh

\* The first i elements are i and the i - 1 before it.
LEMMA PrefixFold ==
  ASSUME NEW n \in Nat, NEW i \in 1..n
  PROVE  1..i \in SUBSET (1..n) /\ 1..i # {} /\ Max(1..i) = i /\ (1..i) \ {i} = 1..(i - 1)
<1>1. 1..i \in SUBSET (1..n) /\ 1..i # {} /\ IsFiniteSet(1..i) /\ 1..i \subseteq Int
  <2>1. 1 \in Int /\ i \in Int
    OBVIOUS
  <2>2. IsFiniteSet(1..i)
    BY <2>1, FS_Interval
  <2> QED BY <2>2
<1>2. Max(1..i) \in 1..i /\ \A y \in 1..i : y <= Max(1..i)
  BY <1>1, FiniteExtremes
<1>3. Max(1..i) = i
  BY <1>2
<1> QED BY <1>1, <1>3

\* healSeparated: as many passes as it makes.
LEMMA HealSound ==
  ASSUME NEW s \in Sound, NEW S, NEW seq \in Seq(S)
  PROVE  /\ HealSeparated(s, seq) \in Sound
         /\ DOMAIN HealSeparated(s, seq).cue = DOMAIN s.cue /\ HealSeparated(s, seq).anchor = s.anchor
<1> DEFINE n == Len(seq)
           X == {t \in Sound : DOMAIN t.cue = DOMAIN s.cue /\ t.anchor = s.anchor}
           W(g) == g = [z \in SUBSET DOMAIN seq |-> IF z = {} THEN s ELSE Heal(g[z \ {Max(z)}], seq)]
           step == [p \in (1..n) \X X |-> Heal(p[2], seq)]
           iter == CHOOSE g : W(g)
<1>0. n \in Nat /\ DOMAIN seq = 1..n /\ s \in X
  OBVIOUS
<1>1. HealSeparated(s, seq) = iter[DOMAIN seq]
  BY Zenon DEF HealSeparated, FoldLeft, MapThenFoldSet, Heal
<1>2. \A t \in X : Heal(t, seq) \in X
  BY HealOnce
<1> HIDE DEF X
<1>3. step \in [(1..n) \X X -> X]
  BY <1>2
<1>4. PICK f : FoldOf(f, n, X, s, step)
  <2> HIDE DEF step, n
  <2> QED BY <1>0, <1>3, FoldExists
<1>6. W(f)
  <2>1. \A z \in SUBSET (1..n) : f[z] = IF z = {} THEN s ELSE Heal(f[z \ {Max(z)}], seq)
    BY <1>4 DEF FoldOf
  <2> HIDE DEF step
  <2> QED BY <1>0, <1>4, <2>1 DEF FoldOf
<1>7. W(iter)
  <2> HIDE DEF W
  <2> QED BY <1>6, Zenon
<1> HIDE DEF iter
<1>8. \A z \in SUBSET (1..n) : iter[z] = IF z = {} THEN s ELSE Heal(iter[z \ {Max(z)}], seq)
  BY <1>0, <1>7
<1> DEFINE Stage == [i \in 0..n |-> X]
<1>9. iter[1..n] \in Stage[n]
  <2>1. iter[1..0] \in Stage[0]
    <3>1. 1..0 = {} /\ {} \in SUBSET (1..n) /\ 0 \in 0..n
      BY <1>0
    <3>2. iter[{}] = s
      BY <3>1, <1>8
    <3> HIDE DEF iter, n
    <3> QED BY <3>1, <3>2, <1>0
  <2>2. \A i \in 1..n : iter[1..(i - 1)] \in Stage[i - 1] => iter[1..i] \in Stage[i]
    <3> TAKE i \in 1..n
    <3> HAVE iter[1..(i - 1)] \in Stage[i - 1]
    <3>1. 1..i \in SUBSET (1..n) /\ 1..i # {} /\ Max(1..i) = i /\ (1..i) \ {i} = 1..(i - 1)
      BY <1>0, PrefixFold
    <3>2. iter[1..i] = Heal(iter[(1..i) \ {Max(1..i)}], seq)
      BY <3>1, <1>8
    <3>3. i \in 0..n /\ i - 1 \in 0..n
      BY <1>0
    <3>4. iter[1..(i - 1)] \in X
      BY <3>3
    <3>5. iter[1..i] = Heal(iter[1..(i - 1)], seq)
      BY <3>1, <3>2, Zenon
    <3> QED BY <3>3, <3>4, <3>5, <1>2
  <2> HIDE DEF Stage, X, n
  <2> QED BY <1>0, <2>1, <2>2, PrefixIn
<1> QED BY <1>0, <1>1, <1>9 DEF X

-----------------------------------------------------------------------------
(* Removing. *)

\* SetSelected replaces the selection.
LEMMA SetSelectedSound ==
  ASSUME NEW s \in Sound, NEW id \in Int
  PROVE  /\ SetSelected(s, id) \in Sound /\ SetSelected(s, id) = Sh(s.cue, s.group, id, {})
         /\ SetSelected(s, id).cue = s.cue /\ SetSelected(s, id).group = s.group
<1>1. {} \in SUBSET Int
  OBVIOUS
<1>2. SetSelected(s, id) = [s EXCEPT !.anchor = id, !.set = {}]
  BY DEF SetSelected
<1>3. SetSelected(s, id) = Sh(s.cue, s.group, id, {})
  <2>1. s \in [cue : CueMaps, group : GroupMaps, anchor : Int, set : SUBSET Int]
    BY DEF Sound, Fields
  <2>2. [s EXCEPT !.anchor = id, !.set = {}] \in [cue : {s.cue}, group : {s.group}, anchor : {id}, set : {{}}]
    BY <2>1
  <2> QED BY <1>2, <2>2, OneSheet
<1>4. Sh(s.cue, s.group, id, {}) \in Sound
  BY <1>1, SoundParts, KinItself, MakeSound
<1> QED BY <1>3, <1>4 DEF Sh

\* ReorderCues: order, heal, renumber, remap the selection.
LEMMA ReorderSound ==
  ASSUME CueSheetAssumption, NEW s \in Sound
  PROVE  ReorderCues(s) \in Sound
<1> DEFINE seq == LoadSequence(s)
           placed == ApplyOrder(s, seq, StoredParents(s))
           healed == HealSeparated(placed, seq)
           new == Renumbered(healed)
<1>1. seq \in Seq(Rows(s)) /\ Covers(seq, s)
  BY SequenceCovers DEF Lists
<1>2. \A c \in DOMAIN s.cue : StoredParents(s)[c] \in {0} \cup DOMAIN s.group
  BY ParentsStored
<1> HIDE DEF seq
<1>3. placed \in Sound
  BY <1>1, <1>2, ApplyOrderSound
<1> HIDE DEF placed
<1>4. healed \in Sound
  BY <1>1, <1>3, HealSound
<1> HIDE DEF healed
<1>5. new \in Sound
  BY <1>4, RenumberedSound
<1>6. OldToNew(healed, s.anchor) \in Int
  BY <1>4, OldToNewIsPosition
<1> HIDE DEF new
<1>7. SetSelected(new, OldToNew(healed, s.anchor)) \in Sound
  BY <1>5, <1>6, SetSelectedSound
<1>8. ReorderCues(s) \in {s, new, SetSelected(new, OldToNew(healed, s.anchor))}
  BY DEF ReorderCues, new, healed, placed, seq
<1> QED BY <1>5, <1>7, <1>8

\* RemoveCue: the rest is renumbered, the selection follows or goes.
LEMMA RemoveSound ==
  ASSUME CueSheetAssumption, NEW s \in Sound, NEW c
  PROVE  RemoveCue(s, c) \in Sound
<1> DEFINE rest == Without(s, {c})
           new == Renumbered(rest)
           id == IF new.anchor = s.cue[c].pos THEN 0 ELSE OldToNew(rest, new.anchor)
<1>1. rest \in Sound
  BY WithoutSound
<1> HIDE DEF rest
<1>2. new \in Sound
  BY <1>1, RenumberedSound
<1> HIDE DEF new
<1>3. id \in Int
  BY <1>1, OldToNewIsPosition
<1>4. RemoveCue(s, c) = [new EXCEPT !.anchor = id]
  BY DEF RemoveCue, new, rest
<1> HIDE DEF id
<1>5. [new EXCEPT !.anchor = id] \in Sound
  BY <1>2, <1>3, SelectionSound
<1> QED BY <1>4, <1>5

\* Some of the rows of a sheet, as they are.
Fewer(s, t) ==
  /\ \A x \in DOMAIN t.cue : x \in DOMAIN s.cue /\ t.cue[x] = s.cue[x]
  /\ \A x \in DOMAIN t.group : x \in DOMAIN s.group /\ t.group[x] = s.group[x]

\* Deleting a group with what is below it leaves no cue and no group in it.
LEMMA SpanCuts ==
  ASSUME CueSheetAssumption, NEW s \in Sound, NEW g
  PROVE  \E t \in Sound : Fewer(s, t) /\ DeleteGroupWithCues(s, g) = ReorderCues(t)
<1> DEFINE gone == {g} \cup (IF IsGroup(s, g) THEN Below(s, g) ELSE {})
           cues == {c \in DOMAIN s.cue : s.cue[c].parent \in gone}
           rest == Without(s, cues)
           left == [h \in DOMAIN s.group \ gone |-> s.group[h]]
           id == IF s.anchor = -g THEN 0 ELSE s.anchor
           new == [rest EXCEPT !.group = left, !.anchor = id, !.set = {}]
<1>1. /\ rest \in Sound /\ DOMAIN rest.cue = DOMAIN s.cue \ cues
      /\ \A x \in DOMAIN s.cue \ cues : rest.cue[x] = s.cue[x]
      /\ rest.group = s.group /\ rest.anchor = s.anchor /\ rest.set = s.set
  <2> HIDE DEF cues
  <2> QED BY WithoutSound
<1>2. GoodGroups(s.group) /\ Members(s.cue, s.group) /\ Tree(s) /\ s.anchor \in Int /\ GoodCues(rest.cue)
  BY <1>1, SoundParts
<1>3. DeleteGroupWithCues(s, g) = ReorderCues(new)
  <2>1. [rest EXCEPT !.group = Restrict(@, DOMAIN @ \ gone), !.anchor = IF @ = -g THEN 0 ELSE @, !.set = {}]
          = new
    <3>1. Restrict(rest.group, DOMAIN rest.group \ gone) = left /\ (IF rest.anchor = -g THEN 0 ELSE rest.anchor) = id
      <4> HIDE DEF rest, gone
      <4> QED BY <1>1 DEF Restrict
    <3> HIDE DEF rest, gone, left, id
    <3> QED BY <3>1
  <2> HIDE DEF new
  <2> QED BY <2>1, Zenon DEF DeleteGroupWithCues, rest, cues, gone
<1> HIDE DEF rest
<1>4. left = [h \in DOMAIN left |-> left[h]] /\ DOMAIN left = DOMAIN s.group \ gone
      /\ \A h \in DOMAIN left : left[h] = s.group[h]
  OBVIOUS
<1>5. \A h \in DOMAIN left : s.group[h].up \in {0} \cup DOMAIN left
  <2> TAKE h \in DOMAIN left
  <2>1. h \in DOMAIN s.group /\ h \notin gone /\ s.group[h].up \in {0} \cup DOMAIN s.group
    BY <1>2 DEF Tree
  <2>2. ASSUME s.group[h].up \in gone, s.group[h].up \in DOMAIN s.group PROVE FALSE
    <3> DEFINE u == s.group[h].up
    <3>1. IsFiniteSet(DOMAIN s.group)
      BY <1>2 DEF GoodGroups
    <3>2. u \in Above(s, h)
      BY <2>1, <2>2, <3>1, AboveIsLeast DEF Up
    <3>3. CASE u = g
      BY <2>1, <2>2, <3>2, <3>3 DEF Below, IsGroup
    <3>4. CASE IsGroup(s, g) /\ u \in Below(s, g)
      <4>1. g \in Above(s, u)
        BY <3>4 DEF Below
      <4>2. Closed(s, Above(s, h)) /\ Up(s, u) \subseteq Above(s, h)
        BY <3>1, <3>2, AboveIsLeast DEF Closed
      <4>3. Above(s, u) \subseteq Above(s, h)
        BY <3>1, <4>2, AboveIsLeast
      <4>4. h \in Below(s, g)
        BY <4>1, <4>3, <2>1 DEF Below
      <4> QED BY <4>4, <3>4, <2>1
    <3> QED BY <3>3, <3>4, <2>2
  <2> QED BY <2>1, <2>2
<1> HIDE DEF left
<1>6. GoodGroups(left) /\ Kin(s.group, left)
  <2>1. left \in [DOMAIN left -> GroupRec]
    BY <1>2, <1>4 DEF GoodGroups
  <2>2. IsFiniteSet(DOMAIN left)
    BY <1>2, <1>4, FS_Subset DEF GoodGroups
  <2> QED BY <1>2, <1>4, <1>5, <2>1, <2>2 DEF GoodGroups, Kin
<1>7. Members(rest.cue, left)
  <2> SUFFICES ASSUME NEW x \in DOMAIN rest.cue PROVE rest.cue[x].parent \in {0} \cup DOMAIN left
    BY DEF Members
  <2>1. x \in DOMAIN s.cue /\ x \notin cues /\ rest.cue[x] = s.cue[x]
    BY <1>1
  <2>2. s.cue[x].parent \in {0} \cup DOMAIN s.group /\ s.cue[x].parent \notin gone
    BY <2>1, <1>2 DEF Members
  <2> QED BY <2>1, <2>2, <1>4
<1>8. id \in Int /\ {} \in SUBSET Int
  BY <1>2
<1> HIDE DEF id, gone, cues
<1>9. new = Sh(rest.cue, left, id, {})
  <2>1. rest \in [cue : CueMaps, group : GroupMaps, anchor : Int, set : SUBSET Int]
    BY <1>1 DEF Sound, Fields
  <2>2. new \in [cue : {rest.cue}, group : {left}, anchor : {id}, set : {{}}]
    BY <2>1
  <2> HIDE DEF new
  <2> QED BY <2>2, OneSheet
<1> HIDE DEF new
<1>10. new \in Sound
  BY <1>1, <1>2, <1>6, <1>7, <1>8, <1>9, MakeSound
<1>11. Fewer(s, new)
  <2>1. \A x \in DOMAIN rest.cue : x \in DOMAIN s.cue /\ rest.cue[x] = s.cue[x]
    BY <1>1
  <2>2. new.cue = rest.cue /\ new.group = left
    BY <1>9 DEF Sh
  <2> QED BY <1>4, <2>1, <2>2 DEF Fewer
<1> QED BY <1>3, <1>10, <1>11

\* ... and what is left is put in order.
LEMMA SpanSound ==
  ASSUME CueSheetAssumption, NEW s \in Sound, NEW g
  PROVE  DeleteGroupWithCues(s, g) \in Sound
BY SpanCuts, ReorderSound

-----------------------------------------------------------------------------
(* Adding. *)

Image(f, S) == {f[x] : x \in S}

\* The values of a function on a finite set are finitely many.
LEMMA ImageFinite ==
  ASSUME NEW S, IsFiniteSet(S), NEW f, DOMAIN f = S
  PROVE  IsFiniteSet(Image(f, S))
<1>1. Image(f, S) = {f[x] : x \in S}
  BY DEF Image
<1> DEFINE g == [x \in S |-> f[x]]
<1>2. g \in Surjection(S, Image(f, S))
  BY <1>1 DEF Surjection
<1> HIDE DEF g
<1> QED BY <1>2, FS_Surjection

\* The numbers that are handed out next are free.
LEMMA FieldBounds ==
  ASSUME CueSheetAssumption, NEW s \in Fields
  PROVE  /\ LastPos(s) \in Nat /\ LastPos(s) + 1 \in Nat \ {0}
         /\ \A c \in DOMAIN s.cue : s.cue[c].pos # LastPos(s) + 1
         /\ \A rows \in SUBSET Rows(s) : LastIndex(s, rows) \in Int
         /\ NextGroupId(s) \in Nat \ {0} /\ NextGroupId(s) \notin DOMAIN s.group
         /\ NextGroupId(s) - 1 \in {0} \cup DOMAIN s.group
         /\ \A g \in DOMAIN s.group : g < NextGroupId(s)
<1>0. GoodCues(s.cue) /\ GoodGroups(s.group) /\ GoodRows(s)
  <2>1. s.cue \in CueMaps /\ s.group \in GroupMaps
    BY DEF Fields
  <2> QED BY <2>1, Maps DEF GoodRows
<1>1. /\ IsFiniteSet(DOMAIN s.cue) /\ IsFiniteSet(Rows(s))
      /\ \A r \in Rows(s) : Index(s, r) \in Int
      /\ \A c \in DOMAIN s.cue : s.cue[c].pos \in Nat \ {0}
  BY <1>0, RowsAreTwoKinds
<1> DEFINE P == {s.cue[c].pos : c \in DOMAIN s.cue}
           Q == {0} \cup P
           G == {0} \cup DOMAIN s.group
<1>2. IsFiniteSet(Q) /\ Q \subseteq Nat /\ Q # {}
  <2>1. IsFiniteSet(P)
    <3> DEFINE f == [c \in DOMAIN s.cue |-> s.cue[c].pos]
    <3>1. P = Image(f, DOMAIN s.cue) /\ DOMAIN f = DOMAIN s.cue
      BY DEF Image
    <3> HIDE DEF f, P
    <3> QED BY <1>1, <3>1, ImageFinite
  <2>2. P \subseteq Nat
    BY <1>1
  <2> HIDE DEF P
  <2>3. IsFiniteSet({0})
    BY FS_Singleton
  <2>4. IsFiniteSet({0} \cup P)
    BY <2>1, <2>3, FS_Union
  <2> QED BY <2>2, <2>4
<1>3. Max(Q) \in Q /\ \A y \in Q : y <= Max(Q)
  <2> HIDE DEF Q
  <2>1. Q \subseteq Int
    BY <1>2
  <2> QED BY <1>2, <2>1, FiniteExtremes
<1>4. LastPos(s) = Max(Q)
  BY DEF LastPos
<1>5. \A c \in DOMAIN s.cue : s.cue[c].pos \in Q
  OBVIOUS
<1> HIDE DEF Q
<1>6. LastPos(s) \in Nat /\ \A c \in DOMAIN s.cue : s.cue[c].pos \in Nat /\ s.cue[c].pos <= LastPos(s)
  BY <1>1, <1>2, <1>3, <1>4, <1>5
<1>7. \A rows \in SUBSET Rows(s) : LastIndex(s, rows) \in Int
  <2> TAKE rows \in SUBSET Rows(s)
  <2> DEFINE I == {Index(s, r) : r \in rows}
  <2>1. CASE rows = {}
    BY <2>1 DEF LastIndex
  <2>2. CASE rows # {}
    <3>1. IsFiniteSet(rows)
      BY <1>1, FS_Subset
    <3>2. IsFiniteSet(I)
      <4> DEFINE f == [r \in rows |-> Index(s, r)]
      <4>1. I = Image(f, rows) /\ DOMAIN f = rows
        BY DEF Image
      <4> HIDE DEF f, I
      <4> QED BY <3>1, <4>1, ImageFinite
    <3>3. I \subseteq Int /\ I # {}
      BY <1>1, <2>2
    <3>4. LastIndex(s, rows) = Max(I)
      BY <2>2 DEF LastIndex
    <3> HIDE DEF I
    <3>5. Max(I) \in I
      BY <3>2, <3>3, FiniteExtremes
    <3> QED BY <3>3, <3>4, <3>5
  <2> QED BY <2>1, <2>2
<1>8. IsFiniteSet(G) /\ G \subseteq Nat /\ G # {}
  <2>1. IsFiniteSet({0}) /\ IsFiniteSet(DOMAIN s.group) /\ DOMAIN s.group \subseteq Nat
    BY <1>0, FS_Singleton DEF GoodGroups
  <2>2. IsFiniteSet({0} \cup DOMAIN s.group)
    BY <2>1, FS_Union
  <2> QED BY <2>1, <2>2
<1>9. NextGroupId(s) = Max(G) + 1 /\ \A g \in DOMAIN s.group : g \in G
  BY DEF NextGroupId
<1>15. G = {0} \cup DOMAIN s.group
  OBVIOUS
<1> HIDE DEF G
<1>10. Max(G) \in Nat /\ Max(G) \in G /\ \A g \in G : g <= Max(G) /\ g \in Nat
  <2>1. G \subseteq Int
    BY <1>8
  <2>2. Max(G) \in G /\ \A y \in G : y <= Max(G)
    BY <1>8, <2>1, FiniteExtremes
  <2> QED BY <1>8, <2>2
<1>11. /\ NextGroupId(s) \in Nat \ {0}
       /\ \A g \in DOMAIN s.group : g < NextGroupId(s) /\ g \in Nat
  BY <1>9, <1>10
<1>12. NextGroupId(s) \notin DOMAIN s.group
  <2> SUFFICES ASSUME NextGroupId(s) \in DOMAIN s.group PROVE FALSE
    OBVIOUS
  <2>1. NextGroupId(s) < NextGroupId(s) /\ NextGroupId(s) \in Nat
    BY <1>11
  <2> QED BY <2>1
<1>13. /\ LastPos(s) + 1 \in Nat \ {0}
       /\ \A c \in DOMAIN s.cue : s.cue[c].pos # LastPos(s) + 1
  BY <1>6
<1>14. NextGroupId(s) - 1 \in {0} \cup DOMAIN s.group
  <2>1. Max(G) \in {0} \cup DOMAIN s.group
    BY <1>10, <1>15
  <2> QED BY <1>9, <1>10, <2>1
<1> QED BY <1>6, <1>7, <1>11, <1>12, <1>13, <1>14

\* The same of a sound sheet.
LEMMA Bounds ==
  ASSUME CueSheetAssumption, NEW s \in Sound
  PROVE  /\ LastPos(s) \in Nat /\ LastPos(s) + 1 \in Nat \ {0}
         /\ \A c \in DOMAIN s.cue : s.cue[c].pos # LastPos(s) + 1
         /\ \A rows \in SUBSET Rows(s) : LastIndex(s, rows) \in Int
         /\ NextGroupId(s) \in Nat \ {0} /\ NextGroupId(s) \notin DOMAIN s.group
         /\ NextGroupId(s) - 1 \in {0} \cup DOMAIN s.group
         /\ \A g \in DOMAIN s.group : g < NextGroupId(s)
<1>1. s \in Fields
  BY DEF Sound
<1> QED BY <1>1, FieldBounds

\* A cue more, at a position nobody has.
LEMMA CueAdded ==
  ASSUME NEW c, GoodCues(c), NEW x \in Cues, NEW r \in CueRec,
         \A y \in DOMAIN c : c[y].pos # r.pos
  PROVE  /\ GoodCues(With(c, x, r)) /\ DOMAIN With(c, x, r) = DOMAIN c \cup {x}
         /\ \A y \in DOMAIN c \ {x} : With(c, x, r)[y] = c[y]
         /\ With(c, x, r)[x] = r
<1> DEFINE d == With(c, x, r)
<1>2. /\ d = [y \in DOMAIN d |-> d[y]] /\ DOMAIN d = DOMAIN c \cup {x}
      /\ \A y \in DOMAIN c \ {x} : d[y] = c[y]
      /\ d[x] = r
  BY DEF With
<1> HIDE DEF d
<1>3. \A y \in DOMAIN d : d[y] \in CueRec
  BY <1>2 DEF GoodCues
<1>4. d \in [DOMAIN d -> CueRec]
  BY <1>2, <1>3
<1>5. \A y, z \in DOMAIN d : d[y].pos = d[z].pos => y = z
  BY <1>2 DEF GoodCues
<1>6. GoodCues(d)
  BY <1>2, <1>4, <1>5 DEF GoodCues
<1> QED BY <1>2, <1>6 DEF d

\* A cue at the next position, in no group or a group of the sheet.
LEMMA AddSound ==
  ASSUME CueSheetAssumption, NEW s \in Sound, NEW c \in Cues, NEW p \in {0} \cup DOMAIN s.group, NEW i \in Int
  PROVE  /\ [s EXCEPT !.cue = With(@, c, [pos |-> LastPos(s) + 1, parent |-> p, idx |-> i])] \in Sound
         /\ [s EXCEPT !.cue = With(@, c, [pos |-> LastPos(s) + 1, parent |-> p, idx |-> i])].group = s.group
         /\ DOMAIN [s EXCEPT !.cue = With(@, c, [pos |-> LastPos(s) + 1, parent |-> p, idx |-> i])].cue
              = DOMAIN s.cue \cup {c}
<1> DEFINE r == [pos |-> LastPos(s) + 1, parent |-> p, idx |-> i]
           new == With(s.cue, c, r)
<1>1. GoodCues(s.cue) /\ GoodGroups(s.group) /\ Members(s.cue, s.group)
  BY SoundParts
<1>2. r \in CueRec /\ r.pos = LastPos(s) + 1 /\ r.parent = p /\ p \in Nat
  BY <1>1, Bounds DEF CueRec, GoodGroups
<1> HIDE DEF r
<1>3. \A y \in DOMAIN s.cue : s.cue[y].pos # r.pos
  BY <1>2, Bounds
<1>4. /\ GoodCues(new) /\ DOMAIN new = DOMAIN s.cue \cup {c}
      /\ \A y \in DOMAIN s.cue \ {c} : new[y] = s.cue[y]
      /\ new[c] = r
  <2>1. r \in CueRec /\ GoodCues(s.cue) /\ \A y \in DOMAIN s.cue : s.cue[y].pos # r.pos
    BY <1>1, <1>2, <1>3
  <2>2. \A r1 \in CueRec : (\A y \in DOMAIN s.cue : s.cue[y].pos # r1.pos) => GoodCues(With(s.cue, c, r1))
    BY <2>1, CueAdded
  <2>3. /\ DOMAIN With(s.cue, c, r) = DOMAIN s.cue \cup {c}
        /\ \A y \in DOMAIN s.cue \ {c} : With(s.cue, c, r)[y] = s.cue[y]
        /\ With(s.cue, c, r)[c] = r
    BY DEF With
  <2> QED BY <2>1, <2>2, <2>3
<1> HIDE DEF new
<1>5. Members(new, s.group)
  BY <1>1, <1>2, <1>4 DEF Members
<1>6. Sh(new, s.group, s.anchor, s.set) \in Sound /\ [s EXCEPT !.cue = new] = Sh(new, s.group, s.anchor, s.set)
  BY <1>4, <1>5, NewCuesSound
<1>7. Sh(new, s.group, s.anchor, s.set).group = s.group /\ Sh(new, s.group, s.anchor, s.set).cue = new
  BY DEF Sh
<1> QED BY <1>4, <1>6, <1>7 DEF new, r

\* AddCue: after the last cue.
LEMMA AddCueSound ==
  ASSUME CueSheetAssumption, NEW s \in Sound, NEW c \in Cues
  PROVE  AddCue(s, c) \in Sound
<1>1. LastIndex(s, DOMAIN s.cue) + Step \in Int
  <2>1. DOMAIN s.cue \in SUBSET Rows(s)
    BY DEF Rows
  <2>2. LastIndex(s, DOMAIN s.cue) \in Int /\ Step \in Nat
    BY <2>1, Bounds DEF CueSheetAssumption
  <2> QED BY <2>2
<1>2. 0 \in {0} \cup DOMAIN s.group
  OBVIOUS
<1>3. [s EXCEPT !.cue = With(@, c, [pos |-> LastPos(s) + 1, parent |-> 0,
                                    idx |-> LastIndex(s, DOMAIN s.cue) + Step])] \in Sound
  BY <1>1, <1>2, AddSound
<1> QED BY <1>3 DEF AddCue

\* AddCueToGroup: into a group that is expanded first.
LEMMA AddToGroupSound ==
  ASSUME CueSheetAssumption, NEW s \in Sound, NEW c \in Cues, NEW g \in DOMAIN s.group, NEW first
  PROVE  AddCueToGroup(s, c, g, first) \in Sound
<1> DEFINE members == {d \in DOMAIN s.cue : s.cue[d].parent = g}
           I == {s.cue[d].idx : d \in members}
           seat == IF first \/ members = {} THEN s.group[g].idx ELSE Max(I)
           t == ExpandGroup(s, g)
<1>1. GoodRows(s)
  BY SoundParts
<1>2. seat \in Int
  <2>1. s.group[g].idx \in Int /\ IsFiniteSet(DOMAIN s.cue) /\ \A d \in DOMAIN s.cue : s.cue[d].idx \in Int
    BY <1>1, RowsAreTwoKinds
  <2>2. IsFiniteSet(members) /\ \A d \in members : s.cue[d].idx \in Int
    BY <2>1, FS_Subset
  <2> HIDE DEF members
  <2>3. members # {} => IsFiniteSet(I) /\ I \subseteq Int /\ I # {}
    <3> DEFINE f == [d \in members |-> s.cue[d].idx]
    <3>1. I = Image(f, members) /\ DOMAIN f = members
      BY DEF Image
    <3>2. IsFiniteSet(I)
      <4> HIDE DEF f, I
      <4> QED BY <2>2, <3>1, ImageFinite
    <3>3. I \subseteq Int /\ (members # {} => I # {})
      BY <2>2
    <3> QED BY <3>2, <3>3
  <2>4. members # {} => Max(I) \in I /\ I \subseteq Int
    <3> HIDE DEF I
    <3> QED BY <2>3, FiniteExtremes
  <2>5. members # {} => Max(I) \in Int
    <3> HIDE DEF I
    <3> QED BY <2>4
  <2> QED BY <2>1, <2>5
<1>3. /\ t \in Sound /\ t.cue = s.cue /\ DOMAIN t.group = DOMAIN s.group
  BY ExpandSound
<1>4. seat + One \in Int
  BY <1>2 DEF CueSheetAssumption
<1>5. LastPos(t) = LastPos(s)
  <2> HIDE DEF t
  <2> QED BY <1>3 DEF LastPos
<1>6. AddCueToGroup(s, c, g, first)
        = [t EXCEPT !.cue = With(@, c, [pos |-> LastPos(s) + 1, parent |-> g, idx |-> seat + One])]
  BY DEF AddCueToGroup, t, seat, I, members
<1> HIDE DEF t, seat
<1>7. [t EXCEPT !.cue = With(@, c, [pos |-> LastPos(t) + 1, parent |-> g, idx |-> seat + One])] \in Sound
  BY <1>3, <1>4, AddSound
<1> QED BY <1>5, <1>6, <1>7

-----------------------------------------------------------------------------
(* Inserting, and deleting groups. *)

\* The slot above a cue is a place of the sequence.
LEMMA SlotIsPlace ==
  ASSUME CueSheetAssumption, NEW s \in Sound, NEW t \in DOMAIN s.cue
  PROVE  /\ Len(LoadSequence(s)) \in Nat /\ DOMAIN LoadSequence(s) = 1..Len(LoadSequence(s))
         /\ \A i \in DOMAIN LoadSequence(s) : LoadSequence(s)[i] \in Rows(s)
         /\ Slot(s, t) \in 0..(Len(LoadSequence(s)) - 1)
<1> DEFINE seq == LoadSequence(s)
           i == At(seq, t) - 1
<1>1. seq \in Seq(Rows(s)) /\ Covers(seq, s)
  BY SequenceCovers DEF Lists
<1>2. Slot(s, t) \in {i, i - 1} /\ (Slot(s, t) = i - 1 => i > 0 \/ i - 1 = i)
  BY DEF Slot
<1> HIDE DEF seq
<1>3. At(seq, t) \in 1..Len(seq) /\ Len(seq) \in Nat
  <2>1. \E k \in DOMAIN seq : seq[k] = t
    BY <1>1 DEF Covers, Rows
  <2> QED BY <1>1, <2>1, AtIsPlace
<1>4. i \in 0..(Len(seq) - 1)
  BY <1>3
<1>5. Slot(s, t) \in 0..(Len(seq) - 1)
  <2> HIDE DEF i
  <2> QED BY <1>2, <1>3, <1>4
<1> QED BY <1>1, <1>3, <1>5 DEF seq

\* GapOwner is none or a group of the sheet.
LEMMA OwnerIsGroup ==
  ASSUME NEW s, NEW seq, NEW n \in Nat, NEW i \in 0..n
  PROVE  GapOwner(s, seq, i) \in {0} \cup DOMAIN s.group
<1> DEFINE headers == {k \in 1..i : IsGroup(s, seq[k])}
<1>1. CASE headers = {}
  BY <1>1 DEF GapOwner
<1>2. CASE headers # {}
  <2>1. 1 \in Int /\ i \in Int
    OBVIOUS
  <2>2. IsFiniteSet(1..i) /\ headers \in SUBSET (1..i) /\ headers \subseteq Int
    BY <2>1, FS_Interval
  <2>3. IsFiniteSet(headers)
    <3> HIDE DEF headers
    <3> QED BY <2>2, FS_Subset
  <2>4. Max(headers) \in headers
    <3> HIDE DEF headers
    <3> QED BY <1>2, <2>2, <2>3, FiniteExtremes
  <2>5. GapOwner(s, seq, i) = seq[Max(headers)]
    BY <1>2 DEF GapOwner
  <2>6. IsGroup(s, seq[Max(headers)])
    BY <2>4
  <2> QED BY <2>5, <2>6 DEF IsGroup
<1> QED BY <1>1, <1>2

\* InsertCue moves the positions from its own on up by one, so that its own is free.
LEMMA InsertSound ==
  ASSUME CueSheetAssumption, NEW s \in Sound, NEW c \in Cues, NEW t \in DOMAIN s.cue
  PROVE  InsertCue(s, c, t) \in Sound
<1> DEFINE at == Slot(s, t)
           seq == LoadSequence(s)
           p == s.cue[t].pos
           bumped == [d \in DOMAIN s.cue |-> [s.cue[d] EXCEPT !.pos = IF @ >= s.cue[t].pos THEN @ + 1 ELSE @]]
           own == GapOwner(s, seq, at)
           seat == GapAbove(s, at) + (GapBelow(s, at) - GapAbove(s, at)) \div 2
           r == [pos |-> p, parent |-> own, idx |-> seat]
           new == With(bumped, c, r)
<1>1. /\ Len(seq) \in Nat /\ DOMAIN seq = 1..Len(seq)
      /\ \A i \in DOMAIN seq : seq[i] \in Rows(s)
      /\ at \in 0..(Len(seq) - 1)
  BY SlotIsPlace
<1>2. GoodRows(s) /\ GoodCues(s.cue) /\ GoodGroups(s.group) /\ Members(s.cue, s.group)
  BY SoundParts
<1>3. \A q \in Rows(s) : Index(s, q) \in Int
  BY <1>2, RowsAreTwoKinds
<1>4. GapAbove(s, at) = IF at = 0 THEN 0 ELSE Index(s, seq[at])
  BY DEF GapAbove
<1>5. GapBelow(s, at) \in {GapAbove(s, at) + Step, Index(s, seq[at + 1])}
  BY DEF GapBelow
<1>6. own \in {0} \cup DOMAIN s.group
  <2>1. at \in 0..Len(seq)
    <3> HIDE DEF at, seq
    <3> QED BY <1>1
  <2> HIDE DEF at, seq
  <2> QED BY <1>1, <2>1, OwnerIsGroup
<1> HIDE DEF at, seq
<1>7. GapAbove(s, at) \in Int
  <2>1. at # 0 => at \in DOMAIN seq
    BY <1>1
  <2> QED BY <1>1, <1>3, <1>4, <2>1
<1>8. GapBelow(s, at) \in Int
  <2>1. at + 1 \in DOMAIN seq
    BY <1>1
  <2>2. Index(s, seq[at + 1]) \in Int
    BY <1>1, <1>3, <2>1
  <2>3. Step \in Nat
    BY DEF CueSheetAssumption
  <2> QED BY <1>5, <1>7, <2>2, <2>3
<1>9. seat \in Int
  BY <1>7, <1>8
<1>10. \A d \in DOMAIN s.cue : s.cue[d] \in CueRec /\ s.cue[d].pos \in Nat \ {0}
  BY <1>2 DEF GoodCues, CueRec
<1>11. p \in Nat \ {0}
  BY <1>10
<1>12. \A d \in DOMAIN s.cue : /\ bumped[d] \in CueRec /\ bumped[d].parent = s.cue[d].parent
                               /\ bumped[d].pos = IF s.cue[d].pos >= p THEN s.cue[d].pos + 1 ELSE s.cue[d].pos
  BY <1>10, <1>11 DEF CueRec
<1>13. bumped = [d \in DOMAIN s.cue |-> bumped[d]] /\ DOMAIN bumped = DOMAIN s.cue
  OBVIOUS
<1>14. InsertCue(s, c, t) = [s EXCEPT !.cue = new]
  BY DEF InsertCue, at, seq
<1> HIDE DEF bumped, seat, p, own
<1>15. GoodCues(bumped)
  <2>1. bumped \in [DOMAIN bumped -> CueRec]
    BY <1>12, <1>13
  <2>2. \A x, y \in DOMAIN bumped : bumped[x].pos = bumped[y].pos => x = y
    <3> TAKE x, y \in DOMAIN bumped
    <3> HAVE bumped[x].pos = bumped[y].pos
    <3>1. s.cue[x].pos = s.cue[y].pos
      <4> DEFINE i == s.cue[x].pos
                 j == s.cue[y].pos
      <4>1. i \in Nat /\ j \in Nat /\ p \in Nat
        BY <1>10, <1>11, <1>13
      <4>2. (IF i >= p THEN i + 1 ELSE i) = (IF j >= p THEN j + 1 ELSE j)
        BY <1>12, <1>13, Zenon
      <4> HIDE DEF i, j
      <4>3. i = j
        BY <4>1, <4>2
      <4> QED BY <4>3 DEF i, j
    <3> QED BY <1>2, <1>13, <3>1 DEF GoodCues
  <2> QED BY <1>2, <1>13, <2>1, <2>2 DEF GoodCues
<1>16. r \in CueRec /\ r.pos = p /\ r.parent = own
  <2>1. own \in Nat
    BY <1>2, <1>6 DEF GoodGroups
  <2> QED BY <1>9, <1>11, <2>1 DEF CueRec
<1> HIDE DEF r
<1>17. \A y \in DOMAIN bumped : bumped[y].pos # r.pos
  <2> TAKE y \in DOMAIN bumped
  <2> DEFINE j == s.cue[y].pos
  <2>1. j \in Nat /\ p \in Nat
    BY <1>10, <1>11, <1>13
  <2>2. bumped[y].pos = IF j >= p THEN j + 1 ELSE j
    BY <1>12, <1>13, Zenon
  <2> HIDE DEF j
  <2>3. bumped[y].pos # p
    BY <2>1, <2>2
  <2> QED BY <2>3, <1>16
<1>18. GoodCues(new)
  BY <1>15, <1>16, <1>17, CueAdded
<1>19. /\ DOMAIN new = DOMAIN s.cue \cup {c}
       /\ \A y \in DOMAIN s.cue \ {c} : new[y] = bumped[y]
       /\ new[c] = r
  BY <1>13 DEF With
<1> HIDE DEF new
<1>20. Members(new, s.group)
  <2> SUFFICES ASSUME NEW x \in DOMAIN new PROVE new[x].parent \in {0} \cup DOMAIN s.group
    BY DEF Members
  <2>1. CASE x = c
    BY <2>1, <1>6, <1>16, <1>19
  <2>2. CASE x # c
    BY <2>2, <1>2, <1>12, <1>19 DEF Members
  <2> QED BY <2>1, <2>2
<1>21. Sh(new, s.group, s.anchor, s.set) \in Sound /\ [s EXCEPT !.cue = new] = Sh(new, s.group, s.anchor, s.set)
  BY <1>18, <1>20, NewCuesSound
<1> QED BY <1>14, <1>21

\* The groups of a bulk delete, one after the other, whichever of them are gone already.
LEMMA SpansStay ==
  ASSUME NEW X, \A t \in X : \A g : DeleteGroupWithCues(t, g) \in X, NEW s \in X, NEW S, NEW seq \in Seq(S)
  PROVE  FoldLeft(DeleteGroupWithCues, s, seq) \in X
<1> DEFINE n == Len(seq)
           W(g) == g = [z \in SUBSET DOMAIN seq |->
                          IF z = {} THEN s ELSE DeleteGroupWithCues(g[z \ {Max(z)}], seq[Max(z)])]
           step == [p \in (1..n) \X X |-> DeleteGroupWithCues(p[2], seq[p[1]])]
           iter == CHOOSE g : W(g)
<1>0. n \in Nat /\ DOMAIN seq = 1..n
  OBVIOUS
<1>1. FoldLeft(DeleteGroupWithCues, s, seq) = iter[DOMAIN seq]
  BY Zenon DEF FoldLeft, MapThenFoldSet
<1>2. \A t \in X : \A g : DeleteGroupWithCues(t, g) \in X
  OBVIOUS
<1>3. step \in [(1..n) \X X -> X]
  BY <1>2
<1>4. PICK f : FoldOf(f, n, X, s, step)
  <2> HIDE DEF step, n
  <2> QED BY <1>0, <1>3, FoldExists
<1>5. W(f)
  <2>1. \A z \in SUBSET (1..n) : f[z] = IF z = {} THEN s ELSE DeleteGroupWithCues(f[z \ {Max(z)}], seq[Max(z)])
    BY <1>4 DEF FoldOf
  <2> HIDE DEF step
  <2> QED BY <1>0, <1>4, <2>1 DEF FoldOf
<1>6. W(iter)
  <2> HIDE DEF W
  <2> QED BY <1>5, Zenon
<1> HIDE DEF iter
<1>7. \A z \in SUBSET (1..n) : iter[z] = IF z = {} THEN s ELSE DeleteGroupWithCues(iter[z \ {Max(z)}], seq[Max(z)])
  BY <1>0, <1>6
<1> DEFINE Stage == [i \in 0..n |-> X]
<1>8. iter[1..n] \in Stage[n]
  <2>1. iter[1..0] \in Stage[0]
    <3>1. 1..0 = {} /\ {} \in SUBSET (1..n) /\ 0 \in 0..n
      BY <1>0
    <3>2. iter[{}] = s
      BY <3>1, <1>7
    <3> HIDE DEF n
    <3> QED BY <3>1, <3>2
  <2>2. \A i \in 1..n : iter[1..(i - 1)] \in Stage[i - 1] => iter[1..i] \in Stage[i]
    <3> TAKE i \in 1..n
    <3> HAVE iter[1..(i - 1)] \in Stage[i - 1]
    <3>1. 1..i \in SUBSET (1..n) /\ 1..i # {} /\ Max(1..i) = i /\ (1..i) \ {i} = 1..(i - 1)
      BY <1>0, PrefixFold
    <3>2. iter[1..i] = DeleteGroupWithCues(iter[(1..i) \ {Max(1..i)}], seq[Max(1..i)])
      BY <3>1, <1>7
    <3>3. i \in 0..n /\ i - 1 \in 0..n
      BY <1>0
    <3>4. iter[1..(i - 1)] \in X
      BY <3>3
    <3>5. iter[1..i] = DeleteGroupWithCues(iter[1..(i - 1)], seq[i])
      BY <3>1, <3>2, Zenon
    <3> QED BY <3>3, <3>4, <3>5, <1>2
  <2> HIDE DEF Stage, n
  <2> QED BY <1>0, <2>1, <2>2, PrefixIn
<1> QED BY <1>0, <1>1, <1>8

\* Groups that go one after the other leave a sound sheet.
LEMMA SpansSound ==
  ASSUME CueSheetAssumption, NEW s \in Sound, NEW S, NEW seq \in Seq(S)
  PROVE  FoldLeft(DeleteGroupWithCues, s, seq) \in Sound
<1>1. \A t \in Sound : \A g : DeleteGroupWithCues(t, g) \in Sound
  BY SpanSound
<1> QED BY <1>1, SpansStay

\* BulkDelete: the cues, the selection, then the groups.
LEMMA DeletesSound ==
  ASSUME CueSheetAssumption, NEW s \in Sound, NEW cues, NEW groups
  PROVE  BulkDelete(s, cues, groups) \in Sound
<1> DEFINE rest == ReorderCues(Without(s, cues))
           lost == \E c \in cues : rest.anchor = s.cue[c].pos
           base == IF cues = {} THEN s ELSE IF lost THEN SetSelected(rest, 0) ELSE rest
           q == InOrder(LoadSequence(s), groups)
<1>1. Without(s, cues) \in Sound
  BY WithoutSound
<1>2. rest \in Sound
  BY <1>1, ReorderSound
<1>3. base \in Sound
  <2> HIDE DEF rest
  <2>1. SetSelected(rest, 0) \in Sound
    BY <1>2, SetSelectedSound
  <2> QED BY <1>2, <2>1
<1>4. \E S : q \in Seq(S)
  <2>1. LoadSequence(s) \in Seq(Rows(s))
    BY SequenceCovers DEF Lists
  <2>2. PICK n \in Nat : q \in [1..n -> Rows(s) \cap groups]
    BY <2>1, InOrderLists
  <2> HIDE DEF q
  <2> QED BY <2>2
<1>5. BulkDelete(s, cues, groups) = FoldLeft(DeleteGroupWithCues, base, q)
  BY DEF BulkDelete
<1> HIDE DEF base, q
<1>6. FoldLeft(DeleteGroupWithCues, base, q) \in Sound
  BY <1>3, <1>4, SpansSound
<1> QED BY <1>5, <1>6

-----------------------------------------------------------------------------
(* Dropping rows at a line. *)

Nested(e, g, p) == [e EXCEPT !.group[g].up = p]

\* A group gets another group above it, one it is not above itself.
LEMMA NestSound ==
  ASSUME NEW s \in Sound, NEW e \in Sound, DOMAIN e.group = DOMAIN s.group,
         \A h \in DOMAIN s.group : e.group[h].up = s.group[h].up,
         NEW g \in DOMAIN s.group, NEW p,
         p = 0 \/ (p \in DOMAIN s.group /\ p # g /\ g \notin Above(s, p))
  PROVE  /\ Nested(e, g, p) \in Sound /\ Nested(e, g, p).cue = e.cue
         /\ DOMAIN Nested(e, g, p).group = DOMAIN e.group
<1> DEFINE new == [e.group EXCEPT ![g].up = p]
           t == Sh(e.cue, new, e.anchor, e.set)
<1>1. /\ GoodGroups(s.group) /\ Tree(s) /\ GoodGroups(e.group) /\ GoodCues(e.cue)
      /\ Members(e.cue, e.group) /\ e.anchor \in Int /\ e.set \in SUBSET Int
  BY SoundParts
<1>2. Nested(e, g, p) = t
  BY DEF Nested, Sound, Fields, Sh
<1>3. p \in Nat
  BY <1>1 DEF GoodGroups
<1>4. /\ DOMAIN new = DOMAIN e.group /\ new = [h \in DOMAIN new |-> new[h]]
      /\ new[g].up = p /\ \A h \in DOMAIN new \ {g} : new[h] = e.group[h]
      /\ \A h \in DOMAIN new : new[h] \in GroupRec
  <2>1. \A h \in DOMAIN e.group : e.group[h] \in GroupRec
    BY <1>1 DEF GoodGroups
  <2> QED BY <1>3, <2>1 DEF GroupRec
<1> HIDE DEF new
<1>5. GoodGroups(new)
  <2>1. new \in [DOMAIN new -> GroupRec]
    BY <1>4
  <2> QED BY <1>1, <1>4, <2>1 DEF GoodGroups
<1>6. Members(e.cue, new)
  BY <1>1, <1>4 DEF Members
<1>7. t.group = new /\ t.cue = e.cue
  BY DEF Sh
<1>8. Tree(t)
  <2> HIDE DEF t
  <2>1. IsFiniteSet(DOMAIN s.group) /\ 0 \notin DOMAIN s.group
    BY <1>1 DEF GoodGroups
  <2>2. DOMAIN t.group = DOMAIN s.group /\ t.group[g].up = p
    BY <1>4, <1>7
  <2>3. \A h \in DOMAIN s.group \ {g} : t.group[h].up = s.group[h].up
    BY <1>4, <1>7
  <2> QED BY <1>1, <2>1, <2>2, <2>3, TreeMoves
<1>9. t \in Sound
  BY <1>1, <1>5, <1>6, <1>8, IsSound
<1> HIDE DEF t
<1> QED BY <1>2, <1>4, <1>7, <1>9

\* A drop at a slot loses no row.
LEMMA SpliceCovers ==
  ASSUME CueSheetAssumption, NEW s \in Sound, NEW t, Rows(t) = Rows(s), NEW T, NEW block \in Seq(T),
         NEW at \in Slots(LoadSequence(s), block)
  PROVE  Covers(Splice(LoadSequence(s), block, at), t)
<1> DEFINE q == LoadSequence(s)
           z == Splice(q, block, at)
<1>1. q \in Seq(Rows(s)) /\ \A r \in Rows(s) : \E i \in DOMAIN q : q[i] = r
  BY SequenceCovers DEF Lists
<1>2. \A r \in Rows(s) : r \in ToSet(q)
  BY <1>1 DEF ToSet
<1> HIDE DEF q
<1>3. /\ z \in Seq(Rows(s) \cup T)
      /\ \A x \in ToSet(q) \cup ToSet(block) : \E i \in DOMAIN z : z[i] = x
  <2>1. at \in Slots(q, block)
    BY DEF q
  <2> QED BY <1>1, <2>1, SpliceKeepsRows
<1> HIDE DEF z
<1>4. Covers(z, t)
  BY <1>2, <1>3 DEF Covers
<1> QED BY <1>4 DEF z, q

\* DropCues: wherever the line is, into whatever group of the sheet.
LEMMA DropsSound ==
  ASSUME CueSheetAssumption, NEW s \in Sound, NEW T, NEW block \in Seq(T),
         NEW at \in Slots(LoadSequence(s), block), NEW p \in {0} \cup DOMAIN s.group
  PROVE  DropCues(s, block, at, p) \in Sound
<1> DEFINE t == ExpandGroup(s, p)
           q == Splice(LoadSequence(s), block, at)
           parents == Parented(s, ToSet(block), p)
<1>1. t \in Sound /\ t.cue = s.cue /\ DOMAIN t.group = DOMAIN s.group
  BY ExpandSound
<1>2. \A c \in DOMAIN s.cue : parents[c] \in {0} \cup DOMAIN s.group
  BY ParentsStored
<1>3. DropCues(s, block, at, p) = ApplyOrder(t, q, parents)
  BY DEF DropCues
<1> HIDE DEF t
<1>4. Rows(t) = Rows(s)
  BY <1>1 DEF Rows
<1>5. Covers(q, t)
  BY <1>4, SpliceCovers
<1> HIDE DEF q, parents
<1> QED BY <1>1, <1>2, <1>3, <1>5, ApplyOrderSound

\* DropGroup: a header with its block, under a valid parent.
LEMMA DropGroupSound ==
  ASSUME CueSheetAssumption, NEW s \in Sound, NEW g \in DOMAIN s.group, NEW p,
         p = 0 \/ (p \in DOMAIN s.group /\ p # g /\ g \notin Above(s, p)),
         NEW T, Block(s, g) \in Seq(T), NEW at \in Slots(LoadSequence(s), Block(s, g))
  PROVE  DropGroup(s, g, at, p) \in Sound
<1> DEFINE e == ExpandGroup(s, p)
           t == Nested(e, g, p)
           q == Splice(LoadSequence(s), Block(s, g), at)
           parents == StoredParents(s)
<1>1. /\ e \in Sound /\ e.cue = s.cue /\ DOMAIN e.group = DOMAIN s.group
      /\ \A h \in DOMAIN s.group : e.group[h].up = s.group[h].up
  BY ExpandSound
<1>2. \A c \in DOMAIN s.cue : parents[c] \in {0} \cup DOMAIN s.group
  BY ParentsStored
<1>3. DropGroup(s, g, at, p) = ApplyOrder(t, q, parents)
  BY DEF DropGroup, Nested
<1> HIDE DEF e
<1>4. t \in Sound /\ t.cue = e.cue /\ DOMAIN t.group = DOMAIN e.group
  BY <1>1, NestSound
<1> HIDE DEF t
<1>5. Rows(t) = Rows(s)
  BY <1>1, <1>4 DEF Rows
<1>6. Covers(q, t)
  BY <1>5, SpliceCovers
<1> HIDE DEF q, parents
<1> QED BY <1>1, <1>2, <1>3, <1>4, <1>6, ApplyOrderSound

\* CreateGroup: last in the sheet, under none or a group of the sheet.
LEMMA CreateSound ==
  ASSUME CueSheetAssumption, NEW s \in Sound, NEW p \in {0} \cup DOMAIN s.group
  PROVE  /\ CreateGroup(s, p) \in Sound /\ CreateGroup(s, p).cue = s.cue
         /\ DOMAIN CreateGroup(s, p).group = DOMAIN s.group \cup {NextGroupId(s)}
         /\ CreateGroup(s, p).anchor = s.anchor /\ CreateGroup(s, p).set = s.set
<1> DEFINE n == NextGroupId(s)
           r == [idx |-> LastIndex(s, Rows(s)) + Step, up |-> p, collapse |-> FALSE]
           new == With(s.group, n, r)
           t == Sh(s.cue, new, s.anchor, s.set)
<1>1. /\ GoodGroups(s.group) /\ Tree(s) /\ GoodCues(s.cue)
      /\ Members(s.cue, s.group) /\ s.anchor \in Int /\ s.set \in SUBSET Int
  BY SoundParts
<1>2. n \in Nat \ {0} /\ n \notin DOMAIN s.group
  BY Bounds
<1>3. r \in GroupRec /\ r.up = p
  <2>1. Rows(s) \in SUBSET Rows(s)
    OBVIOUS
  <2>2. LastIndex(s, Rows(s)) \in Int /\ Step \in Nat
    BY <2>1, Bounds DEF CueSheetAssumption
  <2>3. p \in Nat
    BY <1>1 DEF GoodGroups
  <2> QED BY <2>2, <2>3 DEF GroupRec
<1>4. CreateGroup(s, p) = t
  <2>1. CreateGroup(s, p) = [s EXCEPT !.group = new]
    BY DEF CreateGroup
  <2> HIDE DEF new
  <2> QED BY <2>1 DEF Sound, Fields, Sh
<1> HIDE DEF n, r
<1>5. /\ DOMAIN new = DOMAIN s.group \cup {n} /\ new = [h \in DOMAIN new |-> new[h]]
      /\ \A h \in DOMAIN s.group : new[h] = s.group[h]
      /\ new[n] = r
  BY <1>2 DEF With
<1> HIDE DEF new
<1>6. \A h \in DOMAIN new : new[h] \in GroupRec
  BY <1>1, <1>3, <1>5 DEF GoodGroups
<1>7. t.group = new /\ t.cue = s.cue /\ t.anchor = s.anchor /\ t.set = s.set
  BY DEF Sh
<1>8. Tree(t) /\ IsFiniteSet(DOMAIN t.group)
  <2> HIDE DEF t
  <2>1. IsFiniteSet(DOMAIN s.group) /\ n # 0
    BY <1>1, <1>2 DEF GoodGroups
  <2>2. DOMAIN t.group = DOMAIN s.group \cup {n} /\ t.group[n].up \in {0} \cup DOMAIN s.group
    BY <1>3, <1>5, <1>7
  <2>3. \A h \in DOMAIN s.group : t.group[h].up = s.group[h].up
    BY <1>5, <1>7
  <2> QED BY <1>1, <1>2, <2>1, <2>2, <2>3, TreeGrows
<1>9. GoodGroups(new)
  <2>1. new \in [DOMAIN new -> GroupRec]
    BY <1>5, <1>6
  <2> QED BY <1>1, <1>2, <1>5, <1>7, <1>8, <2>1 DEF GoodGroups
<1>10. Members(s.cue, new)
  BY <1>1, <1>5 DEF Members
<1>11. t \in Sound
  BY <1>1, <1>8, <1>9, <1>10, IsSound
<1> HIDE DEF t
<1> QED BY <1>4, <1>5, <1>7, <1>11 DEF n

-----------------------------------------------------------------------------
(* The lines there are, and moving cues between groups. *)

\* Below the last member of a group is a slot, or below its header.
LEMMA LastIsSlot ==
  ASSUME CueSheetAssumption, NEW s \in Sound, NEW block, NEW g \in DOMAIN s.group, g \notin ToSet(block)
  PROVE  SlotLast(s, LoadSequence(s), block, g) \in Slots(LoadSequence(s), block)
<1> DEFINE q == LoadSequence(s)
           rest == Lifted(q, block)
           members == {i \in DOMAIN rest : IsCue(s, rest[i]) /\ s.cue[rest[i]].parent = g}
<1>1. q \in Seq(Rows(s)) /\ \A r \in Rows(s) : \E i \in DOMAIN q : q[i] = r
  BY SequenceCovers DEF Lists
<1>2. SlotLast(s, q, block, g) = IF members = {} THEN At(rest, g) ELSE Max(members)
  BY DEF SlotLast
<1>3. Slots(q, block) = 0..Len(rest)
  BY DEF Slots
<1> HIDE DEF q
<1>4. /\ rest \in Seq(Rows(s)) /\ Len(rest) \in Nat
      /\ \A i \in DOMAIN q : q[i] \notin ToSet(block) => \E k \in DOMAIN rest : rest[k] = q[i]
  BY <1>1, LiftedLists
<1>5. \E k \in DOMAIN rest : rest[k] = g
  BY <1>1, <1>4 DEF Rows
<1> HIDE DEF rest
<1>6. At(rest, g) \in 1..Len(rest)
  BY <1>4, <1>5, AtIsPlace
<1>7. members # {} => Max(members) \in 1..Len(rest)
  <2>1. 1 \in Int /\ Len(rest) \in Int /\ DOMAIN rest = 1..Len(rest)
    BY <1>4
  <2>2. IsFiniteSet(1..Len(rest)) /\ members \in SUBSET (1..Len(rest)) /\ members \subseteq Int
    BY <2>1, FS_Interval
  <2> HIDE DEF members
  <2>3. IsFiniteSet(members)
    BY <2>2, FS_Subset
  <2>4. members # {} => Max(members) \in members
    BY <2>2, <2>3, FiniteExtremes
  <2> QED BY <2>2, <2>4
<1> HIDE DEF members
<1>8. SlotLast(s, q, block, g) \in 0..Len(rest)
  <2>1. 1..Len(rest) \subseteq 0..Len(rest)
    BY <1>4
  <2> QED BY <1>2, <1>6, <1>7, <2>1
<1> QED BY <1>3, <1>8 DEF q

\* Every row of the sheet has a line above it and one below it.
LEMMA RowLines ==
  ASSUME CueSheetAssumption, NEW s \in Sound, NEW block, NEW r \in Rows(s)
  PROVE  /\ SlotAbove(LoadSequence(s), block, r) \in Slots(LoadSequence(s), block)
         /\ SlotBelow(LoadSequence(s), block, r) \in Slots(LoadSequence(s), block)
         /\ SlotEnd(LoadSequence(s), block) \in Slots(LoadSequence(s), block)
         /\ r \notin ToSet(block) => SlotFirst(LoadSequence(s), block, r) \in Slots(LoadSequence(s), block)
<1> DEFINE q == LoadSequence(s)
<1>1. q \in Seq(Rows(s)) /\ \A x \in Rows(s) : \E i \in DOMAIN q : q[i] = x
  BY SequenceCovers DEF Lists
<1> HIDE DEF q
<1>2. PICK i \in DOMAIN q : q[i] = r
  BY <1>1
<1>3. /\ SlotAbove(q, block, q[i]) \in Slots(q, block) /\ SlotBelow(q, block, q[i]) \in Slots(q, block)
      /\ SlotEnd(q, block) \in Slots(q, block)
      /\ q[i] \notin ToSet(block) => SlotFirst(q, block, q[i]) \in Slots(q, block)
  BY <1>1, LinesAreSlots
<1> QED BY <1>2, <1>3 DEF q

\* Under the sheet is a slot.
LEMMA EndIsSlot ==
  ASSUME CueSheetAssumption, NEW s \in Sound, NEW block
  PROVE  SlotEnd(LoadSequence(s), block) \in Slots(LoadSequence(s), block)
<1>1. LoadSequence(s) \in Seq(Rows(s))
  BY SequenceCovers DEF Lists
<1>2. Len(Lifted(LoadSequence(s), block)) \in Nat
  BY <1>1, LiftedLists
<1> QED BY <1>2 DEF SlotEnd, Slots

\* Above the first header, or at the end, is a slot.
LEMMA ReleaseIsSlot ==
  ASSUME CueSheetAssumption, NEW s \in Sound, NEW c
  PROVE  ReleaseSlot(s, c) \in Slots(LoadSequence(s), <<c>>)
<1> DEFINE q == LoadSequence(s)
           headers == {i \in DOMAIN q : IsGroup(s, q[i])}
<1>1. q \in Seq(Rows(s))
  BY SequenceCovers DEF Lists
<1>2. ReleaseSlot(s, c) = IF headers = {} THEN SlotEnd(q, <<c>>) ELSE SlotAbove(q, <<c>>, q[Min(headers)])
  BY DEF ReleaseSlot
<1>3. headers # {} => q[Min(headers)] \in Rows(s)
  <2>0. Len(q) \in Nat /\ DOMAIN q = 1..Len(q)
    <3> HIDE DEF q
    <3> QED BY <1>1
  <2> HIDE DEF q
  <2>1. 1 \in Int /\ Len(q) \in Int
    BY <2>0
  <2>2. IsFiniteSet(DOMAIN q) /\ headers \in SUBSET DOMAIN q /\ headers \subseteq Int
    BY <2>0, <2>1, FS_Interval
  <2>3. IsFiniteSet(headers)
    <3> HIDE DEF headers
    <3> QED BY <2>2, FS_Subset
  <2>4. headers # {} => Min(headers) \in headers
    <3> HIDE DEF headers
    <3> QED BY <2>2, <2>3, FiniteExtremes
  <2> QED BY <2>4 DEF IsGroup, Rows
<1> HIDE DEF headers
<1>4. headers # {} => SlotAbove(q, <<c>>, q[Min(headers)]) \in Slots(q, <<c>>)
  BY <1>3, RowLines
<1>5. SlotEnd(q, <<c>>) \in Slots(q, <<c>>)
  BY EndIsSlot
<1> HIDE DEF q
<1>6. ReleaseSlot(s, c) \in Slots(q, <<c>>)
  BY <1>2, <1>4, <1>5
<1> QED BY <1>6 DEF q

Freed(s, cues) ==
  [s EXCEPT !.cue = [c \in DOMAIN s.cue |-> [s.cue[c] EXCEPT !.parent = IF c \in cues THEN 0 ELSE @]]]

\* Cues that leave their group in place.
LEMMA FreedSound ==
  ASSUME NEW s \in Sound, NEW cues
  PROVE  Freed(s, cues) \in Sound
<1> DEFINE c == [x \in DOMAIN s.cue |-> [s.cue[x] EXCEPT !.parent = IF x \in cues THEN 0 ELSE @]]
<1>1. Freed(s, cues) = [s EXCEPT !.cue = c]
  BY DEF Freed
<1>2. GoodCues(s.cue) /\ Members(s.cue, s.group)
  BY SoundParts
<1>3. \A x \in DOMAIN s.cue : c[x] \in CueRec /\ c[x].pos = s.cue[x].pos /\ c[x].parent \in {0, s.cue[x].parent}
  <2> TAKE x \in DOMAIN s.cue
  <2>1. s.cue[x] \in CueRec
    BY <1>2 DEF GoodCues
  <2> QED BY <2>1 DEF CueRec
<1>4. c = [x \in DOMAIN s.cue |-> c[x]] /\ DOMAIN c = DOMAIN s.cue
  OBVIOUS
<1> HIDE DEF c
<1>5. GoodCues(c) /\ Members(c, s.group)
  BY <1>2, <1>3, <1>4, ReseatedCues DEF Members
<1>6. Sh(c, s.group, s.anchor, s.set) \in Sound /\ [s EXCEPT !.cue = c] = Sh(c, s.group, s.anchor, s.set)
  BY <1>5, NewCuesSound
<1> QED BY <1>1, <1>6

\* Rows picked from a sequence are a sequence of its rows.
LEMMA PickedInOrder ==
  ASSUME NEW S, NEW q \in Seq(S), NEW rows
  PROVE  InOrder(q, rows) \in Seq(S) /\ ToSet(InOrder(q, rows)) \subseteq S \cap rows
<1> DEFINE z == InOrder(q, rows)
           n == Cardinality(Places(q, rows))
<1>1. n \in Nat /\ z \in [1..n -> S \cap rows]
  BY InOrderLists
<1> HIDE DEF z, n
<1>2. z \in Seq(S) /\ \A i \in DOMAIN z : z[i] \in S \cap rows
  BY <1>1
<1>3. ToSet(z) \subseteq S \cap rows
  BY <1>2 DEF ToSet
<1> QED BY <1>2, <1>3 DEF z

\* BulkGroup: cues join a group as one block, or leave.
LEMMA BulkGroupSound ==
  ASSUME CueSheetAssumption, NEW s \in Sound, NEW cues \in SUBSET DOMAIN s.cue, NEW g \in {0} \cup DOMAIN s.group
  PROVE  BulkGroup(s, cues, g) \in Sound
<1> DEFINE block == InOrder(CueOrder(s), cues)
           at == SlotLast(s, LoadSequence(s), block, g)
<1>1. GoodRows(s)
  BY SoundParts
<1>2. CASE g = 0
  <2>1. BulkGroup(s, cues, g) = Freed(s, cues)
    BY <1>2 DEF BulkGroup, Freed
  <2> QED BY <2>1, FreedSound
<1>3. CASE g # 0
  <2>1. CueOrder(s) \in Seq(DOMAIN s.cue)
    BY SequenceCovers DEF Lists
  <2>2. block \in Seq(DOMAIN s.cue) /\ ToSet(block) \subseteq DOMAIN s.cue
    BY <2>1, PickedInOrder
  <2>3. BulkGroup(s, cues, g) = DropCues(s, block, at, g)
    BY <1>3 DEF BulkGroup
  <2> HIDE DEF block
  <2>4. g \in DOMAIN s.group /\ g \notin ToSet(block)
    <3>1. DOMAIN s.cue \cap DOMAIN s.group = {}
      BY <1>1, RowsAreTwoKinds
    <3> QED BY <1>3, <2>2, <3>1
  <2>5. at \in Slots(LoadSequence(s), block)
    BY <2>4, LastIsSlot
  <2> HIDE DEF at
  <2> QED BY <2>2, <2>3, <2>4, <2>5, DropsSound
<1> QED BY <1>2, <1>3

-----------------------------------------------------------------------------
(* New groups, and a restart. *)

\* BulkGroupNewAt: the new header and its members go where the clicked cue was.
LEMMA GroupNewSound ==
  ASSUME CueSheetAssumption, NEW s \in Sound, NEW cues, NEW at \in DOMAIN s.cue
  PROVE  BulkGroupNewAt(s, cues, at) \in Sound
<1> DEFINE g == NextGroupId(s)
           new == CreateGroup(s, s.cue[at].parent)
           q == LoadSequence(new)
           seq == Lifted(q, <<g>>)
           members == InOrder(seq, cues)
           block == <<g>> \o members
           i == SlotAbove(seq, members, at)
           z == Splice(seq, block, i)
           parents == Parented(s, cues, g)
<1>1. /\ new \in Sound /\ new.cue = s.cue /\ DOMAIN new.group = DOMAIN s.group \cup {g}
  <2>1. s.cue[at].parent \in {0} \cup DOMAIN s.group
    BY SoundParts DEF Members
  <2> HIDE DEF g
  <2> QED BY <2>1, CreateSound DEF g
<1>2. \A c \in DOMAIN new.cue : parents[c] \in {0} \cup DOMAIN new.group
  <2> HIDE DEF new, g
  <2>1. Members(s.cue, s.group)
    BY SoundParts
  <2> QED BY <1>1, <2>1 DEF Parented, Members
<1>3. BulkGroupNewAt(s, cues, at) = ApplyOrder(new, z, parents)
  BY DEF BulkGroupNewAt
<1>4. /\ q \in Seq(Rows(new)) /\ \A r \in Rows(new) : \E k \in DOMAIN q : q[k] = r
  <2> HIDE DEF new
  <2> QED BY <1>1, SequenceCovers DEF Lists
<1> HIDE DEF new, q
<1>5. ToSet(<<g>>) = {g}
  <2> HIDE DEF g
  <2>1. DOMAIN <<g>> = {1} /\ <<g>>[1] = g
    OBVIOUS
  <2> QED BY <2>1 DEF ToSet
<1>6. /\ seq \in Seq(Rows(new))
      /\ \A r \in Rows(new) \ {g} : \E k \in DOMAIN seq : seq[k] = r
      /\ \A k \in DOMAIN seq : seq[k] # g
  <2> HIDE DEF g
  <2>1. /\ seq \in Seq(Rows(new))
        /\ \A k \in DOMAIN q : q[k] \notin ToSet(<<g>>) => \E l \in DOMAIN seq : seq[l] = q[k]
        /\ \A k \in DOMAIN seq : seq[k] \in ToSet(q) \ ToSet(<<g>>)
    <3> DEFINE b == <<g>>
    <3> HIDE DEF b
    <3>1. /\ Lifted(q, b) \in Seq(Rows(new))
          /\ \A k \in DOMAIN q : q[k] \notin ToSet(b) => \E l \in DOMAIN Lifted(q, b) : Lifted(q, b)[l] = q[k]
          /\ \A k \in DOMAIN Lifted(q, b) : Lifted(q, b)[k] \in ToSet(q) \ ToSet(b)
      BY <1>4, LiftedLists
    <3> QED BY <3>1 DEF b
  <2> QED BY <1>4, <1>5, <2>1
<1> HIDE DEF seq
<1>7. members \in Seq(Rows(new)) /\ ToSet(members) \subseteq Rows(new)
  BY <1>6, PickedInOrder
<1> HIDE DEF members
<1>8. PICK k \in DOMAIN seq : seq[k] = at
  <2>1. at \in Rows(new) \ {g}
    <3>1. GoodRows(new)
      BY <1>1, SoundParts
    <3>2. DOMAIN new.cue \cap DOMAIN new.group = {}
      BY <3>1, RowsAreTwoKinds
    <3> HIDE DEF g
    <3> QED BY <1>1, <3>2 DEF Rows
  <2> QED BY <1>6, <2>1
<1>9. i \in Slots(seq, members)
  <2>1. SlotAbove(seq, members, seq[k]) \in Slots(seq, members)
    BY <1>6, LinesAreSlots
  <2> QED BY <1>8, <2>1
<1>10. block \in Seq(Rows(new) \cup {g}) /\ ToSet(block) = {g} \cup ToSet(members)
  <2> HIDE DEF g
  <2>1. /\ block \in Seq(Rows(new) \cup {g}) /\ Len(block) = Len(members) + 1 /\ block[1] = g
        /\ \A j \in 1..Len(members) : block[j + 1] = members[j]
        /\ Len(members) \in Nat
    BY <1>7
  <2>2. \A j \in 1..(Len(members) + 1) : j = 1 \/ (j - 1 \in 1..Len(members) /\ (j - 1) + 1 = j)
    BY <2>1
  <2>3. DOMAIN block = 1..(Len(members) + 1) /\ DOMAIN members = 1..Len(members)
    BY <1>7, <2>1
  <2> HIDE DEF block
  <2>4. ToSet(block) \subseteq {g} \cup ToSet(members)
    <3> SUFFICES ASSUME NEW j \in DOMAIN block PROVE block[j] \in {g} \cup ToSet(members)
      BY DEF ToSet
    <3>1. CASE j = 1
      BY <2>1, <3>1
    <3>2. CASE j # 1
      <4>1. j - 1 \in DOMAIN members /\ block[j] = members[j - 1]
        BY <2>1, <2>2, <2>3, <3>2
      <4> QED BY <4>1 DEF ToSet
    <3> QED BY <3>1, <3>2
  <2>5. {g} \cup ToSet(members) \subseteq ToSet(block)
    <3>1. 1 \in DOMAIN block /\ \A j \in DOMAIN members : j + 1 \in DOMAIN block /\ block[j + 1] = members[j]
      BY <2>1, <2>3
    <3> QED BY <2>1, <3>1 DEF ToSet
  <2> QED BY <2>1, <2>4, <2>5
<1>11. g \notin ToSet(seq)
  BY <1>6 DEF ToSet
<1> HIDE DEF block, g
<1>12. ToSet(seq) \ ToSet(block) = ToSet(seq) \ ToSet(members)
  BY <1>10, <1>11
<1>13. Slots(seq, block) = Slots(seq, members)
  BY <1>12 DEF Slots, Lifted
<1> HIDE DEF i
<1>14. /\ z \in Seq(Rows(new) \cup (Rows(new) \cup {g}))
       /\ \A x \in ToSet(seq) \cup ToSet(block) : \E j \in DOMAIN z : z[j] = x
  BY <1>6, <1>9, <1>10, <1>13, SpliceKeepsRows
<1>15. \A r \in Rows(new) : r \in ToSet(seq) \cup ToSet(block)
  BY <1>6, <1>10 DEF ToSet
<1> HIDE DEF z
<1>16. Covers(z, new)
  BY <1>14, <1>15 DEF Covers
<1> HIDE DEF parents
<1> QED BY <1>1, <1>2, <1>3, <1>16, ApplyOrderSound

\* A sheet whose rows get another index, and whose cues may lose their parent.
LEMMA RemadeSound ==
  ASSUME NEW s \in Sound, NEW c, NEW g,
         c = [x \in DOMAIN s.cue |-> c[x]], g = [x \in DOMAIN s.group |-> g[x]],
         \A x \in DOMAIN s.cue : c[x] \in CueRec /\ c[x].pos = s.cue[x].pos /\ c[x].parent \in {0, s.cue[x].parent},
         \A x \in DOMAIN s.group : g[x] \in GroupRec /\ g[x].up = s.group[x].up
  PROVE  [s EXCEPT !.cue = c, !.group = g] \in Sound
<1>1. GoodCues(s.cue) /\ GoodGroups(s.group) /\ Members(s.cue, s.group) /\ Tree(s) /\ s.anchor \in Int /\ s.set \in SUBSET Int
  BY SoundParts
<1>2. DOMAIN c = DOMAIN s.cue /\ DOMAIN g = DOMAIN s.group
  BY Zenon
<1>3. GoodCues(c)
  BY <1>1, <1>2, ReseatedCues
<1>4. g \in [DOMAIN s.group -> GroupRec]
  BY <1>2, Zenon
<1>5. GoodGroups(g) /\ Kin(s.group, g)
  BY <1>1, <1>2, <1>4 DEF GoodGroups, Kin, Tree
<1>6. Members(c, g)
  BY <1>1, <1>2 DEF Members
<1>7. Sh(c, g, s.anchor, s.set) \in Sound
  BY <1>1, <1>3, <1>5, <1>6, MakeSound
<1>8. s \in [cue : CueMaps, group : GroupMaps, anchor : Int, set : SUBSET Int]
  BY DEF Sound, Fields
<1>9. [s EXCEPT !.cue = c, !.group = g] \in [cue : {c}, group : {g}, anchor : {s.anchor}, set : {s.set}]
  BY <1>8
<1>10. [s EXCEPT !.cue = c, !.group = g] = Sh(c, g, s.anchor, s.set)
  BY <1>9, OneSheet
<1> QED BY <1>7, <1>10

\* InitDB gives indexes to rows without one.
LEMMA BackfillSound ==
  ASSUME CueSheetAssumption, NEW s \in Sound
  PROVE  Backfilled(s) \in Sound
<1> DEFINE c == [x \in DOMAIN s.cue |-> [s.cue[x] EXCEPT !.idx = IF @ = 0 THEN s.cue[x].pos * Step ELSE @]]
           members(h) == {x \in DOMAIN c : c[x].parent = h}
           I(h) == {c[x].idx : x \in members(h)}
           seat(h) == IF members(h) = {} THEN (LastPos(s) + 1) * Step ELSE Min(I(h)) - Step \div 2
           g == [h \in DOMAIN s.group |-> [s.group[h] EXCEPT !.idx = IF @ = 0 THEN seat(h) ELSE @]]
<1>1. GoodRows(s) /\ GoodCues(s.cue) /\ GoodGroups(s.group)
  BY SoundParts
<1>2. Backfilled(s) = [s EXCEPT !.cue = c, !.group = g]
  BY DEF Backfilled
<1>3. \A x \in DOMAIN s.cue : c[x] \in CueRec /\ c[x].pos = s.cue[x].pos /\ c[x].parent \in {0, s.cue[x].parent}
  <2> TAKE x \in DOMAIN s.cue
  <2>1. s.cue[x] \in CueRec /\ Step \in Nat
    BY <1>1 DEF GoodCues, CueSheetAssumption
  <2>2. s.cue[x].pos \in Nat
    BY <2>1 DEF CueRec
  <2>3. s.cue[x].pos * Step \in Int
    BY <2>1, <2>2
  <2> QED BY <2>1, <2>3 DEF CueRec
<1>4. c = [x \in DOMAIN s.cue |-> c[x]] /\ DOMAIN c = DOMAIN s.cue
  OBVIOUS
<1> HIDE DEF c
<1>5. \A h : seat(h) \in Int
  <2> TAKE h
  <2>1. IsFiniteSet(DOMAIN s.cue)
    BY <1>1, RowsAreTwoKinds
  <2>2. IsFiniteSet(members(h)) /\ \A x \in members(h) : c[x].idx \in Int
    <3>1. IsFiniteSet(members(h))
      BY <1>4, <2>1, FS_Subset
    <3> QED BY <1>3, <1>4, <3>1 DEF CueRec
  <2> DEFINE M == members(h)
             J == {c[x].idx : x \in M}
  <2>3. IsFiniteSet(J) /\ J \subseteq Int /\ (M # {} => J # {})
    <3> HIDE DEF M
    <3> DEFINE f == [x \in M |-> c[x].idx]
    <3>1. J = Image(f, M) /\ DOMAIN f = M
      BY DEF Image
    <3>2. IsFiniteSet(J)
      <4> HIDE DEF f, J
      <4> QED BY <2>2, <3>1, ImageFinite DEF M
    <3> QED BY <2>2, <3>2 DEF M
  <2>4. M # {} => Min(J) \in Int
    <3> HIDE DEF J, M
    <3>1. M # {} => Min(J) \in J
      BY <2>3, FiniteExtremes
    <3> QED BY <2>3, <3>1
  <2>5. seat(h) = IF M = {} THEN (LastPos(s) + 1) * Step ELSE Min(J) - Step \div 2
    OBVIOUS
  <2> HIDE DEF seat, M, J
  <2>6. LastPos(s) \in Nat /\ Step \in Nat
    BY Bounds DEF CueSheetAssumption
  <2>7. (LastPos(s) + 1) * Step \in Int /\ Step \div 2 \in Int
    BY <2>6
  <2> QED BY <2>4, <2>5, <2>7
<1> HIDE DEF seat
<1>6. \A h \in DOMAIN s.group : g[h] \in GroupRec /\ g[h].up = s.group[h].up
  <2> TAKE h \in DOMAIN s.group
  <2>1. s.group[h] \in GroupRec /\ seat(h) \in Int
    BY <1>1, <1>5 DEF GoodGroups
  <2> QED BY <2>1 DEF GroupRec
<1>7. g = [h \in DOMAIN s.group |-> g[h]]
  OBVIOUS
<1> HIDE DEF g
<1>8. [s EXCEPT !.cue = c, !.group = g] \in Sound
  BY <1>3, <1>4, <1>6, <1>7, RemadeSound
<1> QED BY <1>2, <1>8

\* HealSheet gives places to the groups left without an index.
LEMMA HealSheetSound ==
  ASSUME CueSheetAssumption, NEW s \in Sound
  PROVE  HealSheet(s) \in Sound
<1> DEFINE bare == {h \in DOMAIN s.group : s.group[h].idx = 0}
           place(h) == LastIndex(s, Rows(s)) + Cardinality({k \in bare : k <= h}) * Step
           c == [x \in DOMAIN s.cue |-> [s.cue[x] EXCEPT !.parent = IF IsGroup(s, @) THEN @ ELSE 0]]
           g == [h \in DOMAIN s.group |-> [s.group[h] EXCEPT !.idx = IF h \in bare THEN place(h) ELSE @]]
<1>1. GoodCues(s.cue) /\ GoodGroups(s.group)
  BY SoundParts
<1>2. HealSheet(s) = [s EXCEPT !.cue = c, !.group = g]
  BY DEF HealSheet
<1>3. \A x \in DOMAIN s.cue : c[x] \in CueRec /\ c[x].pos = s.cue[x].pos /\ c[x].parent \in {0, s.cue[x].parent}
  <2> TAKE x \in DOMAIN s.cue
  <2>1. s.cue[x] \in CueRec
    BY <1>1 DEF GoodCues
  <2> QED BY <2>1 DEF CueRec
<1>4. c = [x \in DOMAIN s.cue |-> c[x]]
  OBVIOUS
<1> HIDE DEF c
<1>5. \A h : place(h) \in Int
  <2> TAKE h
  <2>1. LastIndex(s, Rows(s)) \in Int /\ Step \in Nat
    <3>1. Rows(s) \in SUBSET Rows(s)
      OBVIOUS
    <3> QED BY <3>1, Bounds DEF CueSheetAssumption
  <2> DEFINE K == {k \in bare : k <= h}
  <2>2. IsFiniteSet(K)
    <3>1. K \in SUBSET DOMAIN s.group
      OBVIOUS
    <3> HIDE DEF K
    <3> QED BY <1>1, <3>1, FS_Subset DEF GoodGroups
  <2> HIDE DEF K
  <2>3. Cardinality(K) \in Nat
    BY <2>2, FS_CardinalityType
  <2>4. Cardinality(K) * Step \in Int
    BY <2>1, <2>3
  <2>5. LastIndex(s, Rows(s)) + Cardinality(K) * Step \in Int
    BY <2>1, <2>4
  <2> QED BY <2>5 DEF K
<1> HIDE DEF place
<1>6. \A h \in DOMAIN s.group : g[h] \in GroupRec /\ g[h].up = s.group[h].up
  <2> TAKE h \in DOMAIN s.group
  <2>1. s.group[h] \in GroupRec /\ place(h) \in Int
    BY <1>1, <1>5 DEF GoodGroups
  <2> HIDE DEF bare
  <2> QED BY <2>1 DEF GroupRec
<1>7. g = [h \in DOMAIN s.group |-> g[h]]
  OBVIOUS
<1> HIDE DEF g
<1>8. [s EXCEPT !.cue = c, !.group = g] \in Sound
  BY <1>3, <1>4, <1>6, <1>7, RemadeSound
<1> QED BY <1>2, <1>8

\* A restart does both.
LEMMA RestartSound ==
  ASSUME CueSheetAssumption, NEW s \in Sound
  PROVE  Restart(s) \in Sound
BY BackfillSound, HealSheetSound DEF Restart

-----------------------------------------------------------------------------
(* The page: its rows are rows of the sheet. *)

Spans(s) == Seq(Rows(s))
Lines(s) == Seq([row : Rows(s), depth : Nat])
Pages(s) == [open : Spans(s), rows : Lines(s)]

\* How deep a group is.
LEMMA DepthIsNat == ASSUME NEW s \in Sound, NEW g PROVE Depth(s, g) \in Nat
<1>1. IsFiniteSet(DOMAIN s.group)
  BY SoundParts DEF GoodGroups
<1>2. Above(s, g) \in SUBSET DOMAIN s.group
  BY <1>1, AboveIsLeast
<1>3. IsFiniteSet(Above(s, g))
  BY <1>1, <1>2, FS_Subset
<1>4. Cardinality(Above(s, g)) \in Nat
  BY <1>3, FS_CardinalityType
<1> QED BY <1>4 DEF Depth

\* The spans that stay open.
LEMMA PrefixOfSpans ==
  ASSUME NEW s, NEW o \in Spans(s), NEW I \in SUBSET DOMAIN o
  PROVE  SubSeq(o, 1, Cardinality(I)) \in Spans(s)
<1>1. Len(o) \in Nat /\ DOMAIN o = 1..Len(o)
  BY DEF Spans
<1>2. 1 \in Int /\ Len(o) \in Int
  BY <1>1
<1>3. IsFiniteSet(1..Len(o)) /\ Cardinality(1..Len(o)) = Len(o)
  BY <1>1, <1>2, FS_Interval
<1>4. IsFiniteSet(I) /\ Cardinality(I) <= Len(o)
  BY <1>1, <1>3, FS_Subset
<1>5. Cardinality(I) \in Nat
  BY <1>4, FS_CardinalityType
<1> DEFINE n == Cardinality(I)
<1>6. n \in 0..Len(o)
  BY <1>1, <1>4, <1>5
<1> HIDE DEF n
<1>7. SubSeq(o, 1, n) \in Seq(Rows(s))
  <2>1. o \in Seq(Rows(s))
    BY DEF Spans
  <2> QED BY <1>1, <1>6, <2>1
<1> QED BY <1>7 DEF n, Spans

\* One more row of the page.
LEMMA RenderIsPage ==
  ASSUME NEW s \in Sound, NEW page \in Pages(s), NEW r \in Rows(s)
  PROVE  /\ Render(s, page, r) \in Pages(s)
         /\ \/ Render(s, page, r).rows = page.rows
            \/ \E k : Render(s, page, r).rows = Append(page.rows, [row |-> r, depth |-> k])
<1> DEFINE d == Depth(s, r)
           parent == s.cue[r].parent
           upTo(depth) ==
             SubSeq(page.open, 1, Cardinality({i \in DOMAIN page.open : Depth(s, page.open[i]) <= depth}))
           open == IF parent \in ToSet(page.open) THEN upTo(Depth(s, parent)) ELSE page.open
           top == Last(open)
           shut(g) == Hidden(s, g) \/ s.group[g].collapse
           Show(spans, depth) == [open |-> spans, rows |-> Append(page.rows, [row |-> r, depth |-> depth])]
           deep == IF parent = top THEN Depth(s, top) + 1 ELSE 0
<1>1. page.open \in Spans(s) /\ page.rows \in Lines(s)
  BY DEF Pages
<1>2. \A depth : upTo(depth) \in Spans(s)
  <2> TAKE depth
  <2> DEFINE I == {i \in DOMAIN page.open : Depth(s, page.open[i]) <= depth}
  <2>1. I \in SUBSET DOMAIN page.open
    OBVIOUS
  <2> HIDE DEF I
  <2>2. SubSeq(page.open, 1, Cardinality(I)) \in Spans(s)
    BY <1>1, <2>1, PrefixOfSpans
  <2> QED BY <2>2 DEF I
<1>3. \A g : Depth(s, g) \in Nat
  BY DepthIsNat
<1>4. Render(s, page, r) \in
        {[page EXCEPT !.open = Append(upTo(d - 1), r)], Show(Append(upTo(d - 1), r), d), Show(<<>>, 0),
         [page EXCEPT !.open = open], Show(open, deep)}
  <2>1. CASE IsGroup(s, r) /\ Hidden(s, r)
    BY <2>1, Zenon DEF Render
  <2>2. CASE IsGroup(s, r) /\ ~Hidden(s, r)
    BY <2>2, Zenon DEF Render
  <2>3. CASE ~IsGroup(s, r) /\ IsCue(s, r) /\ page.open = <<>>
    BY <2>3, Zenon DEF Render
  <2>4. CASE ~IsGroup(s, r) /\ ~(IsCue(s, r) /\ page.open = <<>>)
    BY <2>4, Zenon DEF Render
  <2> QED BY <2>1, <2>2, <2>3, <2>4
<1>5. open \in Spans(s) /\ deep \in Nat /\ d \in Nat
  <2> HIDE DEF upTo
  <2> QED BY <1>1, <1>2, <1>3
<1> HIDE DEF upTo, open, deep, d
<1>6. Append(upTo(d - 1), r) \in Spans(s) /\ <<>> \in Spans(s)
  <2>1. upTo(d - 1) \in Seq(Rows(s))
    BY <1>2 DEF Spans
  <2>2. \A q \in Seq(Rows(s)) : Append(q, r) \in Seq(Rows(s))
    OBVIOUS
  <2> QED BY <2>1, <2>2 DEF Spans
<1>7. \A o \in Spans(s) : \A k \in Nat : Show(o, k) \in Pages(s)
  <2> TAKE o \in Spans(s)
  <2> TAKE k \in Nat
  <2>1. [row |-> r, depth |-> k] \in [row : Rows(s), depth : Nat]
    OBVIOUS
  <2>2. Append(page.rows, [row |-> r, depth |-> k]) \in Lines(s)
    BY <1>1, <2>1 DEF Lines
  <2> QED BY <2>2 DEF Pages
<1>8. \A o \in Spans(s) : [page EXCEPT !.open = o] \in Pages(s)
  BY <1>1 DEF Pages
<1>9. \A o, k : Show(o, k).rows = Append(page.rows, [row |-> r, depth |-> k])
  OBVIOUS
<1>10. \A o : [page EXCEPT !.open = o].rows = page.rows
  BY DEF Pages
<1> HIDE DEF Show
<1>11. 0 \in Nat
  OBVIOUS
<1>12. Render(s, page, r) \in Pages(s)
  BY <1>4, <1>5, <1>6, <1>7, <1>8, <1>11, Zenon
<1>13. Render(s, page, r).rows = page.rows
       \/ \E k : Render(s, page, r).rows = Append(page.rows, [row |-> r, depth |-> k])
  <2> DEFINE P(x) == x.rows = page.rows \/ \E k : x.rows = Append(page.rows, [row |-> r, depth |-> k])
  <2>1. \A o, k : P(Show(o, k))
    BY <1>9
  <2>2. \A o : P([page EXCEPT !.open = o])
    BY <1>10
  <2>3. P(Render(s, page, r))
    <3> HIDE DEF P
    <3> QED BY <1>4, <2>1, <2>2, Zenon
  <2> QED BY <2>3
<1> QED BY <1>12, <1>13

\* The pages that show some of the first i items, each once.
PagesTo(s, seq, i) ==
  {p \in Pages(s) : /\ \A a \in DOMAIN p.rows : \E j \in 1..i : p.rows[a].row = seq[j]
                    /\ \A a, b \in DOMAIN p.rows : p.rows[a].row = p.rows[b].row => a = b}

\* An item is shown once or not at all.
LEMMA RenderOnce ==
  ASSUME NEW s \in Sound, NEW seq, Lists(seq, Rows(s)), NEW i \in 1..Len(seq), NEW page \in PagesTo(s, seq, i - 1)
  PROVE  Render(s, page, seq[i]) \in PagesTo(s, seq, i)
<1> DEFINE r == seq[i]
           new == Render(s, page, r)
<1>1. i \in Nat \ {0} /\ 1..(i - 1) \subseteq 1..i /\ i \in 1..i /\ DOMAIN seq = 1..Len(seq) /\ r \in Rows(s)
  BY DEF Lists
<1>2. /\ page \in Pages(s)
      /\ \A a \in DOMAIN page.rows : \E j \in 1..(i - 1) : page.rows[a].row = seq[j]
      /\ \A a, b \in DOMAIN page.rows : page.rows[a].row = page.rows[b].row => a = b
  BY DEF PagesTo
<1>3. new \in Pages(s) /\ (new.rows = page.rows \/ \E k : new.rows = Append(page.rows, [row |-> r, depth |-> k]))
  BY <1>1, <1>2, RenderIsPage
<1>4. \A a \in DOMAIN page.rows : page.rows[a].row # r
  <2> SUFFICES ASSUME NEW a \in DOMAIN page.rows, page.rows[a].row = r PROVE FALSE
    OBVIOUS
  <2>1. PICK j \in 1..(i - 1) : r = seq[j]
    BY <1>2
  <2>2. j \in DOMAIN seq /\ i \in DOMAIN seq /\ seq[i] = seq[j] /\ i # j
    BY <1>1, <2>1
  <2> QED BY <2>2 DEF Lists
<1> HIDE DEF r, new
<1>5. CASE new.rows = page.rows
  BY <1>1, <1>2, <1>3, <1>5 DEF PagesTo, new, r
<1>6. CASE \E k : new.rows = Append(page.rows, [row |-> r, depth |-> k])
  <2>1. PICK k : new.rows = Append(page.rows, [row |-> r, depth |-> k])
    BY <1>6
  <2> DEFINE n == Len(page.rows)
             line == [row |-> r, depth |-> k]
  <2>2. line.row = r
    OBVIOUS
  <2>3. page.rows \in Seq([row : Rows(s), depth : Nat])
    BY <1>2 DEF Pages, Lines
  <2>4. n \in Nat /\ DOMAIN page.rows = 1..n
    BY <2>3
  <2> HIDE DEF line
  <2>5. DOMAIN new.rows = 1..(n + 1) /\ new.rows[n + 1] = line /\ \A a \in 1..n : new.rows[a] = page.rows[a]
    BY <2>1, <2>3 DEF line
  <2> HIDE DEF n
  <2>6. \A a \in DOMAIN new.rows : \E j \in 1..i : new.rows[a].row = seq[j]
    <3> TAKE a \in DOMAIN new.rows
    <3>1. CASE a \in 1..n
      BY <1>1, <1>2, <2>4, <2>5, <3>1
    <3>2. CASE a = n + 1
      BY <1>1, <2>2, <2>5, <3>2 DEF r
    <3>3. a \in 1..n \/ a = n + 1
      BY <2>4, <2>5
    <3> QED BY <3>1, <3>2, <3>3, Zenon
  <2>7. \A a, b \in DOMAIN new.rows : new.rows[a].row = new.rows[b].row => a = b
    <3> TAKE a, b \in DOMAIN new.rows
    <3>1. CASE a \in 1..n /\ b \in 1..n
      BY <1>2, <2>4, <2>5, <3>1
    <3>2. CASE a = n + 1 /\ b \in 1..n
      BY <1>4, <2>2, <2>4, <2>5, <3>2
    <3>3. CASE a \in 1..n /\ b = n + 1
      BY <1>4, <2>2, <2>4, <2>5, <3>3
    <3> QED BY <2>4, <2>5, <3>1, <3>2, <3>3
  <2> QED BY <1>3, <2>6, <2>7 DEF PagesTo, new, r
<1> QED BY <1>3, <1>5, <1>6

\* The page shows rows of the sheet.
LEMMA UnitsAreRows ==
  ASSUME CueSheetAssumption, NEW s \in Sound
  PROVE  /\ SelectUnits(s) \in Seq(Rows(s)) /\ Shown(s) \subseteq Rows(s)
         /\ \A i, j \in DOMAIN SelectUnits(s) : SelectUnits(s)[i] = SelectUnits(s)[j] => i = j
<1> DEFINE seq == Items(s)
           n == Len(seq)
           X == Pages(s)
           base == [open |-> <<>>, rows |-> <<>>]
           W(g) == g = [z \in SUBSET DOMAIN seq |->
                          IF z = {} THEN base ELSE Render(s, g[z \ {Max(z)}], seq[Max(z)])]
           step == [p \in (1..n) \X X |-> Render(s, p[2], seq[p[1]])]
           iter == CHOOSE g : W(g)
<1>0. seq \in Seq(Rows(s)) /\ Lists(seq, Rows(s))
  BY SequenceCovers DEF Lists
<1>1. FlattenSheet(s) = iter[DOMAIN seq].rows
  BY Zenon DEF FlattenSheet, FoldLeft, MapThenFoldSet
<1> HIDE DEF seq
<1>2. n \in Nat /\ DOMAIN seq = 1..n /\ \A i \in 1..n : seq[i] \in Rows(s)
  BY <1>0
<1>3. base \in X /\ base \in PagesTo(s, seq, 0)
  BY DEF Pages, Spans, Lines, PagesTo
<1> HIDE DEF base, X, n
<1>4. \A t \in X : \A i \in 1..n : Render(s, t, seq[i]) \in X
  BY <1>2, RenderIsPage DEF X
<1>5. step \in [(1..n) \X X -> X]
  BY <1>4
<1>6. PICK f : FoldOf(f, n, X, base, step)
  <2> HIDE DEF step
  <2> QED BY <1>2, <1>3, <1>5, FoldExists
<1>7. W(f)
  <2>1. \A z \in SUBSET (1..n) : f[z] = IF z = {} THEN base ELSE Render(s, f[z \ {Max(z)}], seq[Max(z)])
    BY <1>6 DEF FoldOf
  <2> HIDE DEF step
  <2> QED BY <1>2, <1>6, <2>1 DEF FoldOf
<1>8. W(iter)
  <2> HIDE DEF W
  <2> QED BY <1>7, Zenon
<1> HIDE DEF iter
<1>9. \A z \in SUBSET (1..n) : iter[z] = IF z = {} THEN base ELSE Render(s, iter[z \ {Max(z)}], seq[Max(z)])
  BY <1>2, <1>8
<1> DEFINE Stage == [i \in 0..n |-> PagesTo(s, seq, i)]
<1>10. iter[1..n] \in Stage[n]
  <2>1. iter[1..0] \in Stage[0]
    <3>1. 1..0 = {} /\ {} \in SUBSET (1..n) /\ 0 \in 0..n
      BY <1>2
    <3>2. iter[{}] = base
      BY <3>1, <1>9
    <3> QED BY <3>1, <3>2, <1>3
  <2>2. \A i \in 1..n : iter[1..(i - 1)] \in Stage[i - 1] => iter[1..i] \in Stage[i]
    <3> TAKE i \in 1..n
    <3> HAVE iter[1..(i - 1)] \in Stage[i - 1]
    <3>1. 1..i \in SUBSET (1..n) /\ 1..i # {} /\ Max(1..i) = i /\ (1..i) \ {i} = 1..(i - 1)
      BY <1>2, PrefixFold
    <3>2. iter[1..i] = Render(s, iter[(1..i) \ {Max(1..i)}], seq[Max(1..i)])
      BY <3>1, <1>9
    <3>3. i \in 0..n /\ i - 1 \in 0..n
      BY <1>2
    <3>4. iter[1..(i - 1)] \in PagesTo(s, seq, i - 1)
      BY <3>3
    <3>5. iter[1..i] = Render(s, iter[1..(i - 1)], seq[i])
      BY <3>1, <3>2, Zenon
    <3>6. Render(s, iter[1..(i - 1)], seq[i]) \in PagesTo(s, seq, i)
      BY <1>0, <3>4, RenderOnce DEF n
    <3> QED BY <3>3, <3>5, <3>6
  <2> HIDE DEF Stage
  <2> QED BY <1>2, <2>1, <2>2, PrefixIn
<1>11. /\ FlattenSheet(s) \in Lines(s)
       /\ \A i, j \in DOMAIN FlattenSheet(s) : FlattenSheet(s)[i].row = FlattenSheet(s)[j].row => i = j
  <2>1. n \in 0..n
    BY <1>2
  <2>2. iter[1..n] \in PagesTo(s, seq, n)
    BY <1>10, <2>1
  <2> QED BY <1>1, <1>2, <2>2 DEF PagesTo, Pages
<1> DEFINE page == FlattenSheet(s)
           units == SelectUnits(s)
<1>12. units = [i \in DOMAIN page |-> page[i].row]
  BY DEF SelectUnits, RowsOf
<1>13. page \in Seq([row : Rows(s), depth : Nat])
  BY <1>11 DEF Lines
<1>14. \A i, j \in DOMAIN page : page[i].row = page[j].row => i = j
  BY <1>11
<1> HIDE DEF page, units
<1>15. Len(page) \in Nat /\ DOMAIN page = 1..Len(page) /\ \A i \in DOMAIN page : page[i] \in [row : Rows(s), depth : Nat]
  <2> DEFINE E == [row : Rows(s), depth : Nat]
  <2>1. page \in Seq(E)
    BY <1>13
  <2> HIDE DEF E
  <2>2. Len(page) \in Nat /\ DOMAIN page = 1..Len(page) /\ \A i \in DOMAIN page : page[i] \in E
    BY <2>1
  <2> QED BY <2>2 DEF E
<1>16. \A i \in DOMAIN page : page[i].row \in Rows(s)
  BY <1>15
<1>17. units \in [1..Len(page) -> Rows(s)]
  BY <1>12, <1>15, <1>16
<1>18. units \in Seq(Rows(s)) /\ \A i \in DOMAIN units : units[i] \in Rows(s)
  BY <1>15, <1>17
<1>19. Shown(s) \subseteq Rows(s)
  BY <1>18 DEF Shown, ToSet, units
<1>20. \A i, j \in DOMAIN units : units[i] = units[j] => i = j
  BY <1>12, <1>14
<1> QED BY <1>18, <1>19, <1>20 DEF units

-----------------------------------------------------------------------------
(* The selection. *)

\* What changing the selection of s may lead to.
Chosen(s) == {t \in Sound : t.group = s.group}

\* A selection of one row.
LEMMA SelectedChosen ==
  ASSUME NEW s \in Sound, NEW id \in Int
  PROVE  SetSelected(s, id) \in Chosen(s) /\ s \in Chosen(s)
BY SetSelectedSound DEF Chosen

\* The id of a row: a position, or minus a group id.
LEMMA IdIsInt ==
  ASSUME CueSheetAssumption, NEW s \in Sound, NEW r \in Rows(s)
  PROVE  Id(s, r) \in Int
<1>1. GoodRows(s)
  BY SoundParts
<1>2. CASE IsGroup(s, r)
  <2>1. r \in Int
    BY <1>1, <1>2, RowsAreTwoKinds DEF IsGroup
  <2> QED BY <1>2, <2>1 DEF Id
<1>3. CASE ~IsGroup(s, r)
  <2>1. s.cue[r].pos \in Nat \ {0}
    BY <1>1, <1>3, RowsAreTwoKinds DEF IsGroup, Rows
  <2> QED BY <1>3, <2>1 DEF Id
<1> QED BY <1>2, <1>3

\* The place of the anchor on the page, or none.
LEMMA UnitIndexIsPlace ==
  ASSUME NEW s, NEW S, NEW units \in Seq(S)
  PROVE  UnitIndex(s, units) \in 0..Len(units) /\ Len(units) \in Nat /\ DOMAIN units = 1..Len(units)
<1> DEFINE pos(r) == IF IsGroup(s, r) THEN 0 ELSE s.cue[r].pos
           I == {i \in 1..Len(units) : IF s.anchor < 0 THEN units[i] = -s.anchor ELSE pos(units[i]) = s.anchor}
<1>1. Len(units) \in Nat /\ DOMAIN units = 1..Len(units)
  OBVIOUS
<1>2. UnitIndex(s, units) = IF I # {} THEN Min(I) ELSE 0
  BY Zenon DEF UnitIndex, SelectInSeq
<1>3. 1 \in Int /\ Len(units) \in Int
  BY <1>1
<1>4. IsFiniteSet(1..Len(units)) /\ I \in SUBSET (1..Len(units)) /\ I \subseteq Int
  BY <1>3, FS_Interval
<1> HIDE DEF I
<1>5. IsFiniteSet(I)
  BY <1>4, FS_Subset
<1>6. I # {} => Min(I) \in I
  BY <1>4, <1>5, FiniteExtremes
<1>7. I # {} => Min(I) \in 0..Len(units)
  <2>1. I # {} => Min(I) \in 1..Len(units)
    BY <1>4, <1>6
  <2>2. 1..Len(units) \subseteq 0..Len(units)
    BY <1>1
  <2> QED BY <2>1, <2>2
<1>8. 0 \in 0..Len(units)
  BY <1>1
<1> QED BY <1>1, <1>2, <1>7, <1>8

\* Only the selection changes.
LEMMA SelectionFieldsSound ==
  ASSUME NEW s \in Sound, NEW a \in Int, NEW e \in SUBSET Int, NEW t, t = [s EXCEPT !.anchor = a, !.set = e]
  PROVE  t \in Chosen(s)
<1>1. s \in [cue : CueMaps, group : GroupMaps, anchor : Int, set : SUBSET Int]
  BY DEF Sound, Fields
<1>2. t \in [cue : {s.cue}, group : {s.group}, anchor : {a}, set : {e}]
  BY <1>1
<1>3. t = Sh(s.cue, s.group, a, e)
  BY <1>2, OneSheet
<1>4. Sh(s.cue, s.group, a, e) \in Sound
  BY SoundParts, KinItself, MakeSound
<1>5. Sh(s.cue, s.group, a, e).group = s.group
  BY DEF Sh
<1> QED BY <1>3, <1>4, <1>5 DEF Chosen

\* Only the set changes.
LEMMA SetFieldSound ==
  ASSUME NEW s \in Sound, NEW e \in SUBSET Int, NEW t, t = [s EXCEPT !.set = e]
  PROVE  t \in Chosen(s)
<1>1. t = Sh(s.cue, s.group, s.anchor, e)
  BY DEF Sound, Fields, Sh
<1>2. Sh(s.cue, s.group, s.anchor, e) \in Sound
  BY SoundParts, KinItself, MakeSound
<1>3. Sh(s.cue, s.group, s.anchor, e).group = s.group
  BY DEF Sh
<1> QED BY <1>1, <1>2, <1>3 DEF Chosen

\* An arrow key.
LEMMA StepSound ==
  ASSUME CueSheetAssumption, NEW s \in Sound, NEW units \in Seq(Rows(s)), NEW dir
  PROVE  SelectStep(s, units, dir) \in Chosen(s)
<1> DEFINE i == UnitIndex(s, units) + dir
<1>1. SelectStep(s, units, dir) = IF i \in DOMAIN units THEN SetSelected(s, Id(s, units[i])) ELSE s
  BY DEF SelectStep
<1> HIDE DEF i
<1>2. i \in DOMAIN units => Id(s, units[i]) \in Int
  <2>1. i \in DOMAIN units => units[i] \in Rows(s)
    OBVIOUS
  <2> QED BY <2>1, IdIsInt
<1>3. i \in DOMAIN units => SetSelected(s, Id(s, units[i])) \in Chosen(s)
  BY <1>2, SelectedChosen
<1> QED BY <1>1, <1>3, SelectedChosen, 0 \in Int

\* After GO the next cue is selected.
LEMMA NextCueSound ==
  ASSUME CueSheetAssumption, NEW s \in Sound
  PROVE  NextCue(s) \in Chosen(s)
<1> DEFINE order == CueOrder(s)
           i == SelectInSeq(order, LAMBDA c : s.cue[c].pos = s.anchor)
<1>1. NextCue(s) = IF i \in 1..(Len(order) - 1) THEN SetSelected(s, s.cue[order[i + 1]].pos) ELSE s
  BY DEF NextCue
<1>2. order \in Seq(DOMAIN s.cue)
  BY SequenceCovers DEF Lists
<1> HIDE DEF i, order
<1>3. i \in 1..(Len(order) - 1) => order[i + 1] \in DOMAIN s.cue
  BY <1>2
<1>4. \A c \in DOMAIN s.cue : s.cue[c].pos \in Int
  BY SoundParts, RowsAreTwoKinds
<1>5. i \in 1..(Len(order) - 1) => SetSelected(s, s.cue[order[i + 1]].pos) \in Chosen(s)
  BY <1>3, <1>4, SelectedChosen
<1>6. s \in Chosen(s)
  BY DEF Chosen
<1> QED BY <1>1, <1>5, <1>6

\* The rows between two places are named by integers.
LEMMA SpanIsIds ==
  ASSUME CueSheetAssumption, NEW s \in Sound, NEW units \in Seq(Rows(s)), NEW i \in DOMAIN units, NEW j \in DOMAIN units
  PROVE  Span(s, units, i, j) \in SUBSET Int
<1>1. i \in Int /\ j \in Int /\ Len(units) \in Nat /\ DOMAIN units = 1..Len(units)
  OBVIOUS
<1> DEFINE M == {i, j}
<1>2. IsFiniteSet(M)
  <2>1. M = {i} \cup {j}
    OBVIOUS
  <2> HIDE DEF M
  <2>2. IsFiniteSet({i}) /\ IsFiniteSet({j})
    BY FS_Singleton
  <2> QED BY <2>1, <2>2, FS_Union
<1>3. M \subseteq Int /\ M # {} /\ M \subseteq DOMAIN units
  BY <1>1
<1> HIDE DEF M
<1>4. Min(M) \in M /\ Max(M) \in M
  BY <1>2, <1>3, FiniteExtremes
<1>5. \A k \in Min(M)..Max(M) : k \in DOMAIN units
  <2>1. Min(M) \in 1..Len(units) /\ Max(M) \in 1..Len(units)
    BY <1>1, <1>3, <1>4
  <2>2. \A x, y \in 1..Len(units) : \A k \in x..y : k \in 1..Len(units)
    BY <1>1
  <2> QED BY <1>1, <2>1, <2>2
<1>6. \A k \in Min(M)..Max(M) : Id(s, units[k]) \in Int
  <2> TAKE k \in Min(M)..Max(M)
  <2>1. units[k] \in Rows(s)
    BY <1>5
  <2> QED BY <2>1, IdIsInt
<1>7. Span(s, units, i, j) = {Id(s, units[k]) : k \in Min(M)..Max(M)} \ {s.anchor}
  BY DEF Span, M
<1> QED BY <1>6, <1>7

\* A shift-click.
LEMMA ExtendSound ==
  ASSUME CueSheetAssumption, NEW s \in Sound, NEW units \in Seq(Rows(s)), NEW r \in ToSet(units)
  PROVE  ExtendSelection(s, units, r) \in Chosen(s)
<1> DEFINE from == UnitIndex(s, units)
           e == Span(s, units, from, At(units, r)) \cup LiveSet(s)
<1>1. ExtendSelection(s, units, r) = IF from = 0 THEN SetSelected(s, Id(s, r)) ELSE [s EXCEPT !.set = e]
  BY DEF ExtendSelection
<1>2. from \in 0..Len(units) /\ Len(units) \in Nat /\ DOMAIN units = 1..Len(units)
  BY UnitIndexIsPlace
<1>3. (\E i \in DOMAIN units : units[i] = r) /\ r \in Rows(s)
  BY DEF ToSet
<1>4. At(units, r) \in DOMAIN units
  BY <1>3, AtIsPlace
<1> HIDE DEF from
<1>5. SetSelected(s, Id(s, r)) \in Chosen(s)
  BY <1>3, IdIsInt, SelectedChosen
<1>6. from # 0 => e \in SUBSET Int
  <2>1. from # 0 => from \in DOMAIN units
    BY <1>2
  <2>2. from # 0 => Span(s, units, from, At(units, r)) \in SUBSET Int
    BY <1>4, <2>1, SpanIsIds
  <2>3. LiveSet(s) \in SUBSET Int
    BY SoundParts DEF LiveSet
  <2> QED BY <2>2, <2>3
<1> HIDE DEF e
<1>7. CASE from = 0
  BY <1>1, <1>5, <1>7
<1>8. CASE from # 0
  <2>1. ExtendSelection(s, units, r) = [s EXCEPT !.set = e]
    BY <1>1, <1>8
  <2> QED BY <1>6, <1>8, <2>1, SetFieldSound
<1> QED BY <1>7, <1>8

\* A shift-arrow.
LEMMA ExtendStepSound ==
  ASSUME CueSheetAssumption, NEW s \in Sound, NEW units \in Seq(Rows(s)), NEW dir
  PROVE  ExtendStep(s, units, dir) \in Chosen(s)
<1> DEFINE from == UnitIndex(s, units)
           head == FarEnd(Marked(s, units, from), from, dir) + dir
           e == IF head = from THEN {} ELSE Span(s, units, from, head)
<1>1. ExtendStep(s, units, dir) = IF from = 0 THEN SelectStep(s, units, dir) ELSE MoveHead(s, units, from, head)
  BY DEF ExtendStep
<1>2. from \in 0..Len(units) /\ Len(units) \in Nat /\ DOMAIN units = 1..Len(units)
  BY UnitIndexIsPlace
<1>3. MoveHead(s, units, from, head) = IF head \notin DOMAIN units THEN s ELSE [s EXCEPT !.set = e]
  BY DEF MoveHead
<1> HIDE DEF from, head
<1>4. SelectStep(s, units, dir) \in Chosen(s)
  BY StepSound
<1>5. from # 0 /\ head \in DOMAIN units => e \in SUBSET Int
  <2>1. from # 0 => from \in DOMAIN units
    BY <1>2
  <2> QED BY <2>1, SpanIsIds
<1> HIDE DEF e
<1>6. CASE from # 0 /\ head \in DOMAIN units
  <2>1. ExtendStep(s, units, dir) = [s EXCEPT !.set = e]
    BY <1>1, <1>3, <1>6
  <2> QED BY <1>5, <1>6, <2>1, SetFieldSound
<1>7. CASE ~(from # 0 /\ head \in DOMAIN units)
  <2>1. s \in Chosen(s)
    BY DEF Chosen
  <2> QED BY <1>1, <1>3, <1>4, <1>7, <2>1
<1> QED BY <1>6, <1>7

\* A ctrl-click.
LEMMA ToggleSound ==
  ASSUME CueSheetAssumption, NEW s \in Sound, NEW r \in Rows(s)
  PROVE  Toggle(s, r) \in Chosen(s)
<1> DEFINE id == Id(s, r)
           e == IF id \in s.set THEN s.set \ {id} ELSE IF id = s.anchor THEN s.set ELSE s.set \cup {id}
           a == IF s.anchor = 0 THEN id ELSE IF IsCue(s, r) /\ s.anchor < 0 THEN 0 ELSE s.anchor
<1>1. id \in Int /\ s.anchor \in Int /\ s.set \in SUBSET Int
  BY IdIsInt, SoundParts
<1> HIDE DEF id
<1>2. a \in Int /\ e \in SUBSET Int
  BY <1>1
<1>3. Toggle(s, r) = [s EXCEPT !.anchor = a, !.set = e]
  <2>1. s \in [cue : CueMaps, group : GroupMaps, anchor : Int, set : SUBSET Int]
    BY DEF Sound, Fields
  <2>2. Toggle(s, r) = [s EXCEPT !.set = e, !.anchor = a]
    BY DEF Toggle, id
  <2> HIDE DEF a, e
  <2>3. Toggle(s, r) \in [cue : {s.cue}, group : {s.group}, anchor : {a}, set : {e}]
    BY <2>1, <2>2
  <2>4. [s EXCEPT !.anchor = a, !.set = e] \in [cue : {s.cue}, group : {s.group}, anchor : {a}, set : {e}]
    BY <2>1
  <2> QED BY <2>3, <2>4, OneSheet
<1> HIDE DEF a, e
<1> QED BY <1>2, <1>3, SelectionFieldsSound

\* Select all.
LEMMA AllSound ==
  ASSUME CueSheetAssumption, NEW s \in Sound
  PROVE  SelectAll(s) \in Chosen(s)
<1> DEFINE units == SelectUnits(s)
           lead == IF s.anchor = 0 /\ units # <<>> THEN Id(s, Head(units)) ELSE s.anchor
           e == {Id(s, r) : r \in Shown(s)} \ {lead}
<1>1. units \in Seq(Rows(s)) /\ Shown(s) \subseteq Rows(s)
  BY UnitsAreRows
<1>2. SelectAll(s) = [s EXCEPT !.anchor = lead, !.set = e]
  BY DEF SelectAll
<1>3. \A r \in Rows(s) : Id(s, r) \in Int
  BY IdIsInt
<1> HIDE DEF units
<1>4. lead \in Int
  <2>1. units # <<>> => Head(units) \in Rows(s)
    BY <1>1
  <2>2. s.anchor \in Int
    BY SoundParts
  <2> QED BY <1>3, <2>1, <2>2
<1>5. e \in SUBSET Int
  BY <1>1, <1>3
<1> HIDE DEF lead, e
<1> QED BY <1>2, <1>4, <1>5, SelectionFieldsSound

-----------------------------------------------------------------------------
(* Drags. *)

\* The empty sheet is sound.
LEMMA ClearSound == ClearCueSheet \in Sound
<1> DEFINE e == <<>>
<1>1. DOMAIN e = {} /\ e \in [{} -> CueRec] /\ e \in [{} -> GroupRec]
  OBVIOUS
<1>2. IsFiniteSet({})
  BY FS_EmptySet
<1>3. GoodCues(e) /\ GoodGroups(e) /\ Members(e, e)
  BY <1>1, <1>2 DEF GoodCues, GoodGroups, Members
<1>4. ClearCueSheet = Sh(e, e, 0, {})
  BY DEF ClearCueSheet, Sh
<1>5. Sh(e, e, 0, {}).group = e
  BY DEF Sh
<1> HIDE DEF e
<1>6. Tree(Sh(e, e, 0, {}))
  BY <1>1, <1>5 DEF Tree
<1>7. 0 \in Int /\ {} \in SUBSET Int
  OBVIOUS
<1> QED BY <1>3, <1>4, <1>6, <1>7, IsSound

Folded(s, g) == [s EXCEPT !.group[g].collapse = ~@]

\* A header is folded or opened.
LEMMA FoldSound ==
  ASSUME NEW s \in Sound, NEW g \in DOMAIN s.group
  PROVE  Folded(s, g) \in Sound
<1> DEFINE new == [s.group EXCEPT ![g].collapse = ~s.group[g].collapse]
           t == Sh(s.cue, new, s.anchor, s.set)
<1>1. Folded(s, g) = t
  BY DEF Folded, Sound, Fields, Sh
<1>2. GoodGroups(s.group) /\ Tree(s) /\ Members(s.cue, s.group)
  BY SoundParts
<1>3. /\ DOMAIN new = DOMAIN s.group
      /\ \A h \in DOMAIN new : new[h] \in GroupRec /\ new[h].up = s.group[h].up
  BY <1>2 DEF GoodGroups, GroupRec
<1>4. new = [h \in DOMAIN new |-> new[h]]
  OBVIOUS
<1> HIDE DEF new
<1>5. new \in [DOMAIN new -> GroupRec]
  BY <1>3, <1>4
<1>6. GoodGroups(new) /\ Kin(s.group, new) /\ Members(s.cue, new)
  BY <1>2, <1>3, <1>5 DEF GoodGroups, Kin, Members, Tree
<1>7. t \in Sound
  BY <1>6, SoundParts, MakeSound
<1> QED BY <1>1, <1>7

\* What is dragged are rows of the sheet ...
LEMMA DraggedRows ==
  ASSUME CueSheetAssumption, NEW s \in Sound, NEW c \in DOMAIN s.cue
  PROVE  Dragged(s, c) \in Seq(Rows(s))
<1>1. SelectUnits(s) \in Seq(Rows(s))
  BY UnitsAreRows
<1>2. InOrder(SelectUnits(s), Picked(s)) \in Seq(Rows(s))
  BY <1>1, PickedInOrder
<1>3. <<c>> \in Seq(Rows(s))
  BY DEF Rows
<1> QED BY <1>2, <1>3 DEF Dragged

\* ... and so is a group with what is in it.
LEMMA BlockRows ==
  ASSUME CueSheetAssumption, NEW s \in Sound, NEW g
  PROVE  Block(s, g) \in Seq(Rows(s))
<1>1. LoadSequence(s) \in Seq(Rows(s))
  BY SequenceCovers DEF Lists
<1> DEFINE ids == {g} \cup Below(s, g)
           rows == ids \cup {c \in DOMAIN s.cue : s.cue[c].parent \in ids}
<1>2. Block(s, g) = InOrder(LoadSequence(s), rows)
  BY DEF Block
<1> HIDE DEF rows
<1> QED BY <1>1, <1>2, PickedInOrder

\* The lines the page draws are slots, in none or in a group of the sheet.
LEMMA BandsAreLines ==
  ASSUME CueSheetAssumption, NEW s \in Sound, NEW block, NEW b \in Bands(s, block)
  PROVE  b.at \in Slots(LoadSequence(s), block) /\ b.parent \in {0} \cup DOMAIN s.group
<1> DEFINE seq == LoadSequence(s)
           cues == Shown(s) \cap DOMAIN s.cue
           parent(r) == IF IsCue(s, r) THEN s.cue[r].parent ELSE 0
<1>1. \/ \E r \in Shown(s) : b = [at |-> SlotAbove(seq, block, r), parent |-> parent(r)]
      \/ \E r \in cues : b = [at |-> SlotBelow(seq, block, r), parent |-> parent(r)]
      \/ b = [at |-> SlotEnd(seq, block), parent |-> 0]
  BY DEF Bands
<1>2. Shown(s) \subseteq Rows(s)
  BY UnitsAreRows
<1>3. \A r : parent(r) \in {0} \cup DOMAIN s.group
  BY SoundParts DEF Members, IsCue
<1>4. \A r \in Rows(s) : SlotAbove(seq, block, r) \in Slots(seq, block) /\ SlotBelow(seq, block, r) \in Slots(seq, block)
  BY RowLines
<1>5. SlotEnd(seq, block) \in Slots(seq, block)
  BY EndIsSlot
<1> HIDE DEF seq, parent
<1>6. CASE \E r \in Shown(s) : b = [at |-> SlotAbove(seq, block, r), parent |-> parent(r)]
  BY <1>2, <1>3, <1>4, <1>6 DEF seq
<1>7. CASE \E r \in cues : b = [at |-> SlotBelow(seq, block, r), parent |-> parent(r)]
  BY <1>2, <1>3, <1>4, <1>7 DEF seq
<1>8. CASE b = [at |-> SlotEnd(seq, block), parent |-> 0]
  BY <1>5, <1>8 DEF seq
<1> QED BY <1>1, <1>6, <1>7, <1>8

\* Dropping on a header is a slot in that group.
LEMMA BodyIsLine ==
  ASSUME CueSheetAssumption, NEW s \in Sound, NEW block, NEW g \in DOMAIN s.group, g \notin ToSet(block)
  PROVE  Body(s, block, g).at \in Slots(LoadSequence(s), block) /\ Body(s, block, g).parent = g
<1>1. SlotLast(s, LoadSequence(s), block, g) \in Slots(LoadSequence(s), block)
  BY LastIsSlot
<1>2. SlotFirst(LoadSequence(s), block, g) \in Slots(LoadSequence(s), block)
  <2>1. g \in Rows(s)
    BY DEF Rows
  <2> QED BY <2>1, RowLines
<1> QED BY <1>1, <1>2 DEF Body

-----------------------------------------------------------------------------
(* The invariant. *)

\* The inductive invariant.
IInv ==
  /\ Sheet \in Sound
  /\ DOMAIN group \subseteq 1..MaxGroups
  /\ edits \in 0..MaxEdits

\* The invariant says what ReferencesSound says.
LEMMA IInvIsSound == ASSUME CueSheetAssumption, IInv PROVE ReferencesSound
<1>1. Sheet.cue = cue /\ Sheet.group = group /\ Sheet.anchor = anchor /\ Sheet.set = set
  BY DEF Sheet
<1>2. /\ GoodCues(cue) /\ GoodGroups(group) /\ anchor \in Int /\ set \in SUBSET Int
      /\ Members(cue, group) /\ Tree(Sheet)
  BY <1>1, SoundParts DEF IInv
<1>3. TypeOK
  <2>1. \E D \in SUBSET Cues : cue \in [D -> [pos : Nat \ {0}, idx : Int, parent : Nat]]
    BY <1>2 DEF GoodCues, CueRec
  <2>2. \E D \in SUBSET (1..MaxGroups) : group \in [D -> [idx : Int, up : Nat, collapse : BOOLEAN]]
    BY <1>2 DEF GoodGroups, GroupRec, IInv
  <2> QED BY <1>2, <2>1, <2>2 DEF TypeOK, IInv
<1>4. SheetSound
  <2>1. \A c, d \in DOMAIN cue : cue[c].pos = cue[d].pos => c = d
    BY <1>2 DEF GoodCues
  <2>2. \A c \in DOMAIN cue : cue[c].parent \in {0} \cup DOMAIN group
    BY <1>2 DEF Members
  <2>3. \A g \in DOMAIN group : group[g].up \in {0} \cup DOMAIN group /\ g \notin Above(Sheet, g)
    <3> HIDE DEF Sheet
    <3> QED BY <1>1, <1>2 DEF Tree
  <2> QED BY <2>1, <2>2, <2>3 DEF SheetSound
<1> QED BY <1>3, <1>4 DEF ReferencesSound

\* The show that is opened: its cues in order, some of them in the first group.
LEMMA InitSound == ASSUME CueSheetAssumption, Init PROVE IInv
<1>1. PICK show \in {c \in SUBSET Cues : Cardinality(c) = Start} : \E members \in 0..Start :
        LET order == SetToSeq(show)
            inside(c) == At(order, c) <= members
        IN  /\ cue = [c \in show |-> [pos |-> At(order, c), idx |-> (At(order, c) + 1) * Step,
                                     parent |-> IF inside(c) THEN 1 ELSE 0]]
            /\ group = IF members = 0 THEN <<>> ELSE <<[idx |-> Step, up |-> 0, collapse |-> FALSE]>>
  BY DEF Init
<1> DEFINE order == SetToSeq(show)
           at(c) == At(order, c)
<1>2. PICK members \in 0..Start :
        /\ cue = [c \in show |-> [pos |-> at(c), idx |-> (at(c) + 1) * Step, parent |-> IF at(c) <= members THEN 1 ELSE 0]]
        /\ group = IF members = 0 THEN <<>> ELSE <<[idx |-> Step, up |-> 0, collapse |-> FALSE]>>
  BY <1>1
<1>3. IsFiniteSet(show) /\ show \in SUBSET Cues /\ Step \in Nat /\ MaxGroups \in Nat \ {0} /\ Start \in Nat
  <2>1. IsFiniteSet(Cues) /\ Step \in Nat /\ MaxGroups \in Nat \ {0}
    BY DEF CueSheetAssumption
  <2>2. show \in SUBSET Cues /\ Cardinality(show) = Start
    OBVIOUS
  <2>3. IsFiniteSet(show)
    BY <2>1, <2>2, FS_Subset
  <2>4. Start \in Nat
    BY <2>2, <2>3, FS_CardinalityType
  <2> QED BY <2>1, <2>2, <2>3, <2>4
<1>4. /\ order \in [1..Cardinality(show) -> show] /\ Cardinality(show) \in Nat
      /\ \A i, j \in 1..Cardinality(show) : order[i] = order[j] => i = j
      /\ \A x \in show : \E i \in 1..Cardinality(show) : order[i] = x
  BY <1>3, SetToSeqLists
<1> HIDE DEF order
<1>5. \A c \in show : at(c) \in Nat \ {0} /\ order[at(c)] = c
  <2>1. order \in Seq(show) /\ \A c \in show : \E i \in DOMAIN order : order[i] = c
    BY <1>4
  <2> QED BY <2>1, AtIsPlace
<1> HIDE DEF at
<1>6. DOMAIN cue = show /\ cue = [c \in show |-> cue[c]]
  BY <1>2
<1>7. \A c \in show : /\ cue[c].pos = at(c) /\ cue[c].parent = IF at(c) <= members THEN 1 ELSE 0
                      /\ cue[c] \in CueRec
  <2> TAKE c \in show
  <2>1. cue[c] = [pos |-> at(c), idx |-> (at(c) + 1) * Step, parent |-> IF at(c) <= members THEN 1 ELSE 0]
    BY <1>2
  <2>2. (at(c) + 1) * Step \in Int
    BY <1>3, <1>5
  <2> QED BY <1>5, <2>1, <2>2 DEF CueRec
<1>8. GoodCues(cue)
  <2>1. cue \in [DOMAIN cue -> CueRec]
    BY <1>6, <1>7
  <2>2. \A x, y \in DOMAIN cue : cue[x].pos = cue[y].pos => x = y
    <3> TAKE x, y \in DOMAIN cue
    <3> HAVE cue[x].pos = cue[y].pos
    <3>1. at(x) = at(y) /\ order[at(x)] = x /\ order[at(y)] = y
      BY <1>5, <1>6, <1>7
    <3> QED BY <3>1, Zenon
  <2> QED BY <1>3, <1>6, <2>1, <2>2 DEF GoodCues
<1> DEFINE top == [idx |-> Step, up |-> 0, collapse |-> FALSE]
<1>9. /\ DOMAIN group \subseteq {1} /\ (members # 0 => DOMAIN group = {1})
      /\ group \in [DOMAIN group -> {top}]
  <2> HIDE DEF top
  <2>1. CASE members = 0
    <3>1. group = <<>>
      BY <1>2, <2>1
    <3> QED BY <2>1, <3>1
  <2>2. CASE members # 0
    <3>1. group = <<top>>
      BY <1>2, <2>2 DEF top
    <3>2. DOMAIN <<top>> = {1} /\ <<top>> \in [{1} -> {top}]
      OBVIOUS
    <3> QED BY <3>1, <3>2
  <2> QED BY <2>1, <2>2
<1>10. /\ \A g \in DOMAIN group : group[g] = top
       /\ top \in GroupRec /\ top.up = 0
  <2>1. top \in GroupRec /\ top.up = 0
    BY <1>3 DEF GroupRec
  <2> HIDE DEF top
  <2> QED BY <1>9, <2>1
<1> HIDE DEF top
<1>11. GoodGroups(group) /\ DOMAIN group \subseteq 1..MaxGroups /\ 0 \notin DOMAIN group
  <2>1. IsFiniteSet(DOMAIN group)
    BY <1>9, FS_Singleton, FS_Subset
  <2>2. group \in [DOMAIN group -> GroupRec]
    BY <1>9, <1>10
  <2>3. DOMAIN group \subseteq Nat \ {0} /\ DOMAIN group \subseteq 1..MaxGroups
    BY <1>3, <1>9
  <2> QED BY <2>1, <2>2, <2>3 DEF GoodGroups
<1>12. Members(cue, group)
  <2> SUFFICES ASSUME NEW c \in show PROVE cue[c].parent \in {0} \cup DOMAIN group
    BY <1>6 DEF Members
  <2>1. CASE at(c) <= members
    <3>1. members # 0
      BY <1>3, <1>5, <2>1
    <3> QED BY <1>7, <1>9, <2>1, <3>1
  <2>2. CASE ~(at(c) <= members)
    BY <1>7, <2>2
  <2> QED BY <2>1, <2>2
<1>13. anchor = 0 /\ set = {} /\ edits = 0
  BY DEF Init
<1>14. Sheet = Sh(cue, group, anchor, set) /\ Sh(cue, group, anchor, set).group = group
  BY DEF Sheet, Sh
<1>15. Tree(Sheet)
  <2> SUFFICES ASSUME NEW g \in DOMAIN group PROVE g \notin Above(Sheet, g)
    BY <1>10, <1>14 DEF Tree
  <2> HIDE DEF Sheet
  <2>1. IsFiniteSet(DOMAIN Sheet.group)
    BY <1>11, <1>14 DEF GoodGroups
  <2>2. Up(Sheet, g) \subseteq {} /\ Closed(Sheet, {})
    BY <1>10, <1>11, <1>14 DEF Up, Closed
  <2>3. Above(Sheet, g) \subseteq {}
    BY <2>1, <2>2, AboveIsLeast
  <2> QED BY <2>3
<1>16. Sheet \in Sound
  <2>1. anchor \in Int /\ set \in SUBSET Int
    BY <1>13
  <2> HIDE DEF Sheet
  <2> QED BY <1>8, <1>11, <1>12, <1>14, <1>15, <2>1, IsSound
<1>17. edits \in 0..MaxEdits
  BY <1>13 DEF CueSheetAssumption
<1> QED BY <1>11, <1>16, <1>17 DEF IInv

-----------------------------------------------------------------------------
(* Every step stores a sound sheet. *)

\* What the program stores: a sound sheet.
Stored(s) ==
  /\ s \in Sound /\ DOMAIN s.group \subseteq 1..MaxGroups /\ Save(s)
  /\ edits < MaxEdits /\ edits' = edits + 1

\* Storing a sound sheet keeps the invariant.
LEMMA StoredKeeps ==
  ASSUME CueSheetAssumption, IInv, NEW s, Stored(s)
  PROVE  IInv'
<1>1. /\ s \in Sound /\ DOMAIN s.group \subseteq 1..MaxGroups
      /\ cue' = s.cue /\ group' = s.group /\ anchor' = s.anchor /\ set' = s.set
      /\ edits < MaxEdits /\ edits' = edits + 1
  BY DEF Stored, Save
<1>2. Sheet' = Sh(s.cue, s.group, s.anchor, s.set)
  BY <1>1 DEF Sheet, Sh
<1>3. Sheet' = s
  BY <1>1, <1>2, SoundParts
<1>4. edits' \in 0..MaxEdits
  BY <1>1 DEF IInv, CueSheetAssumption
<1> QED BY <1>1, <1>3, <1>4 DEF IInv

\* An edit stores the sheet it computes ...
LEMMA EditStores ==
  ASSUME NEW name, NEW s \in Sound, Edit(name, s)
  PROVE  \E t : Stored(t)
BY DEF Edit, Stored

\* ... and so does a selection.
LEMMA SelectStores ==
  ASSUME IInv, NEW s \in Chosen(Sheet), Select(s)
  PROVE  \E t : Stored(t)
<1>1. s \in Sound /\ s.group = group
  BY DEF Chosen, Sheet
<1> QED BY <1>1 DEF Select, Stored, IInv

\* Adding: last, before a cue, into a group.
LEMMA AddsStore ==
  ASSUME CueSheetAssumption, IInv, AddLast \/ Insert \/ AddToGroup
  PROVE  \E t : Stored(t)
<1>1. Sheet \in Sound /\ Sheet.cue = cue /\ Sheet.group = group
  BY DEF IInv, Sheet
<1>2. CASE AddLast
  <2>1. PICK c \in New : Edit("add", AddCue(Sheet, c))
    BY <1>2 DEF AddLast
  <2>2. AddCue(Sheet, c) \in Sound
    BY <1>1, AddCueSound DEF New
  <2> QED BY <2>1, <2>2, EditStores
<1>3. CASE Insert
  <2>1. PICK c \in New, t \in ShownCues : Edit("insert", InsertCue(Sheet, c, t))
    BY <1>3 DEF Insert
  <2>2. t \in DOMAIN Sheet.cue /\ c \in Cues
    BY <1>1 DEF ShownCues, New
  <2>3. InsertCue(Sheet, c, t) \in Sound
    BY <1>1, <2>2, InsertSound
  <2> QED BY <2>1, <2>3, EditStores
<1>4. CASE AddToGroup
  <2>1. PICK c \in New, g \in ShownGroups, first \in BOOLEAN : Edit("addto", AddCueToGroup(Sheet, c, g, first))
    BY <1>4 DEF AddToGroup
  <2>2. g \in DOMAIN Sheet.group /\ c \in Cues
    BY <1>1 DEF ShownGroups, New
  <2>3. AddCueToGroup(Sheet, c, g, first) \in Sound
    BY <1>1, <2>2, AddToGroupSound
  <2> QED BY <2>1, <2>3, EditStores
<1> QED BY <1>2, <1>3, <1>4

\* Removing: one, the selected, a group, media, everything.
LEMMA RemovalsStore ==
  ASSUME CueSheetAssumption, IInv, RemoveOne \/ DeleteSelected \/ DeleteGroup \/ MediaGone \/ Clear
  PROVE  \E t : Stored(t)
<1>1. Sheet \in Sound
  BY DEF IInv
<1>2. CASE RemoveOne
  <2>1. PICK c \in ShownCues : Edit("remove", RemoveCue(Sheet, c))
    BY <1>2 DEF RemoveOne
  <2>2. RemoveCue(Sheet, c) \in Sound
    BY <1>1, RemoveSound
  <2> QED BY <2>1, <2>2, EditStores
<1>3. CASE DeleteSelected
  <2>1. Edit("delete", BulkDelete(Sheet, Picked(Sheet), Highlighted(Sheet) \ Picked(Sheet)))
    BY <1>3 DEF DeleteSelected
  <2>2. BulkDelete(Sheet, Picked(Sheet), Highlighted(Sheet) \ Picked(Sheet)) \in Sound
    BY <1>1, DeletesSound
  <2> QED BY <2>1, <2>2, EditStores
<1>4. CASE DeleteGroup
  <2>1. PICK g \in ShownGroups : Edit("delete", DeleteGroupWithCues(Sheet, g))
    BY <1>4 DEF DeleteGroup
  <2>2. DeleteGroupWithCues(Sheet, g) \in Sound
    BY <1>1, SpanSound
  <2> QED BY <2>1, <2>2, EditStores
<1>5. CASE MediaGone
  <2>1. PICK c \in DOMAIN cue : Edit("media", DeleteMedia(Sheet, {c}))
    BY <1>5 DEF MediaGone
  <2>2. DeleteMedia(Sheet, {c}) \in Sound
    BY <1>1, WithoutSound DEF DeleteMedia
  <2> QED BY <2>1, <2>2, EditStores
<1>6. CASE Clear
  <2>1. Edit("clear", ClearCueSheet)
    BY <1>6 DEF Clear
  <2> QED BY <2>1, ClearSound, EditStores
<1> QED BY <1>2, <1>3, <1>4, <1>5, <1>6

\* Dragging cues: to a line, into a group, out of it.
LEMMA DragsStore ==
  ASSUME CueSheetAssumption, IInv, DragCue \/ JoinGroup \/ LeaveGroup
  PROVE  \E t : Stored(t)
<1>1. Sheet \in Sound /\ Sheet.cue = cue /\ Sheet.group = group
  BY DEF IInv, Sheet
<1>2. ShownCues \subseteq DOMAIN Sheet.cue /\ ShownGroups \subseteq DOMAIN Sheet.group
  BY <1>1 DEF ShownCues, ShownGroups
<1>3. \A c \in DOMAIN Sheet.cue : <<c>> \in Seq(Rows(Sheet)) /\ ToSet(<<c>>) = {c}
  <2> TAKE c \in DOMAIN Sheet.cue
  <2>1. DOMAIN <<c>> = {1} /\ <<c>>[1] = c
    OBVIOUS
  <2>2. c \in Rows(Sheet)
    BY DEF Rows
  <2> QED BY <2>1, <2>2 DEF ToSet
<1>4. CASE DragCue
  <2>1. PICK c \in ShownCues : \E b \in Bands(Sheet, Dragged(Sheet, c)) :
          Edit("drag", DropCues(Sheet, Dragged(Sheet, c), b.at, b.parent))
    BY <1>4 DEF DragCue
  <2> DEFINE block == Dragged(Sheet, c)
  <2>2. PICK b \in Bands(Sheet, block) : Edit("drag", DropCues(Sheet, block, b.at, b.parent))
    BY <2>1
  <2>3. block \in Seq(Rows(Sheet))
    BY <1>1, <1>2, DraggedRows
  <2> HIDE DEF block
  <2>4. b.at \in Slots(LoadSequence(Sheet), block) /\ b.parent \in {0} \cup DOMAIN Sheet.group
    BY <1>1, BandsAreLines
  <2>5. DropCues(Sheet, block, b.at, b.parent) \in Sound
    BY <1>1, <2>3, <2>4, DropsSound
  <2> QED BY <2>2, <2>5, EditStores
<1>5. CASE JoinGroup
  <2>1. PICK c \in ShownCues, g \in ShownGroups :
          Edit("join", DropCues(Sheet, <<c>>, Body(Sheet, <<c>>, g).at, g))
    BY <1>5 DEF JoinGroup
  <2> DEFINE block == <<c>>
  <2>2. block \in Seq(Rows(Sheet)) /\ ToSet(block) = {c} /\ g \in DOMAIN Sheet.group
    BY <1>2, <1>3
  <2> HIDE DEF block
  <2>3. g \notin ToSet(block)
    <3>1. DOMAIN Sheet.cue \cap DOMAIN Sheet.group = {}
      BY <1>1, SoundParts, RowsAreTwoKinds
    <3> QED BY <1>2, <2>2, <3>1
  <2>4. Body(Sheet, block, g).at \in Slots(LoadSequence(Sheet), block)
    BY <1>1, <2>2, <2>3, BodyIsLine
  <2>5. DropCues(Sheet, block, Body(Sheet, block, g).at, g) \in Sound
    BY <1>1, <2>2, <2>4, DropsSound
  <2> QED BY <2>1, <2>5, EditStores DEF block
<1>6. CASE LeaveGroup
  <2>1. PICK c \in ShownCues : Edit("join", DropCues(Sheet, <<c>>, ReleaseSlot(Sheet, c), 0))
    BY <1>6 DEF LeaveGroup
  <2>2. ReleaseSlot(Sheet, c) \in Slots(LoadSequence(Sheet), <<c>>)
    BY <1>1, ReleaseIsSlot
  <2> DEFINE block == <<c>>
  <2>3. block \in Seq(Rows(Sheet)) /\ 0 \in {0} \cup DOMAIN Sheet.group
    BY <1>2, <1>3
  <2> HIDE DEF block
  <2>4. DropCues(Sheet, block, ReleaseSlot(Sheet, c), 0) \in Sound
    BY <1>1, <2>2, <2>3, DropsSound DEF block
  <2> QED BY <2>1, <2>4, EditStores DEF block
<1> QED BY <1>4, <1>5, <1>6

\* Dragging a group, under a group it is not above.
LEMMA GroupDragStores ==
  ASSUME CueSheetAssumption, IInv, DragGroup
  PROVE  \E t : Stored(t)
<1>1. Sheet \in Sound /\ Sheet.cue = cue /\ Sheet.group = group
  BY DEF IInv, Sheet
<1>2. PICK g \in ShownGroups :
        \E b \in Bands(Sheet, Block(Sheet, g)) \cup
                 {Body(Sheet, Block(Sheet, g), h) : h \in ShownGroups \ ToSet(Block(Sheet, g))} :
          ValidParent(Sheet, g, b.parent) /\ Edit("dragg", DropGroup(Sheet, g, b.at, b.parent))
  BY DEF DragGroup
<1> DEFINE block == Block(Sheet, g)
<1>3. PICK b \in Bands(Sheet, block) \cup {Body(Sheet, block, h) : h \in ShownGroups \ ToSet(block)} :
        ValidParent(Sheet, g, b.parent) /\ Edit("dragg", DropGroup(Sheet, g, b.at, b.parent))
  BY <1>2
<1>4. block \in Seq(Rows(Sheet))
  BY <1>1, BlockRows
<1>5. ShownGroups \subseteq DOMAIN Sheet.group
  BY <1>1 DEF ShownGroups
<1> HIDE DEF block
<1>6. b.at \in Slots(LoadSequence(Sheet), block)
  <2>1. CASE b \in Bands(Sheet, block)
    BY <1>1, <2>1, BandsAreLines
  <2>2. CASE b \notin Bands(Sheet, block)
    <3>1. PICK h \in ShownGroups \ ToSet(block) : b = Body(Sheet, block, h)
      BY <1>3, <2>2
    <3> QED BY <1>1, <1>5, <3>1, BodyIsLine
  <2> QED BY <2>1, <2>2
<1>7. b.parent = 0 \/ (b.parent \in DOMAIN Sheet.group /\ b.parent # g /\ g \notin Above(Sheet, b.parent))
  BY <1>3 DEF ValidParent, IsGroup
<1>8. DropGroup(Sheet, g, b.at, b.parent) \in Sound
  BY <1>1, <1>4, <1>5, <1>6, <1>7, DropGroupSound DEF block
<1> QED BY <1>3, <1>8, EditStores

\* The menus of groups, and a restart.
LEMMA GroupEditsStore ==
  ASSUME CueSheetAssumption, IInv, Regroup \/ GroupNew \/ AddGroup \/ Nest \/ Fold \/ Reopen
  PROVE  \E t : Stored(t)
<1>1. Sheet \in Sound /\ Sheet.cue = cue /\ Sheet.group = group
  BY DEF IInv, Sheet
<1>2. ShownCues \subseteq DOMAIN Sheet.cue /\ ShownGroups \subseteq DOMAIN Sheet.group
  BY <1>1 DEF ShownCues, ShownGroups
<1>3. CASE Regroup
  <2>1. PICK c \in ShownCues, g \in {0} \cup DOMAIN group : Edit("bulk", BulkGroup(Sheet, Menu(Sheet, c), g))
    BY <1>3 DEF Regroup
  <2>2. Menu(Sheet, c) \in SUBSET DOMAIN Sheet.cue
    BY <1>2 DEF Menu, Picked
  <2>3. BulkGroup(Sheet, Menu(Sheet, c), g) \in Sound
    BY <1>1, <2>2, BulkGroupSound
  <2> QED BY <2>1, <2>3, EditStores
<1>4. CASE GroupNew
  <2>1. PICK c \in ShownCues : Edit("bulk", BulkGroupNewAt(Sheet, Menu(Sheet, c), c))
    BY <1>4 DEF GroupNew
  <2>2. BulkGroupNewAt(Sheet, Menu(Sheet, c), c) \in Sound
    BY <1>1, <1>2, GroupNewSound
  <2> QED BY <2>1, <2>2, EditStores
<1>5. CASE AddGroup
  <2>1. Edit("group", SetSelected(CreateGroup(Sheet, 0), -NextGroupId(Sheet)))
    BY <1>5 DEF AddGroup
  <2>2. CreateGroup(Sheet, 0) \in Sound
    BY <1>1, CreateSound
  <2>3. NextGroupId(Sheet) \in Nat
    BY <1>1, Bounds
  <2>4. -NextGroupId(Sheet) \in Int
    BY <2>3
  <2>5. SetSelected(CreateGroup(Sheet, 0), -NextGroupId(Sheet)) \in Sound
    BY <2>2, <2>4, SetSelectedSound
  <2> QED BY <2>1, <2>5, EditStores
<1>6. CASE Nest
  <2>1. PICK g \in DOMAIN group, p \in {0} \cup DOMAIN group :
          ValidParent(Sheet, g, p) /\ Edit("nest", [Sheet EXCEPT !.group[g].up = p])
    BY <1>6 DEF Nest
  <2>2. p = 0 \/ (p \in DOMAIN Sheet.group /\ p # g /\ g \notin Above(Sheet, p))
    BY <2>1 DEF ValidParent, IsGroup
  <2>3. Nested(Sheet, g, p) \in Sound
    BY <1>1, <2>2, NestSound
  <2>4. Edit("nest", Nested(Sheet, g, p))
    BY <2>1 DEF Nested
  <2> QED BY <2>3, <2>4, EditStores
<1>7. CASE Fold
  <2>1. PICK g \in ShownGroups : Edit("fold", Folded(Sheet, g))
    BY <1>7 DEF Fold, Folded
  <2>2. Folded(Sheet, g) \in Sound
    BY <1>1, <1>2, FoldSound
  <2> QED BY <2>1, <2>2, EditStores
<1>8. CASE Reopen
  <2>1. Edit("restart", Restart(Sheet))
    BY <1>8 DEF Reopen
  <2>2. Restart(Sheet) \in Sound
    BY <1>1, RestartSound
  <2> QED BY <2>1, <2>2, EditStores
<1> QED BY <1>3, <1>4, <1>5, <1>6, <1>7, <1>8

\* The selection.
LEMMA ChoicesStore ==
  ASSUME CueSheetAssumption, IInv, Click \/ ShiftClick \/ CtrlClick \/ Arrow \/ ShiftArrow \/ All \/ Advance
  PROVE  \E t : Stored(t)
<1>1. Sheet \in Sound
  BY DEF IInv
<1>2. SelectUnits(Sheet) \in Seq(Rows(Sheet)) /\ Shown(Sheet) \subseteq Rows(Sheet)
      /\ Shown(Sheet) = ToSet(SelectUnits(Sheet))
  BY <1>1, UnitsAreRows DEF Shown
<1>3. CASE Click
  <2>1. PICK r \in Shown(Sheet) : Select(SetSelected(Sheet, Id(Sheet, r)))
    BY <1>3 DEF Click
  <2>2. Id(Sheet, r) \in Int
    BY <1>1, <1>2, IdIsInt
  <2>3. SetSelected(Sheet, Id(Sheet, r)) \in Chosen(Sheet)
    BY <1>1, <2>2, SelectedChosen
  <2> QED BY <2>1, <2>3, SelectStores
<1>4. CASE ShiftClick
  <2>1. PICK r \in Shown(Sheet) : Select(ExtendSelection(Sheet, SelectUnits(Sheet), r))
    BY <1>4 DEF ShiftClick
  <2>2. ExtendSelection(Sheet, SelectUnits(Sheet), r) \in Chosen(Sheet)
    BY <1>1, <1>2, ExtendSound
  <2> QED BY <2>1, <2>2, SelectStores
<1>5. CASE CtrlClick
  <2>1. PICK r \in Shown(Sheet) : Select(Toggle(Sheet, r))
    BY <1>5 DEF CtrlClick
  <2>2. Toggle(Sheet, r) \in Chosen(Sheet)
    BY <1>1, <1>2, ToggleSound
  <2> QED BY <2>1, <2>2, SelectStores
<1>6. CASE Arrow
  <2>1. PICK dir \in {1, -1} : Select(SelectStep(Sheet, SelectUnits(Sheet), dir))
    BY <1>6 DEF Arrow
  <2>2. SelectStep(Sheet, SelectUnits(Sheet), dir) \in Chosen(Sheet)
    BY <1>1, <1>2, StepSound
  <2> QED BY <2>1, <2>2, SelectStores
<1>7. CASE ShiftArrow
  <2>1. PICK dir \in {1, -1} : Select(ExtendStep(Sheet, SelectUnits(Sheet), dir))
    BY <1>7 DEF ShiftArrow
  <2>2. ExtendStep(Sheet, SelectUnits(Sheet), dir) \in Chosen(Sheet)
    BY <1>1, <1>2, ExtendStepSound
  <2> QED BY <2>1, <2>2, SelectStores
<1>8. CASE All
  <2>1. Select(SelectAll(Sheet))
    BY <1>8 DEF All
  <2>2. SelectAll(Sheet) \in Chosen(Sheet)
    BY <1>1, AllSound
  <2> QED BY <2>1, <2>2, SelectStores
<1>9. CASE Advance
  <2>1. Select(NextCue(Sheet))
    BY <1>9 DEF Advance
  <2>2. NextCue(Sheet) \in Chosen(Sheet)
    BY <1>1, NextCueSound
  <2> QED BY <2>1, <2>2, SelectStores
<1> QED BY <1>3, <1>4, <1>5, <1>6, <1>7, <1>8, <1>9

\* Every step keeps the invariant.
LEMMA NextSound == ASSUME CueSheetAssumption, IInv, [Next]_vars PROVE IInv'
<1>1. CASE Next
  <2>1. \E t : Stored(t)
    BY <1>1, AddsStore, RemovalsStore, DragsStore, GroupDragStores, GroupEditsStore, ChoicesStore DEF Next
  <2> QED BY <2>1, StoredKeeps
<1>2. CASE UNCHANGED vars
  BY <1>2 DEF vars, IInv, Sheet
<1> QED BY <1>1, <1>2

-----------------------------------------------------------------------------
(* Groups that are imported. *)

FoldedAs(s, g, f) == [s EXCEPT !.group[g].collapse = f]

\* A header of an import is folded as it was exported.
LEMMA FoldedAsFields ==
  ASSUME NEW s \in Fields, NEW g, NEW f \in BOOLEAN
  PROVE  /\ FoldedAs(s, g, f) \in Fields /\ FoldedAs(s, g, f).cue = s.cue
         /\ DOMAIN FoldedAs(s, g, f).group = DOMAIN s.group
         /\ \A h \in DOMAIN s.group : FoldedAs(s, g, f).group[h].up = s.group[h].up
         /\ FoldedAs(s, g, f) = Sh(s.cue, FoldedAs(s, g, f).group, s.anchor, s.set)
<1> DEFINE new == [s.group EXCEPT ![g].collapse = f]
           t == Sh(s.cue, new, s.anchor, s.set)
<1>1. FoldedAs(s, g, f) = t
  BY DEF FoldedAs, Fields, Sh
<1>2. GoodGroups(s.group) /\ s.cue \in CueMaps /\ s.anchor \in Int /\ s.set \in SUBSET Int
  BY Maps DEF Fields
<1>3. /\ DOMAIN new = DOMAIN s.group
      /\ \A h \in DOMAIN new : new[h] \in GroupRec /\ new[h].up = s.group[h].up
  BY <1>2 DEF GoodGroups, GroupRec
<1>4. new \in [DOMAIN new -> GroupRec]
  <2>1. new = [h \in DOMAIN new |-> new[h]]
    OBVIOUS
  <2> HIDE DEF new
  <2> QED BY <1>3, <2>1
<1> HIDE DEF new
<1>5. new \in GroupMaps
  BY <1>2, <1>3, <1>4, Maps DEF GoodGroups
<1>6. t \in Fields /\ t.cue = s.cue /\ t.group = new
  BY <1>2, <1>5 DEF Sh, Fields
<1> HIDE DEF t
<1>7. t = Sh(s.cue, t.group, s.anchor, s.set)
  BY <1>6 DEF t
<1> QED BY <1>1, <1>3, <1>6, <1>7

\* That keeps a sheet sound.
LEMMA FoldedAsSound ==
  ASSUME NEW s \in Sound, NEW g, NEW f \in BOOLEAN
  PROVE  FoldedAs(s, g, f) \in Sound
<1> DEFINE t == FoldedAs(s, g, f)
<1>1. s \in Fields
  BY DEF Sound
<1>2. /\ t \in Fields /\ t.cue = s.cue /\ DOMAIN t.group = DOMAIN s.group
      /\ \A h \in DOMAIN s.group : t.group[h].up = s.group[h].up
      /\ t = Sh(s.cue, t.group, s.anchor, s.set)
  BY <1>1, FoldedAsFields
<1> HIDE DEF t
<1>3. Tree(s) /\ Members(s.cue, s.group) /\ GoodCues(s.cue) /\ s.anchor \in Int /\ s.set \in SUBSET Int
  BY SoundParts
<1>4. GoodGroups(t.group)
  BY <1>2, Maps DEF Fields
<1>5. Kin(s.group, t.group) /\ Members(s.cue, t.group)
  BY <1>2, <1>3 DEF Kin, Members, Tree
<1>6. Sh(s.cue, t.group, s.anchor, s.set) \in Sound
  BY <1>3, <1>4, <1>5, MakeSound
<1> QED BY <1>2, <1>6 DEF t

\* One more group, at the end of the sheet.
LEMMA CreateFields ==
  ASSUME CueSheetAssumption, NEW s \in Fields, NEW p \in Nat
  PROVE  CreateGroup(s, p) \in Fields
<1> DEFINE n == NextGroupId(s)
           r == [idx |-> LastIndex(s, Rows(s)) + Step, up |-> p, collapse |-> FALSE]
           new == With(s.group, n, r)
           t == Sh(s.cue, new, s.anchor, s.set)
<1>1. GoodGroups(s.group) /\ s.cue \in CueMaps /\ s.anchor \in Int /\ s.set \in SUBSET Int
  BY Maps DEF Fields
<1>2. n \in Nat \ {0}
  BY FieldBounds
<1>3. r \in GroupRec
  <2>1. Rows(s) \in SUBSET Rows(s)
    OBVIOUS
  <2>2. LastIndex(s, Rows(s)) \in Int /\ Step \in Nat
    BY <2>1, FieldBounds DEF CueSheetAssumption
  <2> QED BY <2>2 DEF GroupRec
<1>4. CreateGroup(s, p) = t
  <2>1. CreateGroup(s, p) = [s EXCEPT !.group = new]
    BY DEF CreateGroup
  <2> HIDE DEF new
  <2> QED BY <2>1 DEF Fields, Sh
<1> HIDE DEF n, r
<1>5. /\ DOMAIN new = DOMAIN s.group \cup {n} /\ new = [h \in DOMAIN new |-> new[h]]
      /\ \A h \in DOMAIN new : new[h] = r \/ (h \in DOMAIN s.group /\ new[h] = s.group[h])
  BY DEF With
<1> HIDE DEF new
<1>6. new \in [DOMAIN new -> GroupRec]
  <2>1. \A h \in DOMAIN new : new[h] \in GroupRec
    BY <1>1, <1>3, <1>5 DEF GoodGroups
  <2> QED BY <1>5, <2>1
<1>7. IsFiniteSet(DOMAIN new)
  <2>1. IsFiniteSet({n}) /\ IsFiniteSet(DOMAIN s.group)
    BY <1>1, FS_Singleton DEF GoodGroups
  <2>2. IsFiniteSet(DOMAIN s.group \cup {n})
    BY <2>1, FS_Union
  <2> QED BY <1>5, <2>2
<1>8. new \in GroupMaps
  BY <1>1, <1>2, <1>5, <1>6, <1>7, Maps DEF GoodGroups
<1>9. t \in Fields
  BY <1>1, <1>8 DEF Sh, Fields
<1> QED BY <1>4, <1>9

\* What ImportGroup does for a manifest's group.
Grown(t, p, g, f) == FoldedAs(CreateGroup(t, p), g, f)

\* A group of a manifest is created, then folded: whatever sheet it is added to has good
\* fields, and a sound one stays sound if the group goes under one that is there.
LEMMA GrownSound ==
  ASSUME CueSheetAssumption, NEW g, NEW f \in BOOLEAN
  PROVE  /\ \A t \in Fields : \A p \in Nat : Grown(t, p, g, f) \in Fields
         /\ \A t \in Sound : \A p \in {0} \cup DOMAIN t.group :
              /\ Grown(t, p, g, f) \in Sound /\ Grown(t, p, g, f).cue = t.cue
              /\ DOMAIN Grown(t, p, g, f).group = DOMAIN t.group \cup {NextGroupId(t)}
<1>1. ASSUME NEW t \in Fields, NEW p \in Nat PROVE Grown(t, p, g, f) \in Fields
  <2> DEFINE new == CreateGroup(t, p)
  <2>1. new \in Fields
    BY CreateFields
  <2> HIDE DEF new
  <2>2. FoldedAs(new, g, f) \in Fields
    BY <2>1, FoldedAsFields
  <2> QED BY <2>2 DEF Grown, new
<1>2. ASSUME NEW t \in Sound, NEW p \in {0} \cup DOMAIN t.group
      PROVE  /\ Grown(t, p, g, f) \in Sound /\ Grown(t, p, g, f).cue = t.cue
             /\ DOMAIN Grown(t, p, g, f).group = DOMAIN t.group \cup {NextGroupId(t)}
  <2> DEFINE new == CreateGroup(t, p)
  <2>1. new \in Sound /\ new.cue = t.cue /\ DOMAIN new.group = DOMAIN t.group \cup {NextGroupId(t)}
    BY CreateSound
  <2> HIDE DEF new
  <2>2. new \in Fields
    BY <2>1 DEF Sound
  <2>3. FoldedAs(new, g, f) \in Sound /\ FoldedAs(new, g, f).cue = new.cue
        /\ DOMAIN FoldedAs(new, g, f).group = DOMAIN new.group
    BY <2>1, <2>2, FoldedAsFields, FoldedAsSound
  <2> QED BY <2>1, <2>3 DEF Grown, new
<1> QED BY <1>1, <1>2

\* The sheet with the first k groups of an import.
GroupsIn(s, k) ==
  {t \in Sound : t.cue = s.cue /\ DOMAIN t.group = DOMAIN s.group \cup NextGroupId(s)..(NextGroupId(s) + k - 1)}

\* The groups of an import get their numbers in turn, so that LocalId names them.
LEMMA NextInTurn ==
  ASSUME CueSheetAssumption, NEW s \in Sound, NEW k \in Nat \ {0}, NEW t \in GroupsIn(s, k - 1)
  PROVE  NextGroupId(t) = LocalId(s, k)
<1>1. t \in Sound /\ DOMAIN t.group = DOMAIN s.group \cup NextGroupId(s)..(NextGroupId(s) + (k - 1) - 1)
  BY DEF GroupsIn
<1>2. /\ NextGroupId(s) \in Nat \ {0} /\ NextGroupId(s) - 1 \in {0} \cup DOMAIN s.group
      /\ \A g \in DOMAIN s.group : g < NextGroupId(s)
      /\ NextGroupId(t) \in Nat \ {0} /\ NextGroupId(t) - 1 \in {0} \cup DOMAIN t.group
      /\ \A g \in DOMAIN t.group : g < NextGroupId(t)
      /\ DOMAIN s.group \subseteq Nat
  BY <1>1, Bounds, SoundParts DEF GoodGroups
<1> DEFINE a == NextGroupId(s)
           b == NextGroupId(t)
<1> HIDE DEF a, b
<1>3. a \in Nat \ {0} /\ b \in Nat \ {0} /\ \A g \in DOMAIN s.group : g \in Nat /\ g < a /\ g < b
  BY <1>1, <1>2 DEF a, b
<1>4. b - 1 \in {0} \cup DOMAIN s.group \cup a..(a + (k - 1) - 1) /\ a - 1 \in {0} \cup DOMAIN s.group
  BY <1>1, <1>2 DEF a, b
<1>5. \A g \in a..(a + (k - 1) - 1) : g < b
  BY <1>1, <1>2 DEF a, b
<1>6. b <= a + k - 1
  BY <1>3, <1>4
<1>7. b >= a + k - 1
  <2>1. CASE k = 1
    <3>1. a - 1 < b
      BY <1>3, <1>4
    <3> QED BY <1>3, <2>1, <3>1
  <2>2. CASE k # 1
    <3>1. a + (k - 1) - 1 \in a..(a + (k - 1) - 1)
      BY <1>3, <2>2
    <3> QED BY <1>3, <1>5, <3>1
  <2> QED BY <2>1, <2>2
<1>8. b = a - 1 + k
  BY <1>3, <1>6, <1>7
<1> QED BY <1>8 DEF a, b, LocalId

\* ImportGroups: one group more, under an older one of the manifest or at the top.
LEMMA ImportGroupSound ==
  ASSUME CueSheetAssumption, ShowImportAssumption, NEW m \in Shows, NEW s \in Sound, NEW k \in DOMAIN m.groups
  PROVE  /\ k \in 1..Len(m.groups) /\ Len(m.groups) \in Nat
         /\ \A t \in Fields : ImportGroup(t, s, m, k) \in Fields
         /\ \A t \in GroupsIn(s, k - 1) : ImportGroup(t, s, m, k) \in GroupsIn(s, k)
<1> DEFINE a == NextGroupId(s)
           up == m.groups[k].up
           f == m.groups[k].fold
           p == IF up < k THEN LocalId(s, up) ELSE 0
           g == LocalId(s, k)
<1>1. m.groups \in Seq([up : 0..Len(m.groups), fold : BOOLEAN])
  BY DEF ShowImportAssumption
<1>2. k \in 1..Len(m.groups) /\ Len(m.groups) \in Nat /\ up \in Nat /\ f \in BOOLEAN
  <2>1. m.groups[k] \in [up : 0..Len(m.groups), fold : BOOLEAN] /\ k \in 1..Len(m.groups) /\ Len(m.groups) \in Nat
    <3> DEFINE E == [up : 0..Len(m.groups), fold : BOOLEAN]
    <3>1. m.groups \in Seq(E)
      BY <1>1
    <3> HIDE DEF E
    <3>2. m.groups[k] \in E /\ k \in 1..Len(m.groups) /\ Len(m.groups) \in Nat
      BY <3>1
    <3> QED BY <3>2 DEF E
  <2> QED BY <2>1
<1>3. \A t : ImportGroup(t, s, m, k) = Grown(t, p, g, f)
  BY Zenon DEF ImportGroup, Grown, FoldedAs
<1>4. a \in Nat \ {0}
  BY Bounds
<1>5. p = 0 \/ (up \in 1..(k - 1) /\ p = a - 1 + up)
  BY <1>2 DEF LocalId
<1> HIDE DEF a, up, f, p, g
<1>6. p \in Nat /\ (p = 0 \/ p \in a..(a + (k - 1) - 1))
  BY <1>2, <1>4, <1>5
<1>9. /\ \A t \in Fields : \A q \in Nat : Grown(t, q, g, f) \in Fields
      /\ \A t \in Sound : \A q \in {0} \cup DOMAIN t.group :
           /\ Grown(t, q, g, f) \in Sound /\ Grown(t, q, g, f).cue = t.cue
           /\ DOMAIN Grown(t, q, g, f).group = DOMAIN t.group \cup {NextGroupId(t)}
  <2>1. f \in BOOLEAN
    BY <1>2
  <2> QED BY <2>1, GrownSound
<1>7. \A t \in Fields : ImportGroup(t, s, m, k) \in Fields
  BY <1>3, <1>6, <1>9
<1>8. ASSUME NEW t \in GroupsIn(s, k - 1) PROVE ImportGroup(t, s, m, k) \in GroupsIn(s, k)
  <2> DEFINE new == Grown(t, p, g, f)
  <2>1. t \in Sound /\ t.cue = s.cue /\ DOMAIN t.group = DOMAIN s.group \cup a..(a + (k - 1) - 1)
    BY DEF GroupsIn, a
  <2>2. p \in {0} \cup DOMAIN t.group
    BY <1>6, <2>1
  <2>3. /\ new \in Sound /\ new.cue = t.cue
        /\ DOMAIN new.group = DOMAIN t.group \cup {NextGroupId(t)}
    BY <1>9, <2>1, <2>2
  <2>4. NextGroupId(t) = a - 1 + k
    <3>1. k \in Nat \ {0}
      BY <1>2
    <3>2. NextGroupId(t) = LocalId(s, k)
      BY <3>1, NextInTurn
    <3> QED BY <3>1, <3>2 DEF LocalId, a
  <2>5. a..(a + k - 1) = a..(a + (k - 1) - 1) \cup {a - 1 + k}
    <3>1. k \in Nat /\ k >= 1 /\ a \in Nat
      BY <1>2, <1>4
    <3> HIDE DEF new
    <3>2. a + (k - 1) - 1 = a + k - 2 /\ a - 1 + k = a + k - 1
      BY <3>1
    <3>3. \A x \in Int : x \in a..(a + k - 1) <=> (x \in a..(a + k - 2) \/ x = a + k - 1)
      BY <3>1
    <3> QED BY <3>1, <3>2, <3>3
  <2> HIDE DEF new
  <2>6. new \in GroupsIn(s, k)
    BY <2>1, <2>3, <2>4, <2>5 DEF GroupsIn, a
  <2> QED BY <1>3, <2>6 DEF new
<1> QED BY <1>2, <1>7, <1>8

-----------------------------------------------------------------------------
(* Cues that are imported. *)

\* What comes last in a sheet.
LEMMA LastOnes ==
  ASSUME CueSheetAssumption, NEW s \in Sound
  PROVE  /\ \A c \in DOMAIN s.cue : s.cue[c].pos \in Nat /\ s.cue[c].pos <= LastPos(s)
         /\ LastPos(s) = 0 \/ \E c \in DOMAIN s.cue : s.cue[c].pos = LastPos(s)
         /\ \A r \in Rows(s) : Index(s, r) \in Int /\ Index(s, r) <= LastIndex(s, Rows(s))
         /\ IF Rows(s) = {} THEN LastIndex(s, Rows(s)) = 0
            ELSE \E r \in Rows(s) : Index(s, r) = LastIndex(s, Rows(s))
<1>1. /\ IsFiniteSet(DOMAIN s.cue) /\ IsFiniteSet(Rows(s))
      /\ \A r \in Rows(s) : Index(s, r) \in Int
      /\ \A c \in DOMAIN s.cue : s.cue[c].pos \in Nat
  BY SoundParts, RowsAreTwoKinds
<1> DEFINE P == {s.cue[c].pos : c \in DOMAIN s.cue}
           Q == {0} \cup P
           I == {Index(s, r) : r \in Rows(s)}
<1>2. IsFiniteSet(Q) /\ Q \subseteq Int /\ Q # {}
  <2>1. IsFiniteSet(P)
    <3> DEFINE f == [c \in DOMAIN s.cue |-> s.cue[c].pos]
    <3>1. P = Image(f, DOMAIN s.cue) /\ DOMAIN f = DOMAIN s.cue
      BY DEF Image
    <3> HIDE DEF f, P
    <3> QED BY <1>1, <3>1, ImageFinite
  <2>2. P \subseteq Int
    BY <1>1
  <2> HIDE DEF P
  <2>3. IsFiniteSet({0} \cup P)
    BY <2>1, FS_Singleton, FS_Union
  <2> QED BY <2>2, <2>3
<1>3. IsFiniteSet(I) /\ I \subseteq Int
  <2> DEFINE f == [r \in Rows(s) |-> Index(s, r)]
  <2>1. I = Image(f, Rows(s)) /\ DOMAIN f = Rows(s)
    BY DEF Image
  <2>2. I \subseteq Int
    BY <1>1
  <2> HIDE DEF f, I
  <2> QED BY <1>1, <2>1, <2>2, ImageFinite
<1>4. /\ \A c \in DOMAIN s.cue : s.cue[c].pos \in Q
      /\ \A x \in Q : x = 0 \/ \E c \in DOMAIN s.cue : s.cue[c].pos = x
      /\ \A r \in Rows(s) : Index(s, r) \in I
      /\ \A x \in I : \E r \in Rows(s) : Index(s, r) = x
      /\ Rows(s) = {} <=> I = {}
      /\ LastPos(s) = Max(Q) /\ LastIndex(s, Rows(s)) = IF Rows(s) = {} THEN 0 ELSE Max(I)
  BY DEF LastPos, LastIndex
<1> HIDE DEF Q, I
<1>5. LastPos(s) \in Q /\ \A x \in Q : x <= LastPos(s)
  <2>1. Max(Q) \in Q /\ \A x \in Q : x <= Max(Q)
    BY <1>2, FiniteExtremes
  <2> QED BY <1>4, <2>1
<1>6. CASE Rows(s) = {}
  BY <1>1, <1>4, <1>5, <1>6
<1>7. CASE Rows(s) # {}
  <2>1. LastIndex(s, Rows(s)) \in I /\ \A x \in I : x <= LastIndex(s, Rows(s))
    <3>1. I # {} /\ LastIndex(s, Rows(s)) = Max(I)
      BY <1>4, <1>7
    <3>2. Max(I) \in I /\ \A x \in I : x <= Max(I)
      BY <1>3, <3>1, FiniteExtremes
    <3> QED BY <3>1, <3>2
  <2> QED BY <1>1, <1>4, <1>5, <1>7, <2>1
<1> QED BY <1>6, <1>7

\* A row that is put below all the others is the last one.
LEMMA NewLast ==
  ASSUME CueSheetAssumption, NEW s \in Sound, NEW t \in Sound, NEW g, Rows(t) = Rows(s) \cup {g},
         \A r \in Rows(s) : Index(t, r) = Index(s, r), Index(t, g) > LastIndex(s, Rows(s))
  PROVE  LastIndex(t, Rows(t)) = Index(t, g)
<1>1. /\ \A r \in Rows(s) : Index(s, r) \in Int /\ Index(s, r) <= LastIndex(s, Rows(s))
      /\ \A r \in Rows(t) : Index(t, r) \in Int /\ Index(t, r) <= LastIndex(t, Rows(t))
      /\ \E r \in Rows(t) : Index(t, r) = LastIndex(t, Rows(t))
      /\ LastIndex(s, Rows(s)) \in Int
  BY LastOnes, Bounds
<1>2. PICK r \in Rows(t) : Index(t, r) = LastIndex(t, Rows(t))
  BY <1>1
<1>3. Index(t, g) \in Int /\ Index(t, g) <= Index(t, r) /\ Index(t, r) \in Int
  BY <1>1, <1>2
<1>4. r \in Rows(s) => Index(t, r) <= LastIndex(s, Rows(s))
  BY <1>1
<1> QED BY <1>1, <1>2, <1>3, <1>4

\* Step is more than what the members of all groups take up.
LEMMA StepIsPositive ==
  ASSUME CueSheetAssumption
  PROVE  Step \in Nat /\ Step > 0 /\ One \in Nat /\ One > 0
<1>1. One \in Nat /\ One > 0 /\ Step \in Nat /\ Step > 2 * One * Cardinality(Cues) /\ Cardinality(Cues) \in Nat
  BY FS_CardinalityType DEF CueSheetAssumption
<1>2. One * Cardinality(Cues) \in Nat
  BY <1>1
<1>3. 2 * One * Cardinality(Cues) = 2 * (One * Cardinality(Cues))
  BY <1>1
<1> QED BY <1>1, <1>2, <1>3

\* A group that is created goes below every row, and leaves the others as they are.
LEMMA GrownLast ==
  ASSUME CueSheetAssumption, NEW t \in Sound, NEW p \in {0} \cup DOMAIN t.group, NEW g, NEW f \in BOOLEAN
  PROVE  /\ \A h \in DOMAIN t.group \ {g} : Grown(t, p, g, f).group[h] = t.group[h]
         /\ Grown(t, p, g, f).group[NextGroupId(t)].idx = LastIndex(t, Rows(t)) + Step
<1> DEFINE n == NextGroupId(t)
           r == [idx |-> LastIndex(t, Rows(t)) + Step, up |-> p, collapse |-> FALSE]
           new == CreateGroup(t, p)
           u == Grown(t, p, g, f)
<1>1. n \notin DOMAIN t.group
  BY Bounds
<1>2. new \in Sound /\ DOMAIN new.group = DOMAIN t.group \cup {n}
  BY CreateSound
<1>3. new.group = With(t.group, n, r)
  <2>1. t \in Fields
    BY DEF Sound
  <2> HIDE DEF r
  <2>2. CreateGroup(t, p) = [t EXCEPT !.group = With(@, n, r)]
    BY DEF CreateGroup, r
  <2> QED BY <2>1, <2>2 DEF Fields
<1>4. (\A h \in DOMAIN t.group : new.group[h] = t.group[h]) /\ new.group[n].idx = LastIndex(t, Rows(t)) + Step
  <2>1. new.group[n] = r /\ \A h \in DOMAIN t.group : new.group[h] = t.group[h]
    <3> HIDE DEF r, n, new
    <3> QED BY <1>1, <1>3 DEF With
  <2> QED BY <2>1
<1>5. GoodGroups(new.group)
  BY <1>2, SoundParts
<1> HIDE DEF new, n, r
<1>6. u = [new EXCEPT !.group[g].collapse = f]
  BY DEF Grown, FoldedAs, new
<1>7. u.group = [new.group EXCEPT ![g].collapse = f]
  BY <1>2, <1>6 DEF Sound, Fields
<1> HIDE DEF u
<1>8. \A h \in DOMAIN new.group : u.group[h].idx = new.group[h].idx /\ (h # g => u.group[h] = new.group[h])
  BY <1>5, <1>7 DEF GoodGroups, GroupRec
<1> QED BY <1>2, <1>4, <1>8 DEF u, n

\* The sheet with the first k groups of an import, one below the other.
GroupsAt(s, k) ==
  {t \in GroupsIn(s, k) :
     /\ \A h \in DOMAIN s.group : t.group[h] = s.group[h]
     /\ \A i \in 1..k : t.group[LocalId(s, i)].idx = LastIndex(s, Rows(s)) + i * Step
     /\ LastIndex(t, Rows(t)) = LastIndex(s, Rows(s)) + k * Step}

\* ImportGroups: one group more.
LEMMA ImportGroupPlaced ==
  ASSUME CueSheetAssumption, ShowImportAssumption, NEW m \in Shows, NEW s \in Sound, NEW k \in DOMAIN m.groups,
         NEW t \in GroupsAt(s, k - 1)
  PROVE  ImportGroup(t, s, m, k) \in GroupsAt(s, k)
<1> DEFINE a == NextGroupId(s)
           up == m.groups[k].up
           f == m.groups[k].fold
           p == IF up < k THEN LocalId(s, up) ELSE 0
           g == LocalId(s, k)
           u == ImportGroup(t, s, m, k)
           last == LastIndex(s, Rows(s))
<1>1. t \in GroupsIn(s, k - 1) /\ u \in GroupsIn(s, k) /\ k \in 1..Len(m.groups) /\ Len(m.groups) \in Nat
  BY ImportGroupSound DEF GroupsAt
<1>2. up \in Nat /\ f \in BOOLEAN
  <2> DEFINE E == [up : 0..Len(m.groups), fold : BOOLEAN]
  <2>1. m.groups \in Seq(E)
    BY DEF ShowImportAssumption
  <2> HIDE DEF E
  <2>2. m.groups[k] \in E
    BY <2>1
  <2> QED BY <2>2 DEF E
<1>3. u = Grown(t, p, g, f)
  BY Zenon DEF ImportGroup, Grown, FoldedAs
<1>4. a \in Nat \ {0} /\ last \in Int /\ Step \in Nat /\ k \in Nat \ {0}
  BY <1>1, Bounds DEF CueSheetAssumption
<1>5. p = 0 \/ (up \in 1..(k - 1) /\ p = a - 1 + up)
  BY <1>2, <1>4 DEF LocalId
<1>6. /\ t \in Sound /\ t.cue = s.cue /\ DOMAIN t.group = DOMAIN s.group \cup a..(a + (k - 1) - 1)
      /\ u \in Sound /\ u.cue = s.cue /\ DOMAIN u.group = DOMAIN s.group \cup a..(a + k - 1)
      /\ NextGroupId(t) = g
  BY <1>1, <1>4, NextInTurn DEF GroupsIn, a, g
<1>7. /\ \A h \in DOMAIN s.group : t.group[h] = s.group[h]
      /\ \A i \in 1..(k - 1) : t.group[LocalId(s, i)].idx = last + i * Step
      /\ LastIndex(t, Rows(t)) = last + (k - 1) * Step
  BY DEF GroupsAt, last
<1>8. p \in {0} \cup DOMAIN t.group
  <2> HIDE DEF a, p, up
  <2> QED BY <1>2, <1>4, <1>5, <1>6
<1>9. g \notin DOMAIN t.group /\ g = a - 1 + k
  <2>1. NextGroupId(t) \notin DOMAIN t.group
    BY <1>6, Bounds
  <2> QED BY <1>4, <1>6, <2>1 DEF LocalId
<1> HIDE DEF up, f, p, u
<1>10. /\ \A h \in DOMAIN t.group \ {g} : u.group[h] = t.group[h]
       /\ u.group[g].idx = LastIndex(t, Rows(t)) + Step
  BY <1>2, <1>3, <1>6, <1>8, GrownLast
<1> HIDE DEF a, g, last
<1>11. \A h \in DOMAIN t.group : u.group[h] = t.group[h]
  BY <1>9, <1>10
<1>12. u.group[g].idx = last + k * Step
  <2>1. (k - 1) * Step + Step = k * Step /\ (k - 1) * Step \in Int
    BY <1>4
  <2> QED BY <1>4, <1>7, <1>10, <2>1
<1>13. \A h \in DOMAIN s.group : u.group[h] = s.group[h]
  BY <1>6, <1>7, <1>11
<1>14. \A i \in 1..k : u.group[LocalId(s, i)].idx = last + i * Step
  <2> TAKE i \in 1..k
  <2>1. CASE i = k
    BY <1>12, <2>1 DEF g
  <2>2. CASE i # k
    <3>1. i \in 1..(k - 1) /\ LocalId(s, i) = a - 1 + i
      BY <1>4, <2>2 DEF LocalId, a
    <3>2. LocalId(s, i) \in DOMAIN t.group
      BY <1>4, <1>6, <3>1
    <3> QED BY <1>7, <1>11, <3>1, <3>2
  <2> QED BY <2>1, <2>2
<1>15. LastIndex(u, Rows(u)) = last + k * Step
  <2>1. DOMAIN u.group = DOMAIN t.group \cup {g}
    <3>1. a..(a + k - 1) = a..(a + (k - 1) - 1) \cup {a - 1 + k}
      <4>1. k \in Nat /\ k >= 1 /\ a \in Nat
        BY <1>4
      <4> QED BY <4>1
    <3> QED BY <1>6, <1>9, <3>1
  <2>2. Rows(u) = Rows(t) \cup {g}
    BY <1>6, <2>1 DEF Rows
  <2>3. \A r \in Rows(t) : Index(u, r) = Index(t, r)
    BY <1>6, <1>11, <2>1 DEF Rows, Index, IsCue
  <2>4. g \notin DOMAIN u.cue
    <3>1. DOMAIN u.cue \cap DOMAIN u.group = {}
      BY <1>6, SoundParts, RowsAreTwoKinds
    <3> QED BY <2>1, <3>1
  <2>5. Index(u, g) = last + k * Step
    BY <1>12, <2>4 DEF Index, IsCue
  <2>6. last + k * Step > last + (k - 1) * Step
    <3>1. Step > 0
      BY StepIsPositive
    <3>2. k * Step = (k - 1) * Step + Step /\ (k - 1) * Step \in Int
      BY <1>4
    <3> QED BY <1>4, <3>1, <3>2
  <2>7. Index(u, g) > LastIndex(t, Rows(t))
    BY <1>7, <2>5, <2>6
  <2> QED BY <1>6, <2>2, <2>3, <2>5, <2>7, NewLast
<1>16. u \in GroupsAt(s, k)
  BY <1>1, <1>13, <1>14, <1>15 DEF GroupsAt, last, u
<1> QED BY <1>16 DEF u

\* ImportGroups.
LEMMA ImportGroupsPlaced ==
  ASSUME CueSheetAssumption, ShowImportAssumption, NEW m \in Shows, NEW s \in Sound
  PROVE  ImportGroups(s, m) \in GroupsAt(s, Len(m.groups)) /\ Len(m.groups) \in Nat
<1> DEFINE n == Len(m.groups)
           seq == [k \in DOMAIN m.groups |-> k]
           W(g) == g = [z \in SUBSET DOMAIN seq |->
                          IF z = {} THEN s ELSE ImportGroup(g[z \ {Max(z)}], s, m, seq[Max(z)])]
           step == [p \in (1..n) \X Fields |-> ImportGroup(p[2], s, m, p[1])]
           iter == CHOOSE g : W(g)
<1>0. n \in Nat /\ DOMAIN m.groups = 1..n /\ s \in Fields
  <2>1. m.groups \in Seq([up : 0..Len(m.groups), fold : BOOLEAN])
    BY DEF ShowImportAssumption
  <2>2. s \in Fields
    BY DEF Sound
  <2> DEFINE E == [up : 0..Len(m.groups), fold : BOOLEAN]
  <2> HIDE DEF E
  <2>3. m.groups \in Seq(E)
    BY <2>1 DEF E
  <2> QED BY <2>2, <2>3
<1>1. ImportGroups(s, m) = iter[DOMAIN seq]
  BY Zenon DEF ImportGroups, FoldLeft, MapThenFoldSet
<1>a. DOMAIN seq = 1..n /\ \A k \in 1..n : seq[k] = k
  BY <1>0
<1>2. /\ \A k \in 1..n : \A t \in Fields : ImportGroup(t, s, m, k) \in Fields
      /\ \A k \in 1..n : \A t \in GroupsAt(s, k - 1) : ImportGroup(t, s, m, k) \in GroupsAt(s, k)
  <2>1. \A k \in 1..n : \A t \in GroupsAt(s, k - 1) : ImportGroup(t, s, m, k) \in GroupsAt(s, k)
    BY <1>0, ImportGroupPlaced
  <2> QED BY <1>0, <2>1, ImportGroupSound
<1>3. step \in [(1..n) \X Fields -> Fields]
  BY <1>2
<1>4. PICK f : FoldOf(f, n, Fields, s, step)
  <2> HIDE DEF step, n
  <2> QED BY <1>0, <1>3, FoldExists
<1>6. W(f)
  <2>1. \A z \in SUBSET (1..n) : f[z] = IF z = {} THEN s ELSE ImportGroup(f[z \ {Max(z)}], s, m, Max(z))
    <3> TAKE z \in SUBSET (1..n)
    <3>1. CASE z = {}
      BY <1>4, <3>1 DEF FoldOf
    <3>2. CASE z # {}
      <4>1. Max(z) \in 1..n /\ f[z \ {Max(z)}] \in Fields /\ f[z] = step[<<Max(z), f[z \ {Max(z)}]>>]
        BY <1>4, <3>2 DEF FoldOf
      <4> QED BY <3>2, <4>1
    <3> QED BY <3>1, <3>2
  <2>2. \A z \in SUBSET (1..n) : z # {} => Max(z) \in 1..n
    BY <1>4 DEF FoldOf
  <2>3. \A z \in SUBSET (1..n) : f[z] = IF z = {} THEN s ELSE ImportGroup(f[z \ {Max(z)}], s, m, seq[Max(z)])
    <3> HIDE DEF seq
    <3> QED BY <1>a, <2>1, <2>2
  <2>4. f = [z \in SUBSET DOMAIN seq |-> f[z]]
    <3> HIDE DEF seq, step
    <3> QED BY <1>4, <1>a DEF FoldOf
  <2> HIDE DEF step, seq
  <2> QED BY <1>a, <2>3, <2>4
<1>7. W(iter)
  <2> HIDE DEF W
  <2> QED BY <1>6, Zenon
<1> HIDE DEF iter, step
<1>8. \A z \in SUBSET (1..n) : iter[z] = IF z = {} THEN s ELSE ImportGroup(iter[z \ {Max(z)}], s, m, seq[Max(z)])
  <2> HIDE DEF seq
  <2> QED BY <1>a, <1>7
<1> DEFINE Stage == [i \in 0..n |-> GroupsAt(s, i)]
<1>9. iter[1..n] \in Stage[n]
  <2>1. iter[1..0] \in Stage[0]
    <3>1. 1..0 = {} /\ {} \in SUBSET (1..n) /\ 0 \in 0..n
      BY <1>0
    <3>2. iter[{}] = s
      BY <3>1, <1>8
    <3>3. s \in GroupsAt(s, 0)
      <4>1. NextGroupId(s) \in Nat /\ LastIndex(s, Rows(s)) \in Int /\ Step \in Nat
        BY Bounds, StepIsPositive
      <4>2. NextGroupId(s)..(NextGroupId(s) + 0 - 1) = {} /\ 1..0 = {}
        BY <4>1
      <4>3. LastIndex(s, Rows(s)) + 0 * Step = LastIndex(s, Rows(s))
        BY <4>1
      <4> QED BY <4>2, <4>3 DEF GroupsIn, GroupsAt
    <3> HIDE DEF iter, n
    <3> QED BY <3>1, <3>2, <3>3, <1>0
  <2>2. \A i \in 1..n : iter[1..(i - 1)] \in Stage[i - 1] => iter[1..i] \in Stage[i]
    <3> TAKE i \in 1..n
    <3> HAVE iter[1..(i - 1)] \in Stage[i - 1]
    <3>1. 1..i \in SUBSET (1..n) /\ 1..i # {} /\ Max(1..i) = i /\ (1..i) \ {i} = 1..(i - 1)
      BY <1>0, PrefixFold
    <3>2. iter[1..i] = ImportGroup(iter[(1..i) \ {Max(1..i)}], s, m, seq[Max(1..i)])
      <4> HIDE DEF seq
      <4> QED BY <3>1, <1>8
    <3>3. i \in 0..n /\ i - 1 \in 0..n /\ seq[i] = i
      BY <1>0, <1>a
    <3>4. iter[1..(i - 1)] \in GroupsAt(s, i - 1)
      BY <3>3
    <3> HIDE DEF seq
    <3>5. iter[1..i] = ImportGroup(iter[1..(i - 1)], s, m, i)
      BY <3>1, <3>2, <3>3, Zenon
    <3>6. iter[1..i] \in GroupsAt(s, i)
      BY <1>2, <3>4, <3>5
    <3> QED BY <3>3, <3>6
  <2> HIDE DEF Stage, n, seq
  <2> QED BY <1>0, <2>1, <2>2, PrefixIn
<1>10. n \in 0..n
  BY <1>0
<1>11. iter[1..n] \in GroupsAt(s, n)
  BY <1>9, <1>10
<1> HIDE DEF seq
<1> QED BY <1>0, <1>1, <1>a, <1>11

\* AddCueFull.
LEMMA AddFullSound ==
  ASSUME CueSheetAssumption, NEW s \in Sound, NEW c \in Cues, NEW p \in {0} \cup DOMAIN s.group
  PROVE  AddCueFull(s, c, p) \in Sound /\ DOMAIN AddCueFull(s, c, p).group = DOMAIN s.group
<1>1. GoodRows(s)
  BY SoundParts
<1>2. LastPos(s) \in Nat /\ Step \in Nat /\ One \in Nat
  BY Bounds DEF CueSheetAssumption
<1>3. Seat(s, p) \in Int
  <2>1. CASE p = 0
    <3>1. (LastPos(s) + 1) * Step \in Int
      BY <1>2
    <3> QED BY <2>1, <3>1 DEF Seat
  <2>2. CASE p # 0
    <3> DEFINE members == {d \in DOMAIN s.cue : s.cue[d].parent = p}
    <3>1. s.group[p].idx \in Int /\ IsFiniteSet(DOMAIN s.cue)
      BY <1>1, <2>2, RowsAreTwoKinds
    <3>2. IsFiniteSet(members)
      BY <3>1, FS_Subset
    <3>3. Seat(s, p) = s.group[p].idx + (Cardinality(members) + 1) * One
      BY <2>2 DEF Seat
    <3> HIDE DEF members
    <3>4. Cardinality(members) \in Nat
      BY <3>2, FS_CardinalityType
    <3>5. (Cardinality(members) + 1) * One \in Int
      BY <1>2, <3>4
    <3> QED BY <3>1, <3>3, <3>5
  <2> QED BY <2>1, <2>2
<1> DEFINE i == Seat(s, p)
<1>4. i \in Int
  BY <1>3
<1>5. AddCueFull(s, c, p) = [s EXCEPT !.cue = With(@, c, [pos |-> LastPos(s) + 1, parent |-> p, idx |-> i])]
  BY DEF AddCueFull
<1> HIDE DEF i
<1>6. [s EXCEPT !.cue = With(@, c, [pos |-> LastPos(s) + 1, parent |-> p, idx |-> i])] \in Sound
  BY <1>4, AddSound
<1>7. \A x : [s EXCEPT !.cue = x].group = s.group
  BY DEF Sound, Fields
<1> QED BY <1>5, <1>6, <1>7

\* How many cues are in a group.
Count(t, g) == Cardinality({d \in DOMAIN t.cue : t.cue[d].parent = g})

\* u is t with one more cue: last of all, and last in its group.
AddsFull(t, u, c, p) ==
  /\ u \in Sound /\ u.group = t.group
  /\ DOMAIN u.cue = DOMAIN t.cue \cup {c}
  /\ \A d \in DOMAIN t.cue : u.cue[d] = t.cue[d]
  /\ u.cue[c].pos = LastPos(t) + 1
  /\ u.cue[c].parent = p
  /\ u.cue[c].idx = IF p = 0 THEN (LastPos(t) + 1) * Step ELSE t.group[p].idx + (Count(t, p) + 1) * One
  /\ LastPos(u) = LastPos(t) + 1
  /\ Cardinality(DOMAIN u.cue) = Cardinality(DOMAIN t.cue) + 1
  /\ \A g : Count(t, g) \in Nat /\ Count(u, g) = IF g = p THEN Count(t, g) + 1 ELSE Count(t, g)

\* AddCueFull does that.
LEMMA AddFullFields ==
  ASSUME CueSheetAssumption, NEW t \in Sound, NEW c \in Cues, c \notin DOMAIN t.cue, NEW p \in {0} \cup DOMAIN t.group
  PROVE  AddsFull(t, AddCueFull(t, c, p), c, p)
<1> DEFINE u == AddCueFull(t, c, p)
           r == [pos |-> LastPos(t) + 1, parent |-> p, idx |-> Seat(t, p)]
<1>1. u \in Sound
  BY AddFullSound
<1>2. u.group = t.group /\ u.cue = With(t.cue, c, r)
  <2> HIDE DEF r
  <2>1. u = [t EXCEPT !.cue = With(@, c, r)]
    BY DEF AddCueFull, r
  <2>2. \A x : [t EXCEPT !.cue = x].cue = x /\ [t EXCEPT !.cue = x].group = t.group
    BY DEF Sound, Fields
  <2> HIDE DEF u
  <2> QED BY <2>1, <2>2
<1>3. /\ DOMAIN u.cue = DOMAIN t.cue \cup {c} /\ u.cue[c] = r
      /\ \A d \in DOMAIN t.cue : u.cue[d] = t.cue[d]
  <2> HIDE DEF r, u
  <2> QED BY <1>2 DEF With
<1>4. /\ r.pos = LastPos(t) + 1 /\ r.parent = p
      /\ r.idx = IF p = 0 THEN (LastPos(t) + 1) * Step ELSE t.group[p].idx + (Count(t, p) + 1) * One
  BY DEF Seat, Count
<1> HIDE DEF u, r
<1>5. LastPos(u) = LastPos(t) + 1
  <2>1. /\ \A d \in DOMAIN t.cue : t.cue[d].pos \in Nat /\ t.cue[d].pos <= LastPos(t)
        /\ LastPos(t) \in Nat /\ LastPos(u) \in Nat
        /\ \A d \in DOMAIN u.cue : u.cue[d].pos \in Nat /\ u.cue[d].pos <= LastPos(u)
        /\ LastPos(u) = 0 \/ \E d \in DOMAIN u.cue : u.cue[d].pos = LastPos(u)
    BY <1>1, LastOnes, Bounds
  <2>2. LastPos(t) + 1 <= LastPos(u)
    BY <1>3, <1>4, <2>1
  <2>3. \A d \in DOMAIN u.cue : u.cue[d].pos <= LastPos(t) + 1
    <3> TAKE d \in DOMAIN u.cue
    <3>1. d = c \/ d \in DOMAIN t.cue
      BY <1>3
    <3>2. u.cue[c].pos = LastPos(t) + 1
      BY <1>3, <1>4
    <3>3. d \in DOMAIN t.cue => u.cue[d].pos = t.cue[d].pos
      BY <1>3
    <3> QED BY <2>1, <3>1, <3>2, <3>3
  <2>4. LastPos(u) <= LastPos(t) + 1
    BY <2>1, <2>3
  <2> QED BY <2>1, <2>2, <2>4
<1>6. IsFiniteSet(DOMAIN t.cue)
  BY SoundParts, RowsAreTwoKinds
<1>7. Cardinality(DOMAIN u.cue) = Cardinality(DOMAIN t.cue) + 1
  BY <1>3, <1>6, FS_AddElement
<1>8. ASSUME NEW g
      PROVE  Count(t, g) \in Nat /\ Count(u, g) = IF g = p THEN Count(t, g) + 1 ELSE Count(t, g)
  <2> DEFINE T == {d \in DOMAIN t.cue : t.cue[d].parent = g}
             U == {d \in DOMAIN u.cue : u.cue[d].parent = g}
  <2>1. IsFiniteSet(T) /\ c \notin T
    BY <1>6, FS_Subset
  <2>2. U = IF g = p THEN T \cup {c} ELSE T
    BY <1>3, <1>4
  <2>3. Count(t, g) = Cardinality(T) /\ Count(u, g) = Cardinality(U)
    BY DEF Count
  <2> HIDE DEF T, U
  <2>4. Cardinality(T) \in Nat /\ Cardinality(T \cup {c}) = Cardinality(T) + 1
    BY <2>1, FS_AddElement, FS_CardinalityType
  <2> QED BY <2>2, <2>3, <2>4
<1>9. u.cue[c].pos = LastPos(t) + 1 /\ u.cue[c].parent = p
  BY <1>3, <1>4
<1>10. u.cue[c].idx = IF p = 0 THEN (LastPos(t) + 1) * Step ELSE t.group[p].idx + (Count(t, p) + 1) * One
  BY <1>3, <1>4, Zenon
<1>11. AddsFull(t, u, c, p)
  BY <1>1, <1>2, <1>3, <1>5, <1>7, <1>8, <1>9, <1>10, Zenon DEF AddsFull
<1> QED BY <1>11 DEF u

\* The numbers an import gives its groups are new, one for each.
LEMMA LocalIdsNew ==
  ASSUME CueSheetAssumption, NEW s \in Sound
  PROVE  /\ \A k \in Nat \ {0} : LocalId(s, k) \in Nat \ {0} /\ LocalId(s, k) \notin DOMAIN s.group
         /\ LocalId(s, 0) = 0
         /\ \A k, l \in Nat : LocalId(s, k) = LocalId(s, l) => k = l
<1> DEFINE a == NextGroupId(s)
<1>1. a \in Nat \ {0} /\ \A g \in DOMAIN s.group : g < a /\ g \in Nat
  BY Bounds, SoundParts DEF GoodGroups
<1>2. \A k : LocalId(s, k) = IF k = 0 THEN 0 ELSE a - 1 + k
  BY DEF LocalId
<1> HIDE DEF a
<1>3. ASSUME NEW k \in Nat \ {0} PROVE LocalId(s, k) \in Nat \ {0} /\ LocalId(s, k) \notin DOMAIN s.group
  <2>1. LocalId(s, k) = a - 1 + k /\ a - 1 + k \in Nat \ {0} /\ a - 1 + k >= a
    BY <1>1, <1>2
  <2>2. ASSUME a - 1 + k \in DOMAIN s.group PROVE FALSE
    BY <1>1, <2>1, <2>2
  <2> QED BY <2>1, <2>2
<1>4. \A k, l \in Nat : LocalId(s, k) = LocalId(s, l) => k = l
  BY <1>1, <1>2
<1> QED BY <1>2, <1>3, <1>4

\* The cues of an import, in the order of its manifest.
Entries(s) == SetToSeq(Cues \ DOMAIN s.cue)

\* Each one is new, and the group it goes to is in by then.
LEMMA EntriesNew ==
  ASSUME CueSheetAssumption, ShowImportAssumption, NEW m \in Shows, NEW s \in Sound,
         Len(m.cues) <= Cardinality(Cues) - Cardinality(DOMAIN s.cue)
  PROVE  /\ Len(m.cues) \in Nat /\ Len(m.groups) \in Nat
         /\ \A i \in 1..Len(m.cues) : /\ m.cues[i] \in 0..Len(m.groups)
                                      /\ Entries(s)[i] \in Cues /\ Entries(s)[i] \notin DOMAIN s.cue
         /\ \A i, j \in 1..Len(m.cues) : Entries(s)[i] = Entries(s)[j] => i = j
         /\ \A k \in 0..Len(m.groups) : LocalId(s, k) \in {0} \cup DOMAIN ImportGroups(s, m).group
<1> DEFINE rest == Cues \ DOMAIN s.cue
           l == Len(m.cues)
           n == Len(m.groups)
           a == NextGroupId(s)
           base == ImportGroups(s, m)
<1>1. l \in Nat /\ n \in Nat /\ \A i \in 1..l : m.cues[i] \in 0..n
  <2>1. m.cues \in Seq(0..n) /\ n \in Nat
    BY ImportGroupsPlaced DEF ShowImportAssumption
  <2> HIDE DEF n
  <2> QED BY <2>1
<1>2. IsFiniteSet(Cues) /\ DOMAIN s.cue \subseteq Cues
  BY SoundParts DEF CueSheetAssumption, GoodCues
<1>3. IsFiniteSet(rest) /\ Cardinality(rest) = Cardinality(Cues) - Cardinality(DOMAIN s.cue)
  <2>1. IsFiniteSet(rest) /\ Cardinality(rest) = Cardinality(Cues) - Cardinality(Cues \cap DOMAIN s.cue)
    BY <1>2, FS_Difference
  <2>2. Cues \cap DOMAIN s.cue = DOMAIN s.cue
    BY <1>2
  <2> QED BY <2>1, <2>2
<1>4. l <= Cardinality(rest)
  BY <1>3
<1> HIDE DEF rest, l
<1>5. /\ Cardinality(rest) \in Nat /\ SetToSeq(rest) \in [1..Cardinality(rest) -> rest]
      /\ \A i, j \in 1..Cardinality(rest) : SetToSeq(rest)[i] = SetToSeq(rest)[j] => i = j
  BY <1>3, SetToSeqLists
<1>6. \A i \in 1..l : i \in 1..Cardinality(rest)
  BY <1>1, <1>4, <1>5
<1>7. Entries(s) = SetToSeq(rest)
  BY DEF Entries, rest
<1>8. \A i \in 1..l : Entries(s)[i] \in rest
  BY <1>5, <1>6, <1>7
<1>9. \A i, j \in 1..l : Entries(s)[i] = Entries(s)[j] => i = j
  BY <1>5, <1>6, <1>7
<1>10. \A k \in 0..n : LocalId(s, k) \in {0} \cup DOMAIN base.group
  <2>1. DOMAIN base.group = DOMAIN s.group \cup a..(a + n - 1) /\ a \in Nat
    BY ImportGroupsPlaced, Bounds DEF GroupsAt, GroupsIn
  <2> HIDE DEF base, n, a
  <2> TAKE k \in 0..n
  <2>2. LocalId(s, k) = IF k = 0 THEN 0 ELSE a - 1 + k
    BY DEF LocalId, a
  <2>3. k = 0 \/ a - 1 + k \in a..(a + n - 1)
    BY <1>1, <2>1
  <2> QED BY <2>1, <2>2, <2>3
<1> QED BY <1>1, <1>8, <1>9, <1>10 DEF rest, l

\* Where the first j cues of an import are: at the next whole multiples of Step, or
\* below their headers, one after the other.
Seated(s, t, m, j) ==
  /\ \A k \in 1..Len(m.groups) : Count(t, LocalId(s, k)) <= j
  /\ \A i \in 1..j : m.cues[i] = 0 => t.cue[Entries(s)[i]].idx = (LastPos(s) + i) * Step
  /\ \A i \in 1..j : m.cues[i] # 0 =>
       /\ t.cue[Entries(s)[i]].idx > t.group[LocalId(s, m.cues[i])].idx
       /\ t.cue[Entries(s)[i]].idx
            <= t.group[LocalId(s, m.cues[i])].idx + Count(t, LocalId(s, m.cues[i])) * One
  /\ \A h, i \in 1..j : h < i /\ m.cues[h] = m.cues[i] /\ m.cues[i] # 0 =>
       t.cue[Entries(s)[h]].idx < t.cue[Entries(s)[i]].idx

\* The sheet with the groups of an import and its first j cues.
Entered(s, m, j) ==
  {t \in Sound :
     /\ t.group = ImportGroups(s, m).group
     /\ DOMAIN t.cue = DOMAIN s.cue \cup {Entries(s)[i] : i \in 1..j}
     /\ \A c \in DOMAIN s.cue : t.cue[c] = s.cue[c]
     /\ \A i \in 1..j : /\ t.cue[Entries(s)[i]].pos = LastPos(s) + i
                        /\ t.cue[Entries(s)[i]].parent = LocalId(s, m.cues[i])
     /\ LastPos(t) = LastPos(s) + j
     /\ Cardinality(DOMAIN t.cue) = Cardinality(DOMAIN s.cue) + j
     /\ Seated(s, t, m, j)}

\* A seat more in a group is further down.
LEMMA SeatsGrow ==
  ASSUME CueSheetAssumption, NEW n \in Nat, NEW k \in Nat, n <= k
  PROVE  n * One <= k * One /\ n * One \in Nat /\ k * One \in Nat /\ (n + 1) * One = n * One + One
<1>1. One \in Nat /\ One > 0
  BY StepIsPositive
<1>2. PICK d \in Nat : k = n + d
  BY k - n \in Nat, k = n + (k - n)
<1>3. d * One \in Nat /\ k * One = n * One + d * One /\ n * One \in Nat /\ (n + 1) * One = n * One + One
  BY <1>1, <1>2
<1> QED BY <1>3

\* AddCueFull, cue by cue.
LEMMA EntersNext ==
  ASSUME CueSheetAssumption, ShowImportAssumption, NEW m \in Shows, NEW s \in Sound,
         Len(m.cues) <= Cardinality(Cues) - Cardinality(DOMAIN s.cue),
         NEW j \in 1..Len(m.cues), NEW t \in Entered(s, m, j - 1)
  PROVE  AddCueFull(t, Entries(s)[j], LocalId(s, m.cues[j])) \in Entered(s, m, j)
<1> DEFINE c == Entries(s)[j]
           p == LocalId(s, m.cues[j])
           u == AddCueFull(t, c, p)
           e == Entries(s)
           n == Len(m.groups)
           l == Len(m.cues)
<1>0. /\ l \in Nat /\ n \in Nat /\ j \in 1..l /\ j \in Nat
      /\ \A i \in 1..l : m.cues[i] \in 0..n /\ e[i] \in Cues /\ e[i] \notin DOMAIN s.cue
      /\ \A h, i \in 1..l : e[h] = e[i] => h = i
      /\ \A k \in 0..n : LocalId(s, k) \in {0} \cup DOMAIN ImportGroups(s, m).group
  <2>1. /\ l \in Nat /\ n \in Nat
        /\ \A i \in 1..l : m.cues[i] \in 0..n /\ e[i] \in Cues /\ e[i] \notin DOMAIN s.cue
        /\ \A h, i \in 1..l : e[h] = e[i] => h = i
        /\ \A k \in 0..n : LocalId(s, k) \in {0} \cup DOMAIN ImportGroups(s, m).group
    BY EntriesNew
  <2>2. j \in 1..l /\ j \in Nat
    BY <2>1
  <2> QED BY <2>1, <2>2
<1>1. /\ t \in Sound /\ t.group = ImportGroups(s, m).group
      /\ DOMAIN t.cue = DOMAIN s.cue \cup {e[i] : i \in 1..(j - 1)}
      /\ \A d \in DOMAIN s.cue : t.cue[d] = s.cue[d]
      /\ \A i \in 1..(j - 1) : t.cue[e[i]].pos = LastPos(s) + i /\ t.cue[e[i]].parent = LocalId(s, m.cues[i])
      /\ LastPos(t) = LastPos(s) + (j - 1)
      /\ Cardinality(DOMAIN t.cue) = Cardinality(DOMAIN s.cue) + (j - 1)
      /\ Seated(s, t, m, j - 1)
  BY DEF Entered
<1>2. c \in Cues /\ c \notin DOMAIN t.cue /\ p \in {0} \cup DOMAIN t.group /\ c = e[j]
  <2>1. \A i \in 1..(j - 1) : i \in 1..l /\ i # j
    BY <1>0
  <2> QED BY <1>0, <1>1, <2>1
<1> HIDE DEF c, p, e, n, l
<1>3. /\ u \in Sound /\ u.group = t.group
      /\ DOMAIN u.cue = DOMAIN t.cue \cup {c}
      /\ \A d \in DOMAIN t.cue : u.cue[d] = t.cue[d]
      /\ u.cue[c].pos = LastPos(t) + 1
      /\ u.cue[c].parent = p
      /\ u.cue[c].idx = IF p = 0 THEN (LastPos(t) + 1) * Step ELSE t.group[p].idx + (Count(t, p) + 1) * One
      /\ LastPos(u) = LastPos(t) + 1
      /\ Cardinality(DOMAIN u.cue) = Cardinality(DOMAIN t.cue) + 1
      /\ \A g : Count(t, g) \in Nat /\ Count(u, g) = IF g = p THEN Count(t, g) + 1 ELSE Count(t, g)
  <2>1. AddsFull(t, u, c, p)
    BY <1>1, <1>2, AddFullFields
  <2> HIDE DEF u
  <2> QED BY <2>1, Zenon DEF AddsFull
<1> HIDE DEF u
<1>4. \A i \in 1..j : i \in 1..(j - 1) \/ i = j
  BY <1>0
<1>5. LastPos(s) \in Nat /\ Cardinality(DOMAIN s.cue) \in Nat
  <2>1. IsFiniteSet(DOMAIN s.cue)
    BY SoundParts, RowsAreTwoKinds
  <2> QED BY <2>1, Bounds, FS_CardinalityType
<1>6. \A i \in 1..(j - 1) : e[i] \in DOMAIN t.cue /\ u.cue[e[i]] = t.cue[e[i]]
  BY <1>1, <1>3
<1>7. DOMAIN u.cue = DOMAIN s.cue \cup {e[i] : i \in 1..j}
  <2>1. 1..j = 1..(j - 1) \cup {j}
    BY <1>0
  <2> QED BY <1>1, <1>2, <1>3, <2>1
<1>8. \A d \in DOMAIN s.cue : u.cue[d] = s.cue[d]
  BY <1>1, <1>3
<1>9. LastPos(u) = LastPos(s) + j /\ Cardinality(DOMAIN u.cue) = Cardinality(DOMAIN s.cue) + j
      /\ u.cue[e[j]].pos = LastPos(s) + j
  BY <1>0, <1>1, <1>2, <1>3, <1>5
<1>10. \A i \in 1..j : u.cue[e[i]].pos = LastPos(s) + i /\ u.cue[e[i]].parent = LocalId(s, m.cues[i])
  <2> TAKE i \in 1..j
  <2>1. CASE i = j
    BY <1>2, <1>3, <1>9, <2>1 DEF p
  <2>2. CASE i \in 1..(j - 1)
    BY <1>1, <1>6, <2>2
  <2> QED BY <1>4, <2>1, <2>2
<1>11. Seated(s, u, m, j)
  <2> DEFINE q == m.cues[j]
  <2>0. q \in 0..n /\ p = LocalId(s, q) /\ (p = 0 <=> q = 0)
    <3>1. q \in 0..n /\ q \in Nat
      BY <1>0
    <3>2. LocalId(s, 0) = 0 /\ (q # 0 => LocalId(s, q) \in Nat \ {0})
      BY <3>1, LocalIdsNew
    <3> QED BY <3>1, <3>2 DEF p
  <2> HIDE DEF q
  <2>1. \A k \in 1..n : Count(u, LocalId(s, k)) <= j
    <3> TAKE k \in 1..n
    <3>1. Count(t, LocalId(s, k)) <= j - 1
      BY <1>1 DEF Seated, n
    <3> QED BY <1>0, <1>3, <3>1
  <2>2. \A i \in 1..j : m.cues[i] = 0 => u.cue[e[i]].idx = (LastPos(s) + i) * Step
    <3> TAKE i \in 1..j
    <3>1. CASE i = j
      <4>1. LastPos(t) + 1 = LastPos(s) + j
        BY <1>0, <1>1, <1>5
      <4> QED BY <1>2, <1>3, <2>0, <3>1, <4>1 DEF q
    <3>2. CASE i \in 1..(j - 1)
      BY <1>1, <1>6, <3>2 DEF Seated, e
    <3> QED BY <1>4, <3>1, <3>2
  <2>3. \A g \in DOMAIN t.group : t.group[g].idx \in Int
    BY <1>1, SoundParts, RowsAreTwoKinds
  <2>4. \A i \in 1..(j - 1) : m.cues[i] # 0 =>
          /\ LocalId(s, m.cues[i]) \in DOMAIN t.group
          /\ u.cue[e[i]].idx > u.group[LocalId(s, m.cues[i])].idx /\ u.cue[e[i]].idx \in Int
          /\ u.cue[e[i]].idx <= t.group[LocalId(s, m.cues[i])].idx + Count(t, LocalId(s, m.cues[i])) * One
    <3> TAKE i \in 1..(j - 1)
    <3> HAVE m.cues[i] # 0
    <3>1. i \in 1..l
      BY <1>0
    <3>2. m.cues[i] \in 0..n /\ m.cues[i] \in Nat \ {0}
      BY <1>0, <3>1
    <3>3. LocalId(s, m.cues[i]) \in DOMAIN t.group
      BY <1>0, <1>1, <3>2, LocalIdsNew
    <3>4. u.cue[e[i]].idx \in Int
      BY <1>3, <1>6, SoundParts, RowsAreTwoKinds
    <3> QED BY <1>1, <1>3, <1>6, <3>3, <3>4 DEF Seated, e
  <2>5. ASSUME q # 0
        PROVE  /\ LocalId(s, q) \in DOMAIN t.group
               /\ u.cue[e[j]].idx = u.group[LocalId(s, q)].idx + Count(u, LocalId(s, q)) * One
               /\ u.cue[e[j]].idx = t.group[LocalId(s, q)].idx + Count(t, LocalId(s, q)) * One + One
               /\ u.cue[e[j]].idx > u.group[LocalId(s, q)].idx
    <3>1. p # 0 /\ p \in DOMAIN t.group /\ p = LocalId(s, q)
      BY <1>2, <2>0, <2>5
    <3>2. Count(t, p) \in Nat /\ Count(u, p) = Count(t, p) + 1
      BY <1>3
    <3>3. (Count(t, p) + 1) * One = Count(t, p) * One + One /\ Count(t, p) * One \in Nat /\ One \in Nat /\ One > 0
      BY <3>2, SeatsGrow, StepIsPositive
    <3>4. u.cue[e[j]].idx = t.group[p].idx + (Count(t, p) + 1) * One
      BY <1>2, <1>3, <3>1
    <3>5. t.group[p].idx \in Int /\ u.group[p].idx = t.group[p].idx
      BY <1>3, <2>3, <3>1
    <3>6. u.cue[e[j]].idx = u.group[p].idx + Count(u, p) * One
      BY <3>2, <3>4, <3>5
    <3>7. u.cue[e[j]].idx = t.group[p].idx + Count(t, p) * One + One /\ u.cue[e[j]].idx > u.group[p].idx
      BY <3>3, <3>4, <3>5
    <3> QED BY <3>1, <3>6, <3>7
  <2>6. \A i \in 1..j : m.cues[i] # 0 =>
          /\ u.cue[e[i]].idx > u.group[LocalId(s, m.cues[i])].idx
          /\ u.cue[e[i]].idx <= u.group[LocalId(s, m.cues[i])].idx + Count(u, LocalId(s, m.cues[i])) * One
    <3> TAKE i \in 1..j
    <3> HAVE m.cues[i] # 0
    <3>1. CASE i = j
      <4>1. q # 0 /\ m.cues[i] = q
        BY <3>1 DEF q
      <4>2. u.cue[e[j]].idx \in Int
        BY <1>3, <1>7, SoundParts, RowsAreTwoKinds
      <4> QED BY <2>5, <3>1, <4>1, <4>2
    <3>2. CASE i \in 1..(j - 1)
      <4> DEFINE g == LocalId(s, m.cues[i])
      <4>1. /\ g \in DOMAIN t.group /\ u.cue[e[i]].idx > u.group[g].idx /\ u.cue[e[i]].idx \in Int
            /\ u.cue[e[i]].idx <= t.group[g].idx + Count(t, g) * One
        BY <2>4, <3>2
      <4> HIDE DEF g
      <4>2. Count(t, g) \in Nat /\ Count(u, g) \in Nat /\ Count(t, g) <= Count(u, g)
        BY <1>3
      <4>3. Count(t, g) * One <= Count(u, g) * One /\ Count(t, g) * One \in Nat /\ Count(u, g) * One \in Nat
        BY <4>2, SeatsGrow
      <4>4. t.group[g].idx \in Int /\ u.group[g].idx = t.group[g].idx
        BY <1>3, <2>3, <4>1
      <4>5. u.cue[e[i]].idx <= u.group[g].idx + Count(u, g) * One
        BY <4>1, <4>3, <4>4
      <4> QED BY <4>1, <4>5 DEF g
    <3> QED BY <1>4, <3>1, <3>2
  <2>7. \A h, i \in 1..j : h < i /\ m.cues[h] = m.cues[i] /\ m.cues[i] # 0 => u.cue[e[h]].idx < u.cue[e[i]].idx
    <3> TAKE h, i \in 1..j
    <3> HAVE h < i /\ m.cues[h] = m.cues[i] /\ m.cues[i] # 0
    <3>1. h \in 1..(j - 1)
      BY <1>0
    <3>2. CASE i = j
      <4> DEFINE g == LocalId(s, q)
      <4>1. m.cues[i] = q /\ m.cues[h] = q /\ q # 0
        BY <3>2 DEF q
      <4>2. g \in DOMAIN t.group /\ u.cue[e[h]].idx \in Int /\ u.cue[e[h]].idx <= t.group[g].idx + Count(t, g) * One
        BY <2>4, <3>1, <4>1
      <4>3. u.cue[e[j]].idx = t.group[g].idx + Count(t, g) * One + One
        BY <2>5, <4>1
      <4> HIDE DEF g
      <4>4. Count(t, g) * One \in Nat /\ t.group[g].idx \in Int /\ One \in Nat /\ One > 0
        <5>1. Count(t, g) \in Nat
          BY <1>3
        <5> QED BY <2>3, <4>2, <5>1, SeatsGrow, StepIsPositive
      <4>5. u.cue[e[h]].idx < u.cue[e[j]].idx
        BY <4>2, <4>3, <4>4
      <4> QED BY <3>2, <4>5
    <3>3. CASE i \in 1..(j - 1)
      BY <1>1, <1>6, <3>1, <3>3 DEF Seated, e
    <3> QED BY <1>4, <3>2, <3>3
  <2> QED BY <2>1, <2>2, <2>6, <2>7 DEF Seated, e, n
<1>12. u \in Entered(s, m, j)
  BY <1>1, <1>3, <1>7, <1>8, <1>9, <1>10, <1>11 DEF Entered, e
<1> QED BY <1>12 DEF u, c, p

\* The first n cues of a manifest.
LEMMA FilledEnters ==
  ASSUME CueSheetAssumption, ShowImportAssumption, NEW m \in Shows, NEW s \in Sound,
         NEW n \in Nat, n <= Len(m.cues), Len(m.cues) <= Cardinality(Cues) - Cardinality(DOMAIN s.cue)
  PROVE  Filled(s, m, n) \in Entered(s, m, n)
<1> DEFINE base == ImportGroups(s, m)
           rest == Cues \ DOMAIN s.cue
           cues == SetToSeq(rest)
           seq == [i \in 1..n |-> i]
           X == {t \in Sound : DOMAIN t.group = DOMAIN base.group}
           Op(t, i) == AddCueFull(t, cues[i], LocalId(s, m.cues[i]))
           W(g) == g = [z \in SUBSET DOMAIN seq |->
                          IF z = {} THEN base ELSE Op(g[z \ {Max(z)}], seq[Max(z)])]
           step == [p \in (1..n) \X X |-> Op(p[2], p[1])]
           iter == CHOOSE g : W(g)
<1>1. Filled(s, m, n) = iter[DOMAIN seq]
  BY Zenon DEF Filled, FoldLeft, MapThenFoldSet
<1>a. DOMAIN seq = 1..n /\ \A k \in 1..n : seq[k] = k
  OBVIOUS
<1>b. base \in GroupsAt(s, Len(m.groups)) /\ cues = Entries(s)
  BY ImportGroupsPlaced DEF Entries
<1>c. /\ Len(m.cues) \in Nat
      /\ \A i \in 1..Len(m.cues) : cues[i] \in Cues
      /\ \A i \in 1..Len(m.cues) : m.cues[i] \in 0..Len(m.groups)
      /\ \A k \in 0..Len(m.groups) : LocalId(s, k) \in {0} \cup DOMAIN base.group
  <2> HIDE DEF cues
  <2> QED BY <1>b, EntriesNew
<1>d. \A i \in 1..n : i \in 1..Len(m.cues) /\ cues[i] \in Cues /\ LocalId(s, m.cues[i]) \in {0} \cup DOMAIN base.group
  <2> DEFINE l == Len(m.cues)
             G == {0} \cup DOMAIN base.group
  <2>1. n <= l /\ l \in Nat
    BY <1>c
  <2>2. \A i \in 1..l : cues[i] \in Cues /\ LocalId(s, m.cues[i]) \in G
    BY <1>c
  <2> HIDE DEF l, G, cues
  <2>3. \A i \in 1..n : i \in 1..l
    BY <2>1
  <2>4. \A i \in 1..n : i \in 1..l /\ cues[i] \in Cues /\ LocalId(s, m.cues[i]) \in G
    BY <2>2, <2>3
  <2> QED BY <2>4 DEF l, G
<1>e. base \in Entered(s, m, 0)
  <2>1. base \in Sound /\ base.cue = s.cue
    BY <1>b DEF GroupsAt, GroupsIn
  <2>2. LastPos(base) = LastPos(s) /\ LastPos(s) \in Nat
    BY <2>1, Bounds DEF LastPos
  <2>3. Cardinality(DOMAIN s.cue) \in Nat
    <3>1. IsFiniteSet(DOMAIN s.cue)
      BY SoundParts, RowsAreTwoKinds
    <3> QED BY <3>1, FS_CardinalityType
  <2>4. 1..0 = {}
    OBVIOUS
  <2>5. \A k \in 1..Len(m.groups) : Count(base, LocalId(s, k)) <= 0
    <3> TAKE k \in 1..Len(m.groups)
    <3>1. k \in Nat \ {0}
      BY <1>b, ImportGroupsPlaced
    <3>2. LocalId(s, k) # 0 /\ LocalId(s, k) \notin DOMAIN s.group
      BY <3>1, LocalIdsNew
    <3>3. \A d \in DOMAIN s.cue : s.cue[d].parent \in {0} \cup DOMAIN s.group
      BY SoundParts DEF Members
    <3>4. {d \in DOMAIN base.cue : base.cue[d].parent = LocalId(s, k)} = {}
      BY <2>1, <3>2, <3>3
    <3>5. Count(base, LocalId(s, k)) = 0
      BY <3>4, FS_EmptySet DEF Count
    <3> QED BY <3>5
  <2> HIDE DEF base
  <2>6. Seated(s, base, m, 0)
    BY <2>4, <2>5 DEF Seated
  <2>7. DOMAIN s.cue \cup {Entries(s)[i] : i \in 1..0} = DOMAIN s.cue
    BY <2>4
  <2>8. /\ base.group = ImportGroups(s, m).group /\ LastPos(base) = LastPos(s) + 0
        /\ Cardinality(DOMAIN base.cue) = Cardinality(DOMAIN s.cue) + 0
    BY <2>1, <2>2, <2>3 DEF base
  <2>9. DOMAIN base.cue = DOMAIN s.cue \cup {Entries(s)[i] : i \in 1..0} /\ \A c \in DOMAIN s.cue : base.cue[c] = s.cue[c]
    BY <2>1, <2>7
  <2>10. \A i \in 1..0 : base.cue[Entries(s)[i]].pos = LastPos(s) + i /\ base.cue[Entries(s)[i]].parent = LocalId(s, m.cues[i])
    BY <2>4
  <2> QED BY <2>1, <2>6, <2>8, <2>9, <2>10, Zenon DEF Entered
<1>f. \A i \in 1..n : \A t \in Entered(s, m, i - 1) : Op(t, i) \in Entered(s, m, i)
  <2> TAKE i \in 1..n
  <2> TAKE t \in Entered(s, m, i - 1)
  <2>1. i \in 1..Len(m.cues)
    BY <1>d
  <2>2. AddCueFull(t, Entries(s)[i], LocalId(s, m.cues[i])) \in Entered(s, m, i)
    BY <2>1, EntersNext
  <2> QED BY <1>b, <2>2
<1> HIDE DEF base, cues, rest
<1>0. base \in X
  BY <1>b DEF GroupsAt, GroupsIn
<1>2. \A i \in 1..n : \A t \in X : Op(t, i) \in X
  <2> TAKE i \in 1..n
  <2> TAKE t \in X
  <2>1. t \in Sound /\ DOMAIN t.group = DOMAIN base.group
    OBVIOUS
  <2>2. cues[i] \in Cues /\ LocalId(s, m.cues[i]) \in {0} \cup DOMAIN t.group
    BY <1>d, <2>1
  <2>3. Op(t, i) \in Sound /\ DOMAIN Op(t, i).group = DOMAIN t.group
    BY <2>1, <2>2, AddFullSound
  <2> HIDE DEF Op
  <2> QED BY <2>1, <2>3
<1> HIDE DEF X, Op
<1>3. step \in [(1..n) \X X -> X]
  BY <1>2
<1>4. PICK f : FoldOf(f, n, X, base, step)
  <2> HIDE DEF step
  <2> QED BY <1>0, <1>3, FoldExists
<1>6. W(f)
  <2>1. \A z \in SUBSET (1..n) : f[z] = IF z = {} THEN base ELSE Op(f[z \ {Max(z)}], Max(z))
    <3> TAKE z \in SUBSET (1..n)
    <3>1. CASE z = {}
      BY <1>4, <3>1 DEF FoldOf
    <3>2. CASE z # {}
      <4>1. Max(z) \in 1..n /\ f[z \ {Max(z)}] \in X /\ f[z] = step[<<Max(z), f[z \ {Max(z)}]>>]
        BY <1>4, <3>2 DEF FoldOf
      <4> QED BY <3>2, <4>1
    <3> QED BY <3>1, <3>2
  <2>2. \A z \in SUBSET (1..n) : z # {} => Max(z) \in 1..n
    BY <1>4 DEF FoldOf
  <2>3. \A z \in SUBSET (1..n) : f[z] = IF z = {} THEN base ELSE Op(f[z \ {Max(z)}], seq[Max(z)])
    <3> HIDE DEF seq
    <3> QED BY <1>a, <2>1, <2>2
  <2>4. f = [z \in SUBSET DOMAIN seq |-> f[z]]
    <3> HIDE DEF seq, step
    <3> QED BY <1>4, <1>a DEF FoldOf
  <2> HIDE DEF step, seq
  <2> QED BY <1>a, <2>3, <2>4
<1>7. W(iter)
  <2> HIDE DEF W
  <2> QED BY <1>6, Zenon
<1> HIDE DEF iter, step
<1>8. \A z \in SUBSET (1..n) : iter[z] = IF z = {} THEN base ELSE Op(iter[z \ {Max(z)}], seq[Max(z)])
  <2> HIDE DEF seq
  <2> QED BY <1>a, <1>7
<1> DEFINE Stage == [i \in 0..n |-> Entered(s, m, i)]
<1>9. iter[1..n] \in Stage[n]
  <2>1. iter[1..0] \in Stage[0]
    <3>1. 1..0 = {} /\ {} \in SUBSET (1..n) /\ 0 \in 0..n
      OBVIOUS
    <3>2. iter[{}] = base
      BY <3>1, <1>8
    <3> QED BY <1>e, <3>1, <3>2
  <2>2. \A i \in 1..n : iter[1..(i - 1)] \in Stage[i - 1] => iter[1..i] \in Stage[i]
    <3> TAKE i \in 1..n
    <3> HAVE iter[1..(i - 1)] \in Stage[i - 1]
    <3>1. 1..i \in SUBSET (1..n) /\ 1..i # {} /\ Max(1..i) = i /\ (1..i) \ {i} = 1..(i - 1)
      BY PrefixFold
    <3>2. iter[1..i] = Op(iter[(1..i) \ {Max(1..i)}], seq[Max(1..i)])
      <4> HIDE DEF seq
      <4> QED BY <3>1, <1>8
    <3>3. i \in 0..n /\ i - 1 \in 0..n /\ seq[i] = i
      BY <1>a
    <3>4. iter[1..(i - 1)] \in Entered(s, m, i - 1)
      BY <3>3
    <3> HIDE DEF seq
    <3>5. iter[1..i] = Op(iter[1..(i - 1)], i)
      BY <3>1, <3>2, <3>3, Zenon
    <3>6. iter[1..i] \in Entered(s, m, i)
      BY <1>f, <3>4, <3>5
    <3> QED BY <3>3, <3>6
  <2> HIDE DEF Stage, seq
  <2> QED BY <2>1, <2>2, PrefixIn
<1>10. n \in 0..n
  OBVIOUS
<1>11. iter[1..n] \in Entered(s, m, n)
  BY <1>9, <1>10
<1> HIDE DEF seq
<1> QED BY <1>1, <1>a, <1>11

-----------------------------------------------------------------------------
(* Imports that are taken back. *)

\* A rollback removes whatever is at a position by now, ...
LEMMA RemovePositionSound ==
  ASSUME CueSheetAssumption, NEW s \in Sound, NEW p
  PROVE  /\ RemovePosition(s, p) \in Sound
         /\ \A d : Named(s, p) = {d} => RemovePosition(s, p) = RemoveCue(s, d)
<1> DEFINE seq == SetToSeq(Named(s, p))
<1>a. Len(seq) \in Nat /\ DOMAIN seq = 1..Len(seq)
  <2> DEFINE cues == Named(s, p)
  <2>1. IsFiniteSet(DOMAIN s.cue)
    BY SoundParts, FS_Subset DEF CueSheetAssumption, GoodCues
  <2>2. IsFiniteSet(cues)
    BY <2>1, FS_Subset DEF Named
  <2> HIDE DEF cues
  <2>3. Cardinality(cues) \in Nat /\ SetToSeq(cues) \in [1..Cardinality(cues) -> cues]
    BY <2>2, SetToSeqLists
  <2>4. SetToSeq(cues) \in Seq(cues)
    BY <2>3
  <2> QED BY <2>4 DEF cues
<1> DEFINE n == Len(seq)
           W(g) == g = [z \in SUBSET DOMAIN seq |-> IF z = {} THEN s ELSE RemoveCue(g[z \ {Max(z)}], seq[Max(z)])]
           step == [any \in (1..n) \X Sound |-> RemoveCue(any[2], seq[any[1]])]
           iter == CHOOSE g : W(g)
<1>0. n \in Nat /\ DOMAIN seq = 1..n
  BY <1>a
<1>1. RemovePosition(s, p) = iter[DOMAIN seq]
  BY Zenon DEF RemovePosition, FoldLeft, MapThenFoldSet
<1>2. \A t \in Sound : \A x : RemoveCue(t, x) \in Sound
  BY RemoveSound
<1> HIDE DEF seq, n
<1>3. step \in [(1..n) \X Sound -> Sound]
  BY <1>2
<1>4. PICK f : FoldOf(f, n, Sound, s, step)
  <2> HIDE DEF step
  <2> QED BY <1>0, <1>3, FoldExists
<1>5. W(f)
  <2>1. \A z \in SUBSET (1..n) : f[z] = IF z = {} THEN s ELSE RemoveCue(f[z \ {Max(z)}], seq[Max(z)])
    <3> TAKE z \in SUBSET (1..n)
    <3>1. CASE z = {}
      BY <1>4, <3>1 DEF FoldOf
    <3>2. CASE z # {}
      <4>1. Max(z) \in 1..n /\ f[z \ {Max(z)}] \in Sound /\ f[z] = step[<<Max(z), f[z \ {Max(z)}]>>]
        BY <1>4, <3>2 DEF FoldOf
      <4> QED BY <3>2, <4>1
    <3> QED BY <3>1, <3>2
  <2>2. f = [z \in SUBSET DOMAIN seq |-> f[z]]
    <3> HIDE DEF step
    <3> QED BY <1>0, <1>4 DEF FoldOf
  <2> HIDE DEF step
  <2> QED BY <1>0, <2>1, <2>2
<1>6. W(iter)
  <2> HIDE DEF W
  <2> QED BY <1>5, Zenon
<1> HIDE DEF iter, step
<1>7. \A z \in SUBSET (1..n) : iter[z] = IF z = {} THEN s ELSE RemoveCue(iter[z \ {Max(z)}], seq[Max(z)])
  BY <1>0, <1>6
<1> DEFINE Stage == [i \in 0..n |-> Sound]
<1>8. iter[1..n] \in Stage[n]
  <2>1. iter[1..0] \in Stage[0]
    <3>1. 1..0 = {} /\ {} \in SUBSET (1..n) /\ 0 \in 0..n
      BY <1>0
    <3>2. iter[{}] = s
      BY <3>1, <1>7
    <3> QED BY <3>1, <3>2
  <2>2. \A i \in 1..n : iter[1..(i - 1)] \in Stage[i - 1] => iter[1..i] \in Stage[i]
    <3> TAKE i \in 1..n
    <3> HAVE iter[1..(i - 1)] \in Stage[i - 1]
    <3>1. 1..i \in SUBSET (1..n) /\ 1..i # {} /\ Max(1..i) = i /\ (1..i) \ {i} = 1..(i - 1)
      BY <1>0, PrefixFold
    <3>2. iter[1..i] = RemoveCue(iter[(1..i) \ {Max(1..i)}], seq[Max(1..i)])
      BY <3>1, <1>7
    <3>3. i \in 0..n /\ i - 1 \in 0..n
      BY <1>0
    <3>4. iter[1..(i - 1)] \in Sound
      BY <3>3
    <3>5. iter[1..i] = RemoveCue(iter[1..(i - 1)], seq[i])
      BY <3>1, <3>2, Zenon
    <3>6. iter[1..i] \in Sound
      BY <1>2, <3>4, <3>5
    <3> QED BY <3>3, <3>6
  <2> HIDE DEF Stage
  <2> QED BY <1>0, <2>1, <2>2, PrefixIn
<1>9. n \in 0..n
  BY <1>0
<1>10. iter[1..n] \in Sound
  BY <1>8, <1>9
<1>11. ASSUME NEW d, Named(s, p) = {d} PROVE iter[1..n] = RemoveCue(s, d)
  <2>1. seq = SetToSeq({d})
    BY <1>11 DEF seq
  <2>2. IsFiniteSet({d}) /\ Cardinality({d}) = 1
    BY FS_Singleton
  <2>3. seq \in [1..1 -> {d}]
    BY <2>1, <2>2, SetToSeqLists
  <2>4. DOMAIN seq = 1..1 /\ seq[1] = d
    BY <2>3
  <2>5. n = 1
    <3>1. 1..n = 1..1 /\ n \in Nat
      BY <1>0, <2>4
    <3>2. 1 \in 1..n
      BY <3>1
    <3>3. n \in 1..n
      BY <3>1, <3>2
    <3>4. n \in 1..1
      BY <3>1, <3>3
    <3> QED BY <3>4
  <2>6. 1..n \in SUBSET (1..n) /\ 1..n # {} /\ Max(1..n) = 1 /\ (1..n) \ {1} = {} /\ {} \in SUBSET (1..n)
    <3>1. 1 \in 1..n
      BY <2>5
    <3>2. 1 \in Nat /\ 1 \in 1..1
      OBVIOUS
    <3>3. Max(1..1) = 1 /\ (1..1) \ {1} = 1..(1 - 1)
      BY <3>2, PrefixFold
    <3> QED BY <2>5, <3>1, <3>3
  <2>7. iter[{}] = s
    BY <1>7, <2>6
  <2>8. iter[1..n] = RemoveCue(iter[{}], seq[1])
    BY <1>7, <2>6
  <2> QED BY <2>4, <2>7, <2>8
<1> QED BY <1>0, <1>1, <1>10, <1>11

\* ... position by position, from stage to stage ...
LEMMA RemovesThrough ==
  ASSUME CueSheetAssumption, NEW s \in Sound, NEW S, NEW seq \in Seq(S), NEW stage, s \in stage[0],
         \A i \in 0..Len(seq) : stage[i] \subseteq Sound,
         \A i \in 1..Len(seq) : \A t \in stage[i - 1] : RemovePosition(t, seq[i]) \in stage[i]
  PROVE  FoldLeft(RemovePosition, s, seq) \in stage[Len(seq)]
<1> DEFINE n == Len(seq)
           W(g) == g = [z \in SUBSET DOMAIN seq |-> IF z = {} THEN s ELSE RemovePosition(g[z \ {Max(z)}], seq[Max(z)])]
           step == [p \in (1..n) \X Sound |-> RemovePosition(p[2], seq[p[1]])]
           iter == CHOOSE g : W(g)
<1>0. n \in Nat /\ DOMAIN seq = 1..n
  OBVIOUS
<1>1. FoldLeft(RemovePosition, s, seq) = iter[DOMAIN seq]
  BY Zenon DEF FoldLeft, MapThenFoldSet
<1>2. \A t \in Sound : \A x : RemovePosition(t, x) \in Sound
  BY RemovePositionSound
<1> HIDE DEF n
<1>3. step \in [(1..n) \X Sound -> Sound]
  BY <1>2
<1>4. PICK f : FoldOf(f, n, Sound, s, step)
  <2> HIDE DEF step
  <2> QED BY <1>0, <1>3, FoldExists
<1>5. W(f)
  <2>1. \A z \in SUBSET (1..n) : f[z] = IF z = {} THEN s ELSE RemovePosition(f[z \ {Max(z)}], seq[Max(z)])
    <3> TAKE z \in SUBSET (1..n)
    <3>1. CASE z = {}
      BY <1>4, <3>1 DEF FoldOf
    <3>2. CASE z # {}
      <4>1. Max(z) \in 1..n /\ f[z \ {Max(z)}] \in Sound /\ f[z] = step[<<Max(z), f[z \ {Max(z)}]>>]
        BY <1>4, <3>2 DEF FoldOf
      <4> QED BY <3>2, <4>1
    <3> QED BY <3>1, <3>2
  <2>2. f = [z \in SUBSET DOMAIN seq |-> f[z]]
    <3> HIDE DEF step
    <3> QED BY <1>0, <1>4 DEF FoldOf
  <2> HIDE DEF step
  <2> QED BY <1>0, <2>1, <2>2
<1>6. W(iter)
  <2> HIDE DEF W
  <2> QED BY <1>5, Zenon
<1> HIDE DEF iter, step
<1>7. \A z \in SUBSET (1..n) : iter[z] = IF z = {} THEN s ELSE RemovePosition(iter[z \ {Max(z)}], seq[Max(z)])
  BY <1>0, <1>6
<1>b. /\ s \in stage[0] /\ \A i \in 0..n : stage[i] \subseteq Sound
      /\ \A i \in 1..n : \A t \in stage[i - 1] : RemovePosition(t, seq[i]) \in stage[i]
  BY DEF n
<1>8. iter[1..n] \in stage[n]
  <2>1. iter[1..0] \in stage[0]
    <3>1. 1..0 = {} /\ {} \in SUBSET (1..n) /\ 0 \in 0..n
      BY <1>0
    <3>2. iter[{}] = s
      BY <3>1, <1>7
    <3> QED BY <1>b, <3>1, <3>2
  <2>2. \A i \in 1..n : iter[1..(i - 1)] \in stage[i - 1] => iter[1..i] \in stage[i]
    <3> TAKE i \in 1..n
    <3> HAVE iter[1..(i - 1)] \in stage[i - 1]
    <3>1. 1..i \in SUBSET (1..n) /\ 1..i # {} /\ Max(1..i) = i /\ (1..i) \ {i} = 1..(i - 1)
      BY <1>0, PrefixFold
    <3>2. iter[1..i] = RemovePosition(iter[(1..i) \ {Max(1..i)}], seq[Max(1..i)])
      BY <3>1, <1>7
    <3>5. iter[1..i] = RemovePosition(iter[1..(i - 1)], seq[i])
      BY <3>1, <3>2, Zenon
    <3> QED BY <1>b, <3>5
  <2> QED BY <1>0, <2>1, <2>2, PrefixIn
<1> QED BY <1>0, <1>1, <1>8 DEF n

\* DeleteGroup: the references to the group become 0.
LEMMA DeleteGroupSound ==
  ASSUME NEW s \in Sound, NEW g
  PROVE  DeleteGroupOnly(s, g) \in Sound
<1> DEFINE out(p) == IF p = g THEN 0 ELSE p
           c == [x \in DOMAIN s.cue |-> [s.cue[x] EXCEPT !.parent = out(s.cue[x].parent)]]
           left == [h \in DOMAIN s.group \ {g} |-> [s.group[h] EXCEPT !.up = out(s.group[h].up)]]
           id == IF s.anchor = -g THEN 0 ELSE s.anchor
           e == IF s.anchor = -g THEN {} ELSE s.set
<1>1. /\ GoodGroups(s.group) /\ Members(s.cue, s.group) /\ Tree(s) /\ s.anchor \in Int /\ s.set \in SUBSET Int
      /\ GoodCues(s.cue)
  BY SoundParts
<1>2. DeleteGroupOnly(s, g) = Sh(c, left, id, e)
  <2>1. s \in [cue : CueMaps, group : GroupMaps, anchor : Int, set : SUBSET Int]
    BY DEF Sound, Fields
  <2>2. DeleteGroupOnly(s, g) = [s EXCEPT !.cue = c, !.group = left, !.anchor = id, !.set = e]
    BY DEF DeleteGroupOnly
  <2> HIDE DEF c, left, id, e
  <2>3. [s EXCEPT !.cue = c, !.group = left, !.anchor = id, !.set = e]
          \in [cue : {c}, group : {left}, anchor : {id}, set : {e}]
    BY <2>1
  <2> QED BY <2>2, <2>3, OneSheet
<1>3. id \in Int /\ e \in SUBSET Int
  BY <1>1
<1>4. \A x \in DOMAIN s.cue : c[x] \in CueRec /\ c[x].pos = s.cue[x].pos /\ c[x].parent = out(s.cue[x].parent)
  <2> TAKE x \in DOMAIN s.cue
  <2>1. s.cue[x] \in CueRec
    BY <1>1 DEF GoodCues
  <2> QED BY <2>1 DEF CueRec
<1>5. \A h \in DOMAIN s.group \ {g} : left[h] \in GroupRec /\ left[h].up = out(s.group[h].up)
  <2> TAKE h \in DOMAIN s.group \ {g}
  <2>1. s.group[h] \in GroupRec
    BY <1>1 DEF GoodGroups
  <2> QED BY <2>1 DEF GroupRec
<1>6. c = [x \in DOMAIN s.cue |-> c[x]] /\ DOMAIN c = DOMAIN s.cue
      /\ left = [h \in DOMAIN left |-> left[h]] /\ DOMAIN left = DOMAIN s.group \ {g}
  OBVIOUS
<1> HIDE DEF c, left, id, e
<1>7. GoodCues(c)
  BY <1>1, <1>4, <1>6, ReseatedCues
<1>8. Members(c, left)
  <2> SUFFICES ASSUME NEW x \in DOMAIN c PROVE c[x].parent \in {0} \cup DOMAIN left
    BY DEF Members
  <2>1. s.cue[x].parent \in {0} \cup DOMAIN s.group /\ c[x].parent = out(s.cue[x].parent)
    BY <1>1, <1>4, <1>6 DEF Members
  <2> QED BY <2>1, <1>6
<1>9. GoodGroups(left) /\ Kin(s.group, left)
  <2>1. left \in [DOMAIN left -> GroupRec]
    BY <1>5, <1>6
  <2>2. IsFiniteSet(DOMAIN left)
    BY <1>1, <1>6, FS_Subset DEF GoodGroups
  <2>3. \A h \in DOMAIN left : s.group[h].up \in {0} \cup DOMAIN s.group /\ left[h].up = out(s.group[h].up)
    BY <1>1, <1>5, <1>6 DEF Tree
  <2>4. \A h \in DOMAIN left : left[h].up \in {0} \cup DOMAIN left /\ (left[h].up = s.group[h].up \/ left[h].up = 0)
    BY <1>6, <2>3
  <2> QED BY <1>1, <1>6, <2>1, <2>2, <2>4 DEF GoodGroups, Kin
<1>10. Sh(c, left, id, e) \in Sound
  BY <1>3, <1>7, <1>8, <1>9, MakeSound
<1> QED BY <1>2, <1>10

\* ... and the groups one by one.
LEMMA UngroupsThrough ==
  ASSUME NEW s \in Sound, NEW S, NEW seq \in Seq(S), NEW stage, s \in stage[0],
         \A i \in 0..Len(seq) : stage[i] \subseteq Sound,
         \A i \in 1..Len(seq) : \A t \in stage[i - 1] : DeleteGroupOnly(t, seq[i]) \in stage[i]
  PROVE  FoldLeft(DeleteGroupOnly, s, seq) \in stage[Len(seq)]
<1> DEFINE n == Len(seq)
           W(g) == g = [z \in SUBSET DOMAIN seq |-> IF z = {} THEN s ELSE DeleteGroupOnly(g[z \ {Max(z)}], seq[Max(z)])]
           step == [p \in (1..n) \X Sound |-> DeleteGroupOnly(p[2], seq[p[1]])]
           iter == CHOOSE g : W(g)
<1>0. n \in Nat /\ DOMAIN seq = 1..n
  OBVIOUS
<1>1. FoldLeft(DeleteGroupOnly, s, seq) = iter[DOMAIN seq]
  BY Zenon DEF FoldLeft, MapThenFoldSet
<1>2. \A t \in Sound : \A x : DeleteGroupOnly(t, x) \in Sound
  BY DeleteGroupSound
<1> HIDE DEF n
<1>3. step \in [(1..n) \X Sound -> Sound]
  BY <1>2
<1>4. PICK f : FoldOf(f, n, Sound, s, step)
  <2> HIDE DEF step
  <2> QED BY <1>0, <1>3, FoldExists
<1>5. W(f)
  <2>1. \A z \in SUBSET (1..n) : f[z] = IF z = {} THEN s ELSE DeleteGroupOnly(f[z \ {Max(z)}], seq[Max(z)])
    <3> TAKE z \in SUBSET (1..n)
    <3>1. CASE z = {}
      BY <1>4, <3>1 DEF FoldOf
    <3>2. CASE z # {}
      <4>1. Max(z) \in 1..n /\ f[z \ {Max(z)}] \in Sound /\ f[z] = step[<<Max(z), f[z \ {Max(z)}]>>]
        BY <1>4, <3>2 DEF FoldOf
      <4> QED BY <3>2, <4>1
    <3> QED BY <3>1, <3>2
  <2>2. f = [z \in SUBSET DOMAIN seq |-> f[z]]
    <3> HIDE DEF step
    <3> QED BY <1>0, <1>4 DEF FoldOf
  <2> HIDE DEF step
  <2> QED BY <1>0, <2>1, <2>2
<1>6. W(iter)
  <2> HIDE DEF W
  <2> QED BY <1>5, Zenon
<1> HIDE DEF iter, step
<1>7. \A z \in SUBSET (1..n) : iter[z] = IF z = {} THEN s ELSE DeleteGroupOnly(iter[z \ {Max(z)}], seq[Max(z)])
  BY <1>0, <1>6
<1>b. /\ s \in stage[0] /\ \A i \in 0..n : stage[i] \subseteq Sound
      /\ \A i \in 1..n : \A t \in stage[i - 1] : DeleteGroupOnly(t, seq[i]) \in stage[i]
  BY DEF n
<1>8. iter[1..n] \in stage[n]
  <2>1. iter[1..0] \in stage[0]
    <3>1. 1..0 = {} /\ {} \in SUBSET (1..n) /\ 0 \in 0..n
      BY <1>0
    <3>2. iter[{}] = s
      BY <3>1, <1>7
    <3> QED BY <1>b, <3>1, <3>2
  <2>2. \A i \in 1..n : iter[1..(i - 1)] \in stage[i - 1] => iter[1..i] \in stage[i]
    <3> TAKE i \in 1..n
    <3> HAVE iter[1..(i - 1)] \in stage[i - 1]
    <3>1. 1..i \in SUBSET (1..n) /\ 1..i # {} /\ Max(1..i) = i /\ (1..i) \ {i} = 1..(i - 1)
      BY <1>0, PrefixFold
    <3>2. iter[1..i] = DeleteGroupOnly(iter[(1..i) \ {Max(1..i)}], seq[Max(1..i)])
      BY <3>1, <1>7
    <3>5. iter[1..i] = DeleteGroupOnly(iter[1..(i - 1)], seq[i])
      BY <3>1, <3>2, Zenon
    <3> QED BY <1>b, <3>5
  <2> QED BY <1>0, <2>1, <2>2, PrefixIn
<1> QED BY <1>0, <1>1, <1>8 DEF n

-----------------------------------------------------------------------------
(* Imports. *)

\* An import that fails is taken back from any sound sheet to a sound one.
LEMMA RollbackSound ==
  ASSUME CueSheetAssumption, ShowImportAssumption, NEW t \in Sound, NEW s, NEW m \in Shows,
         NEW offset, NEW n \in Nat
  PROVE  Rollback(t, s, m, offset, n) \in Sound
<1> DEFINE seq == RemovedPositions(offset, n)
           S == {seq[i] : i \in 1..n}
           left == FoldLeft(RemovePosition, t, seq)
           ids == [k \in DOMAIN m.groups |-> LocalId(s, k)]
           G == {LocalId(s, k) : k \in DOMAIN m.groups}
<1>1. seq \in Seq(S)
  <2>1. DOMAIN seq = 1..n /\ seq = [i \in 1..n |-> seq[i]]
    BY DEF RemovedPositions
  <2> HIDE DEF seq
  <2>2. seq \in [1..n -> S]
    BY <2>1
  <2> HIDE DEF S
  <2> QED BY <2>2
<1>2. ids \in Seq(G)
  <2> DEFINE E == [up : 0..Len(m.groups), fold : BOOLEAN]
             l == Len(m.groups)
  <2>1. m.groups \in Seq(E)
    BY DEF ShowImportAssumption
  <2> HIDE DEF E
  <2>2. l \in Nat /\ DOMAIN m.groups = 1..l
    BY <2>1
  <2>3. ids \in [1..l -> G]
    <3> HIDE DEF l
    <3> QED BY <2>2
  <2> HIDE DEF l, ids, G
  <2> QED BY <2>2, <2>3
<1> HIDE DEF seq, S, ids, G
<1>3. left \in Sound
  <2> DEFINE stage == [i \in 0..Len(seq) |-> Sound]
  <2>1. Len(seq) \in Nat
    BY <1>1
  <2>2. /\ t \in stage[0] /\ \A i \in 0..Len(seq) : stage[i] \subseteq Sound
        /\ \A i \in 1..Len(seq) : \A u \in stage[i - 1] : RemovePosition(u, seq[i]) \in stage[i]
    BY <2>1, RemovePositionSound
  <2>3. stage[Len(seq)] = Sound
    BY <2>1
  <2> HIDE DEF stage
  <2>4. FoldLeft(RemovePosition, t, seq) \in stage[Len(seq)]
    BY <1>1, <2>2, RemovesThrough
  <2> QED BY <2>3, <2>4 DEF left
<1> HIDE DEF left
<1>4. FoldLeft(DeleteGroupOnly, left, ids) \in Sound
  <2> DEFINE stage == [i \in 0..Len(ids) |-> Sound]
  <2>1. Len(ids) \in Nat
    BY <1>2
  <2>2. /\ left \in stage[0] /\ \A i \in 0..Len(ids) : stage[i] \subseteq Sound
        /\ \A i \in 1..Len(ids) : \A u \in stage[i - 1] : DeleteGroupOnly(u, ids[i]) \in stage[i]
    BY <1>3, <2>1, DeleteGroupSound
  <2>3. stage[Len(ids)] = Sound
    BY <2>1
  <2> HIDE DEF stage
  <2>4. FoldLeft(DeleteGroupOnly, left, ids) \in stage[Len(ids)]
    BY <1>2, <1>3, <2>2, UngroupsThrough
  <2> QED BY <2>3, <2>4
<1> QED BY <1>4 DEF Rollback, left, seq, ids

\* An import that is refused anywhere, or nowhere, leaves a sound sheet.
LEMMA ImportShowSound ==
  ASSUME CueSheetAssumption, ShowImportAssumption, NEW s \in Sound, NEW m \in Shows, NEW mode,
         NEW n \in 0..Len(m.cues), Fits(s, m, mode)
  PROVE  ImportShow(s, m, mode, n) \in Sound
<1> DEFINE target == Target(s, mode)
           filled == Filled(target, m, n)
<1>0. Len(m.cues) \in Nat /\ m.selected \in Nat
  <2>1. m.cues \in Seq(0..Len(m.groups)) /\ m.selected \in 0..Len(m.cues)
    BY DEF ShowImportAssumption
  <2>2. Len(m.cues) \in Nat
    BY <2>1
  <2> QED BY <2>1, <2>2
<1>1. target \in Sound
  BY ClearSound DEF Target
<1>2. Len(m.cues) <= Cardinality(Cues) - Cardinality(DOMAIN target.cue)
  BY DEF Fits
<1>3. n \in Nat /\ n <= Len(m.cues)
  BY <1>0
<1> HIDE DEF target
<1>4. filled \in Sound
  BY <1>1, <1>2, <1>3, FilledEnters DEF Entered
<1> HIDE DEF filled
<1>5. Rollback(filled, target, m, Offset(s, mode), n) \in Sound
  BY <1>3, <1>4, RollbackSound
<1>6. SetSelected(filled, m.selected + Offset(s, mode)) \in Sound
  <2>1. IsFiniteSet(DOMAIN s.cue)
    BY SoundParts, FS_Subset DEF CueSheetAssumption, GoodCues
  <2>2. Cardinality(DOMAIN s.cue) \in Nat
    BY <2>1, FS_CardinalityType
  <2>3. Offset(s, mode) \in Nat
    BY <2>2 DEF Offset
  <2>4. m.selected + Offset(s, mode) \in Int
    BY <1>0, <2>3
  <2> QED BY <1>4, <2>4, SetSelectedSound
<1>7. ImportShow(s, m, mode, n)
        = IF n < Len(m.cues) THEN Rollback(filled, target, m, Offset(s, mode), n)
          ELSE IF m.selected = 0 THEN filled
          ELSE SetSelected(filled, m.selected + Offset(s, mode))
  BY Zenon DEF ImportShow, target, filled
<1> QED BY <1>4, <1>5, <1>6, <1>7

\* An import keeps the invariant.
LEMMA ImportKeeps ==
  ASSUME CueSheetAssumption, ShowImportAssumption, IInv, Import
  PROVE  IInv'
<1>1. PICK m \in Shows : \E mode \in Modes : \E n \in 0..Len(m.cues) :
        Fits(Sheet, m, mode) /\ Edit("import", ImportShow(Sheet, m, mode, n))
  BY DEF Import
<1>5. PICK mode \in Modes, n \in 0..Len(m.cues) :
        Fits(Sheet, m, mode) /\ Edit("import", ImportShow(Sheet, m, mode, n))
  BY <1>1
<1>2. Sheet \in Sound
  BY DEF IInv
<1>3. ImportShow(Sheet, m, mode, n) \in Sound
  BY <1>5, <1>2, ImportShowSound
<1>4. \E t : Stored(t)
  BY <1>5, <1>3, EditStores
<1> QED BY <1>4, StoredKeeps

-----------------------------------------------------------------------------
(* Sorted sequences, and the order of a sheet after a delete. *)

\* A sequence that lists S in the order R.
Sorts(q, S, R) == Lists(q, S) /\ \A i, j \in DOMAIN q : i < j => <<q[i], q[j]>> \in R

\* A set is listed in a strict order in one way only.
LEMMA SortedOnce ==
  ASSUME NEW S, NEW R, \A a, b \in S : <<a, b>> \in R => <<b, a>> \notin R,
         NEW p, Sorts(p, S, R), NEW q, Sorts(q, S, R)
  PROVE  p = q
<1>0. /\ p \in Seq(S) /\ q \in Seq(S) /\ Len(p) \in Nat /\ Len(q) \in Nat
      /\ DOMAIN p = 1..Len(p) /\ DOMAIN q = 1..Len(q)
      /\ \A i \in DOMAIN p : p[i] \in S
      /\ \A i \in DOMAIN q : q[i] \in S
  BY DEF Sorts, Lists
<1>1. ASSUME NEW i \in DOMAIN p, NEW j \in DOMAIN p, p[i] = p[j] PROVE i = j
  BY <1>1 DEF Sorts, Lists
<1>2. ASSUME NEW i \in DOMAIN q, NEW j \in DOMAIN q, q[i] = q[j] PROVE i = j
  BY <1>2 DEF Sorts, Lists
<1> DEFINE Same(i) == i \in DOMAIN p /\ i \in DOMAIN q /\ p[i] = q[i]
           Bad == {i \in DOMAIN p \cup DOMAIN q : ~Same(i)}
<1>3. Bad = {}
  <2> SUFFICES ASSUME Bad # {} PROVE FALSE
    OBVIOUS
  <2>0. Bad \in SUBSET Nat
    BY <1>0
  <2>1. PICK d \in Bad : \A i \in Bad : d <= i
    <3> HIDE DEF Bad
    <3> QED BY <2>0, LeastNumber
  <2>2. \A i \in (DOMAIN p \cup DOMAIN q) : i < d => Same(i)
    BY <2>1, <1>0
  <2>3. CASE d \in DOMAIN p /\ d \in DOMAIN q
    <3>1. PICK j \in DOMAIN p : p[j] = q[d]
      BY <1>0, <2>3 DEF Sorts, Lists
    <3>2. PICK k \in DOMAIN q : q[k] = p[d]
      BY <1>0, <2>3 DEF Sorts, Lists
    <3>3. d < j
      BY <1>0, <1>2, <2>1, <2>2, <2>3, <3>1
    <3>4. d < k
      BY <1>0, <1>1, <2>1, <2>2, <2>3, <3>2
    <3>5. <<p[d], p[j]>> \in R /\ <<q[d], q[k]>> \in R
      BY <2>3, <3>3, <3>4 DEF Sorts
    <3> QED BY <1>0, <2>3, <3>1, <3>2, <3>5
  <2>4. CASE d \in DOMAIN p /\ d \notin DOMAIN q
    <3>1. PICK k \in DOMAIN q : q[k] = p[d]
      BY <1>0, <2>4 DEF Sorts, Lists
    <3>2. k < d
      BY <1>0, <2>4
    <3> QED BY <1>0, <1>1, <2>2, <2>4, <3>1, <3>2
  <2>5. CASE d \notin DOMAIN p /\ d \in DOMAIN q
    <3>1. PICK k \in DOMAIN p : p[k] = q[d]
      BY <1>0, <2>5 DEF Sorts, Lists
    <3>2. k < d
      BY <1>0, <2>5
    <3> QED BY <1>0, <1>2, <2>2, <2>5, <3>1, <3>2
  <2> QED BY <2>1, <2>3, <2>4, <2>5
<1>4. DOMAIN p = DOMAIN q /\ \A i \in DOMAIN p : p[i] = q[i]
  BY <1>3
<1>5. Len(p) = Len(q)
  <2>1. ASSUME Len(p) < Len(q) PROVE FALSE
    <3>1. Len(q) \in 1..Len(q) /\ Len(q) \notin 1..Len(p)
      BY <1>0, <2>1
    <3> QED BY <1>0, <1>4, <3>1
  <2>2. ASSUME Len(q) < Len(p) PROVE FALSE
    <3>1. Len(p) \in 1..Len(p) /\ Len(p) \notin 1..Len(q)
      BY <1>0, <2>2
    <3> QED BY <1>0, <1>4, <3>1
  <2>3. Len(p) \in Nat /\ Len(q) \in Nat
    BY <1>0
  <2> HIDE DEF Bad, Same
  <2> QED BY <2>1, <2>2, <2>3
<1> QED BY <1>0, <1>4, <1>5

\* Ordered sorts its rows.
LEMMA OrderedSorts ==
  ASSUME CueSheetAssumption, NEW s, GoodRows(s), NEW rows \in SUBSET Rows(s), NEW leaders,
         leaders = DOMAIN s.cue \/ leaders = DOMAIN s.group \/ rows \subseteq DOMAIN s.cue
  PROVE  Sorts(Ordered(s, rows, leaders), rows, Ranked(s, rows, leaders))
<1> DEFINE R == Ranked(s, rows, leaders)
           rank == Rank(rows, R)
           N == Cardinality(rows)
           seq == Ordered(s, rows, leaders)
<1>1. Lists(seq, rows) /\ N \in Nat /\ seq \in [1..N -> rows]
  BY OrderedLists
<1>2. StrictOrder(rows, R) /\ IsFiniteSet(rows)
  BY PrecedesIsStrict, RowsAreTwoKinds, FS_Subset
<1>3. OneToOne(rows, rank)
  <2> HIDE DEF R
  <2> QED BY <1>2, RanksAreOneToOne
<1>4. seq = [i \in 1..N |-> CHOOSE r \in rows : rank[r] = i - 1]
  <2>1. rank = [r \in rows |-> Cardinality({q \in rows : Precedes(s, q, r, leaders)})]
    <3>1. \A r \in rows : {q \in rows : <<q, r>> \in R} = {q \in rows : Precedes(s, q, r, leaders)}
      BY DEF Ranked
    <3> QED BY <3>1 DEF Rank
  <2> HIDE DEF rank
  <2> QED BY <2>1 DEF Ordered
<1> HIDE DEF rank, seq, R, N
<1>5. \A i \in 1..N : rank[seq[i]] = i - 1
  <2> TAKE i \in 1..N
  <2>1. seq[i] = CHOOSE r \in rows : rank[r] = i - 1
    BY <1>4
  <2>2. \E r \in rows : rank[r] = i - 1
    <3>1. i - 1 \in 0..(N - 1)
      BY <1>1
    <3> QED BY <3>1, <1>3 DEF OneToOne, N
  <2> QED BY <2>1, <2>2
<1>6. \A a, b \in rows : <<a, b>> \in R => rank[a] <= rank[b]
  <2> TAKE a, b \in rows
  <2> HAVE <<a, b>> \in R
  <2> DEFINE low(r) == {q \in rows : <<q, r>> \in R}
  <2>1. rank[a] = Cardinality(low(a)) /\ rank[b] = Cardinality(low(b))
    BY DEF rank, Rank
  <2>2. low(a) \in SUBSET low(b) /\ low(b) \in SUBSET rows
    BY <1>2 DEF StrictOrder
  <2> HIDE DEF low
  <2>3. IsFiniteSet(low(b))
    BY <2>2, <1>2, FS_Subset
  <2> QED BY <2>1, <2>2, <2>3, FS_Subset
<1>7. ASSUME NEW i \in DOMAIN seq, NEW j \in DOMAIN seq, i < j PROVE <<seq[i], seq[j]>> \in R
  <2>1. i \in 1..N /\ j \in 1..N /\ seq[i] \in rows /\ seq[j] \in rows
    BY <1>1
  <2>2. rank[seq[i]] = i - 1 /\ rank[seq[j]] = j - 1
    BY <1>5, <2>1
  <2>3. seq[i] # seq[j]
    BY <2>1, <2>2, <1>7
  <2>4. <<seq[j], seq[i]>> \notin R
    <3>1. ~(j - 1 <= i - 1)
      BY <2>1, <1>1, <1>7
    <3> QED BY <3>1, <1>6, <2>1, <2>2
  <2> QED BY <1>2, <2>1, <2>3, <2>4 DEF StrictOrder
<1> QED BY <1>1, <1>7 DEF Sorts, seq, R

\* The rows that are picked come from places in a row.
LEMMA InOrderPlaces ==
  ASSUME NEW S, NEW q \in Seq(S), NEW rows
  PROVE  \E c \in [1..Cardinality(Places(q, rows)) -> Places(q, rows)] :
           /\ InOrder(q, rows) = [k \in 1..Cardinality(Places(q, rows)) |-> q[c[k]]]
           /\ \A k, l \in 1..Cardinality(Places(q, rows)) : k < l => c[k] < c[l]
<1> DEFINE at == Places(q, rows)
           N == Cardinality(at)
           R == {p \in at \X at : p[1] < p[2]}
           rank == Rank(at, R)
           low(i) == {j \in at : j < i}
           c == [k \in 1..N |-> CHOOSE i \in at : Cardinality({j \in at : j < i}) = k - 1]
<1>1. at \in SUBSET (1..Len(q)) /\ at \subseteq Int /\ IsFiniteSet(at)
  <2>1. Len(q) \in Nat /\ DOMAIN q = 1..Len(q)
    OBVIOUS
  <2>2. IsFiniteSet(1..Len(q))
    BY <2>1, FS_Interval, 1 \in Int, Len(q) \in Int
  <2> QED BY <2>1, <2>2, FS_Subset DEF Places
<1>2. StrictOrder(at, R)
  BY <1>1 DEF StrictOrder
<1>3. OneToOne(at, rank)
  BY <1>1, <1>2, RanksAreOneToOne
<1>4. \A i \in at : rank[i] = Cardinality(low(i))
  BY DEF Rank
<1>5. InOrder(q, rows) = [k \in 1..N |-> q[c[k]]]
  BY DEF InOrder, Places
<1> HIDE DEF rank
<1>6. \A k \in 1..N : c[k] \in at /\ rank[c[k]] = k - 1
  <2> TAKE k \in 1..N
  <2> DEFINE P(i) == Cardinality({j \in at : j < i}) = k - 1
  <2>1. k - 1 \in 0..(N - 1)
    BY <1>3 DEF OneToOne
  <2>2. \E i \in at : P(i)
    <3>1. PICK i \in at : rank[i] = k - 1
      BY <2>1, <1>3 DEF OneToOne
    <3> QED BY <3>1, <1>4
  <2>3. c[k] = CHOOSE i \in at : P(i)
    OBVIOUS
  <2> HIDE DEF c, P
  <2>4. c[k] \in at /\ P(c[k])
    BY <2>2, <2>3, Zenon
  <2> QED BY <2>4, <1>4 DEF P
<1>7. c \in [1..N -> at]
  BY <1>6
<1> HIDE DEF c
<1>8. ASSUME NEW k \in 1..N, NEW l \in 1..N, k < l PROVE c[k] < c[l]
  <2>1. c[k] \in at /\ c[l] \in at /\ c[k] \in Int /\ c[l] \in Int
    BY <1>1, <1>6
  <2> SUFFICES ASSUME c[l] <= c[k] PROVE FALSE
    BY <2>1
  <2>2. low(c[l]) \in SUBSET low(c[k]) /\ low(c[k]) \in SUBSET at
    BY <1>1, <2>1
  <2> HIDE DEF low
  <2>3. IsFiniteSet(low(c[k]))
    BY <1>1, <2>2, FS_Subset
  <2>4. Cardinality(low(c[l])) <= Cardinality(low(c[k]))
    BY <2>2, <2>3, FS_Subset
  <2>5. l - 1 <= k - 1
    BY <2>1, <2>4, <1>4, <1>6
  <2> QED BY <1>8, <2>5
<1> QED BY <1>5, <1>7, <1>8

\* Rows picked from a sorted sequence are sorted.
LEMMA InOrderSorts ==
  ASSUME NEW S, NEW R, NEW q, Sorts(q, S, R), NEW rows \in SUBSET S
  PROVE  Sorts(InOrder(q, rows), rows, R)
<1> DEFINE N == Cardinality(Places(q, rows))
           o == InOrder(q, rows)
<1>0. q \in Seq(S) /\ (\A i, j \in DOMAIN q : q[i] = q[j] => i = j) /\ (\A x \in S : \E i \in DOMAIN q : q[i] = x)
  BY DEF Sorts, Lists
<1>1. /\ N \in Nat /\ o \in [1..N -> S \cap rows]
      /\ \A i \in Places(q, rows) : \E k \in 1..N : o[k] = q[i]
      /\ \A k, l \in DOMAIN o : o[k] = o[l] => k = l
  BY <1>0, InOrderLists
<1>2. PICK c \in [1..N -> Places(q, rows)] :
        /\ o = [k \in 1..N |-> q[c[k]]]
        /\ \A k, l \in 1..N : k < l => c[k] < c[l]
  BY <1>0, InOrderPlaces
<1> HIDE DEF o, N
<1>3. o \in [1..N -> rows] /\ DOMAIN o = 1..N
  BY <1>1
<1>4. o \in Seq(rows)
  BY <1>1, <1>3
<1>5. \A x \in rows : \E k \in DOMAIN o : o[k] = x
  <2> TAKE x \in rows
  <2>1. PICK i \in DOMAIN q : q[i] = x
    BY <1>0
  <2>2. i \in Places(q, rows)
    BY <2>1 DEF Places
  <2> QED BY <1>1, <1>3, <2>1, <2>2
<1>6. ASSUME NEW k \in DOMAIN o, NEW l \in DOMAIN o, k < l PROVE <<o[k], o[l]>> \in R
  <2>1. c[k] \in DOMAIN q /\ c[l] \in DOMAIN q /\ c[k] < c[l]
    BY <1>2, <1>3, <1>6 DEF Places
  <2>2. o[k] = q[c[k]] /\ o[l] = q[c[l]]
    BY <1>2, <1>3
  <2> QED BY <2>1, <2>2 DEF Sorts
<1> QED BY <1>1, <1>4, <1>5, <1>6 DEF Sorts, Lists, o

\* A larger order sorts too.
LEMMA SortsInLarger ==
  ASSUME NEW S, NEW R, NEW Q, NEW q, Sorts(q, S, R), \A a, b \in S : <<a, b>> \in R => <<a, b>> \in Q
  PROVE  Sorts(q, S, Q)
<1>1. \A i \in DOMAIN q : q[i] \in S
  BY DEF Sorts, Lists
<1> QED BY <1>1 DEF Sorts

\* t has some of the rows of s, in the order they have there.
Agrees(s, t) ==
  /\ DOMAIN t.cue \subseteq DOMAIN s.cue /\ DOMAIN t.group \subseteq DOMAIN s.group
  /\ \A a, b \in Rows(t) : Precedes(s, a, b, DOMAIN s.cue) => Precedes(t, a, b, DOMAIN t.cue)

\* Order survives one edit after another.
LEMMA AgreesOn ==
  ASSUME NEW s, NEW t, NEW u, Agrees(s, t), Agrees(t, u)
  PROVE  Agrees(s, u)
<1>1. Rows(u) \subseteq Rows(t)
  BY DEF Agrees, Rows
<1> QED BY <1>1 DEF Agrees

\* What a sequence of a sound sheet is sorted by.
LEMMA SequencesSort ==
  ASSUME CueSheetAssumption, NEW s \in Sound
  PROVE  /\ Sorts(LoadSequence(s), Rows(s), Ranked(s, Rows(s), DOMAIN s.cue))
         /\ StrictOrder(Rows(s), Ranked(s, Rows(s), DOMAIN s.cue))
         /\ Sorts(CueOrder(s), DOMAIN s.cue, Ranked(s, DOMAIN s.cue, {}))
         /\ StrictOrder(DOMAIN s.cue, Ranked(s, DOMAIN s.cue, {}))
<1>1. GoodRows(s) /\ Rows(s) \in SUBSET Rows(s) /\ DOMAIN s.cue \in SUBSET Rows(s)
  BY SoundParts DEF Rows
<1>2. Sorts(LoadSequence(s), Rows(s), Ranked(s, Rows(s), DOMAIN s.cue))
  BY <1>1, OrderedSorts DEF LoadSequence
<1>3. Sorts(CueOrder(s), DOMAIN s.cue, Ranked(s, DOMAIN s.cue, {}))
  BY <1>1, OrderedSorts DEF CueOrder
<1>4. StrictOrder(Rows(s), Ranked(s, Rows(s), DOMAIN s.cue))
  BY <1>1, PrecedesIsStrict
<1>5. StrictOrder(DOMAIN s.cue, Ranked(s, DOMAIN s.cue, {}))
  BY <1>1, PrecedesIsStrict
<1> QED BY <1>2, <1>3, <1>4, <1>5

\* A sheet that agrees with another one has its order.
LEMMA AgreesIsSameOrder ==
  ASSUME CueSheetAssumption, NEW s \in Sound, NEW t \in Sound, Agrees(s, t)
  PROVE  SameOrder(s, t, Rows(t))
<1> DEFINE R == Ranked(s, Rows(s), DOMAIN s.cue)
           Q == Ranked(t, Rows(t), DOMAIN t.cue)
<1>1. Rows(t) \in SUBSET Rows(s) /\ Rows(t) \in SUBSET Rows(t)
  BY DEF Agrees, Rows
<1>2. Sorts(LoadSequence(s), Rows(s), R) /\ Sorts(LoadSequence(t), Rows(t), Q) /\ StrictOrder(Rows(t), Q)
  BY SequencesSort
<1>3. \A a, b \in Rows(t) : <<a, b>> \in R => <<a, b>> \in Q
  BY DEF Agrees, Ranked
<1> HIDE DEF R, Q
<1>4. Sorts(InOrder(LoadSequence(s), Rows(t)), Rows(t), R)
  BY <1>1, <1>2, InOrderSorts
<1>5. Sorts(InOrder(LoadSequence(s), Rows(t)), Rows(t), Q)
  BY <1>3, <1>4, SortsInLarger
<1>6. Sorts(InOrder(LoadSequence(t), Rows(t)), Rows(t), Q)
  BY <1>1, <1>2, InOrderSorts
<1>7. \A a, b \in Rows(t) : <<a, b>> \in Q => <<b, a>> \notin Q
  BY <1>2 DEF StrictOrder
<1> QED BY <1>5, <1>6, <1>7, SortedOnce DEF SameOrder

\* Deletes agree: the rows that stay keep index and position.
LEMMA FewerRowsAgree ==
  ASSUME CueSheetAssumption, NEW s \in Sound, NEW t \in Sound,
         DOMAIN t.cue \subseteq DOMAIN s.cue, DOMAIN t.group \subseteq DOMAIN s.group,
         \A c \in DOMAIN t.cue : t.cue[c].idx = s.cue[c].idx /\ t.cue[c].pos = s.cue[c].pos,
         \A g \in DOMAIN t.group : t.group[g].idx = s.group[g].idx
  PROVE  Agrees(s, t)
<1>1. DOMAIN s.cue \cap DOMAIN s.group = {}
  BY SoundParts, RowsAreTwoKinds
<1>2. \A r \in Rows(t) : /\ IsCue(s, r) = IsCue(t, r) /\ (r \in DOMAIN s.cue <=> r \in DOMAIN t.cue)
                         /\ Index(s, r) = Index(t, r) /\ Number(s, r) = Number(t, r)
  BY <1>1 DEF Rows, IsCue, Index, Number
<1> QED BY <1>2 DEF Agrees, Precedes

\* What is further down by whole steps has the larger index.
LEMMA Stretch ==
  ASSUME CueSheetAssumption, NEW i \in Nat, NEW j \in Nat, i < j
  PROVE  (i - 1) * Step < (j - 1) * Step
<1>1. One * Cardinality(Cues) \in Nat /\ Step \in Nat
  <2>1. Cardinality(Cues) \in Nat /\ One \in Nat /\ Step \in Nat
    BY FS_CardinalityType DEF CueSheetAssumption
  <2> QED BY <2>1
<1>2. Step > 2 * (One * Cardinality(Cues))
  <2>1. Cardinality(Cues) \in Nat /\ One \in Nat /\ Step > 2 * One * Cardinality(Cues)
    BY FS_CardinalityType DEF CueSheetAssumption
  <2> QED BY <2>1
<1>3. Step \in Nat \ {0}
  BY <1>1, <1>2
<1>4. \E d \in Nat \ {0} : j = i + d
  BY j - i \in Nat \ {0}, j = i + (j - i)
<1>5. PICK d \in Nat \ {0} : j = i + d
  BY <1>4
<1>6. d * Step > 0 /\ (j - 1) * Step = (i - 1) * Step + d * Step /\ d * Step \in Int /\ (i - 1) * Step \in Int
  BY <1>3, <1>5
<1> QED BY <1>6

\* The rows of t have the indexes applyOrder gives for seq.
Placed(t, seq) == \A r \in Rows(t) : Index(t, r) = (At(seq, r) - 1) * Step

\* A sheet placed by a list of its rows has that order.
LEMMA PlacedSorts ==
  ASSUME CueSheetAssumption, NEW t \in Sound, NEW seq, Lists(seq, Rows(t)), Placed(t, seq)
  PROVE  LoadSequence(t) = seq
<1> DEFINE Q == Ranked(t, Rows(t), DOMAIN t.cue)
<1>1. \A i \in DOMAIN seq : seq[i] \in Rows(t) /\ i \in Nat /\ At(seq, seq[i]) = i
  <2> TAKE i \in DOMAIN seq
  <2>1. At(seq, seq[i]) \in DOMAIN seq /\ seq[At(seq, seq[i])] = seq[i]
    BY AtIsIndex
  <2> QED BY <2>1 DEF Lists
<1>2. ASSUME NEW i \in DOMAIN seq, NEW j \in DOMAIN seq, i < j PROVE <<seq[i], seq[j]>> \in Q
  <2>1. Index(t, seq[i]) = (i - 1) * Step /\ Index(t, seq[j]) = (j - 1) * Step
    BY <1>1 DEF Placed
  <2>2. (i - 1) * Step < (j - 1) * Step
    BY <1>1, <1>2, Stretch
  <2> QED BY <1>1, <2>1, <2>2 DEF Ranked, Precedes
<1>3. Sorts(seq, Rows(t), Q)
  BY <1>2 DEF Sorts
<1>4. Sorts(LoadSequence(t), Rows(t), Q) /\ StrictOrder(Rows(t), Q)
  BY SequencesSort
<1> HIDE DEF Q
<1>5. \A a, b \in Rows(t) : <<a, b>> \in Q => <<b, a>> \notin Q
  BY <1>4 DEF StrictOrder
<1> QED BY <1>3, <1>4, <1>5, SortedOnce

\* A sheet that is placed by the order it had agrees with what it was.
LEMMA PlacedAgrees ==
  ASSUME CueSheetAssumption, NEW s \in Sound, NEW t \in Sound,
         DOMAIN t.cue = DOMAIN s.cue, DOMAIN t.group = DOMAIN s.group, Placed(t, LoadSequence(s))
  PROVE  Agrees(s, t)
<1> DEFINE q == LoadSequence(s)
           R == Ranked(s, Rows(s), DOMAIN s.cue)
<1>1. Sorts(q, Rows(s), R) /\ StrictOrder(Rows(s), R) /\ Lists(q, Rows(s))
  BY SequencesSort, SequenceCovers
<1>2. Rows(t) = Rows(s)
  BY DEF Rows
<1>3. ASSUME NEW a \in Rows(s), NEW b \in Rows(s), Precedes(s, a, b, DOMAIN s.cue)
      PROVE  Precedes(t, a, b, DOMAIN t.cue)
  <2>1. <<a, b>> \in R
    BY <1>3 DEF Ranked
  <2> HIDE DEF q, R
  <2>2. /\ At(q, a) \in DOMAIN q /\ At(q, a) \in Nat /\ q[At(q, a)] = a
        /\ At(q, b) \in DOMAIN q /\ At(q, b) \in Nat /\ q[At(q, b)] = b
    BY <1>1, AtIsPlace DEF Lists
  <2>3. At(q, a) < At(q, b)
    <3>1. a # b /\ <<b, a>> \notin R
      BY <1>1, <2>1 DEF StrictOrder
    <3>2. ~(At(q, b) < At(q, a))
      BY <1>1, <2>2, <3>1 DEF Sorts
    <3> QED BY <2>2, <3>1, <3>2
  <2>4. Index(t, a) = (At(q, a) - 1) * Step /\ Index(t, b) = (At(q, b) - 1) * Step
    BY <1>2 DEF Placed, q
  <2>5. (At(q, a) - 1) * Step < (At(q, b) - 1) * Step
    BY <2>2, <2>3, Stretch
  <2> QED BY <2>4, <2>5 DEF Precedes
<1> QED BY <1>2, <1>3 DEF Agrees

\* What applyOrder writes.
LEMMA AppliedFields ==
  ASSUME CueSheetAssumption, NEW s \in Sound, NEW seq, NEW parents
  PROVE  /\ DOMAIN ApplyOrder(s, seq, parents).cue = DOMAIN s.cue
         /\ DOMAIN ApplyOrder(s, seq, parents).group = DOMAIN s.group
         /\ Placed(ApplyOrder(s, seq, parents), seq)
<1> DEFINE c == [x \in DOMAIN s.cue |-> [s.cue[x] EXCEPT !.idx = (At(seq, x) - 1) * Step, !.parent = parents[x]]]
           g == [x \in DOMAIN s.group |-> [s.group[x] EXCEPT !.idx = (At(seq, x) - 1) * Step]]
<1>1. ApplyOrder(s, seq, parents).cue = c /\ ApplyOrder(s, seq, parents).group = g
  <2>1. s \in [cue : CueMaps, group : GroupMaps, anchor : Int, set : SUBSET Int]
    BY DEF Sound, Fields
  <2>2. ApplyOrder(s, seq, parents) = [s EXCEPT !.cue = c, !.group = g]
    BY DEF ApplyOrder
  <2> HIDE DEF c, g
  <2> QED BY <2>1, <2>2
<1>2. GoodCues(s.cue) /\ GoodGroups(s.group)
  BY SoundParts
<1>3. \A x \in DOMAIN s.cue : c[x].idx = (At(seq, x) - 1) * Step
  <2> TAKE x \in DOMAIN s.cue
  <2>1. s.cue[x] \in CueRec
    BY <1>2 DEF GoodCues
  <2> QED BY <2>1 DEF CueRec
<1>4. \A x \in DOMAIN s.group : g[x].idx = (At(seq, x) - 1) * Step
  <2> TAKE x \in DOMAIN s.group
  <2>1. s.group[x] \in GroupRec
    BY <1>2 DEF GoodGroups
  <2> QED BY <2>1 DEF GroupRec
<1>5. DOMAIN c = DOMAIN s.cue /\ DOMAIN g = DOMAIN s.group
  OBVIOUS
<1> HIDE DEF c, g
<1> QED BY <1>1, <1>3, <1>4, <1>5 DEF Placed, Rows, Index, IsCue

\* t has the cues and groups of s, but for parents.
Reparented(s, t) ==
  /\ t.group = s.group /\ DOMAIN t.cue = DOMAIN s.cue
  /\ \A c \in DOMAIN s.cue : t.cue[c].idx = s.cue[c].idx /\ t.cue[c].pos = s.cue[c].pos

\* The cues that are members of a group.
Grouped(t) == {c \in DOMAIN t.cue : t.cue[c].parent # 0}

\* Which cues are separated is a matter of parents, groups and the sequence.
LEMMA SameSeparated ==
  ASSUME NEW s \in Sound, NEW t \in Sound, t.group = s.group, DOMAIN t.cue = DOMAIN s.cue,
         \A c \in DOMAIN s.cue : t.cue[c].parent = s.cue[c].parent,
         NEW seq, Lists(seq, Rows(s))
  PROVE  Separated(t, seq) = Separated(s, seq)
<1>1. IsFiniteSet(DOMAIN s.group)
  BY SoundParts DEF GoodGroups
<1>2. \A g : Above(s, g) = Above(t, g)
  <2> TAKE g
  <2>1. Up(s, g) = Up(t, g) /\ \A C : Closed(s, C) <=> Closed(t, C)
    BY DEF Up, Closed
  <2>2. Above(s, g) \subseteq Above(t, g)
    BY <1>1, <2>1, AboveIsLeast
  <2>3. Above(t, g) \subseteq Above(s, g)
    BY <1>1, <2>1, AboveIsLeast
  <2> QED BY <2>2, <2>3
<1>3. \A g : Below(s, g) = Below(t, g)
  BY <1>2 DEF Below
<1>4. \A r, g : IsGroup(s, r) = IsGroup(t, r)
  BY DEF IsGroup
<1>5. \A r \in Rows(s) : \A g : /\ BelongsBefore(s, r, g) <=> BelongsBefore(t, r, g)
                                /\ BelongsAfter(s, r, g) <=> BelongsAfter(t, r, g)
  <2>1. \A r \in Rows(s) : ~IsGroup(s, r) => r \in DOMAIN s.cue
    BY DEF Rows, IsGroup
  <2> QED BY <1>3, <1>4, <2>1 DEF BelongsBefore, BelongsAfter
<1> DEFINE Far(u, c) == /\ ~(At(seq, c) > 1 /\ BelongsBefore(u, seq[At(seq, c) - 1], u.cue[c].parent))
                        /\ ~(At(seq, c) < Len(seq) /\ BelongsAfter(u, seq[At(seq, c) + 1], u.cue[c].parent))
<1>6. \A c \in DOMAIN s.cue : Far(s, c) <=> Far(t, c)
  <2> TAKE c \in DOMAIN s.cue
  <2>1. At(seq, c) \in 1..Len(seq) /\ seq \in Seq(Rows(s)) /\ s.cue[c].parent = t.cue[c].parent
    BY AtIsPlace DEF Lists, Rows
  <2> DEFINE i == At(seq, c)
             p == s.cue[c].parent
  <2> HIDE DEF i
  <2> DEFINE a == seq[i - 1]
             b == seq[i + 1]
  <2>2. i > 1 => a \in Rows(s)
    BY <2>1 DEF i
  <2>3. i < Len(seq) => b \in Rows(s)
    BY <2>1 DEF i
  <2> HIDE DEF a, b, p
  <2>4. i > 1 => (BelongsBefore(s, a, p) <=> BelongsBefore(t, a, p))
    <3> SUFFICES ASSUME i > 1 PROVE BelongsBefore(s, a, p) <=> BelongsBefore(t, a, p)
      OBVIOUS
    <3> QED BY <2>2, <1>5
  <2>5. i < Len(seq) => (BelongsAfter(s, b, p) <=> BelongsAfter(t, b, p))
    <3> SUFFICES ASSUME i < Len(seq) PROVE BelongsAfter(s, b, p) <=> BelongsAfter(t, b, p)
      OBVIOUS
    <3> QED BY <2>3, <1>5
  <2> QED BY <2>1, <2>4, <2>5 DEF i, a, b, p
<1>7. ASSUME NEW u PROVE Separated(u, seq) = {c \in DOMAIN u.cue :
           u.cue[c].parent # 0 /\ (\E d \in DOMAIN u.cue \ {c} : u.cue[d].parent = u.cue[c].parent) /\ Far(u, c)}
  BY Zenon DEF Separated
<1> DEFINE Apart(u, c) ==
      u.cue[c].parent # 0 /\ (\E d \in DOMAIN u.cue \ {c} : u.cue[d].parent = u.cue[c].parent) /\ Far(u, c)
<1>8. \A c : c \in Separated(s, seq) <=> c \in DOMAIN s.cue /\ Apart(s, c)
  BY <1>7
<1>9. \A c : c \in Separated(t, seq) <=> c \in DOMAIN t.cue /\ Apart(t, c)
  BY <1>7
<1> HIDE DEF Far
<1>10. \A c \in DOMAIN s.cue : Apart(s, c) <=> Apart(t, c)
  BY <1>6
<1> HIDE DEF Apart
<1> QED BY <1>8, <1>9, <1>10

\* One pass takes the separated cues out of their groups, and nothing else.
LEMMA HealFrees ==
  ASSUME NEW t \in Sound, NEW seq
  PROVE  /\ Reparented(t, Heal(t, seq)) /\ Grouped(Heal(t, seq)) = Grouped(t) \ Separated(t, seq)
         /\ Separated(t, seq) \in SUBSET Grouped(t)
         /\ Separated(t, seq) = {} => \A c \in DOMAIN t.cue : Heal(t, seq).cue[c].parent = t.cue[c].parent
<1> DEFINE c == [x \in DOMAIN t.cue |-> [t.cue[x] EXCEPT !.parent = IF x \in Separated(t, seq) THEN 0 ELSE @]]
<1>1. Heal(t, seq).cue = c /\ Heal(t, seq).group = t.group
  <2>1. t \in [cue : CueMaps, group : GroupMaps, anchor : Int, set : SUBSET Int]
    BY DEF Sound, Fields
  <2>2. Heal(t, seq) = [t EXCEPT !.cue = c]
    BY DEF Heal
  <2> HIDE DEF c
  <2> QED BY <2>1, <2>2
<1>2. \A x \in DOMAIN t.cue : t.cue[x] \in CueRec
  BY SoundParts DEF GoodCues
<1>3. \A x \in DOMAIN t.cue : /\ c[x].idx = t.cue[x].idx /\ c[x].pos = t.cue[x].pos
                              /\ c[x].parent = IF x \in Separated(t, seq) THEN 0 ELSE t.cue[x].parent
  BY <1>2 DEF CueRec
<1>4. DOMAIN c = DOMAIN t.cue
  OBVIOUS
<1>5. Separated(t, seq) \in SUBSET Grouped(t)
  BY DEF Separated, Grouped
<1> HIDE DEF c
<1>6. Reparented(t, Heal(t, seq))
  BY <1>1, <1>3, <1>4 DEF Reparented
<1>7. Grouped(Heal(t, seq)) = Grouped(t) \ Separated(t, seq)
  BY <1>1, <1>3, <1>4 DEF Grouped
<1> QED BY <1>1, <1>3, <1>5, <1>6, <1>7

\* No more cues are in groups than there are rows.
LEMMA GroupedAreFew ==
  ASSUME CueSheetAssumption, NEW s \in Sound, NEW seq, Lists(seq, Rows(s))
  PROVE  IsFiniteSet(Grouped(s)) /\ Cardinality(Grouped(s)) <= Len(seq)
<1> DEFINE f == [c \in Grouped(s) |-> At(seq, c)]
<1>1. \A c \in Grouped(s) : At(seq, c) \in 1..Len(seq) /\ seq[At(seq, c)] = c
  BY AtIsPlace DEF Lists, Rows, Grouped
<1>2. f \in Injection(Grouped(s), 1..Len(seq))
  <2>1. f \in [Grouped(s) -> 1..Len(seq)]
    BY <1>1
  <2>2. \A a, b \in Grouped(s) : f[a] = f[b] => a = b
    BY <1>1
  <2> HIDE DEF f
  <2> QED BY <2>1, <2>2 DEF Injection, IsInjective
<1>3. Len(seq) \in Nat /\ 1 \in Int
  BY DEF Lists
<1>4. IsFiniteSet(1..Len(seq)) /\ Cardinality(1..Len(seq)) = Len(seq)
  <2> DEFINE n == Len(seq)
  <2>1. n \in Nat /\ n \in Int /\ n >= 1 - 1 /\ n - 1 + 1 = n
    BY <1>3
  <2> HIDE DEF n
  <2>2. IsFiniteSet(1..n) /\ Cardinality(1..n) = IF 1 > n THEN 0 ELSE n - 1 + 1
    <3>1. 1 \in Int /\ n \in Int
      BY <2>1
    <3> QED BY <3>1, FS_Interval
  <2> QED BY <2>1, <2>2 DEF n
<1> HIDE DEF f
<1> QED BY <1>2, <1>4, FS_Injection

\* healSeparated comes to an end where no member is apart from its group: each pass that
\* finds one has a member less.
Healed(s, seq, n) ==
  {t \in Sound : /\ Reparented(s, t) /\ t.anchor = s.anchor
                 /\ Separated(t, seq) = {} \/ (IsFiniteSet(Grouped(t)) /\ Cardinality(Grouped(t)) <= n)}

\* One more pass: what is still apart has one member fewer to release.
LEMMA HealsOn ==
  ASSUME CueSheetAssumption, NEW s \in Sound, NEW seq, Lists(seq, Rows(s)), NEW n \in Int, NEW t \in Healed(s, seq, n)
  PROVE  Heal(t, seq) \in Healed(s, seq, n - 1)
<1> DEFINE u == Heal(t, seq)
<1>1. t \in Sound /\ Reparented(s, t) /\ t.anchor = s.anchor
  BY DEF Healed
<1>2. /\ u \in Sound /\ u.anchor = t.anchor /\ Reparented(t, u)
      /\ Grouped(u) = Grouped(t) \ Separated(t, seq) /\ Separated(t, seq) \in SUBSET Grouped(t)
      /\ Separated(t, seq) = {} => \A c \in DOMAIN t.cue : u.cue[c].parent = t.cue[c].parent
  BY <1>1, HealOnce, HealFrees
<1> HIDE DEF u
<1>3. Reparented(s, u)
  BY <1>1, <1>2 DEF Reparented
<1>4. CASE Separated(t, seq) = {}
  <2>1. Lists(seq, Rows(t))
    BY <1>1 DEF Reparented, Rows
  <2>2. Separated(u, seq) = Separated(t, seq)
    BY <1>1, <1>2, <1>4, <2>1, SameSeparated DEF Reparented
  <2> QED BY <1>1, <1>2, <1>3, <1>4, <2>2 DEF Healed, u
<1>5. CASE Separated(t, seq) # {}
  <2>1. IsFiniteSet(Grouped(t)) /\ Cardinality(Grouped(t)) <= n
    BY <1>5 DEF Healed
  <2>2. PICK c \in Separated(t, seq) : TRUE
    BY <1>5
  <2>3. Grouped(u) \in SUBSET (Grouped(t) \ {c}) /\ c \in Grouped(t)
    BY <1>2, <2>2
  <2>4. IsFiniteSet(Grouped(t) \ {c}) /\ Cardinality(Grouped(t) \ {c}) = Cardinality(Grouped(t)) - 1
    BY <2>1, <2>3, FS_RemoveElement
  <2>5. IsFiniteSet(Grouped(u)) /\ Cardinality(Grouped(u)) <= Cardinality(Grouped(t) \ {c})
    BY <2>3, <2>4, FS_Subset
  <2>6. Cardinality(Grouped(u)) \in Nat /\ Cardinality(Grouped(t)) \in Nat
    BY <2>1, <2>5, FS_CardinalityType
  <2>7. Cardinality(Grouped(u)) <= n - 1
    BY <2>1, <2>4, <2>5, <2>6
  <2> QED BY <1>1, <1>2, <1>3, <2>5, <2>7 DEF Healed, u
<1> QED BY <1>4, <1>5

\* healSeparated: the passes it makes leave no member apart from its group.
LEMMA HealsEnd ==
  ASSUME CueSheetAssumption, NEW s \in Sound, NEW seq, Lists(seq, Rows(s))
  PROVE  HealSeparated(s, seq) \in Healed(s, seq, 0)
<1> DEFINE n == Len(seq)
           X == {t \in Sound : Reparented(s, t) /\ t.anchor = s.anchor}
           W(g) == g = [z \in SUBSET DOMAIN seq |-> IF z = {} THEN s ELSE Heal(g[z \ {Max(z)}], seq)]
           step == [p \in (1..n) \X X |-> Heal(p[2], seq)]
           iter == CHOOSE g : W(g)
<1>0. n \in Nat /\ DOMAIN seq = 1..n /\ s \in X
  BY DEF Lists, Reparented
<1>1. HealSeparated(s, seq) = iter[DOMAIN seq]
  BY Zenon DEF HealSeparated, FoldLeft, MapThenFoldSet, Heal
<1>2. \A t \in X : Heal(t, seq) \in X
  <2> TAKE t \in X
  <2>1. Heal(t, seq) \in Sound /\ Heal(t, seq).anchor = t.anchor /\ Reparented(t, Heal(t, seq))
    BY HealOnce, HealFrees
  <2> QED BY <2>1 DEF Reparented
<1> HIDE DEF X
<1>3. step \in [(1..n) \X X -> X]
  BY <1>2
<1>4. PICK f : FoldOf(f, n, X, s, step)
  <2> HIDE DEF step, n
  <2> QED BY <1>0, <1>3, FoldExists
<1>5. W(f)
  <2>1. \A z \in SUBSET (1..n) : f[z] = IF z = {} THEN s ELSE Heal(f[z \ {Max(z)}], seq)
    BY <1>4 DEF FoldOf
  <2> HIDE DEF step
  <2> QED BY <1>0, <1>4, <2>1 DEF FoldOf
<1>6. W(iter)
  <2> HIDE DEF W
  <2> QED BY <1>5, Zenon
<1> HIDE DEF iter
<1>7. \A z \in SUBSET (1..n) : iter[z] = IF z = {} THEN s ELSE Heal(iter[z \ {Max(z)}], seq)
  BY <1>0, <1>6
<1> DEFINE Stage == [i \in 0..n |-> Healed(s, seq, n - i)]
<1>8. iter[1..n] \in Stage[n]
  <2>1. iter[1..0] \in Stage[0]
    <3>1. 1..0 = {} /\ {} \in SUBSET (1..n) /\ 0 \in 0..n /\ n - 0 = n
      BY <1>0
    <3>2. iter[{}] = s
      BY <3>1, <1>7
    <3>3. s \in Healed(s, seq, n)
      BY GroupedAreFew DEF Healed, Reparented
    <3> HIDE DEF n
    <3> QED BY <3>1, <3>2, <3>3
  <2>2. \A i \in 1..n : iter[1..(i - 1)] \in Stage[i - 1] => iter[1..i] \in Stage[i]
    <3> TAKE i \in 1..n
    <3> HAVE iter[1..(i - 1)] \in Stage[i - 1]
    <3>1. 1..i \in SUBSET (1..n) /\ 1..i # {} /\ Max(1..i) = i /\ (1..i) \ {i} = 1..(i - 1)
      BY <1>0, PrefixFold
    <3>2. iter[1..i] = Heal(iter[(1..i) \ {Max(1..i)}], seq)
      BY <3>1, <1>7
    <3>3. i \in 0..n /\ i - 1 \in 0..n /\ n - (i - 1) \in Int /\ n - (i - 1) - 1 = n - i
      BY <1>0
    <3>4. iter[1..(i - 1)] \in Healed(s, seq, n - (i - 1))
      BY <3>3
    <3>5. iter[1..i] = Heal(iter[1..(i - 1)], seq)
      BY <3>1, <3>2, Zenon
    <3> HIDE DEF n
    <3>6. Heal(iter[1..(i - 1)], seq) \in Healed(s, seq, n - (i - 1) - 1)
      BY <3>3, <3>4, HealsOn
    <3> QED BY <3>3, <3>5, <3>6
  <2> HIDE DEF Stage, n
  <2> QED BY <1>0, <2>1, <2>2, PrefixIn
<1> HIDE DEF n
<1>9. n \in 0..n /\ n - n = 0
  BY <1>0
<1> QED BY <1>0, <1>1, <1>8, <1>9

\* ... and so nobody: a sheet without members of groups has none apart.
LEMMA HealsAll ==
  ASSUME CueSheetAssumption, NEW s \in Sound, NEW seq, Lists(seq, Rows(s))
  PROVE  /\ HealSeparated(s, seq) \in Sound /\ Reparented(s, HealSeparated(s, seq))
         /\ HealSeparated(s, seq).anchor = s.anchor
         /\ Separated(HealSeparated(s, seq), seq) = {}
<1> DEFINE t == HealSeparated(s, seq)
<1>1. t \in Healed(s, seq, 0)
  BY HealsEnd
<1> HIDE DEF t
<1>2. t \in Sound /\ Reparented(s, t) /\ t.anchor = s.anchor
  BY <1>1 DEF Healed
<1>3. ASSUME IsFiniteSet(Grouped(t)), Cardinality(Grouped(t)) <= 0 PROVE Separated(t, seq) = {}
  <2>1. Cardinality(Grouped(t)) \in Nat
    BY <1>3, FS_CardinalityType
  <2>2. Cardinality(Grouped(t)) = 0
    BY <1>3, <2>1
  <2>3. Grouped(t) = {}
    BY <1>3, <2>2, FS_EmptySet
  <2> QED BY <1>2, <2>3, HealFrees
<1>4. Separated(t, seq) = {}
  BY <1>1, <1>3 DEF Healed
<1> QED BY <1>2, <1>4 DEF t

\* The cues are numbered in the order of the sheet, and no member is apart from its group.
Neat(t) ==
  /\ \A c \in DOMAIN t.cue : t.cue[c].pos = At(CueOrder(t), c)
  /\ Separated(t, LoadSequence(t)) = {}

\* Numbering the cues of a sheet in its order leaves the order as it is.
LEMMA NumberedOrder ==
  ASSUME CueSheetAssumption, NEW h \in Sound, NEW u \in Sound, DOMAIN u.cue = DOMAIN h.cue,
         \A c \in DOMAIN h.cue : u.cue[c].idx = h.cue[c].idx /\ u.cue[c].pos = At(CueOrder(h), c)
  PROVE  CueOrder(u) = CueOrder(h)
<1> DEFINE D == DOMAIN h.cue
           q == CueOrder(h)
           R == Ranked(h, D, {})
           Q == Ranked(u, D, {})
<1>1. Sorts(q, D, R) /\ Lists(q, D)
  BY SequencesSort, SequenceCovers
<1>2. Sorts(CueOrder(u), D, Q) /\ StrictOrder(D, Q)
  BY SequencesSort
<1>3. \A i \in DOMAIN q : q[i] \in D /\ i \in Nat /\ At(q, q[i]) = i
  <2> HIDE DEF q, D
  <2> TAKE i \in DOMAIN q
  <2>1. At(q, q[i]) \in DOMAIN q /\ q[At(q, q[i])] = q[i]
    BY AtIsIndex
  <2> QED BY <1>1, <2>1 DEF Lists
<1>4. \A a \in D : /\ Index(h, a) = h.cue[a].idx /\ Index(u, a) = h.cue[a].idx /\ IsCue(u, a) /\ IsCue(h, a)
                   /\ Number(u, a) = At(q, a) /\ h.cue[a].idx \in Int
  BY SoundParts, RowsAreTwoKinds DEF Index, IsCue, Number
<1> HIDE DEF q, D
<1>5. ASSUME NEW i \in DOMAIN q, NEW j \in DOMAIN q, i < j PROVE <<q[i], q[j]>> \in Q
  <2>1. <<q[i], q[j]>> \in R
    BY <1>1, <1>5 DEF Sorts
  <2>2. Precedes(h, q[i], q[j], {})
    BY <2>1 DEF Ranked
  <2>3. Index(h, q[i]) <= Index(h, q[j])
    BY <2>2, <1>3, <1>4 DEF Precedes
  <2>4. Index(u, q[i]) <= Index(u, q[j]) /\ Number(u, q[i]) < Number(u, q[j])
    BY <2>3, <1>3, <1>4, <1>5
  <2>5. IsCue(u, q[i]) = IsCue(u, q[j])
    BY <1>3, <1>4 DEF IsCue
  <2>6. Precedes(u, q[i], q[j], {})
    BY <2>4, <2>5, <1>3, <1>4 DEF Precedes
  <2> QED BY <2>6, <1>3 DEF Ranked
<1>6. Sorts(q, D, Q)
  BY <1>1, <1>5 DEF Sorts
<1>7. \A a, b \in D : <<a, b>> \in Q => <<b, a>> \notin Q
  BY <1>2 DEF StrictOrder
<1> HIDE DEF Q
<1> QED BY <1>2, <1>6, <1>7, SortedOnce DEF q, D

\* Healing, then renumbering makes a sheet tidy.
LEMMA NumberedIsTidy ==
  ASSUME CueSheetAssumption, NEW h \in Sound, NEW seq, Lists(seq, Rows(h)), Placed(h, seq), Separated(h, seq) = {},
         NEW u \in Sound, u.group = h.group, DOMAIN u.cue = DOMAIN h.cue,
         \A c \in DOMAIN h.cue : /\ u.cue[c].idx = h.cue[c].idx /\ u.cue[c].pos = At(CueOrder(h), c)
                                 /\ u.cue[c].parent = h.cue[c].parent
  PROVE  Neat(u) /\ LoadSequence(u) = seq /\ Placed(u, seq)
<1>1. CueOrder(u) = CueOrder(h)
  BY NumberedOrder
<1>2. Rows(u) = Rows(h) /\ Placed(u, seq)
  BY DEF Rows, Placed, Index, IsCue
<1>3. LoadSequence(u) = seq
  BY <1>2, PlacedSorts
<1>4. Separated(u, seq) = {}
  BY SameSeparated
<1> QED BY <1>1, <1>2, <1>3, <1>4 DEF Neat

\* What renumbering writes.
LEMMA RenumberedFields ==
  ASSUME NEW s \in Sound
  PROVE  /\ Renumbered(s).group = s.group /\ DOMAIN Renumbered(s).cue = DOMAIN s.cue
         /\ Renumbered(s).anchor = s.anchor
         /\ \A c \in DOMAIN s.cue : /\ Renumbered(s).cue[c].idx = s.cue[c].idx
                                    /\ Renumbered(s).cue[c].pos = At(CueOrder(s), c)
                                    /\ Renumbered(s).cue[c].parent = s.cue[c].parent
<1> DEFINE c == [x \in DOMAIN s.cue |-> [s.cue[x] EXCEPT !.pos = At(CueOrder(s), x)]]
<1>1. Renumbered(s).cue = c /\ Renumbered(s).group = s.group /\ Renumbered(s).anchor = s.anchor
  <2>1. s \in [cue : CueMaps, group : GroupMaps, anchor : Int, set : SUBSET Int]
    BY DEF Sound, Fields
  <2>2. Renumbered(s) = [s EXCEPT !.cue = c]
    BY DEF Renumbered
  <2> HIDE DEF c
  <2> QED BY <2>1, <2>2
<1>2. \A x \in DOMAIN s.cue : s.cue[x] \in CueRec
  BY SoundParts DEF GoodCues
<1>3. \A x \in DOMAIN s.cue : /\ c[x].idx = s.cue[x].idx /\ c[x].parent = s.cue[x].parent
                              /\ c[x].pos = At(CueOrder(s), x)
  BY <1>2 DEF CueRec
<1>4. DOMAIN c = DOMAIN s.cue
  OBVIOUS
<1> HIDE DEF c
<1> QED BY <1>1, <1>3, <1>4

\* The sheets that have rows of s in the order they had, and are neat.
NeatOf(s) == {t \in Sound : Agrees(s, t) /\ Neat(t)}

\* ReorderCues keeps the order, numbers the cues in it, and leaves no member apart.
LEMMA ReorderTidy ==
  ASSUME CueSheetAssumption, NEW s \in Sound
  PROVE  ReorderCues(s) \in NeatOf(s)
<1> DEFINE seq == LoadSequence(s)
           placed == ApplyOrder(s, seq, StoredParents(s))
           healed == HealSeparated(placed, seq)
           new == Renumbered(healed)
           u == ReorderCues(s)
<1>1. u \in Sound
  BY ReorderSound
<1>2. CASE DOMAIN s.cue = {}
  <2>1. u = s
    BY <1>2 DEF ReorderCues
  <2>2. Agrees(s, s)
    BY DEF Agrees
  <2>3. Neat(s)
    BY <1>2 DEF Neat, Separated
  <2> QED BY <1>1, <2>1, <2>2, <2>3 DEF NeatOf
<1>3. CASE DOMAIN s.cue # {}
  <2>1. Lists(seq, Rows(s)) /\ Covers(seq, s)
    BY SequenceCovers
  <2>2. \A c \in DOMAIN s.cue : StoredParents(s)[c] \in {0} \cup DOMAIN s.group
    BY ParentsStored
  <2>3. /\ u = new \/ u = SetSelected(new, OldToNew(healed, s.anchor))
    BY <1>3 DEF ReorderCues
  <2> HIDE DEF seq, u
  <2>4. placed \in Sound /\ DOMAIN placed.cue = DOMAIN s.cue /\ DOMAIN placed.group = DOMAIN s.group
        /\ Placed(placed, seq)
    BY <2>1, <2>2, ApplyOrderSound, AppliedFields
  <2> HIDE DEF placed
  <2>5. Lists(seq, Rows(placed))
    BY <2>1, <2>4 DEF Rows
  <2>6. healed \in Sound /\ Reparented(placed, healed) /\ Separated(healed, seq) = {}
    BY <2>4, <2>5, HealsAll
  <2> HIDE DEF healed
  <2>7. Lists(seq, Rows(healed)) /\ Placed(healed, seq)
    BY <2>4, <2>5, <2>6 DEF Reparented, Rows, Placed, Index, IsCue
  <2>8. new \in Sound /\ new.group = healed.group /\ DOMAIN new.cue = DOMAIN healed.cue
        /\ \A c \in DOMAIN healed.cue : /\ new.cue[c].idx = healed.cue[c].idx
                                        /\ new.cue[c].pos = At(CueOrder(healed), c)
                                        /\ new.cue[c].parent = healed.cue[c].parent
    BY <2>6, RenumberedSound, RenumberedFields
  <2> HIDE DEF new
  <2>9. u.cue = new.cue /\ u.group = new.group
    <3>1. OldToNew(healed, s.anchor) \in Int
      BY <2>6, OldToNewIsPosition
    <3>2. SetSelected(new, OldToNew(healed, s.anchor)).cue = new.cue
          /\ SetSelected(new, OldToNew(healed, s.anchor)).group = new.group
      BY <2>8, <3>1, SetSelectedSound
    <3> QED BY <2>3, <3>2
  <2>10. Neat(u) /\ Placed(u, seq)
    BY <1>1, <2>6, <2>7, <2>8, <2>9, NumberedIsTidy
  <2>11. DOMAIN u.cue = DOMAIN s.cue /\ DOMAIN u.group = DOMAIN s.group
    BY <2>4, <2>6, <2>8, <2>9 DEF Reparented
  <2>12. Agrees(s, u)
    BY <1>1, <2>10, <2>11, PlacedAgrees DEF seq
  <2> QED BY <1>1, <2>10, <2>12 DEF NeatOf, u
<1> QED BY <1>2, <1>3

\* Rows that go leave the others in their order.
LEMMA FewerAgrees ==
  ASSUME CueSheetAssumption, NEW s \in Sound, NEW t \in Sound, Fewer(s, t)
  PROVE  Agrees(s, t)
<1>1. DOMAIN t.cue \subseteq DOMAIN s.cue /\ DOMAIN t.group \subseteq DOMAIN s.group
  BY DEF Fewer
<1>2. /\ \A c \in DOMAIN t.cue : t.cue[c].idx = s.cue[c].idx /\ t.cue[c].pos = s.cue[c].pos
      /\ \A g \in DOMAIN t.group : t.group[g].idx = s.group[g].idx
  BY DEF Fewer
<1> QED BY <1>1, <1>2, FewerRowsAgree

\* Deleting groups keeps a tidy sheet tidy and the rows in their order.
LEMMA SpansTidy ==
  ASSUME CueSheetAssumption, NEW s, NEW t \in NeatOf(s), NEW S, NEW seq \in Seq(S)
  PROVE  FoldLeft(DeleteGroupWithCues, t, seq) \in NeatOf(s)
<1>1. \A u \in NeatOf(s) : \A g : DeleteGroupWithCues(u, g) \in NeatOf(s)
  <2> TAKE u \in NeatOf(s)
  <2> TAKE g
  <2>1. u \in Sound /\ Agrees(s, u)
    BY DEF NeatOf
  <2>2. PICK v \in Sound : Fewer(u, v) /\ DeleteGroupWithCues(u, g) = ReorderCues(v)
    BY <2>1, SpanCuts
  <2>3. Agrees(u, v)
    BY <2>1, <2>2, FewerAgrees
  <2>4. ReorderCues(v) \in Sound /\ Agrees(v, ReorderCues(v)) /\ Neat(ReorderCues(v))
    BY <2>2, ReorderTidy DEF NeatOf
  <2>5. Agrees(s, ReorderCues(v))
    BY <2>1, <2>3, <2>4, AgreesOn
  <2> QED BY <2>2, <2>4, <2>5 DEF NeatOf
<1> QED BY <1>1, SpansStay

\* The selection has no part in it.
LEMMA SameSheet ==
  ASSUME CueSheetAssumption, NEW s, NEW t \in Sound, Agrees(s, t), Neat(t),
         NEW u \in Sound, u.cue = t.cue, u.group = t.group
  PROVE  Agrees(s, u) /\ Neat(u)
<1>1. \A a, b, L : Precedes(t, a, b, L) <=> Precedes(u, a, b, L)
  BY DEF Precedes, Index, Number, IsCue
<1>2. Agrees(s, u)
  BY <1>1 DEF Agrees, Rows
<1>3. CueOrder(u) = CueOrder(t)
  BY NumberedOrder DEF Neat
<1>4. LoadSequence(u) = LoadSequence(t) /\ Lists(LoadSequence(t), Rows(t))
  <2> DEFINE R == Ranked(t, Rows(t), DOMAIN t.cue)
             Q == Ranked(u, Rows(u), DOMAIN u.cue)
  <2>1. R = Q /\ Rows(t) = Rows(u)
    BY <1>1 DEF Ranked, Rows
  <2>2. Sorts(LoadSequence(t), Rows(t), R) /\ Sorts(LoadSequence(u), Rows(u), Q) /\ StrictOrder(Rows(t), R)
    BY SequencesSort
  <2> HIDE DEF R, Q
  <2>3. \A a, b \in Rows(t) : <<a, b>> \in R => <<b, a>> \notin R
    BY <2>2 DEF StrictOrder
  <2> QED BY <2>1, <2>2, <2>3, SortedOnce DEF Sorts
<1>5. Separated(u, LoadSequence(t)) = Separated(t, LoadSequence(t))
  BY <1>4, SameSeparated
<1> QED BY <1>2, <1>3, <1>4, <1>5 DEF Neat

\* BulkDelete of some cues: the rest is tidy, in the order it had.
LEMMA DeletesTidy ==
  ASSUME CueSheetAssumption, NEW s \in Sound, NEW cues, cues # {}, NEW groups
  PROVE  BulkDelete(s, cues, groups) \in NeatOf(s)
<1> DEFINE less == Without(s, cues)
           rest == ReorderCues(less)
           lost == \E c \in cues : rest.anchor = s.cue[c].pos
           base == IF cues = {} THEN s ELSE IF lost THEN SetSelected(rest, 0) ELSE rest
           q == InOrder(LoadSequence(s), groups)
<1>1. less \in Sound /\ Fewer(s, less)
  BY WithoutSound DEF Fewer
<1>2. Agrees(s, less)
  BY <1>1, FewerAgrees
<1> HIDE DEF less
<1>3. rest \in Sound /\ Agrees(less, rest) /\ Neat(rest)
  BY <1>1, ReorderTidy DEF NeatOf
<1>4. Agrees(s, rest)
  BY <1>2, <1>3, AgreesOn
<1> HIDE DEF rest
<1>5. base \in NeatOf(s)
  <2>1. SetSelected(rest, 0) \in Sound /\ SetSelected(rest, 0).cue = rest.cue /\ SetSelected(rest, 0).group = rest.group
    BY <1>3, SetSelectedSound
  <2>2. Agrees(s, SetSelected(rest, 0)) /\ Neat(SetSelected(rest, 0))
    BY <1>3, <1>4, <2>1, SameSheet
  <2> QED BY <1>3, <1>4, <2>1, <2>2 DEF NeatOf
<1>6. \E S : q \in Seq(S)
  <2>1. LoadSequence(s) \in Seq(Rows(s))
    BY SequenceCovers DEF Lists
  <2>2. PICK n \in Nat : q \in [1..n -> Rows(s) \cap groups]
    BY <2>1, InOrderLists
  <2> HIDE DEF q
  <2> QED BY <2>2
<1>7. BulkDelete(s, cues, groups) = FoldLeft(DeleteGroupWithCues, base, q)
  BY DEF BulkDelete, base, rest, less, q
<1> HIDE DEF base, q
<1> QED BY <1>5, <1>6, <1>7, SpansTidy

\* A bulk delete, as the page sees it: order, numbers, members.
LEMMA DeletesOrdered ==
  ASSUME CueSheetAssumption, NEW s \in Sound, NEW cues, cues # {}, NEW groups, NEW t, t = BulkDelete(s, cues, groups)
  PROVE  /\ SameOrder(s, t, Rows(t))
         /\ \A i \in DOMAIN CueOrder(t) : t.cue[CueOrder(t)[i]].pos = i
         /\ Separated(t, LoadSequence(t)) = {}
<1>1. t \in Sound /\ Agrees(s, t) /\ Neat(t)
  BY DeletesTidy DEF NeatOf
<1>2. Lists(CueOrder(t), DOMAIN t.cue)
  BY <1>1, SequenceCovers
<1> DEFINE q == CueOrder(t)
<1> HIDE DEF q
<1>3. ASSUME NEW i \in DOMAIN q PROVE t.cue[q[i]].pos = i
  <2>1. At(q, q[i]) \in DOMAIN q /\ q[At(q, q[i])] = q[i]
    BY AtIsIndex
  <2>2. q[i] \in DOMAIN t.cue /\ At(q, q[i]) = i
    BY <1>2, <2>1 DEF Lists, q
  <2> QED BY <1>1, <2>2 DEF Neat, q
<1> QED BY <1>1, <1>3, AgreesIsSameOrder DEF Neat, q

\* RemoveCue remaps the selection to the new position of the cue that was selected.
LEMMA RemoveFollows ==
  ASSUME CueSheetAssumption, NEW s \in Sound, NEW c \in DOMAIN s.cue, NEW d \in DOMAIN s.cue \ {c},
         s.anchor = s.cue[d].pos
  PROVE  RemoveCue(s, c).anchor = RemoveCue(s, c).cue[d].pos
<1> DEFINE rest == Without(s, {c})
           new == Renumbered(rest)
           id == IF new.anchor = s.cue[c].pos THEN 0 ELSE OldToNew(rest, new.anchor)
<1>1. rest \in Sound /\ DOMAIN rest.cue = DOMAIN s.cue \ {c} /\ rest.cue[d] = s.cue[d] /\ rest.anchor = s.anchor
  BY WithoutSound
<1>2. RemoveCue(s, c) = [new EXCEPT !.anchor = id]
  BY DEF RemoveCue, new, rest
<1> HIDE DEF rest
<1>3. new \in Sound /\ new.anchor = s.anchor /\ new.cue[d].pos = At(CueOrder(rest), d)
  BY <1>1, RenumberedSound, RenumberedFields
<1>4. new.anchor # s.cue[c].pos
  BY <1>3, SoundParts DEF GoodCues
<1>5. Named(rest, s.anchor) = {d}
  <2>1. \A x, y \in DOMAIN rest.cue : rest.cue[x].pos = rest.cue[y].pos => x = y
    BY <1>1, SoundParts DEF GoodCues
  <2> QED BY <1>1, <2>1 DEF Named
<1>6. OldToNew(rest, s.anchor) = At(CueOrder(rest), d)
  <2> DEFINE x == CHOOSE x \in Named(rest, s.anchor) : TRUE
  <2>1. x = d
    BY <1>5
  <2>2. OldToNew(rest, s.anchor) = At(CueOrder(rest), x)
    BY <1>5 DEF OldToNew
  <2> HIDE DEF x
  <2> QED BY <2>1, <2>2
<1>7. id = At(CueOrder(rest), d)
  BY <1>3, <1>4, <1>6
<1> HIDE DEF new, id
<1>8. new \in [cue : {new.cue}, group : {new.group}, anchor : {new.anchor}, set : {new.set}]
  BY <1>3 DEF Sound, Fields
<1>9. [new EXCEPT !.anchor = id].anchor = id /\ [new EXCEPT !.anchor = id].cue = new.cue
  BY <1>8
<1> QED BY <1>2, <1>3, <1>7, <1>9

\* A sound sheet is removed from soundly.
LEMMA SoundRemovals ==
  ASSUME CueSheetAssumption, IInv
  PROVE  RemovalsSound
<1>1. Sheet \in Sound /\ Sheet.cue = cue
  BY DEF IInv, Sheet
<1>2. DeletesKeepOrder
  <2> SUFFICES ASSUME NEW cues \in (SUBSET DOMAIN cue) \ {{}}, NEW groups \in SUBSET ShownGroups,
                      NEW t \in {BulkDelete(Sheet, cues, groups)}
               PROVE  /\ SameOrder(Sheet, t, Rows(t))
                      /\ \A i \in DOMAIN CueOrder(t) : t.cue[CueOrder(t)[i]].pos = i
                      /\ Separated(t, LoadSequence(t)) = {}
    BY DEF DeletesKeepOrder
  <2> QED BY <1>1, DeletesOrdered
<1>3. RemoveKeepsSelection
  <2> SUFFICES ASSUME NEW c \in DOMAIN cue, NEW d \in DOMAIN cue \ {c}
               PROVE  RemoveCue(SetSelected(Sheet, cue[d].pos), c).anchor
                        = RemoveCue(SetSelected(Sheet, cue[d].pos), c).cue[d].pos
    BY DEF RemoveKeepsSelection
  <2> DEFINE s == SetSelected(Sheet, cue[d].pos)
  <2>1. cue[d].pos \in Int
    BY <1>1, SoundParts, RowsAreTwoKinds
  <2>2. s \in Sound /\ s = Sh(cue, Sheet.group, cue[d].pos, {})
    BY <1>1, <2>1, SetSelectedSound
  <2> HIDE DEF s
  <2>3. s.cue = cue /\ s.anchor = cue[d].pos
    BY <2>2 DEF Sh
  <2>4. RemoveCue(s, c).anchor = RemoveCue(s, c).cue[d].pos
    BY <2>2, <2>3, RemoveFollows
  <2> QED BY <2>4 DEF s
<1> QED BY <1>2, <1>3 DEF RemovalsSound

-----------------------------------------------------------------------------
(* Shift-arrow: the selection as a stretch of the page from its anchor. *)

\* No two rows have one id: positions are above 0, and ids of groups below.
LEMMA IdsDiffer ==
  ASSUME CueSheetAssumption, NEW s \in Sound, NEW a \in Rows(s), NEW b \in Rows(s), Id(s, a) = Id(s, b)
  PROVE  a = b
<1>1. GoodRows(s) /\ GoodCues(s.cue)
  BY SoundParts
<1>2. \A r \in Rows(s) : IsGroup(s, r) => Id(s, r) = -r /\ r \in Int /\ r > 0
  BY <1>1, RowsAreTwoKinds DEF Id, IsGroup
<1>3. \A r \in Rows(s) : ~IsGroup(s, r) => Id(s, r) = s.cue[r].pos /\ r \in DOMAIN s.cue /\ s.cue[r].pos \in Nat \ {0}
  BY <1>1, RowsAreTwoKinds DEF Id, IsGroup, Rows
<1>4. \A x, y \in DOMAIN s.cue : s.cue[x].pos = s.cue[y].pos => x = y
  BY <1>1 DEF GoodCues
<1> QED BY <1>2, <1>3, <1>4

\* The anchor is found where its row is on the page.
LEMMA AnchorIsFound ==
  ASSUME CueSheetAssumption, NEW s \in Sound, NEW units \in Seq(Rows(s)),
         \A i, j \in DOMAIN units : units[i] = units[j] => i = j,
         NEW k \in DOMAIN units, s.anchor = Id(s, units[k])
  PROVE  UnitIndex(s, units) = k
<1> DEFINE pos(r) == IF IsGroup(s, r) THEN 0 ELSE s.cue[r].pos
           I == {i \in 1..Len(units) : IF s.anchor < 0 THEN units[i] = -s.anchor ELSE pos(units[i]) = s.anchor}
<1>1. Len(units) \in Nat /\ DOMAIN units = 1..Len(units) /\ \A i \in DOMAIN units : units[i] \in Rows(s)
  OBVIOUS
<1>2. UnitIndex(s, units) = IF I # {} THEN Min(I) ELSE 0
  BY Zenon DEF UnitIndex, SelectInSeq
<1>3. GoodRows(s)
  BY SoundParts
<1>4. \A r \in Rows(s) : (IF s.anchor < 0 THEN r = -s.anchor ELSE pos(r) = s.anchor) <=> Id(s, r) = s.anchor
  <2> TAKE r \in Rows(s)
  <2> DEFINE u == units[k]
  <2>1. u \in Rows(s) /\ s.anchor = Id(s, u) /\ s.anchor \in Int
    BY <1>1, IdIsInt
  <2> HIDE DEF u
  <2>2. \A x \in Rows(s) : IsGroup(s, x) => Id(s, x) = -x /\ x \in Int /\ x > 0 /\ pos(x) = 0
    BY <1>3, RowsAreTwoKinds DEF Id, IsGroup
  <2>3. \A x \in Rows(s) : ~IsGroup(s, x) => /\ Id(s, x) = pos(x) /\ pos(x) \in Nat \ {0} /\ x \notin Int
    <3>1. \A x \in Rows(s) : ~IsGroup(s, x) => x \in Cues
      BY SoundParts DEF GoodCues, IsGroup, Rows
    <3> QED BY <1>3, <3>1, RowsAreTwoKinds DEF Id, IsGroup, Rows, CueSheetAssumption
  <2> HIDE DEF pos
  <2>4. CASE s.anchor < 0
    <3>1. IsGroup(s, u) /\ s.anchor = -u /\ u \in Int
      BY <2>1, <2>2, <2>3, <2>4
    <3>2. -s.anchor = u
      BY <3>1
    <3>3. r = u => Id(s, r) = s.anchor
      BY <2>1
    <3>4. Id(s, r) = s.anchor => r = u
      BY <2>1, IdsDiffer
    <3> QED BY <2>4, <3>2, <3>3, <3>4
  <2>5. CASE ~(s.anchor < 0)
    <3>1. ~IsGroup(s, u) /\ s.anchor \in Nat \ {0}
      BY <2>1, <2>2, <2>3, <2>5
    <3>2. pos(r) = s.anchor => Id(s, r) = s.anchor
      BY <2>2, <2>3, <3>1
    <3>3. Id(s, r) = s.anchor => pos(r) = s.anchor
      BY <2>2, <2>3, <3>1
    <3> QED BY <2>5, <3>2, <3>3
  <2> QED BY <2>4, <2>5
<1> HIDE DEF pos
<1>5. I = {k}
  <2>1. \A i \in DOMAIN units : Id(s, units[i]) = s.anchor <=> i = k
    BY <1>1, IdsDiffer
  <2> QED BY <1>1, <1>4, <2>1
<1>6. IsFiniteSet(I) /\ I \subseteq Int /\ I # {}
  <2>1. IsFiniteSet({k})
    BY FS_Singleton
  <2>2. k \in Int
    BY <1>1
  <2> HIDE DEF I
  <2> QED BY <1>5, <2>1, <2>2
<1>7. Min(I) \in I
  <2> HIDE DEF I
  <2> QED BY <1>6, FiniteExtremes
<1> QED BY <1>2, <1>5, <1>6, <1>7

\* The places from the anchor, at k, to the head of the selection, at j.
Between(k, j) == {i \in Int : (k <= i /\ i <= j) \/ (j <= i /\ i <= k)}
\* What is selected then besides the anchor.
Held(s, units, k, j) == IF j = k THEN {} ELSE Span(s, units, k, j)

\* The ends of what lies between two places.
LEMMA EndsOfTwo ==
  ASSUME NEW i \in Int, NEW j \in Int
  PROVE  Min({i, j})..Max({i, j}) = Between(i, j)
<1> DEFINE M == {i, j}
<1>1. IsFiniteSet(M)
  <2>1. M = {i} \cup {j}
    OBVIOUS
  <2> HIDE DEF M
  <2>2. IsFiniteSet({i}) /\ IsFiniteSet({j})
    BY FS_Singleton
  <2> QED BY <2>1, <2>2, FS_Union
<1>2. M \subseteq Int /\ M # {} /\ i \in M /\ j \in M /\ \A x \in M : x = i \/ x = j
  OBVIOUS
<1> HIDE DEF M
<1>3. Min(M) \in M /\ Max(M) \in M /\ \A y \in M : y <= Max(M) /\ y >= Min(M)
  BY <1>1, <1>2, FiniteExtremes
<1> DEFINE lo == Min(M)
           hi == Max(M)
<1>4. lo \in Int /\ hi \in Int /\ lo <= i /\ lo <= j /\ i <= hi /\ j <= hi /\ (lo = i \/ lo = j) /\ (hi = i \/ hi = j)
  BY <1>2, <1>3
<1> HIDE DEF lo, hi
<1>5. lo..hi = Between(i, j)
  BY <1>4 DEF Between
<1> QED BY <1>5 DEF lo, hi, M

\* The ends of the stretch between two places.
LEMMA EndsOfBetween ==
  ASSUME NEW k \in Int, NEW j \in Int
  PROVE  /\ Min(Between(k, j)) = IF j < k THEN j ELSE k
         /\ Max(Between(k, j)) = IF j < k THEN k ELSE j
<1> DEFINE B == Between(k, j)
           a == IF j < k THEN j ELSE k
           b == IF j < k THEN k ELSE j
<1>1. a \in Int /\ b \in Int /\ B = a..b /\ a \in B /\ b \in B /\ a <= b
  BY DEF Between
<1>2. IsFiniteSet(B) /\ B \subseteq Int /\ B # {}
  <2>1. IsFiniteSet(a..b)
    BY <1>1, FS_Interval
  <2> HIDE DEF a, b, B
  <2> QED BY <1>1, <2>1
<1> HIDE DEF B, a, b
<1>3. Min(B) \in B /\ Max(B) \in B /\ \A y \in B : y <= Max(B) /\ y >= Min(B)
  BY <1>2, FiniteExtremes
<1>4. Min(B) = a /\ Max(B) = b
  BY <1>1, <1>3
<1> QED BY <1>4 DEF B, a, b

\* The end farthest from the anchor is the head, and in the one place of both, too.
LEMMA FarEndIsHead ==
  ASSUME NEW k \in Int, NEW j \in Int, NEW dir
  PROVE  FarEnd(Between(k, j), k, dir) = j
<1> DEFINE lo == Min(Between(k, j))
           hi == Max(Between(k, j))
<1>1. (lo = IF j < k THEN j ELSE k) /\ (hi = IF j < k THEN k ELSE j)
  BY EndsOfBetween
<1>2. FarEnd(Between(k, j), k, dir) = IF k - lo > hi - k \/ (k - lo = hi - k /\ dir < 0) THEN lo ELSE hi
  BY DEF FarEnd
<1> HIDE DEF lo, hi
<1> QED BY <1>1, <1>2

\* What is marked on the page is what lies between the anchor and the head.
LEMMA MarkedIsBetween ==
  ASSUME CueSheetAssumption, NEW s \in Sound, NEW units \in Seq(Rows(s)),
         \A a, b \in DOMAIN units : units[a] = units[b] => a = b,
         NEW k \in DOMAIN units, NEW j \in DOMAIN units, s.anchor = Id(s, units[k]), s.set = Held(s, units, k, j)
  PROVE  Marked(s, units, k) = Between(k, j)
<1>1. Len(units) \in Nat /\ DOMAIN units = 1..Len(units) /\ \A i \in DOMAIN units : units[i] \in Rows(s)
  OBVIOUS
<1>2. k \in Int /\ j \in Int
  BY <1>1
<1>3. Span(s, units, k, j) = {Id(s, units[i]) : i \in Between(k, j)} \ {s.anchor}
  BY <1>2, EndsOfTwo DEF Span
<1>4. Between(k, j) \subseteq DOMAIN units /\ k \in Between(k, j) /\ (j = k => Between(k, j) = {k})
  BY <1>1, <1>2 DEF Between
<1>5. \A a, b \in DOMAIN units : Id(s, units[a]) = Id(s, units[b]) => a = b
  <2> TAKE a, b \in DOMAIN units
  <2> HAVE Id(s, units[a]) = Id(s, units[b])
  <2>1. units[a] = units[b]
    BY <1>1, IdsDiffer
  <2> QED BY <2>1
<1>6. \A i \in DOMAIN units : Id(s, units[i]) \in Held(s, units, k, j) <=> i \in Between(k, j) /\ i # k
  BY <1>3, <1>4, <1>5 DEF Held
<1>7. Marked(s, units, k) = {k} \cup {i \in DOMAIN units : Id(s, units[i]) \in s.set}
  BY DEF Marked
<1> QED BY <1>4, <1>6, <1>7

\* Shift-arrow moves the head of such a selection, to the end of the page.
LEMMA HeadMoves ==
  ASSUME CueSheetAssumption, NEW s \in Sound, NEW units \in Seq(Rows(s)),
         \A a, b \in DOMAIN units : units[a] = units[b] => a = b,
         NEW k \in DOMAIN units, NEW j \in DOMAIN units, s.anchor = Id(s, units[k]), s.set = Held(s, units, k, j),
         NEW dir \in Int
  PROVE  ExtendStep(s, units, dir) =
           IF j + dir \in DOMAIN units THEN [s EXCEPT !.set = Held(s, units, k, j + dir)] ELSE s
<1>1. UnitIndex(s, units) = k /\ k \in Int /\ j \in Int /\ k # 0
  BY AnchorIsFound
<1>2. FarEnd(Marked(s, units, k), k, dir) = j
  BY <1>1, MarkedIsBetween, FarEndIsHead
<1>3. ExtendStep(s, units, dir) = MoveHead(s, units, k, j + dir)
  BY <1>1, <1>2 DEF ExtendStep
<1> QED BY <1>3 DEF MoveHead, Held

\* The selection from the anchor to the place j.
Reach(s, units, k, j) == [s EXCEPT !.set = Held(s, units, k, j)]

\* A step with Shift moves the head by one, or stays at the edge of the page.
LEMMA ReachSteps ==
  ASSUME CueSheetAssumption, NEW s \in Sound, NEW units \in Seq(Rows(s)),
         \A a, b \in DOMAIN units : units[a] = units[b] => a = b,
         NEW k \in DOMAIN units, NEW j \in DOMAIN units, s.anchor = Id(s, units[k]),
         NEW dir \in Int
  PROVE  /\ j + dir \in DOMAIN units => ExtendStep(Reach(s, units, k, j), units, dir) = Reach(s, units, k, j + dir)
         /\ j + dir \notin DOMAIN units => ExtendStep(Reach(s, units, k, j), units, dir) = Reach(s, units, k, j)
<1> DEFINE t == Reach(s, units, k, j)
           e == Held(s, units, k, j)
<1>1. e \in SUBSET Int
  BY SpanIsIds DEF Held
<1> HIDE DEF e
<1>2. t = [s EXCEPT !.set = e]
  BY DEF Reach, e
<1>3. t \in Sound
  <2> HIDE DEF t
  <2> QED BY <1>1, <1>2, SetFieldSound DEF Chosen
<1>4. t.cue = s.cue /\ t.group = s.group /\ t.anchor = s.anchor /\ t.set = e
  <2> HIDE DEF t
  <2>1. s \in [cue : {s.cue}, group : {s.group}, anchor : {s.anchor}, set : {s.set}]
    BY DEF Sound, Fields
  <2> QED BY <1>2, <2>1
<1>5. \A f : [t EXCEPT !.set = f] = [s EXCEPT !.set = f]
  <2> HIDE DEF t
  <2>1. s \in [cue : {s.cue}, group : {s.group}, anchor : {s.anchor}, set : {s.set}]
    BY DEF Sound, Fields
  <2> QED BY <1>2, <2>1
<1> HIDE DEF t
<1>6. \A r : Id(t, r) = Id(s, r)
  BY <1>4 DEF Id, IsGroup
<1>7. \A m : Held(t, units, k, m) = Held(s, units, k, m)
  <2> TAKE m
  <2> DEFINE J == Min({k, m})..Max({k, m})
  <2>1. Span(t, units, k, m) = {Id(t, units[i]) : i \in J} \ {t.anchor}
    BY DEF Span
  <2>2. Span(s, units, k, m) = {Id(s, units[i]) : i \in J} \ {s.anchor}
    BY DEF Span
  <2> HIDE DEF J
  <2>3. {Id(t, units[i]) : i \in J} = {Id(s, units[i]) : i \in J}
    BY <1>6
  <2> QED BY <1>4, <2>1, <2>2, <2>3 DEF Held
<1>8. units \in Seq(Rows(t)) /\ t.anchor = Id(t, units[k]) /\ t.set = Held(t, units, k, j)
  BY <1>4, <1>6, <1>7 DEF Rows, e
<1>9. ExtendStep(t, units, dir) =
        IF j + dir \in DOMAIN units THEN [t EXCEPT !.set = Held(t, units, k, j + dir)] ELSE t
  BY <1>3, <1>8, HeadMoves
<1> QED BY <1>5, <1>7, <1>9 DEF Reach, t

\* Two steps, and a step back after each.
LEMMA StepsUndo ==
  ASSUME CueSheetAssumption, NEW s \in Sound, NEW units, units = SelectUnits(s), NEW r \in ToSet(units), NEW dir \in {1, -1},
         NEW one, one = SetSelected(s, Id(s, r)), NEW two, two = ExtendStep(one, units, dir),
         NEW three, three = ExtendStep(two, units, dir)
  PROVE  /\ two # one => ExtendStep(two, units, -dir) = one
         /\ three # two => ExtendStep(three, units, -dir) = two
<1>1. units \in Seq(Rows(s)) /\ \A a, b \in DOMAIN units : units[a] = units[b] => a = b
  BY UnitsAreRows
<1>2. PICK k \in DOMAIN units : units[k] = r
  BY DEF ToSet
<1>3. r \in Rows(s) /\ k \in Int /\ dir \in Int /\ -dir \in Int /\ (k + dir) + (-dir) = k
      /\ ((k + dir) + dir) + (-dir) = k + dir
  BY <1>1, <1>2
<1>4. one \in Sound /\ one = Sh(s.cue, s.group, Id(s, r), {})
  BY <1>3, IdIsInt, SetSelectedSound
<1>5. one.cue = s.cue /\ one.group = s.group /\ one.anchor = Id(s, r) /\ one.set = {}
  BY <1>4 DEF Sh
<1>6. one.anchor = Id(one, units[k]) /\ units \in Seq(Rows(one))
  BY <1>1, <1>2, <1>5 DEF Id, IsGroup, Rows
<1> DEFINE R(j) == Reach(one, units, k, j)
<1>7. R(k) = one
  <2>1. one \in [cue : {one.cue}, group : {one.group}, anchor : {one.anchor}, set : {{}}]
    BY <1>4, <1>5 DEF Sound, Fields
  <2>2. R(k) = [one EXCEPT !.set = {}]
    BY DEF Reach, Held
  <2> HIDE DEF R
  <2> QED BY <2>1, <2>2
<1>8. \A j \in DOMAIN units : \A d \in {dir, -dir} :
        ExtendStep(R(j), units, d) = IF j + d \in DOMAIN units THEN R(j + d) ELSE R(j)
  <2> TAKE j \in DOMAIN units
  <2> TAKE d \in {dir, -dir}
  <2>1. d \in Int
    BY <1>3
  <2> QED BY <1>1, <1>4, <1>6, <2>1, ReachSteps
<1> HIDE DEF R
<1>9. two = IF k + dir \in DOMAIN units THEN R(k + dir) ELSE one
  BY <1>7, <1>8
<1>10. CASE k + dir \notin DOMAIN units
  BY <1>9, <1>10
<1>11. CASE k + dir \in DOMAIN units
  <2> DEFINE m == k + dir
  <2>1. two = R(m) /\ m \in DOMAIN units /\ m + (-dir) = k
    BY <1>3, <1>9, <1>11
  <2>2. (m + dir) + (-dir) = m
    BY <1>3
  <2> HIDE DEF m
  <2>3. ExtendStep(two, units, -dir) = one
    BY <1>7, <1>8, <2>1
  <2>4. three = IF m + dir \in DOMAIN units THEN R(m + dir) ELSE two
    BY <1>8, <2>1
  <2>5. CASE m + dir \in DOMAIN units
    BY <1>8, <2>1, <2>2, <2>3, <2>4, <2>5
  <2> QED BY <2>3, <2>4, <2>5
<1> QED BY <1>10, <1>11

\* Shift-arrow in a sound sheet.
LEMMA SoundSteps ==
  ASSUME CueSheetAssumption, IInv
  PROVE  ShiftUndoes
<1>1. Sheet \in Sound
  BY DEF IInv
<1> SUFFICES ASSUME NEW units \in {SelectUnits(Sheet)}, NEW r \in ToSet(units), NEW dir \in {1, -1},
                    NEW one \in {SetSelected(Sheet, Id(Sheet, r))}, NEW two \in {ExtendStep(one, units, dir)},
                    NEW three \in {ExtendStep(two, units, dir)}
             PROVE  /\ two # one => ExtendStep(two, units, -dir) = one
                    /\ three # two => ExtendStep(three, units, -dir) = two
  BY DEF ShiftUndoes
<1> QED BY <1>1, StepsUndo

-----------------------------------------------------------------------------
(* The page, item by item. *)

\* The pages after each item, of which FlattenSheet gives the last.
Rendered(s, p) ==
  /\ p[0] = [open |-> <<>>, rows |-> <<>>]
  /\ \A i \in 1..Len(Items(s)) : p[i] = Render(s, p[i - 1], Items(s)[i])
  /\ \A i \in 0..Len(Items(s)) : p[i] \in PagesTo(s, Items(s), i)
  /\ FlattenSheet(s) = p[Len(Items(s))].rows

\* FlattenSheet renders the items in turn.
LEMMA PagesInTurn ==
  ASSUME CueSheetAssumption, NEW s \in Sound
  PROVE  \E p : Rendered(s, p)
<1> DEFINE seq == Items(s)
           n == Len(seq)
           X == Pages(s)
           base == [open |-> <<>>, rows |-> <<>>]
           W(g) == g = [z \in SUBSET DOMAIN seq |->
                          IF z = {} THEN base ELSE Render(s, g[z \ {Max(z)}], seq[Max(z)])]
           step == [p \in (1..n) \X X |-> Render(s, p[2], seq[p[1]])]
           iter == CHOOSE g : W(g)
<1>0. seq \in Seq(Rows(s)) /\ Lists(seq, Rows(s))
  BY SequenceCovers DEF Lists
<1>1. FlattenSheet(s) = iter[DOMAIN seq].rows
  BY Zenon DEF FlattenSheet, FoldLeft, MapThenFoldSet
<1> HIDE DEF seq
<1>2. n \in Nat /\ DOMAIN seq = 1..n /\ \A i \in 1..n : seq[i] \in Rows(s)
  BY <1>0
<1>3. base \in X /\ base \in PagesTo(s, seq, 0)
  BY DEF Pages, Spans, Lines, PagesTo
<1> HIDE DEF base, X, n
<1>4. \A t \in X : \A i \in 1..n : Render(s, t, seq[i]) \in X
  BY <1>2, RenderIsPage DEF X
<1>5. step \in [(1..n) \X X -> X]
  BY <1>4
<1>6. PICK f : FoldOf(f, n, X, base, step)
  <2> HIDE DEF step
  <2> QED BY <1>2, <1>3, <1>5, FoldExists
<1>7. W(f)
  <2>1. \A z \in SUBSET (1..n) : f[z] = IF z = {} THEN base ELSE Render(s, f[z \ {Max(z)}], seq[Max(z)])
    BY <1>6 DEF FoldOf
  <2> HIDE DEF step
  <2> QED BY <1>2, <1>6, <2>1 DEF FoldOf
<1>8. W(iter)
  <2> HIDE DEF W
  <2> QED BY <1>7, Zenon
<1> HIDE DEF iter
<1>9. \A z \in SUBSET (1..n) : iter[z] = IF z = {} THEN base ELSE Render(s, iter[z \ {Max(z)}], seq[Max(z)])
  BY <1>2, <1>8
<1> DEFINE p == [i \in 0..n |-> iter[1..i]]
<1>10. p[0] = base
  <2>1. 1..0 = {} /\ {} \in SUBSET (1..n) /\ 0 \in 0..n
    BY <1>2
  <2>2. iter[{}] = base
    BY <2>1, <1>9
  <2> QED BY <2>1, <2>2
<1>11. \A i \in 1..n : p[i] = Render(s, p[i - 1], seq[i])
  <2> TAKE i \in 1..n
  <2>1. 1..i \in SUBSET (1..n) /\ 1..i # {} /\ Max(1..i) = i /\ (1..i) \ {i} = 1..(i - 1)
    BY <1>2, PrefixFold
  <2>2. iter[1..i] = Render(s, iter[(1..i) \ {Max(1..i)}], seq[Max(1..i)])
    BY <2>1, <1>9
  <2>3. i \in 0..n /\ i - 1 \in 0..n
    BY <1>2
  <2>4. iter[1..i] = Render(s, iter[1..(i - 1)], seq[i])
    BY <2>1, <2>2, Zenon
  <2>5. p[i] = iter[1..i] /\ p[i - 1] = iter[1..(i - 1)]
    BY <2>3
  <2> QED BY <2>4, <2>5, Zenon
<1>12. p[n] = iter[1..n] /\ FlattenSheet(s) = p[n].rows
  <2>1. n \in 0..n
    BY <1>2
  <2> QED BY <1>1, <1>2, <2>1
<1> HIDE DEF p
<1> DEFINE K == {i \in 0..n : p[i] \in PagesTo(s, seq, i)}
<1>13. 0 \in K
  BY <1>2, <1>3, <1>10
<1>14. \A i \in 0..(n - 1) : i \in K => i + 1 \in K
  <2> TAKE i \in 0..(n - 1)
  <2> HAVE i \in K
  <2>1. i + 1 \in 1..n /\ (i + 1) - 1 = i /\ i + 1 \in 0..n
    BY <1>2
  <2> DEFINE j == i + 1
  <2> HIDE DEF j
  <2>2. j \in 1..n /\ j - 1 = i /\ j \in 0..n
    BY <2>1 DEF j
  <2>3. p[j - 1] \in PagesTo(s, seq, j - 1)
    BY <2>2
  <2>4. Render(s, p[j - 1], seq[j]) \in PagesTo(s, seq, j)
    BY <1>0, <2>2, <2>3, RenderOnce DEF n
  <2>5. p[j] \in PagesTo(s, seq, j)
    BY <2>2, <2>4, <1>11
  <2> QED BY <2>2, <2>5 DEF j
<1>15. \A i \in 0..n : i \in K
  <2> HIDE DEF K
  <2> QED BY <1>2, <1>13, <1>14, Upward
<1>16. \A i \in 0..n : p[i] \in PagesTo(s, seq, i)
  BY <1>15
<1> HIDE DEF K
<1> QED BY <1>10, <1>11, <1>12, <1>16 DEF Rendered, seq, n, base

\* What holds of the empty page and is kept with every item holds of all of them.
LEMMA PagesKeep ==
  ASSUME CueSheetAssumption, NEW s \in Sound, NEW p, Rendered(s, p), NEW G,
         p[0] \in G, \A i \in 1..Len(Items(s)) : p[i - 1] \in G => p[i] \in G
  PROVE  \A i \in 0..Len(Items(s)) : p[i] \in G
<1> DEFINE n == Len(Items(s))
           K == {i \in 0..n : p[i] \in G}
<1>1. n \in Nat
  BY SequenceCovers DEF Lists
<1>2. 0 \in K
  BY <1>1
<1>3. \A i \in 0..(n - 1) : i \in K => i + 1 \in K
  <2> TAKE i \in 0..(n - 1)
  <2> HAVE i \in K
  <2>1. i + 1 \in 1..n /\ (i + 1) - 1 = i /\ i + 1 \in 0..n
    BY <1>1
  <2> QED BY <2>1
<1> HIDE DEF n
<1>4. \A i \in 0..n : i \in K
  <2> HIDE DEF K
  <2> QED BY <1>1, <1>2, <1>3, Upward
<1> QED BY <1>4 DEF n

\* A set of places that has those above each is a prefix of them.
LEMMA PrefixOfPlaces ==
  ASSUME NEW n \in Nat, NEW I \in SUBSET (1..n), \A i \in I : \A j \in 1..n : j < i => j \in I
  PROVE  Cardinality(I) \in 0..n /\ I = 1..Cardinality(I)
<1>1. IsFiniteSet(1..n)
  BY FS_Interval, 1 \in Int, n \in Int
<1>2. CASE I = {}
  <2>1. Cardinality(I) = 0 /\ 1..0 = {}
    BY <1>2, FS_EmptySet
  <2> QED BY <1>2, <2>1
<1>3. CASE I # {}
  <2>1. IsFiniteSet(I) /\ I \subseteq Int
    <3>1. IsFiniteSet(I)
      BY <1>1, FS_Subset
    <3>2. I \subseteq Int
      OBVIOUS
    <3> QED BY <3>1, <3>2
  <2>2. Max(I) \in I /\ \A y \in I : y <= Max(I)
    BY <1>3, <2>1, FiniteExtremes
  <2> DEFINE k == Max(I)
  <2> HIDE DEF k
  <2>3. k \in I /\ k \in 1..n /\ \A y \in I : y <= k
    BY <2>2 DEF k
  <2>5. \A j \in 1..k : j \in I
    <3> TAKE j \in 1..k
    <3>1. j \in 1..n /\ (j < k \/ j = k)
      BY <2>3
    <3> QED BY <2>3, <3>1
  <2>6. I = 1..k
    <3>1. \A j \in I : j \in 1..k
      BY <2>3
    <3> QED BY <2>5, <3>1
  <2>4. Cardinality(1..k) = k
    BY <2>3, FS_Interval, 1 \in Int, k \in Int
  <2> QED BY <2>3, <2>4, <2>6
<1> QED BY <1>2, <1>3

\* The spans of a page, and those of them that are not deeper than d.
Steep(s, o) == \A i, j \in DOMAIN o : i < j => Depth(s, o[i]) < Depth(s, o[j])
UpTo(s, o, d) == SubSeq(o, 1, Cardinality({i \in DOMAIN o : Depth(s, o[i]) <= d}))

\* The open spans get deeper and deeper, so those up to a depth are the first ones.
LEMMA UpToIsPrefix ==
  ASSUME NEW s \in Sound, NEW o \in Spans(s), Steep(s, o), NEW d \in Int
  PROVE  /\ UpTo(s, o, d) \in Spans(s) /\ Steep(s, UpTo(s, o, d)) /\ Len(UpTo(s, o, d)) \in 0..Len(o)
         /\ \A i \in DOMAIN UpTo(s, o, d) : UpTo(s, o, d)[i] = o[i] /\ Depth(s, o[i]) <= d
         /\ \A i \in DOMAIN o : Depth(s, o[i]) <= d <=> i \in DOMAIN UpTo(s, o, d)
         /\ (\A i \in DOMAIN o : Depth(s, o[i]) <= d) => UpTo(s, o, d) = o
<1> DEFINE I == {i \in DOMAIN o : Depth(s, o[i]) <= d}
           m == Cardinality(I)
           u == SubSeq(o, 1, m)
<1>1. o \in Seq(Rows(s)) /\ Len(o) \in Nat /\ DOMAIN o = 1..Len(o)
  BY DEF Spans
<1>2. \A i \in DOMAIN o : Depth(s, o[i]) \in Nat
  BY DepthIsNat
<1>3. I \in SUBSET (1..Len(o)) /\ \A i \in I : \A j \in 1..Len(o) : j < i => j \in I
  <2> SUFFICES ASSUME NEW i \in I, NEW j \in 1..Len(o), j < i PROVE j \in I
    BY <1>1
  <2>1. Depth(s, o[j]) < Depth(s, o[i]) /\ Depth(s, o[i]) <= d
    BY <1>1 DEF Steep
  <2> QED BY <1>1, <1>2, <2>1
<1>4. m \in 0..Len(o) /\ I = 1..m
  <2> HIDE DEF I
  <2> QED BY <1>1, <1>3, PrefixOfPlaces
<1>5. UpTo(s, o, d) = u
  BY DEF UpTo
<1> HIDE DEF m
<1>6. u \in Seq(Rows(s)) /\ Len(u) = m /\ DOMAIN u = 1..m /\ \A i \in 1..m : u[i] = o[i]
  BY <1>1, <1>4
<1>7. \A i \in DOMAIN o : Depth(s, o[i]) <= d <=> i \in DOMAIN u
  BY <1>4, <1>6
<1>8. Steep(s, u)
  BY <1>1, <1>4, <1>6 DEF Steep
<1>9. (\A i \in DOMAIN o : Depth(s, o[i]) <= d) => u = o
  <2> HAVE \A i \in DOMAIN o : Depth(s, o[i]) <= d
  <2>1. 1..m = 1..Len(o)
    BY <1>1, <1>4
  <2>2. m = Len(o)
    <3>1. Len(o) \in 1..Len(o) => Len(o) \in 1..m
      BY <2>1
    <3>2. m \in Nat /\ Len(o) \in Nat /\ m <= Len(o)
      BY <1>1, <1>4
    <3> HIDE DEF I
    <3> QED BY <3>1, <3>2
  <2> HIDE DEF u
  <2> QED BY <1>1, <1>6, <2>2
<1>10. \A i \in DOMAIN u : u[i] = o[i] /\ Depth(s, o[i]) <= d
  BY <1>1, <1>4, <1>6
<1> HIDE DEF u
<1> QED BY <1>4, <1>5, <1>6, <1>7, <1>8, <1>9, <1>10 DEF Spans

\* The spans in which a cue of p comes after o.
OpenFor(s, o, p) == IF p \in ToSet(o) THEN UpTo(s, o, Depth(s, p)) ELSE o
\* How deep it is shown there, if it is.
Deep(s, o, p) == IF o # <<>> /\ p = Last(OpenFor(s, o, p)) THEN Depth(s, p) + 1 ELSE 0

\* A member leaves the spans so that the next one finds them as it left them.
LEMMA OpenForTwice ==
  ASSUME NEW s \in Sound, NEW o \in Spans(s), Steep(s, o), NEW p
  PROVE  /\ OpenFor(s, o, p) \in Spans(s) /\ Steep(s, OpenFor(s, o, p))
         /\ OpenFor(s, OpenFor(s, o, p), p) = OpenFor(s, o, p)
         /\ Deep(s, OpenFor(s, o, p), p) = Deep(s, o, p)
<1> DEFINE u == OpenFor(s, o, p)
           d == Depth(s, p)
<1>1. d \in Nat
  BY DepthIsNat
<1>2. CASE p \notin ToSet(o)
  <2>1. u = o
    BY <1>2 DEF OpenFor
  <2>2. OpenFor(s, u, p) = u
    BY <1>2, <2>1 DEF OpenFor
  <2> QED BY <2>1, <2>2
<1>3. CASE p \in ToSet(o)
  <2>1. u = UpTo(s, o, d)
    BY <1>3 DEF OpenFor
  <2> HIDE DEF d
  <2> HIDE DEF u
  <2>2. /\ u \in Spans(s) /\ Steep(s, u)
        /\ \A i \in DOMAIN u : u[i] = o[i] /\ Depth(s, o[i]) <= d
        /\ \A i \in DOMAIN o : Depth(s, o[i]) <= d <=> i \in DOMAIN u
    BY <1>1, <2>1, UpToIsPrefix
  <2>3. PICK i \in DOMAIN o : o[i] = p
    BY <1>3 DEF ToSet
  <2>4. i \in DOMAIN u /\ u[i] = p
    BY <1>1, <2>2, <2>3 DEF d
  <2>5. p \in ToSet(u) /\ u # <<>> /\ o # <<>>
    <3>1. p \in ToSet(u)
      BY <2>4 DEF ToSet
    <3>2. u # <<>>
      BY <2>4
    <3>3. o # <<>>
      BY <2>3
    <3> QED BY <3>1, <3>2, <3>3
  <2>6. UpTo(s, u, d) = u
    <3>1. \A j \in DOMAIN u : Depth(s, u[j]) <= d
      BY <2>2
    <3> QED BY <1>1, <2>2, <3>1, UpToIsPrefix
  <2>7. OpenFor(s, u, p) = u
    BY <2>5, <2>6 DEF OpenFor, d
  <2>8. Deep(s, u, p) = Deep(s, o, p)
    BY <2>5, <2>7 DEF Deep, u
  <2> QED BY <2>2, <2>7, <2>8 DEF u
<1> QED BY <1>2, <1>3

\* Below a header its members come one deeper.
LEMMA DeepBelowHeader ==
  ASSUME NEW s \in Sound, NEW o \in Spans(s), Steep(s, o), NEW g \in Rows(s)
  PROVE  /\ Append(UpTo(s, o, Depth(s, g) - 1), g) \in Spans(s)
         /\ Steep(s, Append(UpTo(s, o, Depth(s, g) - 1), g))
         /\ Deep(s, Append(UpTo(s, o, Depth(s, g) - 1), g), g) = Depth(s, g) + 1
<1> DEFINE d == Depth(s, g)
           u == UpTo(s, o, d - 1)
           a == Append(u, g)
<1>1. d \in Nat /\ d - 1 \in Int
  <2>1. d \in Nat
    BY DepthIsNat
  <2> QED BY <2>1
<1>2. u \in Spans(s) /\ Steep(s, u) /\ \A i \in DOMAIN u : Depth(s, u[i]) <= d - 1
  <2> DEFINE e == d - 1
  <2> HIDE DEF d, e
  <2>1. e \in Int
    BY <1>1 DEF e
  <2>2. /\ UpTo(s, o, e) \in Spans(s) /\ Steep(s, UpTo(s, o, e))
        /\ \A i \in DOMAIN UpTo(s, o, e) : UpTo(s, o, e)[i] = o[i] /\ Depth(s, o[i]) <= e
    BY <2>1, UpToIsPrefix
  <2> QED BY <2>2 DEF e
<1> HIDE DEF u
<1>3. u \in Seq(Rows(s))
  BY <1>2 DEF Spans
<1> DEFINE n == Len(u)
<1>4. /\ a \in Seq(Rows(s)) /\ n \in Nat /\ Len(a) = n + 1 /\ DOMAIN a = 1..(n + 1) /\ DOMAIN u = 1..n
      /\ a[n + 1] = g /\ \A i \in 1..n : a[i] = u[i]
  BY <1>3
<1> HIDE DEF a, n
<1>5. \A i \in DOMAIN a : Depth(s, a[i]) \in Nat /\ Depth(s, a[i]) <= d
  <2> TAKE i \in DOMAIN a
  <2>1. Depth(s, a[i]) \in Nat
    BY DepthIsNat
  <2>2. CASE i \in 1..n
    <3>1. Depth(s, u[i]) <= d - 1 /\ a[i] = u[i]
      BY <1>2, <1>4, <2>2
    <3> HIDE DEF d
    <3> QED BY <1>1, <2>1, <3>1
  <2>3. CASE i = n + 1
    <3>1. a[i] = g
      BY <1>4, <2>3
    <3> QED BY <1>1, <2>1, <3>1
  <2> QED BY <1>4, <2>2, <2>3
<1>6. Steep(s, a)
  <2> SUFFICES ASSUME NEW i \in DOMAIN a, NEW j \in DOMAIN a, i < j PROVE Depth(s, a[i]) < Depth(s, a[j])
    BY DEF Steep
  <2>1. CASE j \in 1..n
    <3>1. i \in 1..n
      BY <1>4, <2>1
    <3> QED BY <1>2, <1>4, <2>1, <3>1 DEF Steep
  <2>2. CASE j = n + 1
    <3>1. i \in 1..n /\ a[j] = g
      BY <1>4, <2>2
    <3>2. Depth(s, a[i]) <= d - 1
      BY <1>2, <1>4, <3>1
    <3>3. Depth(s, a[i]) \in Nat
      BY <1>5
    <3>4. Depth(s, a[j]) = d
      BY <3>1
    <3> HIDE DEF d
    <3> QED BY <1>1, <3>2, <3>3, <3>4
  <2> QED BY <1>4, <2>1, <2>2
<1>7. a \in Spans(s)
  BY <1>4 DEF Spans
<1>8. UpTo(s, a, d) = a
  <2>1. d \in Int
    BY <1>1
  <2> HIDE DEF d
  <2> QED BY <1>5, <1>6, <1>7, <2>1, UpToIsPrefix
<1>9. g \in ToSet(a) /\ a # <<>> /\ Last(a) = g
  <2>1. n + 1 \in DOMAIN a
    BY <1>4
  <2>2. g \in ToSet(a)
    BY <1>4, <2>1 DEF ToSet
  <2>3. Last(a) = g
    BY <1>4 DEF Last
  <2> QED BY <2>1, <2>2, <2>3
<1>10. OpenFor(s, a, g) = a
  BY <1>8, <1>9 DEF OpenFor
<1>11. Deep(s, a, g) = Depth(s, g) + 1
  BY <1>9, <1>10 DEF Deep
<1> QED BY <1>6, <1>7, <1>11 DEF a, u

-----------------------------------------------------------------------------
(* What comes into view. *)

\* A group that is open and in view is in open groups only.
LEMMA OpenAbove ==
  ASSUME NEW s \in Sound, NEW p \in DOMAIN s.group, ~Hidden(s, p), ~s.group[p].collapse,
         NEW top, top = p \/ top \in Above(s, p)
  PROVE  ~Hidden(s, top) /\ ~s.group[top].collapse
<1>1. IsFiniteSet(DOMAIN s.group)
  BY SoundParts DEF GoodGroups
<1>2. \A a \in Above(s, p) : ~s.group[a].collapse
  BY DEF Hidden
<1>3. CASE top = p
  BY <1>3
<1>4. CASE top \in Above(s, p)
  <2>1. Above(s, top) \subseteq Above(s, p)
    <3>1. Closed(s, Above(s, p))
      BY <1>1, AboveIsLeast
    <3>2. Up(s, top) \subseteq Above(s, p)
      BY <1>4, <3>1 DEF Closed
    <3> QED BY <1>1, <3>1, <3>2, AboveIsLeast
  <2>2. ~Hidden(s, top)
    BY <1>2, <2>1 DEF Hidden
  <2> QED BY <1>2, <1>4, <2>2
<1> QED BY <1>3, <1>4

\* The cues with a place in view: those in no group, and the members of open groups in view.
Seen(s, p) == p = 0 \/ (p \in DOMAIN s.group /\ ~Hidden(s, p) /\ ~s.group[p].collapse)

\* What a page is after a cue in view: one more row, whatever came before it.
LEMMA CueRenders ==
  ASSUME CueSheetAssumption, NEW s \in Sound, NEW page \in Pages(s), Steep(s, page.open),
         NEW c \in DOMAIN s.cue, NEW p, s.cue[c].parent = p, Seen(s, p)
  PROVE  /\ Render(s, page, c).open = OpenFor(s, page.open, p)
         /\ Render(s, page, c).rows = Append(page.rows, [row |-> c, depth |-> Deep(s, page.open, p)])
<1> DEFINE o == page.open
           open == OpenFor(s, o, p)
           top == Last(open)
           deep == IF p = top THEN Depth(s, top) + 1 ELSE 0
           hides == (Hidden(s, top) \/ s.group[top].collapse) /\ Inside(s, c, top)
           Show(spans, depth) == [open |-> spans, rows |-> Append(page.rows, [row |-> c, depth |-> depth])]
<1>1. GoodRows(s)
  BY SoundParts
<1>2. ~IsGroup(s, c) /\ IsCue(s, c)
  BY <1>1, RowsAreTwoKinds DEF IsGroup, IsCue
<1>3. o \in Spans(s) /\ open \in Spans(s)
  <2>1. o \in Spans(s)
    BY DEF Pages
  <2> QED BY <2>1, OpenForTwice
<1>4. CASE o = <<>>
  <2>1. Render(s, page, c) = Show(<<>>, 0)
    BY <1>2, <1>4, Zenon DEF Render
  <2>2. p \notin ToSet(o)
    BY <1>4 DEF ToSet
  <2>3. open = <<>> /\ Deep(s, o, p) = 0
    BY <1>4, <2>2 DEF OpenFor, Deep
  <2> QED BY <2>1, <2>3
<1>5. CASE o # <<>>
  <2>1. Render(s, page, c) = IF hides THEN [page EXCEPT !.open = open] ELSE Show(open, deep)
    BY <1>2, <1>5, Zenon DEF Render, OpenFor, UpTo
  <2>2. ~hides
    <3> SUFFICES ASSUME Hidden(s, top) \/ s.group[top].collapse, Inside(s, c, top) PROVE FALSE
      OBVIOUS
    <3> HIDE DEF open
    <3>1. open # <<>>
      <4>1. CASE p \notin ToSet(o)
        BY <1>5, <4>1 DEF OpenFor, open
      <4>2. CASE p \in ToSet(o)
        <5>1. PICK i \in DOMAIN o : o[i] = p
          BY <4>2 DEF ToSet
        <5>2. Depth(s, p) \in Int
          BY DepthIsNat
        <5>3. i \in DOMAIN UpTo(s, o, Depth(s, p))
          <6>1. Depth(s, o[i]) <= Depth(s, p)
            BY <5>1, <5>2
          <6> QED BY <1>3, <5>1, <5>2, <6>1, UpToIsPrefix
        <5>4. open = UpTo(s, o, Depth(s, p))
          BY <4>2 DEF OpenFor, open
        <5> QED BY <5>3, <5>4
      <4> QED BY <4>1, <4>2
    <3>2. top \in Rows(s)
      <4>1. open \in Seq(Rows(s))
        BY <1>3 DEF Spans
      <4> QED BY <3>1, <4>1 DEF Last
    <3>3. top # 0 /\ 0 \notin DOMAIN s.group
      <4>1. 0 \notin DOMAIN s.cue
        BY <1>1 DEF GoodRows, GoodCues, CueSheetAssumption
      <4>2. 0 \notin DOMAIN s.group
        BY <1>1 DEF GoodRows, GoodGroups
      <4> QED BY <3>2, <4>1, <4>2 DEF Rows
    <3>4. top = p \/ (p \in DOMAIN s.group /\ top \in Above(s, p))
      BY DEF Inside, IsGroup
    <3>5. p \in DOMAIN s.group /\ ~Hidden(s, p) /\ ~s.group[p].collapse
      BY <3>3, <3>4 DEF Seen
    <3> HIDE DEF top
    <3>6. ~Hidden(s, top) /\ ~s.group[top].collapse
      BY <3>4, <3>5, OpenAbove
    <3> QED BY <3>6
  <2>3. Render(s, page, c) = Show(open, deep)
    BY <2>1, <2>2
  <2>4. deep = Deep(s, o, p)
    BY <1>5 DEF Deep
  <2> HIDE DEF deep, open
  <2>5. Render(s, page, c).open = open /\ Render(s, page, c).rows = Append(page.rows, [row |-> c, depth |-> deep])
    BY <2>3
  <2> QED BY <2>4, <2>5 DEF open
<1> QED BY <1>4, <1>5

\* And after a header.
LEMMA HeaderRenders ==
  ASSUME CueSheetAssumption, NEW s \in Sound, NEW page \in Pages(s), NEW g \in DOMAIN s.group
  PROVE  /\ Render(s, page, g).open = Append(UpTo(s, page.open, Depth(s, g) - 1), g)
         /\ Render(s, page, g).rows =
              IF Hidden(s, g) THEN page.rows ELSE Append(page.rows, [row |-> g, depth |-> Depth(s, g)])
<1> DEFINE d == Depth(s, g)
           upTo(depth) ==
             SubSeq(page.open, 1, Cardinality({i \in DOMAIN page.open : Depth(s, page.open[i]) <= depth}))
           a == Append(upTo(d - 1), g)
           Show(spans, depth) == [open |-> spans, rows |-> Append(page.rows, [row |-> g, depth |-> depth])]
<1>0. a = Append(UpTo(s, page.open, Depth(s, g) - 1), g)
  BY DEF UpTo
<1>1. IsGroup(s, g) /\ ~IsCue(s, g)
  <2>1. GoodRows(s)
    BY SoundParts
  <2> QED BY <2>1, RowsAreTwoKinds DEF IsGroup
<1>2. CASE Hidden(s, g)
  <2>1. Render(s, page, g) = [page EXCEPT !.open = a]
    BY <1>1, <1>2, Zenon DEF Render
  <2> HIDE DEF a
  <2>2. [page EXCEPT !.open = a].open = a /\ [page EXCEPT !.open = a].rows = page.rows
    BY DEF Pages
  <2> QED BY <1>0, <1>2, <2>1, <2>2
<1>3. CASE ~Hidden(s, g)
  <2>1. Render(s, page, g) = Show(a, d)
    BY <1>1, <1>3, Zenon DEF Render
  <2> HIDE DEF a
  <2> QED BY <1>0, <1>3, <2>1
<1> QED BY <1>2, <1>3

\* The spans of a page get deeper and deeper, and its headers are in view.
InView(s) ==
  {page \in Pages(s) : /\ Steep(s, page.open)
                       /\ \A i \in DOMAIN page.rows :
                            page.rows[i].row \in DOMAIN s.group => ~Hidden(s, page.rows[i].row)}

\* Every item keeps that.
LEMMA RenderInView ==
  ASSUME CueSheetAssumption, NEW s \in Sound, NEW page \in InView(s), NEW r \in Rows(s)
  PROVE  Render(s, page, r) \in InView(s)
<1> DEFINE new == Render(s, page, r)
           o == page.open
<1>1. page \in Pages(s) /\ Steep(s, o) /\ o \in Spans(s)
  BY DEF InView, Pages
<1>2. new \in Pages(s) /\ (new.rows = page.rows \/ \E k : new.rows = Append(page.rows, [row |-> r, depth |-> k]))
  BY <1>1, RenderIsPage
<1>3. Steep(s, new.open)
  <2>1. CASE r \in DOMAIN s.group
    <3>1. new.open = Append(UpTo(s, o, Depth(s, r) - 1), r)
      BY <1>1, <2>1, HeaderRenders
    <3>2. Steep(s, Append(UpTo(s, o, Depth(s, r) - 1), r))
      BY <1>1, DeepBelowHeader
    <3> QED BY <3>1, <3>2
  <2>2. CASE r \notin DOMAIN s.group
    <3> DEFINE p == s.cue[r].parent
               open == OpenFor(s, o, p)
               top == Last(open)
               deep == IF p = top THEN Depth(s, top) + 1 ELSE 0
               hides == (Hidden(s, top) \/ s.group[top].collapse) /\ Inside(s, r, top)
               Show(spans, depth) == [open |-> spans, rows |-> Append(page.rows, [row |-> r, depth |-> depth])]
    <3>1. ~IsGroup(s, r) /\ IsCue(s, r)
      BY <2>2 DEF IsGroup, IsCue, Rows
    <3>2. CASE o = <<>>
      <4>1. new = Show(<<>>, 0)
        BY <3>1, <3>2, Zenon DEF Render
      <4> QED BY <4>1 DEF Steep
    <3>3. CASE o # <<>>
      <4>1. new = IF hides THEN [page EXCEPT !.open = open] ELSE Show(open, deep)
        BY <3>1, <3>3, Zenon DEF Render, OpenFor, UpTo
      <4>2. Steep(s, open)
        BY <1>1, OpenForTwice
      <4>3. [page EXCEPT !.open = open].open = open
        BY <1>1 DEF Pages
      <4>4. new.open = open
        <5> HIDE DEF open, deep, hides, new
        <5> QED BY <4>1, <4>3
      <4> QED BY <4>2, <4>4
    <3> QED BY <3>2, <3>3
  <2> QED BY <2>1, <2>2
<1>4. \A i \in DOMAIN new.rows : new.rows[i].row \in DOMAIN s.group => ~Hidden(s, new.rows[i].row)
  <2>1. \A i \in DOMAIN page.rows : page.rows[i].row \in DOMAIN s.group => ~Hidden(s, page.rows[i].row)
    BY DEF InView
  <2>2. CASE new.rows = page.rows
    BY <2>1, <2>2
  <2>3. CASE new.rows # page.rows
    <3>1. PICK k : new.rows = Append(page.rows, [row |-> r, depth |-> k])
      BY <1>2, <2>3
    <3>2. r \in DOMAIN s.group => ~Hidden(s, r)
      <4> SUFFICES ASSUME r \in DOMAIN s.group, Hidden(s, r) PROVE FALSE
        OBVIOUS
      <4>1. new.rows = page.rows
        BY <1>1, HeaderRenders
      <4> QED BY <2>3, <4>1
    <3>3. page.rows \in Seq([row : Rows(s), depth : Nat])
      BY <1>1 DEF Pages, Lines
    <3> DEFINE line == [row |-> r, depth |-> k]
    <3>4. line.row = r
      OBVIOUS
    <3> HIDE DEF line, new
    <3>5. /\ Len(page.rows) \in Nat /\ DOMAIN page.rows = 1..Len(page.rows)
          /\ DOMAIN new.rows = 1..(Len(page.rows) + 1) /\ new.rows[Len(page.rows) + 1] = line
          /\ \A a \in 1..Len(page.rows) : new.rows[a] = page.rows[a]
      BY <3>1, <3>3 DEF line
    <3> TAKE i \in DOMAIN new.rows
    <3>6. i \in 1..Len(page.rows) \/ i = Len(page.rows) + 1
      BY <3>5
    <3> QED BY <2>1, <3>2, <3>4, <3>5, <3>6
  <2> QED BY <2>2, <2>3
<1> HIDE DEF new
<1>5. new \in InView(s)
  BY <1>2, <1>3, <1>4 DEF InView
<1> QED BY <1>5 DEF new

\* So do all pages of a sheet.
LEMMA PagesInView ==
  ASSUME CueSheetAssumption, NEW s \in Sound, NEW p, Rendered(s, p)
  PROVE  \A i \in 0..Len(Items(s)) : p[i] \in InView(s)
<1> DEFINE G == InView(s)
<1>1. Lists(Items(s), Rows(s))
  BY SequenceCovers
<1>2. p[0] \in G
  BY DEF Rendered, InView, Pages, Spans, Lines, Steep
<1>3. ASSUME NEW i \in 1..Len(Items(s)), p[i - 1] \in G PROVE p[i] \in G
  <2>1. Items(s)[i] \in Rows(s) /\ p[i] = Render(s, p[i - 1], Items(s)[i])
    BY <1>1 DEF Lists, Rendered
  <2> QED BY <1>3, <2>1, RenderInView
<1> HIDE DEF G
<1>4. \A i \in 0..Len(Items(s)) : p[i] \in G
  BY <1>2, <1>3, PagesKeep
<1> QED BY <1>4 DEF G

\* What is on the page stays there, at its place.
LEMMA RowsStay ==
  ASSUME CueSheetAssumption, NEW s \in Sound, NEW p, Rendered(s, p), NEW i \in 0..Len(Items(s))
  PROVE  \A j \in i..Len(Items(s)) :
           /\ Len(p[i].rows) \in Nat /\ Len(p[j].rows) \in Nat /\ Len(p[i].rows) <= Len(p[j].rows)
           /\ \A a \in 1..Len(p[i].rows) : p[j].rows[a] = p[i].rows[a]
<1> DEFINE n == Len(Items(s))
           l(j) == Len(p[j].rows)
           K == {j \in 0..n : j >= i => l(i) <= l(j) /\ \A a \in 1..l(i) : p[j].rows[a] = p[i].rows[a]}
<1>1. Lists(Items(s), Rows(s)) /\ n \in Nat
  BY SequenceCovers DEF Lists
<1>2. \A j \in 0..n : p[j] \in Pages(s)
  BY DEF Rendered, PagesTo
<1>3. \A j \in 0..n : p[j].rows \in Seq([row : Rows(s), depth : Nat])
  BY <1>2 DEF Pages, Lines
<1> DEFINE E == [row : Rows(s), depth : Nat]
<1>4. \A j \in 0..n : p[j].rows \in Seq(E) /\ l(j) \in Nat
  <2> HIDE DEF E
  <2>1. \A j \in 0..n : p[j].rows \in Seq(E)
    BY <1>3 DEF E
  <2> QED BY <2>1
<1>5. 0 \in K
  <2>1. 0 >= i => i = 0
    BY <1>1
  <2> QED BY <1>1, <1>4, <2>1
<1>6. \A j \in 0..(n - 1) : j \in K => j + 1 \in K
  <2> TAKE j \in 0..(n - 1)
  <2> HAVE j \in K
  <2> DEFINE k == j + 1
  <2>1. k \in 1..n /\ k - 1 = j /\ k \in 0..n /\ j \in 0..n /\ k \in Int
    BY <1>1
  <2> HIDE DEF k
  <2>2. p[k] = Render(s, p[j], Items(s)[k])
    <3>1. p[k] = Render(s, p[k - 1], Items(s)[k])
      BY <2>1 DEF Rendered
    <3> QED BY <2>1, <3>1
  <2>3. Items(s)[k] \in Rows(s)
    BY <1>1, <2>1 DEF Lists
  <2>4. p[k].rows = p[j].rows \/ \E d : p[k].rows = Append(p[j].rows, [row |-> Items(s)[k], depth |-> d])
    <3> DEFINE r == Items(s)[k]
               page == p[j]
    <3>1. page \in Pages(s) /\ r \in Rows(s)
      BY <1>2, <2>1, <2>3
    <3>2. p[k] = Render(s, page, r)
      BY <2>2
    <3> HIDE DEF page, r
    <3>3. Render(s, page, r).rows = page.rows \/ \E d : Render(s, page, r).rows = Append(page.rows, [row |-> r, depth |-> d])
      BY <3>1, RenderIsPage
    <3> QED BY <3>2, <3>3 DEF page, r
  <2>5. l(j) <= l(k) /\ \A a \in 1..l(j) : p[k].rows[a] = p[j].rows[a]
    <3>1. CASE p[k].rows = p[j].rows
      BY <1>4, <2>1, <3>1
    <3>2. CASE \E d : p[k].rows = Append(p[j].rows, [row |-> Items(s)[k], depth |-> d])
      <4>1. PICK line : p[k].rows = Append(p[j].rows, line)
        BY <3>2
      <4> HIDE DEF E
      <4> QED BY <1>4, <2>1, <4>1
    <3> QED BY <2>4, <3>1, <3>2
  <2>6. k \in K
    <3> SUFFICES ASSUME k >= i PROVE l(i) <= l(k) /\ \A a \in 1..l(i) : p[k].rows[a] = p[i].rows[a]
      BY <2>1
    <3>1. CASE k = i
      BY <1>4, <3>1
    <3>2. CASE k # i
      <4>1. j >= i
        BY <1>1, <2>1, <3>2
      <4>2. l(i) <= l(j) /\ \A a \in 1..l(i) : p[j].rows[a] = p[i].rows[a]
        BY <4>1
      <4>3. l(i) \in Nat /\ l(j) \in Nat /\ l(k) \in Nat
        BY <1>4, <2>1
      <4>4. \A a \in 1..l(i) : a \in 1..l(j)
        BY <4>2, <4>3
      <4> HIDE DEF l
      <4> QED BY <2>5, <4>2, <4>3, <4>4
    <3> QED BY <3>1, <3>2
  <2> QED BY <2>6 DEF k
<1>7. \A j \in 0..n : j \in K
  <2> HIDE DEF K
  <2> QED BY <1>1, <1>5, <1>6, Upward
<1>8. \A j \in i..n : j \in 0..n /\ j >= i
  BY <1>1
<1> QED BY <1>4, <1>7, <1>8

\* The items after the first i, each one more row of the page, m of them.
Grow(s, p, i, m, deep) ==
  \A k \in 1..m : p[i + k].rows = Append(p[(i + k) - 1].rows, [row |-> Items(s)[i + k], depth |-> deep[k]])
Landed(s, p, i, m, deep) ==
  /\ Len(p[i].rows) \in Nat
  /\ FlattenSheet(s) \in Lines(s) /\ Len(p[i].rows) + m <= Len(FlattenSheet(s))
  /\ \A k \in 1..m : /\ Len(p[i].rows) + k \in DOMAIN FlattenSheet(s)
                     /\ FlattenSheet(s)[Len(p[i].rows) + k].row = Items(s)[i + k]
                     /\ FlattenSheet(s)[Len(p[i].rows) + k].depth = deep[k]

\* Items in a row that are all shown are in a row on the page.
LEMMA RunShows ==
  ASSUME CueSheetAssumption, NEW s \in Sound, NEW p, Rendered(s, p), NEW i \in Nat, NEW m \in Nat,
         i + m <= Len(Items(s)), NEW deep, Grow(s, p, i, m, deep)
  PROVE  Landed(s, p, i, m, deep)
<1> USE DEF Grow, Landed
<1> DEFINE n == Len(Items(s))
           E == [row : Rows(s), depth : Nat]
           l(j) == Len(p[j].rows)
           page == FlattenSheet(s)
           line(k) == [row |-> Items(s)[i + k], depth |-> deep[k]]
<1>1. n \in Nat
  BY SequenceCovers DEF Lists
<1>2. \A j \in 0..n : p[j].rows \in Seq(E)
  BY DEF Rendered, PagesTo, Pages, Lines
<1> HIDE DEF E, n
<1>3. \A j \in 0..n : l(j) \in Nat /\ DOMAIN p[j].rows = 1..l(j)
  BY <1>2
<1>4. i \in 0..n
  BY <1>1 DEF n
<1> DEFINE K == {k \in 0..m : l(i + k) = l(i) + k}
<1>5. \A k \in 1..m : /\ i + k \in 0..n /\ (i + k) - 1 = i + (k - 1) /\ i + (k - 1) \in 0..n
  BY <1>1 DEF n
<1>6. \A k \in 1..m : l(i + k) = l(i + (k - 1)) + 1 /\ p[i + k].rows[l(i + (k - 1)) + 1] = line(k)
  <2> TAKE k \in 1..m
  <2>1. p[i + k].rows = Append(p[i + (k - 1)].rows, line(k))
    BY <1>5
  <2>2. p[i + (k - 1)].rows \in Seq(E)
    BY <1>2, <1>5
  <2> DEFINE before == p[i + (k - 1)].rows
             after == p[i + k].rows
             last == line(k)
  <2> HIDE DEF before, after, last
  <2>3. after = Append(before, last) /\ before \in Seq(E)
    BY <2>1, <2>2 DEF before, after, last
  <2>4. Len(after) = Len(before) + 1 /\ after[Len(before) + 1] = last
    BY <2>3
  <2> QED BY <2>4 DEF before, after, last
<1>7. 0 \in K
  <2>1. i + 0 = i /\ l(i) \in Nat
    BY <1>3, <1>4
  <2> QED BY <2>1
<1>8. \A k \in 0..(m - 1) : k \in K => k + 1 \in K
  <2> TAKE k \in 0..(m - 1)
  <2> HAVE k \in K
  <2>1. k + 1 \in 1..m /\ (k + 1) - 1 = k /\ k + 1 \in 0..m
    OBVIOUS
  <2>2. l(i + (k + 1)) = l(i + ((k + 1) - 1)) + 1
    BY <1>6, <2>1
  <2>3. l(i + (k + 1)) = l(i + k) + 1 /\ l(i + k) = l(i) + k
    BY <2>1, <2>2
  <2>4. l(i) \in Nat
    BY <1>3, <1>4
  <2> HIDE DEF l
  <2>5. l(i + (k + 1)) = l(i) + (k + 1)
    BY <2>3, <2>4
  <2> QED BY <2>1, <2>5
<1>9. \A k \in 0..m : k \in K
  <2> HIDE DEF K
  <2> QED BY <1>7, <1>8, Upward
<1>10. page = p[n].rows /\ page \in Lines(s)
  <2>1. n \in 0..n
    BY <1>1
  <2>2. page = p[n].rows
    BY DEF Rendered, n
  <2> QED BY <1>2, <2>1, <2>2 DEF Lines, E
<1> HIDE DEF page
<1>11. \A j \in 0..n : l(j) <= Len(page) /\ \A a \in 1..l(j) : page[a] = p[j].rows[a]
  <2> TAKE j \in 0..n
  <2>1. n \in j..n /\ j \in 0..Len(Items(s))
    BY <1>1 DEF n
  <2> QED BY <1>10, <2>1, RowsStay DEF n
<1>12. Len(page) \in Nat /\ DOMAIN page = 1..Len(page)
  <2>1. n \in 0..n
    BY <1>1
  <2>2. page \in Seq(E)
    BY <1>2, <1>10, <2>1
  <2> QED BY <2>2
<1>13. ASSUME NEW k \in 1..m
       PROVE  l(i) + k \in DOMAIN page /\ page[l(i) + k] = line(k)
  <2>1. k \in 0..m /\ k - 1 \in 0..m
    OBVIOUS
  <2>2. l(i + k) = l(i) + k /\ l(i + (k - 1)) = l(i) + (k - 1)
    BY <1>9, <2>1
  <2>3. l(i) \in Nat /\ i + k \in 0..n
    BY <1>3, <1>4, <1>5
  <2>4. l(i) + k <= Len(page) /\ \A a \in 1..(l(i) + k) : page[a] = p[i + k].rows[a]
    BY <1>11, <2>2, <2>3
  <2>5. p[i + k].rows[(l(i) + (k - 1)) + 1] = line(k)
    BY <1>6, <2>2
  <2> HIDE DEF l, line
  <2>6. (l(i) + (k - 1)) + 1 = l(i) + k /\ l(i) + k \in 1..(l(i) + k) /\ l(i) + k \in 1..Len(page)
    BY <1>12, <2>3, <2>4
  <2> QED BY <1>12, <2>4, <2>5, <2>6
<1>14. l(i) \in Nat /\ l(i) + m <= Len(page)
  <2>1. m \in 0..m
    OBVIOUS
  <2>2. l(i + m) = l(i) + m
    BY <1>9, <2>1
  <2>3. i + m \in 0..n
    BY <1>1 DEF n
  <2> QED BY <1>3, <1>4, <1>11, <2>2, <2>3
<1>15. \A k \in 1..m : line(k).row = Items(s)[i + k] /\ line(k).depth = deep[k]
  OBVIOUS
<1> HIDE DEF line
<1> QED BY <1>10, <1>13, <1>14, <1>15 DEF page

\* The depth of a row is that of its place.
LEMMA DepthIsThere ==
  ASSUME CueSheetAssumption, NEW s \in Sound, NEW a \in DOMAIN FlattenSheet(s)
  PROVE  DepthOf(FlattenSheet(s), FlattenSheet(s)[a].row) = FlattenSheet(s)[a].depth
<1> DEFINE page == FlattenSheet(s)
           r == page[a].row
           I == {i \in 1..Len(page) : page[i].row = r}
<1>1. PICK p : Rendered(s, p)
  BY PagesInTurn
<1>2. /\ page \in Lines(s)
      /\ \A i, j \in DOMAIN page : page[i].row = page[j].row => i = j
  <2>1. Len(Items(s)) \in 0..Len(Items(s))
    BY SequenceCovers DEF Lists
  <2> QED BY <1>1, <2>1 DEF Rendered, PagesTo, Pages
<1>3. Len(page) \in Nat /\ DOMAIN page = 1..Len(page)
  <2> DEFINE E == [row : Rows(s), depth : Nat]
  <2>1. page \in Seq(E)
    BY <1>2 DEF Lines
  <2> HIDE DEF E, page
  <2> QED BY <2>1
<1>4. I = {a}
  BY <1>2, <1>3
<1>5. SelectInSeq(page, LAMBDA x : x.row = r) = IF I # {} THEN Min(I) ELSE 0
  BY Zenon DEF SelectInSeq
<1>6. Min(I) = a
  <2>1. a \in Int
    BY <1>3
  <2>2. IsFiniteSet({a}) /\ {a} \subseteq Int /\ {a} # {}
    BY <2>1, FS_Singleton
  <2>3. Min({a}) \in {a}
    BY <2>2, FiniteExtremes
  <2> HIDE DEF I
  <2> QED BY <1>4, <2>3
<1>7. SelectInSeq(page, LAMBDA x : x.row = r) = a
  BY <1>4, <1>5, <1>6
<1> QED BY <1>7 DEF DepthOf

-----------------------------------------------------------------------------
(* Where a drop puts rows. *)

\* The items after the first i are cues of g, m of them.
InGroup(s, i, m, g) == \A k \in 1..m : Items(s)[i + k] \in DOMAIN s.cue /\ s.cue[Items(s)[i + k]].parent = g

\* Counting on from k.
LEMMA NextOf ==
  ASSUME NEW m \in Nat, NEW k \in 0..(m - 1)
  PROVE  k + 1 \in 1..m /\ (k + 1) - 1 = k /\ k + 1 \in 0..m
OBVIOUS

\* Members of one group that come in a row are all shown, equally deep.
LEMMA MembersShow ==
  ASSUME CueSheetAssumption, NEW s \in Sound, NEW p, Rendered(s, p), NEW i \in Nat, NEW m \in Nat,
         i + m <= Len(Items(s)), NEW g, Seen(s, g), InGroup(s, i, m, g),
         NEW deep, \A k \in 1..m : deep[k] = Deep(s, p[i].open, g)
  PROVE  Grow(s, p, i, m, deep)
<1> USE DEF InGroup
<1> DEFINE n == Len(Items(s))
           d == Deep(s, p[i].open, g)
           K == {k \in 0..m : Deep(s, p[i + k].open, g) = d}
<1>1. n \in Nat
  BY SequenceCovers DEF Lists
<1>2. \A j \in 0..n : p[j] \in Pages(s) /\ Steep(s, p[j].open) /\ p[j].open \in Spans(s)
  BY PagesInView DEF InView, Pages
<1>3. \A k \in 1..m : i + k \in 1..n /\ (i + k) - 1 = i + (k - 1) /\ i + (k - 1) \in 0..n
  BY <1>1
<1> HIDE DEF n
<1>4. \A k \in 1..m : /\ p[i + k].open = OpenFor(s, p[i + (k - 1)].open, g)
                      /\ p[i + k].rows = Append(p[i + (k - 1)].rows,
                           [row |-> Items(s)[i + k], depth |-> Deep(s, p[i + (k - 1)].open, g)])
  <2> TAKE k \in 1..m
  <2> DEFINE page == p[i + (k - 1)]
             c == Items(s)[i + k]
             new == p[i + k]
  <2>1. page \in Pages(s) /\ Steep(s, page.open)
    BY <1>2, <1>3
  <2>2. c \in DOMAIN s.cue /\ s.cue[c].parent = g
    OBVIOUS
  <2>3. new = Render(s, page, c)
    BY <1>3 DEF Rendered, n
  <2> HIDE DEF page, c, new
  <2>4. new.open = OpenFor(s, page.open, g) /\ new.rows = Append(page.rows, [row |-> c, depth |-> Deep(s, page.open, g)])
    BY <2>1, <2>2, <2>3, CueRenders
  <2> QED BY <2>4 DEF page, c, new
<1>5. 0 \in K
  <2>1. i + 0 = i
    OBVIOUS
  <2> QED BY <2>1
<1>6. \A k \in 0..(m - 1) : k \in K => k + 1 \in K
  <2> TAKE k \in 0..(m - 1)
  <2> HAVE k \in K
  <2>1. k + 1 \in 1..m /\ (k + 1) - 1 = k /\ k + 1 \in 0..m
    BY NextOf
  <2>2. p[i + (k + 1)].open = OpenFor(s, p[i + k].open, g)
    BY <1>4, <2>1
  <2>3. p[i + k].open \in Spans(s) /\ Steep(s, p[i + k].open)
    <3>1. i + k \in 0..n
      BY <1>3, <2>1
    <3> QED BY <1>2, <3>1
  <2>4. Deep(s, OpenFor(s, p[i + k].open, g), g) = Deep(s, p[i + k].open, g)
    BY <2>3, OpenForTwice
  <2> QED BY <2>1, <2>2, <2>4
<1>7. \A k \in 0..m : k \in K
  <2> HIDE DEF K
  <2> QED BY <1>5, <1>6, Upward
<1> SUFFICES ASSUME NEW k \in 1..m
             PROVE  p[i + k].rows = Append(p[(i + k) - 1].rows, [row |-> Items(s)[i + k], depth |-> deep[k]])
  BY DEF Grow
<1>8. k - 1 \in 0..m /\ Deep(s, p[i + (k - 1)].open, g) = d
  <2>1. k - 1 \in 0..m
    OBVIOUS
  <2> QED BY <1>7, <2>1
<1>9. deep[k] = d
  OBVIOUS
<1> HIDE DEF d
<1> QED BY <1>3, <1>4, <1>8, <1>9

\* Where the rows are after a drop: those above the line, the block, those below.
LEMMA SplicePlaces ==
  ASSUME NEW S, NEW q \in Seq(S), NEW block \in Seq(S), NEW at \in Slots(q, block)
  PROVE  /\ Splice(q, block, at) \in Seq(S)
         /\ Len(Splice(q, block, at)) = Len(Lifted(q, block)) + Len(block)
         /\ \A j \in 1..at : Splice(q, block, at)[j] = Lifted(q, block)[j]
         /\ \A k \in 1..Len(block) : Splice(q, block, at)[at + k] = block[k]
         /\ \A j \in (at + 1)..Len(Lifted(q, block)) :
              Splice(q, block, at)[j + Len(block)] = Lifted(q, block)[j]
<1> DEFINE rest == Lifted(q, block)
           a == SubSeq(rest, 1, at)
           z == SubSeq(rest, at + 1, Len(rest))
           new == a \o block \o z
<1>1. rest \in Seq(S) /\ Len(rest) \in Nat
  BY LiftedLists
<1>2. at \in Nat /\ at <= Len(rest)
  BY <1>1 DEF Slots
<1>3. /\ a \in Seq(S) /\ Len(a) = at /\ \A j \in 1..at : a[j] = rest[j]
      /\ z \in Seq(S) /\ Len(z) = Len(rest) - at /\ \A j \in 1..(Len(rest) - at) : z[j] = rest[j + at]
  <2> HIDE DEF rest
  <2> QED BY <1>1, <1>2
<1>4. Splice(q, block, at) = new
  BY DEF Splice
<1> HIDE DEF rest, a, z
<1> DEFINE ab == a \o block
<1>5. /\ ab \in Seq(S) /\ Len(ab) = at + Len(block) /\ Len(block) \in Nat
      /\ \A j \in 1..at : ab[j] = a[j]
      /\ \A k \in 1..Len(block) : ab[k + at] = block[k]
  <2>1. a \in Seq(S) /\ Len(a) = at
    BY <1>3
  <2>2. ab \in Seq(S)
    BY <2>1
  <2>3. Len(block) \in Nat /\ Len(ab) = at + Len(block)
    BY <2>1
  <2>4. \A j \in 1..at : ab[j] = a[j]
    BY <1>2, <2>1
  <2>5. \A k \in 1..Len(block) : ab[k + at] = block[k]
    BY <1>2, <2>1
  <2> QED BY <2>2, <2>3, <2>4, <2>5
<1>6. new = ab \o z
  OBVIOUS
<1> HIDE DEF ab, new
<1>7. /\ new \in Seq(S) /\ Len(new) = Len(ab) + Len(z)
      /\ \A j \in 1..Len(ab) : new[j] = ab[j]
      /\ \A j \in 1..Len(z) : new[j + Len(ab)] = z[j]
  <2>1. ab \in Seq(S) /\ z \in Seq(S)
    BY <1>3, <1>5
  <2>2. new \in Seq(S)
    BY <1>6, <2>1
  <2>3. Len(new) = Len(ab) + Len(z)
    BY <1>6, <2>1
  <2>4. \A j \in 1..Len(ab) : new[j] = ab[j]
    BY <1>6, <2>1
  <2>5. \A j \in 1..Len(z) : new[j + Len(ab)] = z[j]
    BY <1>6, <2>1
  <2> QED BY <2>2, <2>3, <2>4, <2>5
<1>8. Len(new) = Len(rest) + Len(block)
  BY <1>1, <1>2, <1>3, <1>5, <1>7
<1>9. \A j \in 1..at : new[j] = rest[j]
  <2> TAKE j \in 1..at
  <2>1. j \in 1..Len(ab)
    BY <1>2, <1>5
  <2> QED BY <1>3, <1>5, <1>7, <2>1
<1>10. \A k \in 1..Len(block) : new[at + k] = block[k]
  <2> TAKE k \in 1..Len(block)
  <2>1. k + at \in 1..Len(ab) /\ k + at = at + k
    BY <1>2, <1>5
  <2> QED BY <1>5, <1>7, <2>1
<1>11. \A j \in (at + 1)..Len(rest) : new[j + Len(block)] = rest[j]
  <2> TAKE j \in (at + 1)..Len(rest)
  <2> DEFINE k == j - at
  <2>1. k \in 1..(Len(rest) - at) /\ k + at = j /\ k + (at + Len(block)) = j + Len(block)
    BY <1>1, <1>2, <1>5
  <2> HIDE DEF k
  <2>2. new[k + Len(ab)] = z[k] /\ z[k] = rest[k + at]
    BY <1>3, <1>7, <2>1
  <2> QED BY <1>5, <2>1, <2>2
<1> QED BY <1>4, <1>7, <1>8, <1>9, <1>10, <1>11 DEF rest

\* Sequences of distinct rows.
Once(q) == \A i, j \in DOMAIN q : q[i] = q[j] => i = j

\* After a drop every row is in the sheet once.
LEMMA SpliceOnce ==
  ASSUME NEW S, NEW q, Lists(q, S), NEW block \in Seq(S), Once(block), NEW at \in Slots(q, block)
  PROVE  Lists(Splice(q, block, at), S)
<1> DEFINE rest == Lifted(q, block)
           n == Len(rest)
           m == Len(block)
           new == Splice(q, block, at)
<1>1. q \in Seq(S) /\ (\A i, j \in DOMAIN q : q[i] = q[j] => i = j) /\ \A x \in S : \E i \in DOMAIN q : q[i] = x
  BY DEF Lists
<1>2. rest \in Seq(S) /\ n \in Nat /\ DOMAIN rest = 1..n /\ \A k \in 1..n : rest[k] \notin ToSet(block)
  <2>1. rest \in Seq(S) /\ n \in Nat /\ \A k \in DOMAIN rest : rest[k] \notin ToSet(block)
    BY <1>1, LiftedLists
  <2> HIDE DEF rest
  <2> QED BY <2>1
<1>3. \A i, j \in 1..n : rest[i] = rest[j] => i = j
  <2> DEFINE rows == ToSet(q) \ ToSet(block)
  <2>1. rest = InOrder(q, rows)
    BY DEF Lifted
  <2> HIDE DEF rows
  <2>2. \A k, l \in DOMAIN InOrder(q, rows) : InOrder(q, rows)[k] = InOrder(q, rows)[l] => k = l
    BY <1>1, InOrderLists
  <2> HIDE DEF rest
  <2> QED BY <1>2, <2>1, <2>2
<1>4. m \in Nat /\ DOMAIN block = 1..m /\ \A k \in 1..m : block[k] \in ToSet(block)
  BY DEF ToSet
<1>5. at \in 0..n
  BY DEF Slots
<1>6. /\ new \in Seq(S) /\ Len(new) = n + m
      /\ \A j \in 1..at : new[j] = rest[j]
      /\ \A k \in 1..m : new[at + k] = block[k]
      /\ \A j \in (at + 1)..n : new[j + m] = rest[j]
  BY <1>1, SplicePlaces
<1>7. DOMAIN new = 1..(n + m)
  BY <1>6
<1> HIDE DEF rest, n, m, new
<1> DEFINE Old(i, j) == j \in 1..n /\ new[i] = rest[j] /\ ((i = j /\ i <= at) \/ (i = j + m /\ i > at + m))
           In(i, k) == k \in 1..m /\ i = at + k /\ new[i] = block[k]
<1>8. \A i \in 1..(n + m) : (\E j \in Int : Old(i, j)) \/ \E k \in Int : In(i, k)
  <2> TAKE i \in 1..(n + m)
  <2>1. CASE i <= at
    <3>1. i \in 1..at /\ i \in 1..n
      BY <1>2, <1>5, <2>1
    <3> QED BY <1>6, <2>1, <3>1
  <2>2. CASE i > at /\ i <= at + m
    <3>1. i - at \in 1..m /\ at + (i - at) = i
      BY <1>2, <1>4, <1>5, <2>2
    <3> QED BY <1>6, <3>1
  <2>3. CASE i > at + m
    <3> DEFINE j == i - m
    <3>1. j \in (at + 1)..n /\ j \in 1..n /\ j + m = i /\ j \in Int
      BY <1>2, <1>4, <1>5, <2>3
    <3> HIDE DEF j
    <3>2. new[i] = rest[j]
      BY <1>6, <3>1
    <3>3. Old(i, j)
      BY <2>3, <3>1, <3>2
    <3> HIDE DEF Old
    <3> QED BY <3>1, <3>3
  <2> QED BY <1>2, <1>4, <1>5, <2>1, <2>2, <2>3
<1>9. ASSUME NEW i \in 1..(n + m), NEW j \in 1..(n + m), new[i] = new[j] PROVE i = j
  <2>1. CASE \E a, b \in Int : Old(i, a) /\ Old(j, b)
    <3>1. PICK a, b \in Int : Old(i, a) /\ Old(j, b)
      BY <2>1
    <3>2. a = b
      BY <1>3, <1>9, <3>1
    <3> QED BY <1>2, <1>4, <1>5, <3>1, <3>2
  <2>2. CASE \E a, b \in Int : In(i, a) /\ In(j, b)
    <3>1. PICK a, b \in Int : In(i, a) /\ In(j, b)
      BY <2>2
    <3>2. a = b
      BY <1>4, <1>9, <3>1 DEF Once
    <3> QED BY <3>1, <3>2
  <2>3. CASE \E a, b \in Int : Old(i, a) /\ In(j, b)
    BY <1>2, <1>4, <1>9, <2>3
  <2>4. CASE \E a, b \in Int : In(i, a) /\ Old(j, b)
    BY <1>2, <1>4, <1>9, <2>4
  <2> HIDE DEF Old, In
  <2> QED BY <1>8, <2>1, <2>2, <2>3, <2>4
<1>10. \A x \in S : \E i \in DOMAIN new : new[i] = x
  <2>1. \A x \in S : x \in ToSet(q)
    BY <1>1 DEF ToSet
  <2>2. \A x \in ToSet(q) \cup ToSet(block) : \E i \in DOMAIN new : new[i] = x
    BY <1>1, SpliceKeepsRows DEF new
  <2> QED BY <2>1, <2>2
<1> QED BY <1>6, <1>7, <1>9, <1>10 DEF Lists, new

\* A row that stays has its place after those kept above it.
LEMMA LiftedPlace ==
  ASSUME NEW S, NEW q \in Seq(S), NEW block, NEW i \in DOMAIN q, q[i] \notin ToSet(block)
  PROVE  /\ Kept(q, block, i - 1) \in Nat /\ Kept(q, block, i) = Kept(q, block, i - 1) + 1
         /\ Kept(q, block, i) \in 1..Len(Lifted(q, block))
         /\ Lifted(q, block)[Kept(q, block, i)] = q[i]
<1> DEFINE rows == ToSet(q) \ ToSet(block)
           at == Places(q, rows)
           R == {p \in at \X at : p[1] < p[2]}
           rank == Rank(at, R)
           low == at \cap 1..(i - 1)
           k == Kept(q, block, i)
           N == Cardinality(at)
<1>0. at = Staying(q, block)
  BY DEF Places, ToSet, Staying
<1>1. Len(q) \in Nat /\ DOMAIN q = 1..Len(q) /\ i \in 1..Len(q) /\ i \in 0..Len(q) /\ i - 1 \in 0..Len(q)
  OBVIOUS
<1>2. at \in SUBSET (1..Len(q)) /\ at \subseteq Int /\ IsFiniteSet(at) /\ i \in at
  <2>1. IsFiniteSet(1..Len(q))
    BY <1>1, FS_Interval, 1 \in Int, Len(q) \in Int
  <2>2. at \in SUBSET (1..Len(q)) /\ i \in at
    BY <1>0, <1>1 DEF Staying
  <2> HIDE DEF at
  <2> QED BY <1>1, <2>1, <2>2, FS_Subset
<1>3. IsFiniteSet(low) /\ Cardinality(low) \in Nat
  <2>1. low \in SUBSET at
    OBVIOUS
  <2> HIDE DEF low, at
  <2> QED BY <1>2, <2>1, FS_Subset, FS_CardinalityType
<1>4. Kept(q, block, i - 1) = Cardinality(low) /\ k = Cardinality(at \cap 1..i) /\ k \in 0..Len(Lifted(q, block))
  BY <1>0, <1>1, KeptIsSlot
<1>5. k = Cardinality(low) + 1
  <2>1. at \cap 1..i = low \cup {i} /\ i \notin low
    BY <1>1, <1>2
  <2>2. Cardinality(low \cup {i}) = Cardinality(low) + 1
    <3> HIDE DEF low
    <3> QED BY <1>3, <2>1, FS_AddElement
  <2> QED BY <1>4, <2>1, <2>2
<1>6. k \in 1..Len(Lifted(q, block))
  <2>1. Len(Lifted(q, block)) \in Nat
    BY LiftedLists
  <2> HIDE DEF k, low
  <2> QED BY <1>3, <1>4, <1>5, <2>1
<1>7. OneToOne(at, rank)
  <2> HIDE DEF at
  <2>1. StrictOrder(at, R)
    BY <1>2 DEF StrictOrder
  <2> HIDE DEF R
  <2> QED BY <1>2, <2>1, RanksAreOneToOne
<1> DEFINE P(j) == Cardinality({x \in at : x < j}) = k - 1
<1>8. \A j \in at : rank[j] = Cardinality({x \in at : x < j})
  BY DEF Rank
<1>9. rank[i] = Cardinality(low)
  <2> HIDE DEF rank, at
  <2>0. \A x \in at : x \in Int /\ x >= 1 /\ i \in Int
    BY <1>1, <1>2
  <2>1. {x \in at : x < i} = low
    <3>1. \A x \in at : x < i <=> x \in 1..(i - 1)
      BY <2>0
    <3> QED BY <3>1
  <2> QED BY <1>2, <1>8, <2>1
<1>10. P(i)
  <2>1. Cardinality({x \in at : x < i}) = Cardinality(low)
    BY <1>2, <1>8, <1>9
  <2> HIDE DEF low, k
  <2> QED BY <1>3, <1>5, <2>1
<1> DEFINE j == CHOOSE x \in at : P(x)
<1>11. j \in at /\ P(j)
  <2> HIDE DEF P
  <2> QED BY <1>2, <1>10
<1>12. Lifted(q, block)[k] = q[j]
  <2>2. InOrder(q, rows) = [l \in 1..N |-> q[CHOOSE x \in at : Cardinality({y \in at : y < x}) = l - 1]]
    BY DEF InOrder, Places
  <2>3. Lifted(q, block) = InOrder(q, rows)
    BY DEF Lifted
  <2>4. k \in 1..N
    <3>1. Len(Lifted(q, block)) = N
      BY <1>0, LiftedLists
    <3> HIDE DEF k, N
    <3> QED BY <1>6, <3>1
  <2> HIDE DEF rows, at, k, N
  <2>5. InOrder(q, rows)[k] = q[CHOOSE x \in at : Cardinality({y \in at : y < x}) = k - 1]
    BY <2>2, <2>4
  <2> QED BY <2>3, <2>5
<1> HIDE DEF j
<1>13. j = i
  <2>1. rank[j] = rank[i]
    <3> HIDE DEF rank
    <3> QED BY <1>2, <1>8, <1>10, <1>11
  <2> HIDE DEF rank
  <2> QED BY <1>2, <1>7, <1>11, <2>1 DEF OneToOne
<1> HIDE DEF k, low
<1> QED BY <1>3, <1>4, <1>5, <1>6, <1>12, <1>13 DEF k

\* Rows next to each other in a sequence.
LEMMA NextToEachOther ==
  ASSUME NEW S, NEW q \in Seq(S), NEW T, NEW part \in Seq(T), NEW off \in Nat, off + Len(part) <= Len(q),
         \A k \in 1..Len(part) : q[off + k] = part[k]
  PROVE  Together(q, part)
<1> DEFINE m == Len(part)
           i == off + 1
           sub == SubSeq(q, i, i + m - 1)
<1>1. m \in Nat /\ Len(q) \in Nat /\ off + m <= Len(q) /\ DOMAIN part = 1..m
  OBVIOUS
<1>2. i \in 1..(Len(q) - m + 1) /\ i + m - 1 = off + m
  <2> HIDE DEF m
  <2> QED BY <1>1
<1>3. sub = SubSeq(q, off + 1, off + m)
  BY <1>2
<1> HIDE DEF sub, i, m
<1>4. sub \in Seq(S) /\ Len(sub) = m /\ DOMAIN sub = 1..m /\ \A k \in 1..m : sub[k] = q[off + k]
  <2>1. SubSeq(q, off + 1, off + m) = [k \in 1..m |-> q[off + k]]
    <3> DEFINE u == SubSeq(q, off + 1, off + m)
    <3>1. u \in Seq(S)
      BY <1>1
    <3>2. Len(u) = m
      BY <1>1
    <3>3. \A k \in 1..m : u[k] = q[off + k]
      BY <1>1
    <3> HIDE DEF u
    <3>4. DOMAIN u = 1..m
      BY <3>1, <3>2
    <3>5. u = [k \in 1..m |-> u[k]]
      BY <3>1, <3>4
    <3> QED BY <3>3, <3>5 DEF u
  <2>2. SubSeq(q, off + 1, off + m) \in Seq(S) /\ Len(SubSeq(q, off + 1, off + m)) = m
    BY <1>1
  <2> QED BY <1>3, <2>1, <2>2
<1>5. sub = part
  <2>1. part = [k \in 1..m |-> part[k]] /\ sub = [k \in 1..m |-> sub[k]]
    BY <1>1, <1>4
  <2>2. \A k \in 1..m : sub[k] = part[k]
    BY <1>4 DEF m
  <2> QED BY <2>1, <2>2
<1> QED BY <1>2, <1>5 DEF Together, sub, i, m

\* A drop leaves the rows that are not dragged in their order.
LEMMA SpliceKeepsOrder ==
  ASSUME NEW S, NEW q, Lists(q, S), NEW block \in Seq(S), Once(block), NEW at \in Slots(q, block),
         NEW rows, rows = S \ ToSet(block)
  PROVE  InOrder(Splice(q, block, at), rows) = InOrder(q, rows)
<1> DEFINE rest == Lifted(q, block)
           n == Len(rest)
           m == Len(block)
           new == Splice(q, block, at)
           R == {p \in S \X S : \E i, j \in DOMAIN new : i < j /\ p[1] = new[i] /\ p[2] = new[j]}
<1>1. q \in Seq(S) /\ (\A i, j \in DOMAIN q : q[i] = q[j] => i = j) /\ (\A x \in S : \E i \in DOMAIN q : q[i] = x)
  BY DEF Lists
<1>2. rows = ToSet(q) \ ToSet(block) /\ rows \in SUBSET S
  <2>1. ToSet(q) = S
    BY <1>1 DEF ToSet
  <2> QED BY <2>1
<1>3. rest = InOrder(q, rows)
  BY <1>2 DEF Lifted
<1>4. Lists(rest, rows)
  <2>1. rest \in Seq(S) /\ n \in Nat /\ DOMAIN rest = 1..n
    <3>1. rest \in Seq(S) /\ n \in Nat
      BY <1>1, LiftedLists
    <3> HIDE DEF rest
    <3> QED BY <3>1
  <2>2. \A k \in DOMAIN rest : rest[k] \in rows
    BY <1>1, <1>2, LiftedLists
  <2>3. \A i \in DOMAIN q : q[i] \notin ToSet(block) => \E k \in DOMAIN rest : rest[k] = q[i]
    BY <1>1, LiftedLists
  <2>4. \A k, l \in DOMAIN rest : rest[k] = rest[l] => k = l
    BY <1>1, <1>3, InOrderLists
  <2> HIDE DEF rest, n
  <2>5. rest \in Seq(rows)
    <3>1. rest \in [1..n -> rows]
      BY <2>1, <2>2
    <3> QED BY <2>1, <3>1
  <2>6. \A x \in rows : \E k \in DOMAIN rest : rest[k] = x
    BY <1>1, <1>2, <2>3
  <2> QED BY <2>4, <2>5, <2>6 DEF Lists
<1>5. Lists(new, S)
  BY SpliceOnce
<1>6. /\ new \in Seq(S) /\ Len(new) = n + m /\ n \in Nat /\ m \in Nat /\ at \in 0..n
      /\ \A j \in 1..at : new[j] = rest[j]
      /\ \A j \in (at + 1)..n : new[j + m] = rest[j]
  BY <1>1, SplicePlaces, LiftedLists DEF Slots
<1>7. DOMAIN rest = 1..n /\ \A k \in 1..n : rest[k] \in rows
  <2>1. rest \in Seq(rows)
    BY <1>4 DEF Lists
  <2> HIDE DEF rest
  <2> QED BY <2>1 DEF n
<1> HIDE DEF rest, n, new, m
<1>8. DOMAIN new = 1..(n + m) /\ (\A i, j \in DOMAIN new : new[i] = new[j] => i = j) /\ \A i \in DOMAIN new : new[i] \in S
  BY <1>5, <1>6 DEF Lists
<1>9. Sorts(new, S, R)
  <2> SUFFICES ASSUME NEW i \in DOMAIN new, NEW j \in DOMAIN new, i < j PROVE <<new[i], new[j]>> \in R
    BY <1>5 DEF Sorts
  <2> QED BY <1>8
<1> DEFINE place(k) == IF k <= at THEN k ELSE k + m
<1>10. \A k \in 1..n : place(k) \in 1..(n + m) /\ new[place(k)] = rest[k]
  <2> TAKE k \in 1..n
  <2>1. CASE k <= at
    <3>1. k \in 1..at /\ place(k) = k /\ k \in 1..(n + m)
      BY <1>6, <2>1
    <3> HIDE DEF place
    <3> QED BY <1>6, <3>1
  <2>2. CASE ~(k <= at)
    <3>1. k \in (at + 1)..n /\ place(k) = k + m /\ k + m \in 1..(n + m)
      BY <1>6, <2>2
    <3> HIDE DEF place
    <3> QED BY <1>6, <3>1
  <2> QED BY <2>1, <2>2
<1>11. \A k, l \in 1..n : k < l => place(k) < place(l)
  BY <1>6
<1> HIDE DEF place
<1>12. Sorts(rest, rows, R)
  <2> SUFFICES ASSUME NEW k \in DOMAIN rest, NEW l \in DOMAIN rest, k < l PROVE <<rest[k], rest[l]>> \in R
    BY <1>4 DEF Sorts
  <2>1. place(k) \in DOMAIN new /\ place(l) \in DOMAIN new /\ place(k) < place(l)
    BY <1>7, <1>8, <1>10, <1>11
  <2>2. rest[k] = new[place(k)] /\ rest[l] = new[place(l)]
    BY <1>7, <1>10
  <2>3. rest[k] \in S /\ rest[l] \in S
    BY <1>2, <1>7
  <2> QED BY <2>1, <2>2, <2>3
<1>13. \A a, b \in rows : <<a, b>> \in R => <<b, a>> \notin R
  <2> TAKE a, b \in rows
  <2> SUFFICES ASSUME <<a, b>> \in R, <<b, a>> \in R PROVE FALSE
    OBVIOUS
  <2>1. PICK i, j \in DOMAIN new : i < j /\ a = new[i] /\ b = new[j]
    OBVIOUS
  <2>2. PICK k, l \in DOMAIN new : k < l /\ b = new[k] /\ a = new[l]
    OBVIOUS
  <2>3. i = l /\ j = k
    BY <1>8, <2>1, <2>2
  <2>4. i \in Int /\ j \in Int
    BY <1>8
  <2> QED BY <2>1, <2>2, <2>3, <2>4
<1> HIDE DEF R
<1>14. Sorts(InOrder(new, rows), rows, R)
  BY <1>2, <1>9, InOrderSorts
<1>15. InOrder(new, rows) = rest
  BY <1>12, <1>13, <1>14, SortedOnce
<1> QED BY <1>3, <1>15 DEF new

\* The line above a row is right above it, whatever is dragged.
LEMMA LandsAbove ==
  ASSUME NEW S, NEW q \in Seq(S), NEW block \in Seq(S), NEW r \in S, \E i \in DOMAIN q : q[i] = r, r \notin ToSet(block),
         NEW at, at = SlotAbove(q, block, r)
  PROVE  /\ at \in Slots(q, block) /\ at \in Nat /\ at + (Len(block) + 1) <= Len(Splice(q, block, at))
         /\ \A k \in 1..Len(block) : Splice(q, block, at)[at + k] = block[k]
         /\ Splice(q, block, at)[at + (Len(block) + 1)] = r
<1> DEFINE rest == Lifted(q, block)
           new == Splice(q, block, at)
           m == Len(block)
           i == At(q, r)
<1>1. i \in DOMAIN q /\ q[i] = r
  BY AtIsPlace
<1> HIDE DEF i
<1>2. /\ Kept(q, block, i - 1) \in Nat /\ Kept(q, block, i) = Kept(q, block, i - 1) + 1
      /\ Kept(q, block, i) \in 1..Len(rest) /\ rest[Kept(q, block, i)] = r
  BY <1>1, LiftedPlace
<1>3. at = Kept(q, block, i - 1)
  BY DEF SlotAbove, i
<1>4. at \in Nat /\ at + 1 \in 1..Len(rest) /\ rest[at + 1] = r /\ Len(rest) \in Nat
  BY <1>2, <1>3, LiftedLists
<1>5. at \in Slots(q, block)
  <2> HIDE DEF rest
  <2>1. at \in 0..Len(rest)
    BY <1>4
  <2> QED BY <2>1 DEF Slots, rest
<1>6. /\ Len(new) = Len(rest) + m /\ m \in Nat
      /\ \A k \in 1..m : new[at + k] = block[k]
      /\ \A j \in (at + 1)..Len(rest) : new[j + m] = rest[j]
  BY <1>5, SplicePlaces
<1> HIDE DEF new, rest, m
<1>7. at + 1 \in (at + 1)..Len(rest) /\ (at + 1) + m = at + (m + 1) /\ at + (m + 1) <= Len(new)
  <2>1. m \in Nat /\ Len(new) = Len(rest) + m
    BY <1>6
  <2>2. at \in Nat /\ Len(rest) \in Nat /\ at + 1 <= Len(rest)
    BY <1>4
  <2>3. at + 1 \in (at + 1)..Len(rest)
    BY <2>2
  <2>4. (at + 1) + m = at + (m + 1)
    BY <2>1, <2>2
  <2>5. at + (m + 1) <= Len(new)
    BY <2>1, <2>2
  <2> QED BY <2>3, <2>4, <2>5
<1>8. new[at + (m + 1)] = r
  BY <1>4, <1>6, <1>7
<1> QED BY <1>4, <1>5, <1>6, <1>7, <1>8 DEF new, m

\* And the line below it right below it.
LEMMA LandsBelow ==
  ASSUME NEW S, NEW q \in Seq(S), NEW block \in Seq(S), NEW r \in S, \E i \in DOMAIN q : q[i] = r, r \notin ToSet(block),
         NEW at, at = SlotBelow(q, block, r) \/ at = SlotFirst(q, block, r)
  PROVE  /\ at \in Slots(q, block) /\ at \in Nat /\ at - 1 \in Nat /\ at + Len(block) <= Len(Splice(q, block, at))
         /\ Splice(q, block, at)[at] = r
         /\ \A k \in 1..Len(block) : Splice(q, block, at)[at + k] = block[k]
<1> DEFINE rest == Lifted(q, block)
           new == Splice(q, block, at)
           m == Len(block)
           i == At(q, r)
<1>1. i \in DOMAIN q /\ q[i] = r
  BY AtIsPlace
<1> HIDE DEF i
<1>2. /\ Kept(q, block, i - 1) \in Nat /\ Kept(q, block, i) = Kept(q, block, i - 1) + 1
      /\ Kept(q, block, i) \in 1..Len(rest) /\ rest[Kept(q, block, i)] = r
  BY <1>1, LiftedPlace
<1>3. at = Kept(q, block, i)
  BY <1>2 DEF SlotBelow, SlotFirst, SlotAbove, i
<1>4. at \in Nat /\ at - 1 \in Nat /\ at \in 1..Len(rest) /\ rest[at] = r /\ Len(rest) \in Nat
  <2>1. Len(rest) \in Nat
    BY LiftedLists
  <2> HIDE DEF rest
  <2> QED BY <1>2, <1>3, <2>1
<1>5. at \in Slots(q, block)
  <2> HIDE DEF rest
  <2>1. at \in 0..Len(rest)
    BY <1>4
  <2> QED BY <2>1 DEF Slots, rest
<1>6. /\ Len(new) = Len(rest) + m /\ m \in Nat
      /\ \A j \in 1..at : new[j] = rest[j]
      /\ \A k \in 1..m : new[at + k] = block[k]
  BY <1>5, SplicePlaces
<1> HIDE DEF new, rest, m
<1>7. at \in 1..at /\ at + m <= Len(new)
  BY <1>4, <1>6
<1>8. new[at] = r
  BY <1>4, <1>6, <1>7
<1> QED BY <1>4, <1>5, <1>6, <1>7, <1>8 DEF new, m

-----------------------------------------------------------------------------
(* The sheet after a drop. *)

\* ExpandGroup opens one group and closes none.
LEMMA ExpandOpens ==
  ASSUME NEW s \in Sound, NEW g
  PROVE  \A h \in DOMAIN s.group : ExpandGroup(s, g).group[h].collapse => s.group[h].collapse /\ h # g
<1>1. 0 \notin DOMAIN s.group /\ GoodGroups(s.group)
  BY SoundParts DEF GoodGroups
<1>2. CASE g = 0
  BY <1>1, <1>2 DEF ExpandGroup
<1>3. CASE g # 0
  <2> DEFINE new == [s.group EXCEPT ![g].collapse = FALSE]
  <2>1. ExpandGroup(s, g).group = new
    BY <1>3 DEF ExpandGroup, Sound, Fields
  <2>2. \A h \in DOMAIN s.group : new[h].collapse => s.group[h].collapse /\ h # g
    <3> TAKE h \in DOMAIN s.group
    <3>1. s.group[h] \in GroupRec
      BY <1>1 DEF GoodGroups
    <3>2. CASE h = g
      <4>1. new[h] = [s.group[h] EXCEPT !.collapse = FALSE]
        BY <3>2
      <4>2. new[h].collapse = FALSE
        BY <3>1, <4>1 DEF GroupRec
      <4> QED BY <4>2
    <3>3. CASE h # g
      BY <3>3
    <3> QED BY <3>2, <3>3
  <2> QED BY <2>1, <2>2
<1> QED BY <1>2, <1>3

\* What else applyOrder writes.
LEMMA AppliedRest ==
  ASSUME CueSheetAssumption, NEW s \in Sound, NEW seq, NEW parents
  PROVE  /\ \A c \in DOMAIN s.cue : ApplyOrder(s, seq, parents).cue[c].parent = parents[c]
         /\ \A g \in DOMAIN s.group : /\ ApplyOrder(s, seq, parents).group[g].up = s.group[g].up
                                      /\ ApplyOrder(s, seq, parents).group[g].collapse => s.group[g].collapse
<1> DEFINE c == [x \in DOMAIN s.cue |-> [s.cue[x] EXCEPT !.idx = (At(seq, x) - 1) * Step, !.parent = parents[x]]]
           g == [x \in DOMAIN s.group |-> [s.group[x] EXCEPT !.idx = (At(seq, x) - 1) * Step]]
<1>1. ApplyOrder(s, seq, parents).cue = c /\ ApplyOrder(s, seq, parents).group = g
  <2>1. s \in [cue : CueMaps, group : GroupMaps, anchor : Int, set : SUBSET Int]
    BY DEF Sound, Fields
  <2>2. ApplyOrder(s, seq, parents) = [s EXCEPT !.cue = c, !.group = g]
    BY DEF ApplyOrder
  <2> HIDE DEF c, g
  <2> QED BY <2>1, <2>2
<1>2. GoodCues(s.cue) /\ GoodGroups(s.group)
  BY SoundParts
<1>3. \A x \in DOMAIN s.cue : c[x].parent = parents[x]
  <2> TAKE x \in DOMAIN s.cue
  <2>1. s.cue[x] \in CueRec
    BY <1>2 DEF GoodCues
  <2> QED BY <2>1 DEF CueRec
<1>4. \A x \in DOMAIN s.group : g[x].up = s.group[x].up /\ (g[x].collapse => s.group[x].collapse)
  <2> TAKE x \in DOMAIN s.group
  <2>1. s.group[x] \in GroupRec
    BY <1>2 DEF GoodGroups
  <2> QED BY <2>1 DEF GroupRec
<1> HIDE DEF c, g
<1> QED BY <1>1, <1>3, <1>4

\* Sheets with the same tree of groups.
LEMMA SameTree ==
  ASSUME NEW s \in Sound, NEW t \in Sound, DOMAIN t.group = DOMAIN s.group,
         \A h \in DOMAIN s.group : t.group[h].up = s.group[h].up
  PROVE  \A g \in DOMAIN s.group : Above(t, g) = Above(s, g) /\ Depth(t, g) = Depth(s, g)
<1> TAKE g \in DOMAIN s.group
<1>1. IsFiniteSet(DOMAIN s.group) /\ IsFiniteSet(DOMAIN t.group)
  BY SoundParts DEF GoodGroups
<1>2. \A h \in DOMAIN s.group : Up(t, h) = Up(s, h)
  BY DEF Up
<1>3. /\ Above(s, g) \subseteq DOMAIN s.group /\ Up(s, g) \subseteq Above(s, g) /\ Closed(s, Above(s, g))
      /\ \A C : Up(s, g) \subseteq C /\ Closed(s, C) => Above(s, g) \subseteq C
  BY <1>1, AboveIsLeast
<1>4. /\ Above(t, g) \subseteq DOMAIN t.group /\ Up(t, g) \subseteq Above(t, g) /\ Closed(t, Above(t, g))
      /\ \A C : Up(t, g) \subseteq C /\ Closed(t, C) => Above(t, g) \subseteq C
  BY <1>1, AboveIsLeast
<1>5. Closed(t, Above(s, g)) /\ Closed(s, Above(t, g))
  BY <1>2, <1>3, <1>4 DEF Closed
<1>6. Above(t, g) = Above(s, g)
  BY <1>2, <1>3, <1>4, <1>5
<1> QED BY <1>6 DEF Depth

\* A sheet placed by a list of its rows is rendered in that order, too.
LEMMA PlacedItems ==
  ASSUME CueSheetAssumption, NEW t \in Sound, NEW seq, Lists(seq, Rows(t)), Placed(t, seq)
  PROVE  Items(t) = seq
<1> DEFINE Q == Ranked(t, Rows(t), DOMAIN t.group)
<1>1. \A i \in DOMAIN seq : seq[i] \in Rows(t) /\ i \in Nat /\ At(seq, seq[i]) = i
  <2> TAKE i \in DOMAIN seq
  <2>1. At(seq, seq[i]) \in DOMAIN seq /\ seq[At(seq, seq[i])] = seq[i]
    BY AtIsIndex
  <2> QED BY <2>1 DEF Lists
<1>2. ASSUME NEW i \in DOMAIN seq, NEW j \in DOMAIN seq, i < j PROVE <<seq[i], seq[j]>> \in Q
  <2>1. Index(t, seq[i]) = (i - 1) * Step /\ Index(t, seq[j]) = (j - 1) * Step
    BY <1>1 DEF Placed
  <2>2. (i - 1) * Step < (j - 1) * Step
    BY <1>1, <1>2, Stretch
  <2> QED BY <1>1, <2>1, <2>2 DEF Ranked, Precedes
<1>3. Sorts(seq, Rows(t), Q)
  BY <1>2 DEF Sorts
<1>4. GoodRows(t) /\ Rows(t) \in SUBSET Rows(t)
  BY SoundParts
<1>5. Sorts(Items(t), Rows(t), Q)
  BY <1>4, OrderedSorts DEF Items
<1>6. StrictOrder(Rows(t), Q)
  BY <1>4, PrecedesIsStrict
<1> HIDE DEF Q
<1>7. \A a, b \in Rows(t) : <<a, b>> \in Q => <<b, a>> \notin Q
  BY <1>6 DEF StrictOrder
<1> QED BY <1>3, <1>5, <1>7, SortedOnce

\* The sheet after a drop: its order, its tree, what is open, and who is in which group.
Dropped(s, t, seq, block, p) ==
  /\ t \in Sound /\ DOMAIN t.cue = DOMAIN s.cue /\ DOMAIN t.group = DOMAIN s.group
  /\ LoadSequence(t) = seq /\ Items(t) = seq /\ Lists(seq, Rows(s))
  /\ \A c \in DOMAIN s.cue : t.cue[c].parent = IF c \in ToSet(block) THEN p ELSE s.cue[c].parent
  /\ \A h \in DOMAIN s.group : /\ Above(t, h) = Above(s, h) /\ Depth(t, h) = Depth(s, h)
                               /\ t.group[h].collapse => s.group[h].collapse /\ h # p

\* SheetDrop of cues writes the spliced sequence.
LEMMA DropsAre ==
  ASSUME CueSheetAssumption, NEW s \in Sound, NEW block \in Seq(Rows(s)), Once(block),
         NEW at \in Slots(LoadSequence(s), block), NEW p \in {0} \cup DOMAIN s.group,
         NEW t, t = DropCues(s, block, at, p)
  PROVE  Dropped(s, t, Splice(LoadSequence(s), block, at), block, p)
<1> DEFINE e == ExpandGroup(s, p)
           q == Splice(LoadSequence(s), block, at)
           parents == Parented(s, ToSet(block), p)
<1>1. /\ e \in Sound /\ e.cue = s.cue /\ DOMAIN e.group = DOMAIN s.group
      /\ \A h \in DOMAIN s.group : e.group[h].up = s.group[h].up
  BY ExpandSound
<1>2. \A h \in DOMAIN s.group : e.group[h].collapse => s.group[h].collapse /\ h # p
  BY ExpandOpens
<1>3. t = ApplyOrder(e, q, parents)
  BY DEF DropCues
<1>4. t \in Sound
  BY DropsSound
<1>5. Lists(q, Rows(s))
  <2>1. Lists(LoadSequence(s), Rows(s))
    BY SequenceCovers
  <2> QED BY <2>1, SpliceOnce
<1>6. \A c \in DOMAIN s.cue : parents[c] = IF c \in ToSet(block) THEN p ELSE s.cue[c].parent
  BY DEF Parented
<1> HIDE DEF e, q, parents
<1>7. DOMAIN t.cue = DOMAIN s.cue /\ DOMAIN t.group = DOMAIN s.group /\ Placed(t, q)
  BY <1>1, <1>3, AppliedFields
<1>8. /\ \A c \in DOMAIN s.cue : t.cue[c].parent = parents[c]
      /\ \A h \in DOMAIN s.group : t.group[h].up = s.group[h].up /\ (t.group[h].collapse => e.group[h].collapse)
  BY <1>1, <1>3, AppliedRest
<1>9. Lists(q, Rows(t))
  BY <1>5, <1>7 DEF Rows
<1>10. LoadSequence(t) = q /\ Items(t) = q
  BY <1>4, <1>7, <1>9, PlacedSorts, PlacedItems
<1>11. \A h \in DOMAIN s.group : Above(t, h) = Above(s, h) /\ Depth(t, h) = Depth(s, h)
  BY <1>4, <1>7, <1>8, SameTree
<1>12. \A h \in DOMAIN s.group : t.group[h].collapse => s.group[h].collapse /\ h # p
  BY <1>2, <1>8
<1>13. \A c \in DOMAIN s.cue : t.cue[c].parent = IF c \in ToSet(block) THEN p ELSE s.cue[c].parent
  BY <1>6, <1>8
<1> QED BY <1>4, <1>5, <1>7, <1>10, <1>11, <1>12, <1>13 DEF Dropped, q

\* No group goes out of sight by a drop, and the group the cues join is open.
LEMMA DropKeepsView ==
  ASSUME NEW s \in Sound, NEW t, NEW seq, NEW block, NEW p, Dropped(s, t, seq, block, p)
  PROVE  /\ \A h \in DOMAIN s.group : ~Hidden(s, h) => ~Hidden(t, h)
         /\ p = 0 \/ (p \in DOMAIN s.group /\ ~Hidden(s, p)) => Seen(t, p)
<1>1. IsFiniteSet(DOMAIN s.group)
  BY SoundParts DEF GoodGroups
<1>2. \A h \in DOMAIN s.group : Above(s, h) \subseteq DOMAIN s.group
  BY <1>1, AboveIsLeast
<1>3. \A h \in DOMAIN s.group : ~Hidden(s, h) => ~Hidden(t, h)
  BY <1>2 DEF Hidden, Dropped
<1>4. p \in DOMAIN s.group => ~t.group[p].collapse
  BY DEF Dropped
<1> QED BY <1>3, <1>4 DEF Seen, Dropped

\* The items from a place on, each of which is one more row of the page.
Appears(t, off, part, deep) ==
  /\ off \in Nat /\ part \in Seq(Rows(t)) /\ off + Len(part) <= Len(Items(t))
  /\ \A k \in 1..Len(part) : Items(t)[off + k] = part[k]
  /\ \E p : Rendered(t, p) /\ Grow(t, p, off, Len(part), deep)

Lies(t, part, deep) ==
  /\ Together(Items(t), part) /\ Together(RowsOf(FlattenSheet(t)), part) /\ Together(SelectUnits(t), part)
  /\ \A k \in 1..Len(part) : /\ part[k] \in Shown(t)
                             /\ DepthOf(FlattenSheet(t), part[k]) = deep[k]

\* They are next to each other in the sheet and on the page.
LEMMA AppearTogether ==
  ASSUME CueSheetAssumption, NEW t \in Sound, NEW off, NEW part, NEW deep, Appears(t, off, part, deep)
  PROVE  Lies(t, part, deep)
<1> DEFINE q == Items(t)
           page == FlattenSheet(t)
           m == Len(part)
           units == RowsOf(page)
<1>1. off \in Nat /\ part \in Seq(Rows(t)) /\ off + m <= Len(q) /\ \A k \in 1..m : q[off + k] = part[k]
  BY DEF Appears
<1>2. q \in Seq(Rows(t)) /\ m \in Nat /\ DOMAIN part = 1..m
  BY <1>1, SequenceCovers DEF Lists
<1>3. PICK p : Rendered(t, p) /\ Grow(t, p, off, m, deep)
  BY DEF Appears
<1> DEFINE l == Len(p[off].rows)
<1>4. /\ l \in Nat /\ page \in Lines(t) /\ l + m <= Len(page)
      /\ \A k \in 1..m : l + k \in DOMAIN page /\ page[l + k].row = part[k] /\ page[l + k].depth = deep[k]
  <2>1. off + m <= Len(Items(t))
    BY <1>1
  <2> HIDE DEF m
  <2>2. Landed(t, p, off, m, deep)
    BY <1>1, <1>2, <1>3, <2>1, RunShows
  <2> QED BY <1>1, <2>2 DEF Landed
<1> HIDE DEF l, page, q, m
<1>5. units \in Seq(Rows(t)) /\ Len(units) = Len(page) /\ \A i \in DOMAIN page : units[i] = page[i].row
  <2> DEFINE E == [row : Rows(t), depth : Nat]
  <2>1. \A x \in E : x.row \in Rows(t)
    OBVIOUS
  <2> HIDE DEF E
  <2>2. page \in Seq(E)
    BY <1>4 DEF Lines, E
  <2>3. units = [i \in DOMAIN page |-> page[i].row]
    BY DEF RowsOf
  <2>4. Len(page) \in Nat /\ DOMAIN page = 1..Len(page) /\ \A i \in DOMAIN page : page[i] \in E
    BY <2>2
  <2>5. units \in [1..Len(page) -> Rows(t)]
    BY <2>1, <2>3, <2>4
  <2> QED BY <2>3, <2>4, <2>5
<1> HIDE DEF units
<1>6. \A k \in 1..m : units[l + k] = part[k]
  BY <1>4, <1>5
<1>7. Together(q, part)
  BY <1>1, <1>2, NextToEachOther DEF m
<1>8. Together(units, part)
  <2>1. l + Len(part) <= Len(units)
    BY <1>4, <1>5 DEF m
  <2> QED BY <1>1, <1>4, <1>5, <1>6, <2>1, NextToEachOther DEF m
<1>9. SelectUnits(t) = units
  BY DEF SelectUnits, units, page
<1>10. ASSUME NEW k \in 1..m PROVE part[k] \in Shown(t) /\ DepthOf(page, part[k]) = deep[k]
  <2>1. l + k \in DOMAIN page /\ page[l + k].row = part[k] /\ page[l + k].depth = deep[k]
    BY <1>4
  <2> DEFINE a == l + k
  <2> HIDE DEF a
  <2>2. a \in DOMAIN page /\ page[a].row = part[k] /\ page[a].depth = deep[k]
    BY <2>1 DEF a
  <2>3. DepthOf(page, page[a].row) = page[a].depth
    BY <2>2, DepthIsThere DEF page
  <2>4. part[k] \in Shown(t)
    <3>1. a \in DOMAIN units /\ units[a] = part[k]
      <4>1. DOMAIN units = DOMAIN page
        BY DEF units, RowsOf
      <4> QED BY <1>5, <2>2, <4>1
    <3> QED BY <1>9, <3>1 DEF Shown, ToSet
  <2> QED BY <2>2, <2>3, <2>4
<1> QED BY <1>7, <1>8, <1>9, <1>10 DEF Lies, q, page, units, m

\* Items from a place on, and cues of one group.
Follow(t, off, part) == \A k \in 1..Len(part) : Items(t)[off + k] = part[k]
MembersOf(t, part, g) == \A k \in 1..Len(part) : part[k] \in DOMAIN t.cue /\ t.cue[part[k]].parent = g
\* They appear, equally deep.
Level(t, off, part) == \E deep, d : Appears(t, off, part, deep) /\ \A k \in 1..Len(part) : deep[k] = d
\* They appear above r, at the top level.
Loose(t, off, block, r) ==
  \E deep : Appears(t, off, Append(block, r), deep) /\ \A k \in 1..Len(block) : deep[k] = 0

\* Members of one group in view that come in a row, as they appear.
LEMMA MembersAppear ==
  ASSUME CueSheetAssumption, NEW t \in Sound, NEW off \in Nat, NEW part \in Seq(Rows(t)),
         off + Len(part) <= Len(Items(t)), Follow(t, off, part), NEW g, Seen(t, g), MembersOf(t, part, g)
  PROVE  Level(t, off, part)
<1> USE DEF Follow, MembersOf
<1> DEFINE m == Len(part)
<1>1. PICK p : Rendered(t, p)
  BY PagesInTurn
<1> DEFINE d == Deep(t, p[off].open, g)
           deep == [k \in 1..m |-> d]
<1>2. m \in Nat /\ off + m <= Len(Items(t))
  OBVIOUS
<1>3. InGroup(t, off, m, g)
  BY DEF InGroup
<1>4. \A k \in 1..m : deep[k] = Deep(t, p[off].open, g)
  OBVIOUS
<1> HIDE DEF deep
<1>5. Grow(t, p, off, m, deep)
  <2> HIDE DEF m
  <2> QED BY <1>1, <1>2, <1>3, <1>4, MembersShow
<1>6. Appears(t, off, part, deep)
  BY <1>1, <1>5 DEF Appears
<1>7. \A k \in 1..Len(part) : deep[k] = d
  BY DEF deep
<1> QED BY <1>6, <1>7 DEF Level

\* Cues of no group above a header in view: they are at the top level.
LEMMA LooseAppear ==
  ASSUME CueSheetAssumption, NEW t \in Sound, NEW off \in Nat, NEW block \in Seq(Rows(t)), NEW r \in DOMAIN t.group, ~Hidden(t, r),
         off + (Len(block) + 1) <= Len(Items(t)), Follow(t, off, block),
         Items(t)[off + (Len(block) + 1)] = r, MembersOf(t, block, 0)
  PROVE  Loose(t, off, block, r)
<1> USE DEF Follow, MembersOf
<1> DEFINE m == Len(block)
           part == Append(block, r)
           n == Len(Items(t))
<1>1. PICK p : Rendered(t, p)
  BY PagesInTurn
<1> DEFINE d == Deep(t, p[off].open, 0)
           deep == [k \in 1..(m + 1) |-> IF k <= m THEN 0 ELSE Depth(t, r)]
<1>2. m \in Nat /\ off + m <= Len(Items(t)) /\ n \in Nat /\ off + (m + 1) \in 1..n /\ off \in 0..n
      /\ (off + (m + 1)) - 1 = off + m /\ off + m \in 0..n
  <2>1. n \in Nat /\ m \in Nat
    BY SequenceCovers DEF Lists
  <2> HIDE DEF n, m
  <2>2. off + (m + 1) <= n
    BY DEF n, m
  <2>3. off + m <= n /\ off + (m + 1) \in 1..n /\ off \in 0..n /\ (off + (m + 1)) - 1 = off + m /\ off + m \in 0..n
    BY <2>1, <2>2
  <2> QED BY <2>1, <2>3 DEF n
<1>3. InGroup(t, off, m, 0)
  BY DEF InGroup
<1>4. Grow(t, p, off, m, [k \in 1..m |-> d])
  <2> DEFINE all == [k \in 1..m |-> d]
  <2>1. Seen(t, 0)
    BY DEF Seen
  <2>2. \A k \in 1..m : all[k] = Deep(t, p[off].open, 0)
    OBVIOUS
  <2> HIDE DEF m, all
  <2>3. Grow(t, p, off, m, all)
    BY <1>1, <1>2, <1>3, <2>1, <2>2, MembersShow
  <2> QED BY <2>3 DEF all
<1>5. d = 0
  <2> DEFINE o == p[off].open
  <2>1. o \in Seq(Rows(t))
    BY <1>1, <1>2, PagesInView DEF InView, Pages, Spans
  <2>2. 0 \notin Rows(t)
    <3>1. GoodRows(t)
      BY SoundParts
    <3> QED BY <3>1 DEF GoodRows, GoodCues, GoodGroups, CueSheetAssumption, Rows
  <2>3. 0 \notin ToSet(o)
    BY <2>1, <2>2 DEF ToSet
  <2>4. OpenFor(t, o, 0) = o
    BY <2>3 DEF OpenFor
  <2>5. o # <<>> => 0 # Last(o)
    BY <2>1, <2>2 DEF Last
  <2> QED BY <2>4, <2>5 DEF Deep
<1> HIDE DEF d
<1>6. p[off + (m + 1)].rows = Append(p[off + m].rows, [row |-> r, depth |-> Depth(t, r)])
  <2> DEFINE i == off + (m + 1)
             page == p[off + m]
  <2>1. page \in Pages(t)
    BY <1>1, <1>2, PagesInView DEF InView
  <2>2. i \in 1..n /\ i - 1 = off + m /\ Items(t)[i] = r
    BY <1>2
  <2> HIDE DEF page, i
  <2>3. p[i] = Render(t, page, r)
    BY <1>1, <2>2 DEF Rendered, page
  <2>4. Render(t, page, r).rows = Append(page.rows, [row |-> r, depth |-> Depth(t, r)])
    BY <2>1, HeaderRenders
  <2> QED BY <2>3, <2>4 DEF page, i
<1>7. r \in Rows(t)
  BY DEF Rows
<1>8. part \in Seq(Rows(t)) /\ Len(part) = m + 1 /\ part[m + 1] = r /\ \A k \in 1..m : part[k] = block[k]
  BY <1>7
<1> HIDE DEF part, m, n
<1>9. \A k \in 1..(m + 1) : /\ p[off + k].rows = Append(p[(off + k) - 1].rows, [row |-> part[k], depth |-> deep[k]])
                            /\ Items(t)[off + k] = part[k]
  <2> TAKE k \in 1..(m + 1)
  <2>1. CASE k \in 1..m
    <3>1. deep[k] = 0 /\ part[k] = block[k] /\ Items(t)[off + k] = block[k]
      BY <1>2, <1>8, <2>1 DEF m
    <3> HIDE DEF deep
    <3>2. p[off + k].rows = Append(p[(off + k) - 1].rows, [row |-> Items(t)[off + k], depth |-> d])
      BY <1>4, <2>1 DEF Grow
    <3> QED BY <1>5, <2>1, <3>1, <3>2
  <2>2. CASE k = m + 1
    <3>1. deep[k] = Depth(t, r) /\ part[k] = r /\ Items(t)[off + k] = r
      BY <1>2, <1>8, <2>2 DEF m
    <3> HIDE DEF deep
    <3> QED BY <1>2, <1>6, <2>2, <3>1
  <2> QED BY <1>2, <2>1, <2>2
<1>10. \A k \in 1..m : deep[k] = 0
  BY <1>2
<1> HIDE DEF deep
<1>11. off + Len(part) <= Len(Items(t))
  BY <1>2, <1>8 DEF n
<1>12. Appears(t, off, part, deep)
  <2>1. Grow(t, p, off, m + 1, deep)
    BY <1>9 DEF Grow
  <2>2. Grow(t, p, off, Len(part), deep)
    BY <1>8, <2>1
  <2>3. \A k \in 1..Len(part) : Items(t)[off + k] = part[k]
    BY <1>8, <1>9
  <2> QED BY <1>1, <1>8, <1>11, <2>2, <2>3 DEF Appears
<1> QED BY <1>10, <1>12 DEF Loose, part, m

\* The dragged cues and the row at whose band they are dropped, as they come.
Meets(q, block, r, at, off, part) ==
  \/ at = SlotAbove(q, block, r) /\ off = at /\ part = Append(block, r)
  \/ at = SlotBelow(q, block, r) /\ off = at - 1 /\ part = <<r>> \o block

Met(S, q, block, r, at, off, part) ==
  /\ at \in Slots(q, block) /\ off \in Nat /\ part \in Seq(S) /\ off + Len(part) <= Len(Splice(q, block, at))
  /\ \A k \in 1..Len(part) : Splice(q, block, at)[off + k] = part[k] /\ part[k] \in ToSet(block) \cup {r}
  /\ \A c \in ToSet(block) \cup {r} : \E k \in 1..Len(part) : part[k] = c

\* Two sequences, one after the other.
LEMMA Joined ==
  ASSUME NEW S, NEW a \in Seq(S), NEW b \in Seq(S)
  PROVE  /\ a \o b \in Seq(S) /\ Len(a \o b) = Len(a) + Len(b)
         /\ \A j \in 1..Len(a) : (a \o b)[j] = a[j]
         /\ \A k \in 1..Len(b) : (a \o b)[k + Len(a)] = b[k]
<1> DEFINE ab == a \o b
<1>1. ab \in Seq(S)
  OBVIOUS
<1>2. Len(ab) = Len(a) + Len(b)
  OBVIOUS
<1>3. \A j \in 1..Len(a) : ab[j] = a[j]
  OBVIOUS
<1>4. \A k \in 1..Len(b) : ab[k + Len(a)] = b[k]
  OBVIOUS
<1> QED BY <1>1, <1>2, <1>3, <1>4

\* They meet at the line.
LEMMA MeetThere ==
  ASSUME NEW S, NEW q, Lists(q, S), NEW block \in Seq(S), NEW r \in S, r \notin ToSet(block),
         NEW at, NEW off, NEW part, Meets(q, block, r, at, off, part)
  PROVE  Met(S, q, block, r, at, off, part)
<1> USE DEF Met
<1> DEFINE new == Splice(q, block, at)
           m == Len(block)
<1>1. q \in Seq(S) /\ \E i \in DOMAIN q : q[i] = r
  BY DEF Lists
<1>2. m \in Nat /\ DOMAIN block = 1..m /\ \A k \in 1..m : block[k] \in ToSet(block)
  BY DEF ToSet
<1>3. \A c \in ToSet(block) : \E k \in 1..m : block[k] = c
  BY <1>2 DEF ToSet
<1>4. CASE at = SlotAbove(q, block, r) /\ off = at /\ part = Append(block, r)
  <2>1. /\ at \in Slots(q, block) /\ at \in Nat /\ at + (m + 1) <= Len(new)
        /\ \A k \in 1..m : new[at + k] = block[k]
        /\ new[at + (m + 1)] = r
    BY <1>1, <1>4, LandsAbove
  <2>2. part \in Seq(S) /\ Len(part) = m + 1 /\ part[m + 1] = r /\ \A k \in 1..m : part[k] = block[k]
    BY <1>4
  <2> HIDE DEF new, m
  <2>3. \A k \in 1..(m + 1) : new[off + k] = part[k] /\ part[k] \in ToSet(block) \cup {r}
    <3> TAKE k \in 1..(m + 1)
    <3>1. k \in 1..m \/ k = m + 1
      BY <1>2
    <3> QED BY <1>2, <1>4, <2>1, <2>2, <3>1
  <2>4. \A c \in ToSet(block) \cup {r} : \E k \in 1..(m + 1) : part[k] = c
    <3> TAKE c \in ToSet(block) \cup {r}
    <3>1. CASE c = r
      <4>1. m + 1 \in 1..(m + 1)
        BY <1>2
      <4> QED BY <2>2, <3>1, <4>1
    <3>2. CASE c \in ToSet(block)
      <4>1. PICK k \in 1..m : block[k] = c
        BY <1>3, <3>2
      <4>2. k \in 1..(m + 1)
        BY <1>2
      <4> QED BY <2>2, <4>1, <4>2
    <3> QED BY <3>1, <3>2
  <2> QED BY <1>4, <2>1, <2>2, <2>3, <2>4 DEF new
<1>5. CASE at = SlotBelow(q, block, r) /\ off = at - 1 /\ part = <<r>> \o block
  <2>1. /\ at \in Slots(q, block) /\ at \in Nat /\ at - 1 \in Nat /\ at + m <= Len(new)
        /\ new[at] = r
        /\ \A k \in 1..m : new[at + k] = block[k]
    BY <1>1, <1>5, LandsBelow
  <2>2. part \in Seq(S) /\ Len(part) = m + 1 /\ part[1] = r /\ \A k \in 1..m : part[k + 1] = block[k]
    <3>1. <<r>> \in Seq(S) /\ Len(<<r>>) = 1 /\ <<r>>[1] = r
      OBVIOUS
    <3> DEFINE one == <<r>>
    <3> HIDE DEF one
    <3>2. one \in Seq(S) /\ Len(one) = 1 /\ one[1] = r /\ part = one \o block /\ 1 \in Nat /\ 1 \in 1..1
      BY <1>5, <3>1 DEF one
    <3> DEFINE ab == one \o block
    <3>3. /\ ab \in Seq(S) /\ Len(ab) = Len(one) + Len(block)
          /\ \A j \in 1..Len(one) : ab[j] = one[j]
          /\ \A k \in 1..Len(block) : ab[k + Len(one)] = block[k]
      <4>1. one \in Seq(S)
        BY <3>2
      <4> QED BY <4>1, Joined
    <3> HIDE DEF ab
    <3>4. part = ab
      BY <3>2 DEF ab
    <3> QED BY <1>2, <3>2, <3>3, <3>4
  <2> HIDE DEF new, m
  <2>3. \A k \in 1..(m + 1) : new[off + k] = part[k] /\ part[k] \in ToSet(block) \cup {r}
    <3> TAKE k \in 1..(m + 1)
    <3>1. CASE k = 1
      <4>1. off + 1 = at
        BY <1>5, <2>1
      <4> QED BY <2>1, <2>2, <3>1, <4>1
    <3>2. CASE k # 1
      <4> DEFINE j == k - 1
      <4>1. j \in 1..m /\ j + 1 = k /\ off + k = at + j
        BY <1>2, <1>5, <2>1, <3>2
      <4> HIDE DEF j
      <4>2. new[at + j] = block[j] /\ part[j + 1] = block[j] /\ block[j] \in ToSet(block)
        BY <1>2, <2>1, <2>2, <4>1
      <4> QED BY <4>1, <4>2
    <3> QED BY <3>1, <3>2
  <2>4. \A c \in ToSet(block) \cup {r} : \E k \in 1..(m + 1) : part[k] = c
    <3> TAKE c \in ToSet(block) \cup {r}
    <3>1. CASE c = r
      <4>1. 1 \in 1..(m + 1)
        BY <1>2
      <4> QED BY <2>2, <3>1, <4>1
    <3>2. CASE c \in ToSet(block)
      <4>1. PICK k \in 1..m : block[k] = c
        BY <1>3, <3>2
      <4>2. k + 1 \in 1..(m + 1)
        BY <1>2
      <4> QED BY <2>2, <4>1, <4>2
    <3> QED BY <3>1, <3>2
  <2>5. off + (m + 1) <= Len(new)
    <3>1. Len(new) \in Nat
      BY <1>1, <2>1, SplicePlaces DEF new
    <3> QED BY <1>2, <1>5, <2>1, <3>1
  <2> QED BY <1>5, <2>1, <2>2, <2>3, <2>4, <2>5 DEF new
<1> QED BY <1>4, <1>5 DEF Meets

\* What a drop shows: the dragged cues next to the row, as deep as that row.
ShownThere(t, block, r, part) ==
  /\ Together(LoadSequence(t), part) /\ Together(RowsOf(FlattenSheet(t)), part)
  /\ \A c \in ToSet(block) : DepthOf(FlattenSheet(t), c) = IF IsCue(t, r) THEN DepthOf(FlattenSheet(t), r) ELSE 0

\* At the band of a cue that is not a stray, they join its group and are as deep.
LEMMA DropsAtCue ==
  ASSUME CueSheetAssumption, NEW s \in Sound, NEW block \in Seq(Rows(s)), Once(block), ToSet(block) \subseteq DOMAIN s.cue,
         NEW r \in DOMAIN s.cue \ ToSet(block), NEW p, p = s.cue[r].parent, p \in DOMAIN s.group => ~Hidden(s, p),
         NEW at, NEW off, NEW part, Meets(LoadSequence(s), block, r, at, off, part),
         NEW t, t = DropCues(s, block, at, p)
  PROVE  /\ ShownThere(t, block, r, part)
         /\ Dropped(s, t, Splice(LoadSequence(s), block, at), block, p)
<1> DEFINE seq == LoadSequence(s)
           new == Splice(seq, block, at)
           m == Len(part)
<1>1. Lists(seq, Rows(s)) /\ r \in Rows(s) /\ r \notin ToSet(block)
  BY SequenceCovers DEF Rows
<1> HIDE DEF seq
<1>2. /\ at \in Slots(seq, block) /\ off \in Nat /\ part \in Seq(Rows(s)) /\ off + m <= Len(new)
      /\ \A k \in 1..m : new[off + k] = part[k] /\ part[k] \in ToSet(block) \cup {r}
      /\ \A c \in ToSet(block) \cup {r} : \E k \in 1..m : part[k] = c
  <2>1. Meets(seq, block, r, at, off, part)
    BY DEF seq
  <2>2. Met(Rows(s), seq, block, r, at, off, part)
    BY <1>1, <2>1, MeetThere
  <2> QED BY <2>2 DEF Met
<1>3. p \in {0} \cup DOMAIN s.group
  BY SoundParts DEF Members
<1>4. Dropped(s, t, new, block, p)
  BY <1>2, <1>3, DropsAre DEF seq
<1> HIDE DEF new
<1>5. Seen(t, p)
  BY <1>3, <1>4, DropKeepsView
<1>6. t \in Sound /\ Items(t) = new /\ LoadSequence(t) = new /\ Rows(t) = Rows(s) /\ DOMAIN t.cue = DOMAIN s.cue
  BY <1>4 DEF Dropped, Rows
<1>7. \A c \in ToSet(block) \cup {r} : c \in DOMAIN t.cue /\ t.cue[c].parent = p
  BY <1>4 DEF Dropped
<1>8. \A k \in 1..m : part[k] \in DOMAIN t.cue /\ t.cue[part[k]].parent = p
  BY <1>2, <1>7
<1>9. part \in Seq(Rows(t)) /\ off + Len(part) <= Len(Items(t)) /\ Follow(t, off, part) /\ MembersOf(t, part, p)
  BY <1>2, <1>6, <1>8 DEF Follow, MembersOf
<1>10. Level(t, off, part)
  BY <1>2, <1>5, <1>6, <1>9, MembersAppear
<1>11. PICK deep, d : Appears(t, off, part, deep) /\ \A k \in 1..m : deep[k] = d
  BY <1>10 DEF Level
<1>12. Lies(t, part, deep)
  BY <1>6, <1>11, AppearTogether
<1>13. /\ Together(Items(t), part) /\ Together(RowsOf(FlattenSheet(t)), part)
       /\ \A k \in 1..m : DepthOf(FlattenSheet(t), part[k]) = deep[k]
  BY <1>12 DEF Lies
<1> HIDE DEF m
<1>14. \A c \in ToSet(block) \cup {r} : DepthOf(FlattenSheet(t), c) = d
  BY <1>2, <1>11, <1>13
<1>15. IsCue(t, r)
  BY <1>6 DEF IsCue
<1> QED BY <1>4, <1>6, <1>13, <1>14, <1>15 DEF ShownThere, new, seq

\* Above a header they are in no group, at the top level.
LEMMA DropsAtHeader ==
  ASSUME CueSheetAssumption, NEW s \in Sound, NEW block \in Seq(Rows(s)), Once(block), ToSet(block) \subseteq DOMAIN s.cue,
         NEW r \in DOMAIN s.group, ~Hidden(s, r), NEW at, at = SlotAbove(LoadSequence(s), block, r),
         NEW part, part = Append(block, r), NEW t, t = DropCues(s, block, at, 0)
  PROVE  /\ ShownThere(t, block, r, part)
         /\ Dropped(s, t, Splice(LoadSequence(s), block, at), block, 0)
<1> DEFINE seq == LoadSequence(s)
           new == Splice(seq, block, at)
           m == Len(block)
<1>1. Lists(seq, Rows(s)) /\ r \in Rows(s) /\ seq \in Seq(Rows(s)) /\ \E i \in DOMAIN seq : seq[i] = r
  BY SequenceCovers DEF Rows, Lists
<1>2. r \notin DOMAIN s.cue /\ r \notin ToSet(block)
  <2>1. GoodRows(s)
    BY SoundParts
  <2> QED BY <2>1, RowsAreTwoKinds
<1> HIDE DEF seq
<1>3. /\ at \in Slots(seq, block) /\ at \in Nat /\ at + (m + 1) <= Len(new)
      /\ \A k \in 1..m : new[at + k] = block[k]
      /\ new[at + (m + 1)] = r
  BY <1>1, <1>2, LandsAbove DEF seq
<1>4. Dropped(s, t, new, block, 0)
  BY <1>3, DropsAre DEF seq
<1> HIDE DEF new
<1>5. ~Hidden(t, r)
  BY <1>4, DropKeepsView
<1>6. t \in Sound /\ Items(t) = new /\ LoadSequence(t) = new /\ Rows(t) = Rows(s) /\ DOMAIN t.cue = DOMAIN s.cue /\ DOMAIN t.group = DOMAIN s.group
  BY <1>4 DEF Dropped, Rows
<1>7. m \in Nat /\ \A k \in 1..m : block[k] \in ToSet(block)
  BY DEF ToSet
<1>8. \A k \in 1..m : block[k] \in DOMAIN t.cue /\ t.cue[block[k]].parent = 0
  BY <1>4, <1>7 DEF Dropped
<1>9. Loose(t, at, block, r)
  <2>1. block \in Seq(Rows(t)) /\ r \in DOMAIN t.group /\ at \in Nat
    BY <1>3, <1>6
  <2>2. /\ at + (Len(block) + 1) <= Len(Items(t)) /\ Follow(t, at, block)
        /\ Items(t)[at + (Len(block) + 1)] = r /\ MembersOf(t, block, 0)
    BY <1>3, <1>6, <1>8 DEF Follow, MembersOf
  <2> QED BY <1>5, <1>6, <2>1, <2>2, LooseAppear
<1>10. PICK deep : Appears(t, at, part, deep) /\ \A k \in 1..m : deep[k] = 0
  BY <1>9 DEF Loose
<1>11. /\ Together(Items(t), part) /\ Together(RowsOf(FlattenSheet(t)), part)
       /\ \A k \in 1..Len(part) : DepthOf(FlattenSheet(t), part[k]) = deep[k]
  <2>1. Lies(t, part, deep)
    BY <1>6, <1>10, AppearTogether
  <2> QED BY <2>1 DEF Lies
<1>12. Len(part) = m + 1 /\ \A k \in 1..m : part[k] = block[k]
  BY <1>1
<1> HIDE DEF m
<1>13. \A c \in ToSet(block) : DepthOf(FlattenSheet(t), c) = 0
  <2> TAKE c \in ToSet(block)
  <2>1. PICK k \in 1..m : block[k] = c
    BY DEF ToSet, m
  <2>2. k \in 1..Len(part) /\ part[k] = c /\ deep[k] = 0
    BY <1>7, <1>10, <1>12, <2>1 DEF m
  <2> QED BY <1>11, <2>2
<1>14. ~IsCue(t, r)
  BY <1>2, <1>6 DEF IsCue
<1> QED BY <1>4, <1>6, <1>11, <1>13, <1>14 DEF ShownThere, new, seq

-----------------------------------------------------------------------------
(* Drops on the page. *)

\* The headers the page shows are in no closed group.
LEMMA ShownInView ==
  ASSUME CueSheetAssumption, NEW s \in Sound, NEW g \in Shown(s), g \in DOMAIN s.group
  PROVE  ~Hidden(s, g)
<1> DEFINE n == Len(Items(s))
           page == FlattenSheet(s)
<1>1. PICK p : Rendered(s, p)
  BY PagesInTurn
<1>2. n \in Nat /\ n \in 0..n
  <2>1. n \in Nat
    BY SequenceCovers DEF Lists
  <2> QED BY <2>1
<1>3. p[n] \in InView(s) /\ page = p[n].rows
  <2>1. p[n] \in InView(s)
    BY <1>1, <1>2, PagesInView
  <2> QED BY <1>1, <2>1 DEF Rendered
<1> HIDE DEF n, page
<1>4. \A i \in DOMAIN page : page[i].row \in DOMAIN s.group => ~Hidden(s, page[i].row)
  BY <1>3 DEF InView
<1>5. PICK i \in DOMAIN page : page[i].row = g
  <2>1. SelectUnits(s) = [i \in DOMAIN page |-> page[i].row]
    BY DEF SelectUnits, RowsOf, page
  <2>2. g \in ToSet(SelectUnits(s))
    BY DEF Shown
  <2> QED BY <2>1, <2>2 DEF ToSet
<1> QED BY <1>4, <1>5

\* The cues that are dragged, in the order of the page.
LEMMA ShownBlock ==
  ASSUME CueSheetAssumption, NEW s \in Sound, NEW cues, cues \subseteq Shown(s),
         NEW block, block = InOrder(SelectUnits(s), cues)
  PROVE  block \in Seq(Rows(s)) /\ Once(block) /\ ToSet(block) = cues
<1> DEFINE q == SelectUnits(s)
           n == Cardinality(Places(q, cues))
<1>1. q \in Seq(Rows(s)) /\ \A i, j \in DOMAIN q : q[i] = q[j] => i = j
  BY UnitsAreRows
<1>2. \A c \in cues : \E i \in DOMAIN q : q[i] = c
  BY DEF Shown, ToSet
<1> HIDE DEF q
<1>3. /\ n \in Nat /\ block \in [1..n -> Rows(s) \cap cues]
      /\ \A i \in Places(q, cues) : \E k \in 1..n : block[k] = q[i]
      /\ \A k, l \in DOMAIN block : block[k] = block[l] => k = l
  BY <1>1, InOrderLists DEF q
<1> HIDE DEF n
<1>4. \A c \in cues : \E k \in 1..n : block[k] = c
  <2> TAKE c \in cues
  <2>1. PICK i \in DOMAIN q : q[i] = c
    BY <1>2
  <2>2. i \in Places(q, cues)
    BY <2>1 DEF Places
  <2> QED BY <1>3, <2>1, <2>2
<1>5. DOMAIN block = 1..n /\ \A k \in 1..n : block[k] \in cues /\ block[k] \in Rows(s)
  BY <1>3
<1>6. block \in Seq(Rows(s))
  BY <1>3, <1>5
<1> QED BY <1>3, <1>4, <1>5, <1>6 DEF Once, ToSet

\* The line they are dropped at, and the rows that meet there.
Lined(s, block, r, at, off, part) ==
  IF r \in DOMAIN s.cue THEN Meets(LoadSequence(s), block, r, at, off, part)
  ELSE at = SlotAbove(LoadSequence(s), block, r) /\ part = Append(block, r)

\* Cues of the page are dragged to a band of a row of it that is no stray.
BandOf(s, r) == IF IsCue(s, r) THEN s.cue[r].parent ELSE 0
Drawn(s, cues, r, block, at, off, part) ==
  /\ cues \subseteq Shown(s) /\ cues \subseteq DOMAIN s.cue /\ block = InOrder(SelectUnits(s), cues)
  /\ r \in Shown(s) /\ r \notin cues /\ ~Stray(s, r) /\ Lined(s, block, r, at, off, part)
OthersStay(s, t, cues) == InOrder(LoadSequence(t), Rows(s) \ cues) = InOrder(LoadSequence(s), Rows(s) \ cues)

\* A drop at a band of the page lands there, and the other rows keep their order.
LEMMA DropAtBand ==
  ASSUME CueSheetAssumption, NEW s \in Sound, NEW cues, NEW r, NEW block, NEW at, NEW off, NEW part,
         Drawn(s, cues, r, block, at, off, part), NEW t, t = DropCues(s, block, at, BandOf(s, r))
  PROVE  ToSet(block) = cues /\ ShownThere(t, block, r, part) /\ OthersStay(s, t, cues)
<1> DEFINE p == BandOf(s, r)
<1>0. /\ cues \subseteq Shown(s) /\ cues \subseteq DOMAIN s.cue /\ block = InOrder(SelectUnits(s), cues)
      /\ r \in Shown(s) /\ r \notin cues /\ ~Stray(s, r) /\ Lined(s, block, r, at, off, part)
      /\ p = IF IsCue(s, r) THEN s.cue[r].parent ELSE 0
      /\ t = DropCues(s, block, at, p)
  BY DEF Drawn, BandOf
<1> HIDE DEF p
<1> DEFINE seq == LoadSequence(s)
           rest == Rows(s) \ cues
<1>1. block \in Seq(Rows(s)) /\ Once(block) /\ ToSet(block) = cues
  BY <1>0, ShownBlock
<1>2. r \in Rows(s) /\ r \notin ToSet(block) /\ ToSet(block) \subseteq DOMAIN s.cue
  BY <1>0, <1>1, UnitsAreRows
<1>3. Lists(seq, Rows(s))
  BY SequenceCovers
<1>4. ShownThere(t, block, r, part) /\ Dropped(s, t, Splice(seq, block, at), block, p)
  <2>1. CASE r \in DOMAIN s.cue
    <3>1. p = s.cue[r].parent /\ Meets(seq, block, r, at, off, part)
      BY <1>0, <2>1 DEF IsCue, Lined
    <3>2. p \in DOMAIN s.group => ~Hidden(s, p)
      BY <1>0, <2>1, <3>1 DEF Stray, IsCue, IsGroup
    <3>3. r \in DOMAIN s.cue \ ToSet(block)
      BY <1>2, <2>1
    <3> QED BY <1>0, <1>1, <1>2, <3>1, <3>2, <3>3, DropsAtCue
  <2>2. CASE r \notin DOMAIN s.cue
    <3>1. p = 0 /\ at = SlotAbove(seq, block, r) /\ part = Append(block, r)
      BY <1>0, <2>2 DEF IsCue, Lined
    <3>2. r \in DOMAIN s.group
      BY <1>2, <2>2 DEF Rows
    <3>3. ~Hidden(s, r)
      BY <1>0, <3>2, ShownInView
    <3> QED BY <1>0, <1>1, <1>2, <3>1, <3>2, <3>3, DropsAtHeader
  <2> QED BY <2>1, <2>2
<1>5. at \in Slots(seq, block)
  <2> HIDE DEF seq
  <2>1. CASE Meets(seq, block, r, at, off, part)
    <3>1. Met(Rows(s), seq, block, r, at, off, part)
      BY <1>1, <1>2, <1>3, <2>1, MeetThere
    <3> QED BY <3>1 DEF Met
  <2>2. CASE at = SlotAbove(seq, block, r)
    BY <1>2, <2>2, RowLines DEF seq
  <2> QED BY <1>0, <2>1, <2>2 DEF Lined, seq
<1>6. LoadSequence(t) = Splice(seq, block, at)
  BY <1>4 DEF Dropped
<1>7. rest = Rows(s) \ ToSet(block)
  BY <1>1
<1> HIDE DEF seq, rest
<1>8. InOrder(Splice(seq, block, at), rest) = InOrder(seq, rest)
  BY <1>1, <1>3, <1>5, <1>7, SpliceKeepsOrder
<1> QED BY <1>1, <1>4, <1>6, <1>8 DEF seq, rest, OthersStay

\* What DropsLand asks of one drop.
DropShows(cues, r, at, part) ==
  \A t \in {DropCues(Sheet, InOrder(SelectUnits(Sheet), cues), at, IF IsCue(Sheet, r) THEN cue[r].parent ELSE 0)} :
    /\ \A new \in {LoadSequence(t)} :
         InOrder(new, Rows(Sheet) \ cues) = InOrder(LoadSequence(Sheet), Rows(Sheet) \ cues) /\ Together(new, part)
    /\ \A page \in {FlattenSheet(t)} :
         /\ Together(RowsOf(page), part)
         /\ \A c \in cues : DepthOf(page, c) = IF IsCue(t, r) THEN DepthOf(page, r) ELSE 0

\* Drops land where the line was.
LEMMA SoundDrops ==
  ASSUME CueSheetAssumption, IInv
  PROVE  DropsLand
<1>1. Sheet \in Sound /\ Sheet.cue = cue
  BY DEF IInv, Sheet
<1>2. ASSUME NEW cues \in (SUBSET ShownCues) \ {{}}, NEW r \in {q \in Shown(Sheet) \ cues : ~Stray(Sheet, q)},
             NEW block, block = InOrder(SelectUnits(Sheet), cues),
             NEW at, NEW off, NEW part, Lined(Sheet, block, r, at, off, part)
      PROVE  DropShows(cues, r, at, part)
  <2> DEFINE t == DropCues(Sheet, block, at, BandOf(Sheet, r))
  <2>1. Drawn(Sheet, cues, r, block, at, off, part)
    BY <1>1, <1>2 DEF Drawn, ShownCues
  <2>2. t = DropCues(Sheet, InOrder(SelectUnits(Sheet), cues), at, IF IsCue(Sheet, r) THEN cue[r].parent ELSE 0)
    BY <1>1, <1>2 DEF BandOf
  <2>3. ToSet(block) = cues /\ ShownThere(t, block, r, part) /\ OthersStay(Sheet, t, cues)
    BY <1>1, <2>1, DropAtBand
  <2> HIDE DEF t
  <2> QED BY <2>2, <2>3 DEF DropShows, ShownThere, OthersStay
<1>3. ASSUME NEW cues \in (SUBSET ShownCues) \ {{}}, NEW r \in {q \in Shown(Sheet) \ cues : ~Stray(Sheet, q)}
      PROVE  /\ DropShows(cues, r, SlotAbove(LoadSequence(Sheet), InOrder(SelectUnits(Sheet), cues), r),
                          Append(InOrder(SelectUnits(Sheet), cues), r))
             /\ IsCue(Sheet, r) =>
                  DropShows(cues, r, SlotBelow(LoadSequence(Sheet), InOrder(SelectUnits(Sheet), cues), r),
                            <<r>> \o InOrder(SelectUnits(Sheet), cues))
  <2> DEFINE block == InOrder(SelectUnits(Sheet), cues)
             above == SlotAbove(LoadSequence(Sheet), block, r)
             below == SlotBelow(LoadSequence(Sheet), block, r)
  <2>1. Lined(Sheet, block, r, above, above, Append(block, r))
    BY DEF Lined, Meets
  <2>2. IsCue(Sheet, r) => Lined(Sheet, block, r, below, below - 1, <<r>> \o block)
    BY DEF Lined, Meets, IsCue
  <2>3. DropShows(cues, r, above, Append(block, r))
    <3> HIDE DEF above
    <3> QED BY <1>2, <1>3, <2>1
  <2>4. IsCue(Sheet, r) => DropShows(cues, r, below, <<r>> \o block)
    <3> HIDE DEF below
    <3> QED BY <1>2, <1>3, <2>2
  <2> QED BY <2>3, <2>4
<1> QED BY <1>3 DEF DropsLand, DropShows

\* A member of an open group in view is on the page.
LEMMA HomeShown ==
  ASSUME CueSheetAssumption, NEW t \in Sound, NEW c \in DOMAIN t.cue, NEW g, t.cue[c].parent = g, Seen(t, g)
  PROVE  c \in Shown(t)
<1> DEFINE q == Items(t)
           part == <<c>>
<1>1. q \in Seq(Rows(t)) /\ \E i \in DOMAIN q : q[i] = c
  BY SequenceCovers DEF Lists, Rows
<1> HIDE DEF q
<1>2. PICK i \in 1..Len(q) : q[i] = c
  BY <1>1
<1> DEFINE off == i - 1
<1>3. off \in Nat /\ off + 1 = i
  BY <1>1
<1>4. part \in Seq(Rows(t)) /\ Len(part) = 1 /\ part[1] = c
  BY DEF Rows
<1> HIDE DEF off, part
<1>5. Follow(t, off, part)
  BY <1>2, <1>3, <1>4 DEF Follow, q
<1>6. MembersOf(t, part, g)
  BY <1>4 DEF MembersOf
<1>7. off + Len(part) <= Len(Items(t))
  <2>1. off + Len(part) <= Len(q)
    BY <1>1, <1>2, <1>3, <1>4
  <2> QED BY <2>1 DEF q
<1>8. Level(t, off, part)
  BY <1>3, <1>4, <1>5, <1>6, <1>7, MembersAppear
<1>9. PICK deep, d : Appears(t, off, part, deep) /\ \A k \in 1..Len(part) : deep[k] = d
  BY <1>8 DEF Level
<1>10. Lies(t, part, deep)
  BY <1>9, AppearTogether
<1> QED BY <1>4, <1>10 DEF Lies

\* A cue right below its open header is the first row of the group.
LEMMA FirstShown ==
  ASSUME CueSheetAssumption, NEW t \in Sound, NEW g \in DOMAIN t.group, NEW c \in DOMAIN t.cue, t.cue[c].parent = g,
         Seen(t, g), NEW i \in 1..Len(Items(t)), i + 1 <= Len(Items(t)), Items(t)[i] = g, Items(t)[i + 1] = c
  PROVE  Together(SelectUnits(t), <<g, c>>) /\ DepthOf(FlattenSheet(t), c) = Depth(t, g) + 1
<1> DEFINE q == Items(t)
           n == Len(q)
           d == Depth(t, g)
           part == <<g, c>>
           deep == <<d, d + 1>>
<1>1. g \in Rows(t) /\ c \in Rows(t) /\ n \in Nat
  BY SequenceCovers DEF Lists, Rows
<1>2. ~Hidden(t, g)
  <2>1. g # 0
    BY SoundParts DEF GoodGroups
  <2> QED BY <2>1 DEF Seen
<1>3. PICK p : Rendered(t, p)
  BY PagesInTurn
<1> DEFINE a == p[i - 1]
           b == p[i]
           o == Append(UpTo(t, a.open, d - 1), g)
<1>4. i \in Nat /\ i - 1 \in Nat /\ i - 1 \in 0..n /\ i \in 0..n /\ i + 1 \in 1..n /\ (i + 1) - 1 = i /\ (i - 1) + 1 = i /\ (i - 1) + 2 = i + 1
  BY <1>1
<1>5. a \in InView(t) /\ b \in InView(t)
  BY <1>3, <1>4, PagesInView
<1>6. a \in Pages(t) /\ b \in Pages(t) /\ Steep(t, a.open) /\ Steep(t, b.open) /\ a.open \in Spans(t)
  BY <1>5 DEF InView, Pages
<1>7. b = Render(t, a, g) /\ p[i + 1] = Render(t, b, c)
  BY <1>3, <1>4 DEF Rendered
<1> HIDE DEF n, a, b
<1>8. b.open = o /\ b.rows = Append(a.rows, [row |-> g, depth |-> d])
  BY <1>2, <1>6, <1>7, HeaderRenders
<1>9. Deep(t, o, g) = d + 1
  BY <1>1, <1>6, DeepBelowHeader
<1> HIDE DEF o, d
<1>10. p[i + 1].rows = Append(b.rows, [row |-> c, depth |-> d + 1])
  <2>1. Render(t, b, c).rows = Append(b.rows, [row |-> c, depth |-> Deep(t, b.open, g)])
    BY <1>6, CueRenders
  <2> QED BY <1>7, <1>8, <1>9, <2>1
<1>11. part \in Seq(Rows(t)) /\ Len(part) = 2 /\ part[1] = g /\ part[2] = c /\ deep[1] = d /\ deep[2] = d + 1
  BY <1>1
<1> HIDE DEF part, deep
<1> DEFINE off == i - 1
<1>12. off \in Nat /\ off + 1 = i /\ off + 2 = i + 1 /\ (off + 1) - 1 = off /\ (off + 2) - 1 = i
  BY <1>4
<1>13. p[off + 1].rows = Append(p[(off + 1) - 1].rows, [row |-> Items(t)[off + 1], depth |-> deep[1]])
  <2>1. p[off + 1] = b /\ p[(off + 1) - 1] = a
    BY <1>12 DEF a, b
  <2> QED BY <1>8, <1>11, <1>12, <2>1
<1>14. p[off + 2].rows = Append(p[(off + 2) - 1].rows, [row |-> Items(t)[off + 2], depth |-> deep[2]])
  <2>1. p[off + 2] = p[i + 1] /\ p[(off + 2) - 1] = b
    BY <1>12 DEF b
  <2> QED BY <1>10, <1>11, <1>12, <2>1
<1> HIDE DEF off
<1>15. \A k \in 1..2 : k = 1 \/ k = 2
  OBVIOUS
<1>16. Grow(t, p, off, Len(part), deep)
  BY <1>11, <1>13, <1>14, <1>15 DEF Grow
<1>17. \A k \in 1..Len(part) : Items(t)[off + k] = part[k]
  BY <1>11, <1>12, <1>15
<1>18. off + Len(part) <= Len(Items(t))
  BY <1>11, <1>12
<1>19. Appears(t, off, part, deep)
  BY <1>3, <1>11, <1>12, <1>16, <1>17, <1>18 DEF Appears
<1>20. Lies(t, part, deep)
  BY <1>19, AppearTogether
<1>21. Together(SelectUnits(t), part) /\ \A k \in 1..Len(part) : DepthOf(FlattenSheet(t), part[k]) = deep[k]
  BY <1>20 DEF Lies
<1>22. 2 \in 1..2
  OBVIOUS
<1> QED BY <1>11, <1>21, <1>22 DEF part, d

\* What JoinsShow asks of one drop on a header.
JoinShows(s, t, c, g) ==
  /\ c \in Shown(t)
  /\ ~s.group[g].collapse => /\ Together(SelectUnits(t), <<g, c>>)
                             /\ DepthOf(FlattenSheet(t), c) = Depth(t, g) + 1

\* The dragged rows come right below r.
RightBelow(q, block, r, at) ==
  /\ at \in Nat /\ at - 1 \in Nat /\ at + Len(block) <= Len(Splice(q, block, at)) /\ Splice(q, block, at)[at] = r
  /\ \A k \in 1..Len(block) : Splice(q, block, at)[at + k] = block[k]

\* So they do when they are dropped on the header of an open group.
LEMMA LandsFirst ==
  ASSUME NEW S, NEW q \in Seq(S), NEW block \in Seq(S), NEW r \in S, \E i \in DOMAIN q : q[i] = r, r \notin ToSet(block),
         NEW at, at = SlotFirst(q, block, r)
  PROVE  RightBelow(q, block, r, at)
BY LandsBelow DEF RightBelow

\* Dropped on a header, a cue is seen, in an open group first.
LEMMA JoinShown ==
  ASSUME CueSheetAssumption, NEW s \in Sound, NEW c \in DOMAIN s.cue, NEW g \in DOMAIN s.group, ~Hidden(s, g),
         NEW t, t = DropCues(s, <<c>>, Body(s, <<c>>, g).at, g)
  PROVE  JoinShows(s, t, c, g)
<1> DEFINE block == <<c>>
           at == Body(s, block, g).at
           seq == LoadSequence(s)
           new == Splice(seq, block, at)
<1>1. c \in Rows(s) /\ g \in Rows(s) /\ g # c /\ g # 0
  <2>1. GoodRows(s) /\ GoodGroups(s.group)
    BY SoundParts
  <2> QED BY <2>1, RowsAreTwoKinds DEF Rows, GoodGroups
<1>2. block \in Seq(Rows(s)) /\ Once(block) /\ ToSet(block) = {c} /\ Len(block) = 1 /\ block[1] = c
  BY <1>1 DEF Once, ToSet
<1>3. t = DropCues(s, block, at, g) /\ (~s.group[g].collapse => at = SlotFirst(seq, block, g))
  BY DEF Body
<1> HIDE DEF block
<1>4. at \in Slots(seq, block)
  BY <1>1, <1>2, BodyIsLine
<1> HIDE DEF at
<1>5. Dropped(s, t, new, block, g)
  BY <1>2, <1>3, <1>4, DropsAre DEF seq
<1> HIDE DEF new
<1>6. Seen(t, g)
  BY <1>1, <1>5, DropKeepsView
<1>7. t \in Sound /\ Items(t) = new /\ g \in DOMAIN t.group /\ c \in DOMAIN t.cue /\ t.cue[c].parent = g
  BY <1>2, <1>5 DEF Dropped
<1>8. c \in Shown(t)
  BY <1>6, <1>7, HomeShown
<1>9. ASSUME ~s.group[g].collapse
      PROVE  Together(SelectUnits(t), <<g, c>>) /\ DepthOf(FlattenSheet(t), c) = Depth(t, g) + 1
  <2>1. seq \in Seq(Rows(s)) /\ \E i \in DOMAIN seq : seq[i] = g
    BY <1>1, SequenceCovers DEF Lists
  <2> HIDE DEF seq
  <2>2. g \notin ToSet(block) /\ at = SlotFirst(seq, block, g) /\ block \in Seq(Rows(s)) /\ g \in Rows(s)
    BY <1>1, <1>2, <1>3, <1>9
  <2>7. RightBelow(seq, block, g, at)
    BY <2>1, <2>2, LandsFirst
  <2>3. /\ at \in Nat /\ at - 1 \in Nat /\ at + Len(block) <= Len(new)
        /\ new[at] = g
        /\ \A k \in 1..Len(block) : new[at + k] = block[k]
    BY <2>7 DEF RightBelow, new
  <2>4. at + 1 <= Len(new) /\ new[at + 1] = c
    BY <1>2, <2>3
  <2>5. Len(new) \in Nat
    BY <1>7, SequenceCovers DEF Lists
  <2>6. at \in 1..Len(new)
    BY <2>3, <2>4, <2>5
  <2> QED BY <1>6, <1>7, <2>3, <2>4, <2>6, FirstShown
<1> QED BY <1>8, <1>9 DEF JoinShows

\* A new cue in a group is seen: the group is opened.
LEMMA AddShown ==
  ASSUME CueSheetAssumption, NEW s \in Sound, NEW c \in Cues, NEW g \in DOMAIN s.group, ~Hidden(s, g), NEW first,
         NEW t, t = AddCueToGroup(s, c, g, first)
  PROVE  c \in Shown(t)
<1> DEFINE e == ExpandGroup(s, g)
<1>1. t \in Sound
  BY AddToGroupSound
<1>2. t.group = e.group /\ c \in DOMAIN t.cue /\ t.cue[c].parent = g
  <2> DEFINE members == {d \in DOMAIN s.cue : s.cue[d].parent = g}
             seat == IF first \/ members = {} THEN s.group[g].idx ELSE Max({s.cue[d].idx : d \in members})
             r == [pos |-> LastPos(s) + 1, parent |-> g, idx |-> seat + One]
  <2>1. t = [e EXCEPT !.cue = With(@, c, r)]
    BY DEF AddCueToGroup
  <2>2. r.parent = g
    OBVIOUS
  <2>3. e \in [cue : CueMaps, group : GroupMaps, anchor : Int, set : SUBSET Int]
    BY ExpandSound DEF Sound, Fields
  <2> HIDE DEF r, e
  <2>4. t.group = e.group /\ t.cue = With(e.cue, c, r)
    BY <2>1, <2>3
  <2>5. c \in DOMAIN With(e.cue, c, r) /\ With(e.cue, c, r)[c] = r
    BY DEF With
  <2> QED BY <2>2, <2>4, <2>5
<1>3. DOMAIN e.group = DOMAIN s.group /\ \A h \in DOMAIN s.group : e.group[h].up = s.group[h].up
  BY ExpandSound
<1>4. \A h \in DOMAIN s.group : e.group[h].collapse => s.group[h].collapse /\ h # g
  BY ExpandOpens
<1> HIDE DEF e
<1>5. Above(t, g) = Above(s, g)
  BY <1>1, <1>2, <1>3, SameTree
<1>6. Above(s, g) \subseteq DOMAIN s.group
  BY SoundParts, AboveIsLeast DEF GoodGroups
<1>7. Seen(t, g)
  BY <1>2, <1>3, <1>4, <1>5, <1>6 DEF Seen, Hidden
<1> QED BY <1>1, <1>2, <1>7, HomeShown

\* Cues that join a group are seen.
LEMMA SoundJoins ==
  ASSUME CueSheetAssumption, IInv
  PROVE  JoinsShow
<1>1. Sheet \in Sound /\ Sheet.cue = cue /\ Sheet.group = group
  BY DEF IInv, Sheet
<1>2. ASSUME NEW g \in ShownGroups
      PROVE  g \in DOMAIN Sheet.group /\ ~Hidden(Sheet, g)
  <2>1. g \in Shown(Sheet) /\ g \in DOMAIN Sheet.group
    BY <1>1, <1>2 DEF ShownGroups
  <2> QED BY <1>1, <2>1, ShownInView
<1>3. ASSUME NEW g \in ShownGroups, NEW c \in ShownCues
      PROVE  JoinShows(Sheet, DropCues(Sheet, <<c>>, Body(Sheet, <<c>>, g).at, g), c, g)
  <2>1. c \in DOMAIN Sheet.cue
    BY <1>1 DEF ShownCues
  <2> DEFINE t == DropCues(Sheet, <<c>>, Body(Sheet, <<c>>, g).at, g)
  <2> HIDE DEF t
  <2>2. JoinShows(Sheet, t, c, g)
    BY <1>1, <1>2, <2>1, JoinShown DEF t
  <2> QED BY <2>2 DEF t
<1>4. ASSUME NEW g \in ShownGroups, NEW c \in New, NEW first \in BOOLEAN
      PROVE  c \in Shown(AddCueToGroup(Sheet, c, g, first))
  BY <1>1, <1>2, AddShown DEF New
<1> QED BY <1>1, <1>3, <1>4 DEF JoinsShow, JoinShows

\* Whatever is dropped lands where the line was, and is seen.
LEMMA SoundMoves ==
  ASSUME CueSheetAssumption, IInv
  PROVE  MovesLand
BY SoundDrops, SoundJoins DEF MovesLand

-----------------------------------------------------------------------------
(* The theorems. *)

\* A show stays sound under its edits.
LEMMA SheetStays == Spec => []IInv
<1>1. Init => IInv
  BY InitSound, CueSheetAssumption
<1>2. IInv /\ [Next]_vars => IInv'
  BY NextSound, CueSheetAssumption
<1> QED BY <1>1, <1>2, PTL DEF Spec

\* And with imports in between.
LEMMA ImportedStays == ImportSpec => []IInv
<1>1. Init => IInv
  BY InitSound, CueSheetAssumption
<1>2. IInv /\ [Next \/ Import]_vars => IInv'
  BY NextSound, ImportKeeps, CueSheetAssumption, ShowImportAssumption
<1> QED BY <1>1, <1>2, PTL DEF ImportSpec

\* groups.go and sheet.go: whatever the operator does to a show, in any order and however
\* large it is, no cue is in a group that is gone, no group is in one that is gone or, through
\* any number of others, in itself, and no two cues have one position.  No foreign key of the
\* database says so: every edit has to.
THEOREM SheetReferencesSound == Spec => []ReferencesSound
<1>1. IInv => ReferencesSound
  BY IInvIsSound, CueSheetAssumption
<1> QED BY <1>1, SheetStays, PTL

\* show.go: the same with imports in between, over the sheet or after it, that succeed or are
\* refused at any cue and taken back by positions that move meanwhile.
THEOREM ImportReferencesSound == ImportSpec => []ReferencesSound
<1>1. IInv => ReferencesSound
  BY IInvIsSound, CueSheetAssumption
<1> QED BY <1>1, ImportedStays, PTL

\* groups.go (BulkEdit, DeleteGroupWithCues) and ctp.go (RemoveCue): after any edits, deleting
\* some cues and some groups of a sheet of any size leaves the other rows in their order, the
\* cues numbered from 1 in it and no member apart from its group; and when one cue is removed,
\* another that is selected still is, at its new position.
THEOREM SheetRemovalsSound == Spec => []RemovalsSound
<1>1. IInv => RemovalsSound
  BY SoundRemovals, CueSheetAssumption
<1> QED BY <1>1, SheetStays, PTL

\* show.go: the same of a sheet that imports were made into, complete or taken back.
THEOREM ImportRemovalsSound == ImportSpec => []RemovalsSound
<1>1. IInv => RemovalsSound
  BY SoundRemovals, CueSheetAssumption
<1> QED BY <1>1, ImportedStays, PTL

\* sheet.go (ExtendStep): the head of the selection is not stored, it is guessed from the marks;
\* on a page of any length, from any row of it, the guess is right: a step back with Shift gives
\* back the selection there was before the step, and before the one after it.
THEOREM SheetShiftUndoes == Spec => []ShiftUndoes
<1>1. IInv => ShiftUndoes
  BY SoundSteps, CueSheetAssumption
<1> QED BY <1>1, SheetStays, PTL

\* The same of a sheet that imports were made into.
THEOREM ImportShiftUndoes == ImportSpec => []ShiftUndoes
<1>1. IInv => ShiftUndoes
  BY SoundSteps, CueSheetAssumption
<1> QED BY <1>1, ImportedStays, PTL

\* sheet.go (SheetDrop, setCueGroup) and groups.go (AddCueToGroup): on a sheet of any size, after
\* any edits, whatever cues of the page are dragged to the line at a row of it (one that is
\* itself in view) land there, in the database and in the page rendered from it anew, which
\* orders ties the other way and skips closed groups, and no other row moves; and a cue that
\* joins a group, open or closed, is on the page.
THEOREM SheetMovesLand == Spec => []MovesLand
<1>1. IInv => MovesLand
  BY SoundMoves, CueSheetAssumption
<1> QED BY <1>1, SheetStays, PTL

\* show.go: the same of a sheet that imports were made into, complete or taken back.
THEOREM ImportMovesLand == ImportSpec => []MovesLand
<1>1. IInv => MovesLand
  BY SoundMoves, CueSheetAssumption
<1> QED BY <1>1, ImportedStays, PTL
=============================================================================
