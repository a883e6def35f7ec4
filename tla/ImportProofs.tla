---------------------------- MODULE ImportProofs ----------------------------
(***************************************************************************)
(* Imports into a sheet, however large the sheet and the show are: one     *)
(* that succeeds gathers its groups, one that fails leaves nothing.        *)
(*                                                                         *)
(* Entered (of SheetProofs), Extended and Ungrouped say what the sheet is  *)
(* after each cue that is put in, each position that is taken back and     *)
(* each group that is deleted again; it is sound all the while.            *)
(***************************************************************************)
EXTENDS SheetProofs

-----------------------------------------------------------------------------
(* Imports gather their groups. *)

\* Two sorted sequences, one after the other.
LEMMA SortedConcat ==
  ASSUME NEW A, NEW B, NEW R, NEW a, Sorts(a, A, R), NEW b, Sorts(b, B, R), A \cap B = {},
         \A x \in A : \A y \in B : <<x, y>> \in R
  PROVE  Sorts(a \o b, A \cup B, R)
<1> DEFINE S == A \cup B
           q == a \o b
           n == Len(a)
           m == Len(b)
<1>1. a \in Seq(A) /\ b \in Seq(B) /\ a \in Seq(S) /\ b \in Seq(S)
  BY DEF Sorts, Lists
<1>2. /\ n \in Nat /\ m \in Nat /\ DOMAIN a = 1..n /\ DOMAIN b = 1..m
      /\ (\A i \in 1..n : a[i] \in A) /\ \A k \in 1..m : b[k] \in B
  BY <1>1
<1>3. /\ q \in Seq(S) /\ Len(q) = n + m /\ \A j \in 1..n : q[j] = a[j]
      /\ \A k \in 1..m : q[k + n] = b[k]
  BY <1>1, Joined
<1>4. /\ \A i, j \in 1..n : a[i] = a[j] => i = j
      /\ \A i, j \in 1..n : i < j => <<a[i], a[j]>> \in R
      /\ \A x \in A : \E i \in 1..n : a[i] = x
      /\ \A i, j \in 1..m : b[i] = b[j] => i = j
      /\ \A i, j \in 1..m : i < j => <<b[i], b[j]>> \in R
      /\ \A x \in B : \E i \in 1..m : b[i] = x
  BY <1>2 DEF Sorts, Lists
<1>5. DOMAIN q = 1..(n + m)
  BY <1>3
<1> HIDE DEF q, n, m
<1>6. \A i \in DOMAIN q : i \in 1..n \/ (i - n \in 1..m /\ i = (i - n) + n)
  BY <1>2, <1>5
<1>7. \A i \in DOMAIN q : \/ i \in 1..n /\ q[i] = a[i] /\ q[i] \in A
                          \/ i - n \in 1..m /\ q[i] = b[i - n] /\ q[i] \in B /\ i \in Int
  <2> TAKE i \in DOMAIN q
  <2>1. CASE i \in 1..n
    BY <1>2, <1>3, <2>1
  <2>2. CASE i - n \in 1..m /\ i = (i - n) + n
    <3> DEFINE k == i - n
    <3>1. k \in 1..m /\ i = k + n /\ i \in Int
      BY <1>2, <1>5, <2>2
    <3> HIDE DEF k
    <3>2. q[i] = b[k] /\ b[k] \in B
      BY <1>2, <1>3, <3>1
    <3> QED BY <3>1, <3>2 DEF k
  <2> QED BY <1>6, <2>1, <2>2
<1>8. ASSUME NEW i \in DOMAIN q, NEW j \in DOMAIN q, q[i] = q[j] PROVE i = j
  <2>1. CASE i \in 1..n /\ j \in 1..n
    BY <1>3, <1>4, <1>8, <2>1
  <2>2. CASE i - n \in 1..m /\ j - n \in 1..m /\ q[i] = b[i - n] /\ q[j] = b[j - n] /\ i \in Int /\ j \in Int
    <3>1. i - n = j - n
      BY <1>4, <1>8, <2>2
    <3> QED BY <1>2, <2>2, <3>1
  <2> QED BY <1>7, <1>8, <2>1, <2>2
<1>9. ASSUME NEW i \in DOMAIN q, NEW j \in DOMAIN q, i < j PROVE <<q[i], q[j]>> \in R
  <2>1. CASE i \in 1..n /\ j \in 1..n
    BY <1>3, <1>4, <1>9, <2>1
  <2>2. CASE i - n \in 1..m /\ j - n \in 1..m /\ q[i] = b[i - n] /\ q[j] = b[j - n] /\ i \in Int /\ j \in Int
    <3>1. i - n < j - n
      BY <1>2, <1>9, <2>2
    <3> QED BY <1>4, <2>2, <3>1
  <2>3. CASE q[i] \in A /\ q[j] \in B
    BY <2>3
  <2>4. CASE i - n \in 1..m /\ j \in 1..n
    BY <1>2, <1>5, <1>9, <2>4
  <2> QED BY <1>7, <2>1, <2>2, <2>3, <2>4
<1>10. ASSUME NEW x \in S PROVE \E i \in DOMAIN q : q[i] = x
  <2>1. CASE x \in A
    <3>1. PICK i \in 1..n : a[i] = x
      BY <1>4, <2>1
    <3>2. i \in DOMAIN q /\ q[i] = x
      BY <1>2, <1>3, <1>5, <3>1
    <3> QED BY <3>2
  <2>2. CASE x \in B
    <3>1. PICK k \in 1..m : b[k] = x
      BY <1>4, <2>2
    <3>2. k + n \in DOMAIN q /\ q[k + n] = x
      BY <1>2, <1>3, <1>5, <3>1
    <3> QED BY <3>2
  <2> QED BY <2>1, <2>2
<1> QED BY <1>3, <1>8, <1>9, <1>10 DEF Sorts, Lists, q

\* What nothing else comes between stands together.
LEMMA SortedTogether ==
  ASSUME NEW S, NEW R, StrictOrder(S, R), NEW q, Sorts(q, S, R), NEW P \in SUBSET S, P # {},
         NEW part, Sorts(part, P, R),
         \A x \in S \ P : (\A y \in P : <<x, y>> \in R) \/ \A y \in P : <<y, x>> \in R
  PROVE  Together(q, part)
<1> DEFINE A == {x \in S \ P : \A y \in P : <<x, y>> \in R}
           B == S \ (P \cup A)
           a == InOrder(q, A)
           b == InOrder(q, B)
           u == a \o part
           v == u \o b
<1>1. A \in SUBSET S /\ B \in SUBSET S /\ A \cap P = {} /\ (A \cup P) \cap B = {} /\ (A \cup P) \cup B = S
  OBVIOUS
<1>2. /\ \A x \in A : \A y \in P : <<x, y>> \in R
      /\ \A x \in B : \A y \in P : <<y, x>> \in R
  OBVIOUS
<1> HIDE DEF A, B
<1>3. Sorts(a, A, R) /\ Sorts(b, B, R)
  BY <1>1, InOrderSorts
<1> HIDE DEF a, b
<1>4. Sorts(u, A \cup P, R)
  BY <1>1, <1>2, <1>3, SortedConcat
<1>5. \A x \in A \cup P : \A y \in B : <<x, y>> \in R
  <2> TAKE x \in A \cup P
  <2> TAKE y \in B
  <2>1. CASE x \in P
    BY <1>2, <2>1
  <2>2. CASE x \in A
    <3>1. PICK z \in P : TRUE
      OBVIOUS
    <3>2. <<x, z>> \in R /\ <<z, y>> \in R /\ x \in S /\ y \in S /\ z \in S
      BY <1>1, <1>2, <2>2, <3>1
    <3> QED BY <3>2 DEF StrictOrder
  <2> QED BY <2>1, <2>2
<1> HIDE DEF u
<1>6. Sorts(v, S, R)
  <2> DEFINE C == A \cup P
  <2>1. Sorts(u, C, R) /\ C \cap B = {} /\ C \cup B = S /\ \A x \in C : \A y \in B : <<x, y>> \in R
    BY <1>1, <1>4, <1>5
  <2> HIDE DEF C
  <2>2. Sorts(u \o b, C \cup B, R)
    BY <1>3, <2>1, SortedConcat
  <2> QED BY <2>1, <2>2
<1>7. \A x, y \in S : <<x, y>> \in R => <<y, x>> \notin R
  BY DEF StrictOrder
<1>8. q = v
  <2> HIDE DEF v
  <2> QED BY <1>6, <1>7, SortedOnce
<1>9. a \in Seq(S) /\ part \in Seq(S) /\ b \in Seq(S) /\ u \in Seq(S)
  BY <1>1, <1>3, <1>4 DEF Sorts, Lists
<1>10. /\ Len(u) = Len(a) + Len(part) /\ \A k \in 1..Len(part) : u[k + Len(a)] = part[k]
  BY <1>9, Joined DEF u
<1>11. q \in Seq(S) /\ Len(q) = Len(u) + Len(b) /\ \A j \in 1..Len(u) : q[j] = u[j]
  BY <1>8, <1>9, Joined
<1>12. Len(a) \in Nat /\ Len(part) \in Nat /\ Len(b) \in Nat
  BY <1>9
<1>13. Len(a) + Len(part) <= Len(q)
  BY <1>10, <1>11, <1>12
<1>14. \A k \in 1..Len(part) : q[Len(a) + k] = part[k]
  <2> TAKE k \in 1..Len(part)
  <2>1. k + Len(a) \in 1..Len(u) /\ Len(a) + k = k + Len(a)
    BY <1>10, <1>12
  <2> QED BY <1>10, <1>11, <2>1
<1> QED BY <1>9, <1>11, <1>12, <1>13, <1>14, NextToEachOther

\* A whole multiple of b is not among the w numbers above a, moved by whole multiples,
\* if these end before the next one.
LEMMA NextMultiple ==
  ASSUME NEW b \in Nat \ {0}, NEW a \in Int, NEW w \in Nat, (a % b) + w < b, NEW p \in Int, NEW k \in Int
  PROVE  p * b <= a + k * b \/ p * b > a + k * b + w
<1> DEFINE r == a % b
           q == a \div b
           d == p - k - q
<1>1. q \in Int /\ r \in Int /\ r >= 0 /\ r < b /\ a = b * q + r
  OBVIOUS
<1>2. r + w < b
  OBVIOUS
<1> HIDE DEF q, r
<1>3. d \in Int /\ p = d + k + q
  BY <1>1
<1> HIDE DEF d
<1>4. p * b = d * b + k * b + q * b /\ b * q = q * b
  BY <1>1, <1>3
<1>5. d * b \in Int /\ k * b \in Int /\ q * b \in Int /\ (d <= 0 => d * b <= 0) /\ (d >= 1 => d * b >= b)
  <2>1. d <= 0 => d * b <= 0
    BY <1>3
  <2>2. d >= 1 => d * b >= b
    BY <1>3
  <2> QED BY <1>1, <1>3, <2>1, <2>2
<1> DEFINE x == d * b
           y == k * b
           z == q * b
           v == p * b
<1>6. /\ v = x + y + z /\ a = z + r /\ x \in Int /\ y \in Int /\ z \in Int
      /\ (d <= 0 => x <= 0) /\ (d >= 1 => x >= b)
  BY <1>1, <1>4, <1>5
<1> HIDE DEF x, y, z, v
<1>7. v <= a + y \/ v > a + y + w
  BY <1>1, <1>2, <1>3, <1>6
<1> QED BY <1>7 DEF v, y

\* What Gathers says of one group of an import.
GatheredAt(s, t, m, k) ==
  LET members == InOrder([i \in DOMAIN m.cues |-> Entries(s)[i]],
                         {c \in DOMAIN t.cue : t.cue[c].parent = LocalId(s, k)})
  IN  /\ Len(members) = Cardinality({i \in DOMAIN m.cues : m.cues[i] = k})
      /\ Together(LoadSequence(t), <<LocalId(s, k)>> \o members)

\* Where the rows of a sheet are once an import is in.
Apart(t, g, w, P) ==
  \A x \in Rows(t) \ P : \/ Index(t, x) < Index(t, g)
                         \/ Index(t, x) = Index(t, g) /\ IsCue(t, x)
                         \/ Index(t, x) > Index(t, g) + w

\* A header and its members, in this order, stand together if no other row is among them.
LEMMA GroupTogether ==
  ASSUME CueSheetAssumption, NEW t \in Sound, NEW g \in DOMAIN t.group, NEW w \in Nat,
         NEW M \in SUBSET DOMAIN t.cue, NEW members, NEW R, Sorts(members, M, R),
         \A a, b \in M : <<a, b>> \in R => Index(t, a) < Index(t, b),
         \A c \in M : Index(t, c) > Index(t, g) /\ Index(t, c) <= Index(t, g) + w,
         Apart(t, g, w, {g} \cup M)
  PROVE  Together(LoadSequence(t), <<g>> \o members)
<1> DEFINE S == Rows(t)
           Q == Ranked(t, S, DOMAIN t.cue)
           P == {g} \cup M
           q == LoadSequence(t)
           head == <<g>>
<1>1. Sorts(q, S, Q) /\ StrictOrder(S, Q)
  BY SequencesSort
<1>2. /\ DOMAIN t.cue \cap DOMAIN t.group = {} /\ \A r \in S : Index(t, r) \in Int
      /\ M \subseteq S /\ g \in S /\ P \in SUBSET S /\ {g} \cap M = {} /\ ~IsCue(t, g)
  <2>1. DOMAIN t.cue \cap DOMAIN t.group = {} /\ \A r \in S : Index(t, r) \in Int
    BY SoundParts, RowsAreTwoKinds
  <2>2. M \subseteq S /\ g \in S /\ P \in SUBSET S
    BY DEF Rows
  <2>3. {g} \cap M = {} /\ ~IsCue(t, g)
    BY <2>1 DEF IsCue
  <2> QED BY <2>1, <2>2, <2>3
<1>3. \A a, b \in S : Index(t, a) < Index(t, b) => <<a, b>> \in Q
  BY DEF Ranked, Precedes
<1>4. \A a \in S : IsCue(t, a) /\ Index(t, a) = Index(t, g) => <<a, g>> \in Q
  BY <1>2 DEF Ranked, Precedes, IsCue
<1>5. Apart(t, g, w, P)
  OBVIOUS
<1> HIDE DEF Q, S, q
<1>6. Sorts(members, M, Q)
  <2>1. \A a, b \in M : <<a, b>> \in R => <<a, b>> \in Q
    BY <1>2, <1>3
  <2> QED BY <2>1, SortsInLarger
<1>7. Sorts(head, {g}, Q)
  BY DEF Sorts, Lists
<1>8. \A x \in {g} : \A y \in M : <<x, y>> \in Q
  BY <1>2, <1>3
<1> HIDE DEF head
<1>9. Sorts(head \o members, P, Q)
  BY <1>2, <1>6, <1>7, <1>8, SortedConcat
<1>10. ASSUME NEW x \in S \ P PROVE (\A y \in P : <<x, y>> \in Q) \/ \A y \in P : <<y, x>> \in Q
  <2>1. /\ Index(t, g) \in Int /\ Index(t, x) \in Int /\ x \in S
        /\ \A y \in M : Index(t, y) \in Int /\ Index(t, y) > Index(t, g) /\ Index(t, y) <= Index(t, g) + w
    BY <1>2
  <2>2. \/ Index(t, x) < Index(t, g)
        \/ Index(t, x) = Index(t, g) /\ IsCue(t, x)
        \/ Index(t, x) > Index(t, g) + w
    BY <1>5, <1>10 DEF Apart, S
  <2>3. CASE Index(t, x) < Index(t, g) \/ (Index(t, x) = Index(t, g) /\ IsCue(t, x))
    <3>1. <<x, g>> \in Q
      BY <1>2, <1>3, <1>4, <2>1, <2>3
    <3>2. \A y \in M : Index(t, x) < Index(t, y)
      BY <2>1, <2>3
    <3>3. \A y \in M : <<x, y>> \in Q
      BY <1>2, <1>3, <2>1, <3>2
    <3> QED BY <3>1, <3>3
  <2>4. CASE Index(t, x) > Index(t, g) + w
    <3>1. Index(t, g) < Index(t, x) /\ \A y \in M : Index(t, y) < Index(t, x)
      BY <2>1, <2>4
    <3>2. <<g, x>> \in Q /\ \A y \in M : <<y, x>> \in Q
      BY <1>2, <1>3, <2>1, <3>1
    <3> QED BY <3>2
  <2> QED BY <2>2, <2>3, <2>4
<1> DEFINE part == head \o members
<1>11. Sorts(part, P, Q) /\ P # {}
  BY <1>9
<1> HIDE DEF P, part
<1>12. Together(q, part)
  BY <1>1, <1>2, <1>10, <1>11, SortedTogether
<1> QED BY <1>12 DEF q, part, head

\* Where the rows are once all of an import is in: below its headers.
LEMMA ImportSpread ==
  ASSUME CueSheetAssumption, ShowImportAssumption, NEW m \in Shows, NEW s \in Sound,
         Len(m.cues) <= Cardinality(Cues) - Cardinality(DOMAIN s.cue), Room(s, m),
         NEW t \in Entered(s, m, Len(m.cues)), NEW k \in DOMAIN m.groups,
         NEW g, g = LocalId(s, k), NEW w, w = Len(m.cues) * One, NEW M, M = {c \in DOMAIN t.cue : t.cue[c].parent = g}
  PROVE  /\ w \in Nat /\ g \in DOMAIN t.group
         /\ \A c \in M : Index(t, c) > Index(t, g) /\ Index(t, c) <= Index(t, g) + w
         /\ Apart(t, g, w, {g} \cup M)
<1> DEFINE e == Entries(s)
           l == Len(m.cues)
           n == Len(m.groups)
           last == LastIndex(s, Rows(s))
           a == NextGroupId(s)
           base == ImportGroups(s, m)
           H(j) == last + j * Step
<1>1. /\ l \in Nat /\ n \in Nat
      /\ \A i \in 1..l : m.cues[i] \in 0..n /\ e[i] \in Cues /\ e[i] \notin DOMAIN s.cue
  BY EntriesNew
<1>2. base \in GroupsAt(s, n)
  BY ImportGroupsPlaced
<1>3. /\ t \in Sound /\ t.group = base.group
      /\ DOMAIN t.cue = DOMAIN s.cue \cup {e[i] : i \in 1..l}
      /\ \A c \in DOMAIN s.cue : t.cue[c] = s.cue[c]
      /\ \A i \in 1..l : t.cue[e[i]].parent = LocalId(s, m.cues[i])
      /\ Seated(s, t, m, l)
  BY DEF Entered
<1>4. a \in Nat \ {0} /\ last \in Int /\ LastPos(s) \in Nat
  BY Bounds
<1>5. Step \in Nat \ {0} /\ One \in Nat /\ w \in Nat
  BY <1>1, StepIsPositive
<1>6. /\ DOMAIN t.group = DOMAIN s.group \cup a..(a + n - 1)
      /\ \A h \in DOMAIN s.group : t.group[h] = s.group[h]
      /\ \A i \in 1..n : t.group[LocalId(s, i)].idx = H(i)
  BY <1>2, <1>3 DEF GroupsAt, GroupsIn
<1>7. k \in 1..n
  <2> DEFINE G == [up : 0..Len(m.groups), fold : BOOLEAN]
  <2>1. m.groups \in Seq(G)
    BY DEF ShowImportAssumption
  <2> HIDE DEF G
  <2> QED BY <2>1
<1>8. /\ \A i \in 1..n : LocalId(s, i) \in a..(a + n - 1) /\ LocalId(s, i) # 0
      /\ \A h \in a..(a + n - 1) : \E i \in 1..n : h = LocalId(s, i)
  <2>0. n \in Nat /\ a \in Nat \ {0} /\ \A i : LocalId(s, i) = IF i = 0 THEN 0 ELSE a - 1 + i
    BY <1>1, <1>4 DEF LocalId
  <2> HIDE DEF a, n
  <2>1. \A i \in 1..n : LocalId(s, i) = a - 1 + i /\ a - 1 + i \in a..(a + n - 1) /\ a - 1 + i # 0
    BY <2>0
  <2>2. \A h \in a..(a + n - 1) : h - a + 1 \in 1..n /\ h = a - 1 + (h - a + 1)
    BY <2>0
  <2> QED BY <2>1, <2>2
<1>9. /\ DOMAIN t.cue \cap DOMAIN t.group = {} /\ \A r \in Rows(t) : Index(t, r) \in Int
      /\ \A r \in Rows(s) : Index(s, r) \in Int /\ Index(s, r) <= last
      /\ \A c \in DOMAIN s.cue : s.cue[c].parent \in {0} \cup DOMAIN s.group
      /\ \A i \in DOMAIN s.group : i < a
  <2>1. DOMAIN t.cue \cap DOMAIN t.group = {} /\ \A r \in Rows(t) : Index(t, r) \in Int
    BY <1>3, SoundParts, RowsAreTwoKinds
  <2>2. \A r \in Rows(s) : Index(s, r) \in Int /\ Index(s, r) <= last
    BY LastOnes
  <2>3. \A c \in DOMAIN s.cue : s.cue[c].parent \in {0} \cup DOMAIN s.group
    BY SoundParts DEF Members
  <2>4. \A i \in DOMAIN s.group : i < a
    BY Bounds
  <2> QED BY <2>1, <2>2, <2>3, <2>4
<1>10. /\ \A i \in 1..n : Index(t, LocalId(s, i)) = H(i) /\ H(i) \in Int
       /\ \A c \in DOMAIN t.cue : Index(t, c) = t.cue[c].idx
  <2>1. \A i \in 1..n : LocalId(s, i) \in DOMAIN t.group
    BY <1>6, <1>8
  <2>2. \A i \in 1..n : LocalId(s, i) \notin DOMAIN t.cue
    BY <1>9, <2>1
  <2>3. \A i \in 1..n : H(i) \in Int
    BY <1>1, <1>4, <1>5
  <2> HIDE DEF H, n
  <2> QED BY <1>6, <2>2, <2>3 DEF Index, IsCue
<1>11. \A r \in Rows(s) : Index(t, r) <= last
  <2> TAKE r \in Rows(s)
  <2>1. Index(t, r) = Index(s, r)
    <3>1. r \in DOMAIN s.cue => t.cue[r] = s.cue[r] /\ r \in DOMAIN t.cue
      BY <1>3
    <3>2. r \in DOMAIN s.group => t.group[r] = s.group[r] /\ r \in DOMAIN t.group
      BY <1>6
    <3>3. r \in DOMAIN s.cue => r \notin DOMAIN s.group
      BY SoundParts, RowsAreTwoKinds
    <3> QED BY <1>9, <3>1, <3>2, <3>3 DEF Rows, Index, IsCue
  <2> QED BY <1>9, <2>1
<1> HIDE DEF H, last, n, l, a, e, base
<1>12. \A i \in 1..l : m.cues[i] # 0 =>
         /\ Index(t, e[i]) > H(m.cues[i]) /\ Index(t, e[i]) <= H(m.cues[i]) + w /\ Index(t, e[i]) \in Int
  <2> TAKE i \in 1..l
  <2> HAVE m.cues[i] # 0
  <2> DEFINE j == m.cues[i]
             h == LocalId(s, j)
             c == e[i]
  <2>1. j \in 1..n /\ c \in DOMAIN t.cue
    BY <1>1, <1>3
  <2>2. t.cue[c].idx > t.group[h].idx /\ t.cue[c].idx <= t.group[h].idx + Count(t, h) * One /\ Count(t, h) <= l
    BY <1>3, <2>1 DEF Seated, e, n
  <2>3. t.group[h].idx = H(j) /\ H(j) \in Int
    BY <1>6, <1>10, <2>1
  <2>4. Index(t, c) = t.cue[c].idx /\ Index(t, c) \in Int
    BY <1>9, <1>10, <2>1 DEF Rows
  <2>5. Count(t, h) \in Nat
    <3>1. IsFiniteSet(DOMAIN t.cue)
      BY <1>3, SoundParts, RowsAreTwoKinds
    <3>2. IsFiniteSet({d \in DOMAIN t.cue : t.cue[d].parent = h})
      BY <3>1, FS_Subset
    <3> QED BY <3>2, FS_CardinalityType DEF Count
  <2> HIDE DEF h, j, c
  <2>6. Count(t, h) * One <= l * One /\ Count(t, h) * One \in Nat /\ l * One = w
    BY <1>1, <2>2, <2>5, SeatsGrow DEF l
  <2>7. Index(t, c) > H(j) /\ Index(t, c) <= H(j) + w
    BY <1>5, <2>2, <2>3, <2>4, <2>6
  <2> QED BY <2>4, <2>7 DEF c, j
<1>13. \A c \in M : \E i \in 1..l : c = e[i] /\ m.cues[i] = k
  <2> TAKE c \in M
  <2>1. c \in DOMAIN t.cue /\ t.cue[c].parent = g
    OBVIOUS
  <2>2. c \notin DOMAIN s.cue
    <3>1. c \in DOMAIN s.cue => t.cue[c] = s.cue[c]
      BY <1>3
    <3>2. g # 0 /\ g \notin DOMAIN s.group
      BY <1>7, <1>1, LocalIdsNew
    <3> QED BY <1>9, <2>1, <3>1, <3>2
  <2>3. PICK i \in 1..l : c = e[i]
    BY <1>3, <2>1, <2>2
  <2>4. LocalId(s, m.cues[i]) = LocalId(s, k)
    BY <1>3, <2>1, <2>3
  <2>5. m.cues[i] \in Nat /\ k \in Nat
    BY <1>1, <1>7
  <2> QED BY <2>3, <2>4, <2>5, LocalIdsNew
<1>14. Index(t, g) = H(k) /\ H(k) \in Int
  BY <1>7, <1>10
<1>15. \A c \in M : Index(t, c) > Index(t, g) /\ Index(t, c) <= Index(t, g) + w
  <2> TAKE c \in M
  <2>1. PICK i \in 1..l : c = e[i] /\ m.cues[i] = k
    BY <1>13
  <2>2. k # 0
    BY <1>7
  <2> QED BY <1>12, <1>14, <2>1, <2>2
<1>16. /\ \A j \in 1..n : j < k => H(j) + w < H(k)
       /\ \A j \in 1..n : j > k => H(j) > H(k) + w
       /\ \A p \in Int : p * Step <= H(k) \/ p * Step > H(k) + w
       /\ last < H(k)
  <2>1. (last % Step) + w < Step /\ last % Step >= 0 /\ last % Step \in Int /\ w < Step
    <3>1. (last % Step) + w < Step
      BY DEF Room, last, l
    <3>2. last % Step \in Int /\ last % Step >= 0
      BY <1>4, <1>5
    <3> QED BY <1>5, <3>1, <3>2
  <2>2. \A i, j \in 1..n : i < j => H(i) + Step <= H(j)
    <3> TAKE i, j \in 1..n
    <3> HAVE i < j
    <3> DEFINE d == j - i
    <3>1. d \in Int /\ d >= 1 /\ j = i + d /\ i \in Int
      BY <1>1
    <3> HIDE DEF d
    <3>2. j * Step = i * Step + d * Step /\ i * Step \in Int /\ d * Step \in Int /\ d * Step >= Step
      <4>1. d * Step >= Step
        BY <1>5, <3>1
      <4> QED BY <1>5, <3>1, <4>1
    <3> QED BY <1>4, <1>5, <3>2 DEF H
  <2>3. \A p \in Int : p * Step <= H(k) \/ p * Step > H(k) + w
    <3> TAKE p \in Int
    <3>1. k \in Int
      BY <1>7
    <3>2. p * Step <= last + k * Step \/ p * Step > last + k * Step + w
      BY <1>4, <1>5, <2>1, <3>1, NextMultiple
    <3> QED BY <3>2 DEF H
  <2>4. last < H(k)
    <3>1. k \in Int /\ k >= 1
      BY <1>7
    <3>2. k * Step >= Step /\ k * Step \in Int
      BY <1>5, <3>1
    <3> QED BY <1>4, <1>5, <3>2 DEF H
  <2>5. \A j \in 1..n : H(j) \in Int
    BY <1>10
  <2>6. \A j \in 1..n : (j < k => H(j) + w < H(k)) /\ (j > k => H(j) > H(k) + w)
    <3> TAKE j \in 1..n
    <3>1. H(j) \in Int /\ H(k) \in Int /\ (j < k => H(j) + Step <= H(k)) /\ (k < j => H(k) + Step <= H(j))
      BY <1>7, <2>2, <2>5
    <3>2. j \in Int /\ k \in Int
      BY <1>7
    <3> QED BY <1>5, <2>1, <3>1, <3>2
  <2> QED BY <2>3, <2>4, <2>6
<1>17. ASSUME NEW x \in Rows(t) \ ({g} \cup M)
       PROVE  \/ Index(t, x) < Index(t, g)
              \/ Index(t, x) = Index(t, g) /\ IsCue(t, x)
              \/ Index(t, x) > Index(t, g) + w
  <2>0. Index(t, x) \in Int /\ H(k) \in Int /\ Index(t, g) = H(k)
    BY <1>9, <1>14
  <2>1. \/ x \in Rows(s) \/ (\E i \in 1..l : x = e[i]) \/ \E j \in 1..n : x = LocalId(s, j)
    BY <1>3, <1>6, <1>8 DEF Rows
  <2>2. CASE x \in Rows(s)
    BY <1>4, <1>11, <1>16, <2>0, <2>2
  <2>3. ASSUME NEW j \in 1..n, x = LocalId(s, j)
        PROVE  Index(t, x) < Index(t, g) \/ Index(t, x) > Index(t, g) + w
    <3>1. j # k /\ j \in Int /\ k \in Int
      BY <1>7, <2>3
    <3>2. Index(t, x) = H(j) /\ H(j) \in Int
      BY <1>10, <2>3
    <3> QED BY <1>5, <1>16, <2>0, <3>1, <3>2
  <2>4. ASSUME NEW i \in 1..l, x = e[i]
        PROVE  \/ Index(t, x) < Index(t, g)
               \/ Index(t, x) = Index(t, g) /\ IsCue(t, x)
               \/ Index(t, x) > Index(t, g) + w
    <3>1. x \in DOMAIN t.cue /\ m.cues[i] \in 0..n
      BY <1>1, <1>3, <2>4
    <3>2. CASE m.cues[i] = 0
      <4> DEFINE p == LastPos(s) + i
      <4>1. Index(t, x) = p * Step
        BY <1>3, <1>10, <2>4, <3>1, <3>2 DEF Seated, e
      <4>2. p \in Int
        BY <1>1, <1>4
      <4> HIDE DEF p
      <4>3. p * Step <= H(k) \/ p * Step > H(k) + w
        BY <1>16, <4>2
      <4>4. IsCue(t, x)
        BY <3>1 DEF IsCue
      <4> QED BY <2>0, <4>1, <4>3, <4>4
    <3>3. CASE m.cues[i] # 0
      <4> DEFINE j == m.cues[i]
      <4>1. j \in 1..n /\ Index(t, x) > H(j) /\ Index(t, x) <= H(j) + w /\ H(j) \in Int
        BY <1>1, <1>10, <1>12, <2>4, <3>1, <3>3
      <4>2. j # k
        BY <1>3, <2>4, <3>1
      <4>3. j \in Int /\ k \in Int
        BY <1>7, <3>1
      <4> HIDE DEF j
      <4>4. CASE j < k
        <5>1. H(j) + w < H(k)
          BY <1>16, <4>1, <4>4
        <5> QED BY <1>5, <2>0, <4>1, <5>1
      <4>5. CASE j > k
        <5>1. H(j) > H(k) + w
          BY <1>16, <4>1, <4>5
        <5> QED BY <1>5, <2>0, <4>1, <5>1
      <4> QED BY <4>2, <4>3, <4>4, <4>5
    <3> QED BY <3>2, <3>3
  <2> QED BY <2>1, <2>2, <2>3, <2>4
<1> QED BY <1>5, <1>6, <1>7, <1>8, <1>15, <1>17 DEF Apart

\* All of an import is in: a header, and below it its members in the order of the manifest.
LEMMA GroupGathered ==
  ASSUME CueSheetAssumption, ShowImportAssumption, NEW m \in Shows, NEW s \in Sound,
         Len(m.cues) <= Cardinality(Cues) - Cardinality(DOMAIN s.cue), Room(s, m),
         NEW t \in Entered(s, m, Len(m.cues)), NEW k \in DOMAIN m.groups
  PROVE  GatheredAt(s, t, m, k)
<1> DEFINE e == Entries(s)
           l == Len(m.cues)
           n == Len(m.groups)
           g == LocalId(s, k)
           w == l * One
           M == {c \in DOMAIN t.cue : t.cue[c].parent = g}
           es == [i \in DOMAIN m.cues |-> e[i]]
           E == {e[i] : i \in 1..l}
           R == {p \in E \X E : \E i, j \in 1..l : i < j /\ p = <<e[i], e[j]>>}
           members == InOrder(es, M)
<1>1. /\ l \in Nat /\ n \in Nat
      /\ \A i \in 1..l : m.cues[i] \in 0..n /\ e[i] \in Cues /\ e[i] \notin DOMAIN s.cue
      /\ \A i, j \in 1..l : e[i] = e[j] => i = j
  BY EntriesNew
<1>2. DOMAIN m.cues = 1..l
  <2> DEFINE C == 0..Len(m.groups)
  <2>1. m.cues \in Seq(C)
    BY DEF ShowImportAssumption
  <2> HIDE DEF C
  <2> QED BY <2>1
<1>3. k \in 1..n
  <2> DEFINE G == [up : 0..Len(m.groups), fold : BOOLEAN]
  <2>1. m.groups \in Seq(G)
    BY DEF ShowImportAssumption
  <2> HIDE DEF G
  <2> QED BY <2>1
<1>4. /\ t \in Sound /\ DOMAIN t.cue = DOMAIN s.cue \cup E
      /\ \A c \in DOMAIN s.cue : t.cue[c] = s.cue[c]
      /\ \A i \in 1..l : t.cue[e[i]].parent = LocalId(s, m.cues[i])
      /\ Seated(s, t, m, l)
  BY DEF Entered
<1>5. /\ w \in Nat /\ g \in DOMAIN t.group
      /\ \A c \in M : Index(t, c) > Index(t, g) /\ Index(t, c) <= Index(t, g) + w
      /\ Apart(t, g, w, {g} \cup M)
  <2> HIDE DEF g, w, M
  <2>1. g = LocalId(s, k) /\ w = Len(m.cues) * One /\ M = {c \in DOMAIN t.cue : t.cue[c].parent = g}
    BY DEF g, w, M
  <2> QED BY <2>1, ImportSpread
<1>6. \A c \in E : \E i \in 1..l : c = e[i]
  OBVIOUS
<1>7. \A i \in 1..l : e[i] \in M <=> m.cues[i] = k
  <2> TAKE i \in 1..l
  <2>1. m.cues[i] \in Nat /\ k \in Nat /\ e[i] \in DOMAIN t.cue
    BY <1>1, <1>3, <1>4
  <2>2. LocalId(s, m.cues[i]) = LocalId(s, k) <=> m.cues[i] = k
    BY <2>1, LocalIdsNew
  <2> QED BY <1>4, <2>1, <2>2
<1>8. M \subseteq E
  <2>1. g # 0 /\ g \notin DOMAIN s.group
    BY <1>1, <1>3, LocalIdsNew
  <2>2. \A c \in DOMAIN s.cue : s.cue[c].parent \in {0} \cup DOMAIN s.group
    BY SoundParts DEF Members
  <2> HIDE DEF E, g
  <2> QED BY <1>4, <2>1, <2>2
<1>9. Sorts(es, E, R)
  <2>1. es = [i \in 1..l |-> e[i]] /\ \A i \in 1..l : e[i] \in E
    BY <1>2
  <2>2. \A i, j \in 1..l : i < j => <<e[i], e[j]>> \in R
    BY <2>1
  <2> HIDE DEF es, E, R, e, l
  <2>3. es \in Seq(E) /\ DOMAIN es = 1..l /\ \A i \in 1..l : es[i] = e[i]
    BY <1>1, <2>1
  <2>4. \A i, j \in DOMAIN es : es[i] = es[j] => i = j
    BY <1>1, <2>3
  <2>5. \A x \in E : \E i \in DOMAIN es : es[i] = x
    BY <1>6, <2>3
  <2>6. \A i, j \in DOMAIN es : i < j => <<es[i], es[j]>> \in R
    BY <2>2, <2>3
  <2> QED BY <2>3, <2>4, <2>5, <2>6 DEF Sorts, Lists
<1>10. \A x, y \in M : <<x, y>> \in R => Index(t, x) < Index(t, y)
  <2> TAKE x, y \in M
  <2> HAVE <<x, y>> \in R
  <2>1. PICK i \in 1..l : \E j \in 1..l : i < j /\ <<x, y>> = <<e[i], e[j]>>
    OBVIOUS
  <2>2. PICK j \in 1..l : i < j /\ x = e[i] /\ y = e[j]
    BY <2>1
  <2>3. m.cues[i] = k /\ m.cues[j] = k /\ k # 0
    BY <1>3, <1>7, <2>2
  <2>4. t.cue[x].idx < t.cue[y].idx
    BY <1>4, <2>2, <2>3 DEF Seated, e
  <2>5. Index(t, x) = t.cue[x].idx /\ Index(t, y) = t.cue[y].idx
    BY DEF Index, IsCue
  <2> QED BY <2>4, <2>5
<1> HIDE DEF R, E, es, M, g, w
<1>11. Sorts(members, M, R)
  BY <1>8, <1>9, InOrderSorts
<1>12. M \in SUBSET DOMAIN t.cue
  BY DEF M
<1>13. Together(LoadSequence(t), <<g>> \o members)
  <2> HIDE DEF members
  <2> QED BY <1>4, <1>5, <1>10, <1>11, <1>12, GroupTogether
<1>14. Len(members) = Cardinality({i \in DOMAIN m.cues : m.cues[i] = k})
  <2> DEFINE P == Places(es, M)
  <2>1. P = {i \in DOMAIN m.cues : m.cues[i] = k}
    <3>1. DOMAIN es = 1..l /\ \A i \in 1..l : es[i] = e[i]
      BY <1>2 DEF es
    <3> QED BY <1>2, <1>7, <3>1 DEF Places
  <2>2. es \in Seq(E)
    BY <1>9 DEF Sorts, Lists
  <2>3. Cardinality(P) \in Nat /\ members \in [1..Cardinality(P) -> E \cap M]
    BY <2>2, InOrderLists
  <2> HIDE DEF P, members
  <2>4. members \in Seq(E \cap M) /\ Len(members) = Cardinality(P)
    BY <2>3
  <2> QED BY <2>1, <2>4
<1> QED BY <1>13, <1>14 DEF GatheredAt, members, M, es, e, g

\* The selection is no part of it.
LEMMA EnteredSelected ==
  ASSUME NEW m, NEW s, NEW j, NEW t \in Entered(s, m, j), NEW u \in Sound, u.cue = t.cue, u.group = t.group
  PROVE  u \in Entered(s, m, j)
<1>1. LastPos(u) = LastPos(t) /\ \A g : Count(u, g) = Count(t, g)
  BY DEF LastPos, Count
<1>2. Seated(s, u, m, j)
  <2>1. Seated(s, t, m, j)
    BY DEF Entered
  <2> QED BY <1>1, <2>1 DEF Seated
<1> QED BY <1>1, <1>2, Zenon DEF Entered

\* An import over a sheet or after it gathers its groups.
LEMMA SoundGathers ==
  ASSUME CueSheetAssumption, ShowImportAssumption, NEW sheet \in Sound, NEW mode
  PROVE  Gathers(sheet, mode)
<1> DEFINE s == Target(sheet, mode)
<1>1. s \in Sound
  BY ClearSound DEF Target
<1>2. ASSUME NEW m \in Shows, Fits(sheet, m, mode), Room(s, m)
      PROVE  \A t \in {ImportShow(sheet, m, mode, Len(m.cues))} : \A k \in DOMAIN m.groups : GatheredAt(s, t, m, k)
  <2> DEFINE l == Len(m.cues)
             filled == Filled(s, m, l)
             new == ImportShow(sheet, m, mode, l)
  <2>1. l \in Nat /\ l <= l /\ l \in 0..l /\ l <= Cardinality(Cues) - Cardinality(DOMAIN s.cue)
    <3>1. m.cues \in Seq(0..Len(m.groups))
      BY DEF ShowImportAssumption
    <3>2. l \in Nat
      BY <3>1
    <3>3. l <= Cardinality(Cues) - Cardinality(DOMAIN s.cue)
      BY <1>2 DEF Fits
    <3> QED BY <3>2, <3>3
  <2> HIDE DEF s
  <2>2. filled \in Entered(s, m, l)
    BY <1>1, <2>1, FilledEnters
  <2>3. new \in Sound
    BY <1>2, <2>1, ImportShowSound
  <2>4. new.cue = filled.cue /\ new.group = filled.group
    <3>1. filled \in Fields
      BY <2>2 DEF Entered, Sound
    <3> HIDE DEF filled
    <3>2. \A id : SetSelected(filled, id).cue = filled.cue /\ SetSelected(filled, id).group = filled.group
      BY <3>1 DEF SetSelected, Fields
    <3>3. new = filled \/ \E id : new = SetSelected(filled, id)
      <4>1. ~(l < l)
        BY <2>1
      <4>2. new = IF l < l THEN Rollback(filled, s, m, Offset(sheet, mode), l)
                  ELSE IF m.selected = 0 THEN filled
                  ELSE SetSelected(filled, m.selected + Offset(sheet, mode))
        BY Zenon DEF ImportShow, filled, s
      <4> QED BY <4>1, <4>2
    <3> QED BY <3>2, <3>3
  <2> HIDE DEF new, filled
  <2>5. new \in Entered(s, m, l)
    BY <2>2, <2>3, <2>4, EnteredSelected
  <2>6. \A k \in DOMAIN m.groups : GatheredAt(s, new, m, k)
    BY <1>1, <1>2, <2>1, <2>5, GroupGathered
  <2> QED BY <2>6 DEF new
<1>3. \A m \in Shows : Fits(sheet, m, mode) /\ Room(s, m) =>
        \A t \in {ImportShow(sheet, m, mode, Len(m.cues))} : \A k \in DOMAIN m.groups : GatheredAt(s, t, m, k)
  BY <1>2
<1> QED BY <1>3, Zenon DEF Gathers, GatheredAt, Entries

-----------------------------------------------------------------------------
(* Imports that fail leave nothing. *)

\* The cues of a tidy sheet have the positions from 1 on.
LEMMA TidyPlaces ==
  ASSUME CueSheetAssumption, NEW s \in Sound, Tidy(s)
  PROVE  /\ LastPos(s) \in Nat /\ Cardinality(DOMAIN s.cue) = LastPos(s)
         /\ CueOrder(s) \in Seq(DOMAIN s.cue) /\ Len(CueOrder(s)) = LastPos(s)
         /\ \A c \in DOMAIN s.cue : s.cue[c].pos \in 1..LastPos(s) /\ CueOrder(s)[s.cue[c].pos] = c
<1> DEFINE q == CueOrder(s)
           n == Cardinality(DOMAIN s.cue)
<1>1. n \in Nat /\ q \in [1..n -> DOMAIN s.cue] /\ Lists(q, DOMAIN s.cue)
  <2>1. GoodRows(s) /\ DOMAIN s.cue \in SUBSET Rows(s)
    BY SoundParts DEF Rows
  <2> QED BY <2>1, OrderedLists DEF CueOrder
<1>2. \A i \in 1..n : s.cue[q[i]].pos = i
  BY <1>1 DEF Tidy
<1> HIDE DEF q, n
<1>3. q \in Seq(DOMAIN s.cue) /\ Len(q) = n /\ DOMAIN q = 1..n
  BY <1>1
<1>4. \A c \in DOMAIN s.cue : s.cue[c].pos \in 1..n /\ q[s.cue[c].pos] = c
  <2> TAKE c \in DOMAIN s.cue
  <2>1. PICK i \in 1..n : q[i] = c
    BY <1>1, <1>3 DEF Lists
  <2> QED BY <1>2, <2>1
<1>5. LastPos(s) = n
  <2>1. /\ LastPos(s) \in Nat
        /\ \A c \in DOMAIN s.cue : s.cue[c].pos <= LastPos(s)
        /\ LastPos(s) = 0 \/ \E c \in DOMAIN s.cue : s.cue[c].pos = LastPos(s)
    BY LastOnes, Bounds
  <2>2. n = 0 \/ n <= LastPos(s)
    <3>1. CASE n # 0
      <4>1. n \in 1..n
        BY <1>1, <3>1
      <4>2. q[n] \in DOMAIN s.cue /\ s.cue[q[n]].pos = n
        BY <1>1, <1>2, <4>1
      <4> QED BY <2>1, <4>2
    <3> QED BY <3>1
  <2>3. LastPos(s) = 0 \/ LastPos(s) \in 1..n
    BY <1>4, <2>1
  <2> QED BY <1>1, <2>1, <2>2, <2>3
<1> QED BY <1>1, <1>3, <1>4, <1>5 DEF q, n

\* The sheet s with j more cues: they are below its rows, and have the next positions.
Extended(s, g, j) ==
  {t \in Sound :
     /\ t.group = g /\ DOMAIN s.cue \subseteq DOMAIN t.cue
     /\ \A c \in DOMAIN s.cue : t.cue[c] = s.cue[c]
     /\ \A c \in DOMAIN t.cue \ DOMAIN s.cue :
          t.cue[c].idx >= LastIndex(s, Rows(s)) /\ t.cue[c].pos \in (LastPos(s) + 1)..(LastPos(s) + j)
     /\ \A p \in (LastPos(s) + 1)..(LastPos(s) + j) : \E c \in DOMAIN t.cue \ DOMAIN s.cue : t.cue[c].pos = p
     /\ Cardinality(DOMAIN t.cue) = LastPos(s) + j}

\* t has the cues of s, and others below and behind them.
Prolongs(t, s) ==
  /\ DOMAIN s.cue \subseteq DOMAIN t.cue
  /\ \A c \in DOMAIN s.cue : t.cue[c] = s.cue[c]
  /\ \A c \in DOMAIN t.cue \ DOMAIN s.cue :
       t.cue[c].idx >= LastIndex(s, Rows(s)) /\ t.cue[c].pos > LastPos(s)

\* In the order of the cues the old ones come first.
OldFirst(t, s) ==
  /\ \A c \in DOMAIN s.cue : At(CueOrder(t), c) = s.cue[c].pos
  /\ \A c \in DOMAIN t.cue \ DOMAIN s.cue : At(CueOrder(t), c) \in (LastPos(s) + 1)..Cardinality(DOMAIN t.cue)
  /\ \A p \in (LastPos(s) + 1)..Cardinality(DOMAIN t.cue) :
       \E c \in DOMAIN t.cue \ DOMAIN s.cue : At(CueOrder(t), c) = p

\* What is below a tidy sheet comes after it.
LEMMA NewAfterOld ==
  ASSUME CueSheetAssumption, NEW s \in Sound, Tidy(s), NEW t \in Sound, Prolongs(t, s)
  PROVE  OldFirst(t, s)
<1> DEFINE A == DOMAIN s.cue
           S == DOMAIN t.cue
           B == S \ A
           o == CueOrder(t)
           q == CueOrder(s)
           R == Ranked(t, S, {})
           Q == Ranked(s, A, {})
           a == InOrder(o, A)
           b == InOrder(o, B)
           n == LastPos(s)
           N == Cardinality(S)
<1>1. Sorts(o, S, R) /\ StrictOrder(S, R) /\ Sorts(q, A, Q)
  BY SequencesSort
<1>2. /\ n \in Nat /\ q \in Seq(A) /\ Len(q) = n
      /\ \A c \in A : s.cue[c].pos \in 1..n /\ q[s.cue[c].pos] = c
  BY TidyPlaces
<1>3. N \in Nat /\ o \in [1..N -> S] /\ Lists(o, S)
  <2>1. GoodRows(t) /\ DOMAIN t.cue \in SUBSET Rows(t)
    BY SoundParts DEF Rows
  <2> QED BY <2>1, OrderedLists DEF CueOrder
<1>p. /\ DOMAIN s.cue \subseteq DOMAIN t.cue
      /\ \A c \in DOMAIN s.cue : t.cue[c] = s.cue[c]
      /\ \A c \in DOMAIN t.cue \ DOMAIN s.cue :
           t.cue[c].idx >= LastIndex(s, Rows(s)) /\ t.cue[c].pos > LastPos(s)
  BY DEF Prolongs
<1>4. A \in SUBSET S /\ B \in SUBSET S /\ A \cap B = {} /\ A \cup B = S
  BY <1>p
<1>5. /\ \A c \in S : t.cue[c].idx \in Int /\ t.cue[c].pos \in Nat
      /\ \A c \in A : s.cue[c].idx \in Int /\ s.cue[c].idx <= LastIndex(s, Rows(s))
      /\ LastIndex(s, Rows(s)) \in Int
  <2>1. \A c \in S : t.cue[c].idx \in Int /\ t.cue[c].pos \in Nat
    BY SoundParts, RowsAreTwoKinds
  <2>2. \A c \in A : s.cue[c].idx \in Int /\ s.cue[c].idx <= LastIndex(s, Rows(s))
    <3>1. \A c \in A : c \in Rows(s) /\ Index(s, c) = s.cue[c].idx
      BY DEF Rows, Index, IsCue
    <3> QED BY <3>1, LastOnes
  <2> QED BY <2>1, <2>2, Bounds
<1>6. \A x, y \in S : (t.cue[x].idx < t.cue[y].idx \/ (t.cue[x].idx = t.cue[y].idx /\ t.cue[x].pos < t.cue[y].pos))
                      => <<x, y>> \in R
  BY DEF Ranked, Precedes, Index, Number, IsCue
<1>7. \A x, y \in A : <<x, y>> \in Q => <<x, y>> \in R
  BY <1>p, <1>6 DEF Ranked, Precedes, Index, Number, IsCue
<1>8. \A x \in A : \A y \in B : <<x, y>> \in R
  <2> TAKE x \in A
  <2> TAKE y \in B
  <2>1. t.cue[x] = s.cue[x] /\ s.cue[x].idx <= LastIndex(s, Rows(s)) /\ s.cue[x].pos <= n /\ s.cue[x].pos \in Nat
    BY <1>p, <1>2, <1>5
  <2>2. t.cue[y].idx >= LastIndex(s, Rows(s)) /\ t.cue[y].pos > n
    BY <1>p
  <2>3. t.cue[x].idx < t.cue[y].idx \/ (t.cue[x].idx = t.cue[y].idx /\ t.cue[x].pos < t.cue[y].pos)
    BY <1>2, <1>5, <2>1, <2>2
  <2>4. x \in S /\ y \in S
    BY <1>4
  <2> QED BY <1>6, <2>3, <2>4
<1> HIDE DEF R, Q, A, B, S, o, q
<1>9. Sorts(a, A, R) /\ Sorts(b, B, R)
  BY <1>1, <1>4, InOrderSorts
<1>10. a = q
  <2>1. Sorts(q, A, R)
    BY <1>1, <1>7, SortsInLarger
  <2>2. \A x, y \in A : <<x, y>> \in R => <<y, x>> \notin R
    BY <1>1, <1>4 DEF StrictOrder
  <2> HIDE DEF a
  <2> QED BY <1>9, <2>1, <2>2, SortedOnce
<1> HIDE DEF a, b
<1>11. o = a \o b
  <2>1. Sorts(a \o b, A \cup B, R)
    BY <1>4, <1>8, <1>9, SortedConcat
  <2>2. \A x, y \in S : <<x, y>> \in R => <<y, x>> \notin R
    BY <1>1 DEF StrictOrder
  <2> DEFINE u == a \o b
  <2>3. Sorts(u, S, R)
    BY <1>4, <2>1
  <2> HIDE DEF u
  <2>4. o = u
    BY <1>1, <2>2, <2>3, SortedOnce
  <2> QED BY <2>4 DEF u
<1>12. /\ \A i \in 1..n : o[i] = q[i] /\ o[i] \in A
       /\ n <= N /\ \A i \in (n + 1)..N : o[i] \in B
  <2>1. a \in Seq(S) /\ b \in Seq(S) /\ Len(a) = n /\ b \in Seq(B) /\ Len(b) \in Nat
    BY <1>2, <1>4, <1>9, <1>10 DEF Sorts, Lists
  <2>2. /\ Len(o) = n + Len(b) /\ \A i \in 1..n : o[i] = a[i]
        /\ \A k \in 1..Len(b) : o[k + n] = b[k]
    <3>1. /\ Len(a \o b) = Len(a) + Len(b) /\ \A i \in 1..Len(a) : (a \o b)[i] = a[i]
          /\ \A k \in 1..Len(b) : (a \o b)[k + Len(a)] = b[k]
      <4>1. a \in Seq(S) /\ b \in Seq(S)
        BY <2>1
      <4> QED BY <4>1, Joined
    <3> QED BY <1>11, <2>1, <3>1
  <2>3. Len(o) = N
    BY <1>3
  <2>4. \A i \in (n + 1)..N : i - n \in 1..Len(b) /\ i = (i - n) + n
    BY <1>2, <1>3, <2>1, <2>2, <2>3
  <2>5. \A i \in (n + 1)..N : o[i] = b[i - n] /\ b[i - n] \in B
    <3> TAKE i \in (n + 1)..N
    <3> DEFINE k == i - n
    <3>1. k \in 1..Len(b) /\ i = k + n
      BY <2>4
    <3> HIDE DEF k
    <3>2. o[i] = b[k] /\ b[k] \in B
      BY <2>1, <2>2, <3>1
    <3> QED BY <3>2 DEF k
  <2>6. \A i \in 1..n : q[i] \in A
    BY <1>2
  <2> QED BY <1>2, <1>3, <1>10, <2>1, <2>2, <2>3, <2>5, <2>6
<1>13. \A i \in 1..N : At(o, o[i]) = i
  <2> TAKE i \in 1..N
  <2>1. i \in DOMAIN o
    BY <1>3
  <2>2. At(o, o[i]) \in DOMAIN o /\ o[At(o, o[i])] = o[i]
    BY <2>1, AtIsIndex
  <2> QED BY <1>3, <2>1, <2>2 DEF Lists
<1>14. \A c \in A : At(o, c) = s.cue[c].pos
  <2> TAKE c \in A
  <2> DEFINE i == s.cue[c].pos
  <2>1. i \in 1..n /\ q[i] = c
    BY <1>2
  <2> HIDE DEF i
  <2>2. i \in 1..N /\ o[i] = c
    BY <1>2, <1>3, <1>12, <2>1
  <2>3. At(o, c) = i
    BY <1>13, <2>2
  <2> QED BY <2>3 DEF i
<1>15. \A c \in B : At(o, c) \in (n + 1)..N
  <2> TAKE c \in B
  <2>1. PICK i \in 1..N : o[i] = c
    BY <1>3, <1>4 DEF Lists
  <2>2. i \notin 1..n
    BY <1>4, <1>12, <2>1
  <2>3. i \in (n + 1)..N
    BY <1>2, <1>3, <2>1, <2>2
  <2> QED BY <1>13, <2>1, <2>3
<1>16. \A p \in (n + 1)..N : \E c \in B : At(o, c) = p
  <2> TAKE p \in (n + 1)..N
  <2>1. p \in 1..N
    BY <1>2, <1>3
  <2>2. o[p] \in B /\ At(o, o[p]) = p
    BY <1>12, <1>13, <2>1
  <2> QED BY <2>2
<1> QED BY <1>14, <1>15, <1>16 DEF OldFirst, A, B, S, o, n, N

\* RemoveCue: the rest is renumbered, the groups stay.
LEMMA RemoveFields ==
  ASSUME CueSheetAssumption, NEW t \in Sound, NEW d
  PROVE  /\ RemoveCue(t, d) \in Sound /\ RemoveCue(t, d).group = t.group
         /\ RemoveCue(t, d).cue = Renumbered(Without(t, {d})).cue
<1> DEFINE rest == Without(t, {d})
           new == Renumbered(rest)
           id == IF new.anchor = t.cue[d].pos THEN 0 ELSE OldToNew(rest, new.anchor)
<1>1. rest \in Sound /\ rest.group = t.group
  BY WithoutSound
<1>2. RemoveCue(t, d) = [new EXCEPT !.anchor = id]
  BY DEF RemoveCue, new, rest
<1>3. RemoveCue(t, d) \in Sound
  BY RemoveSound
<1> HIDE DEF rest
<1>4. new \in Sound /\ new.group = t.group
  BY <1>1, RenumberedSound, RenumberedFields
<1> HIDE DEF new, id
<1>5. new \in [cue : {new.cue}, group : {new.group}, anchor : {new.anchor}, set : {new.set}]
  BY <1>4 DEF Sound, Fields
<1>6. [new EXCEPT !.anchor = id].group = new.group /\ [new EXCEPT !.anchor = id].cue = new.cue
  BY <1>5
<1> QED BY <1>2, <1>3, <1>4, <1>6 DEF new, rest

\* The position that is taken back first is that of the last new cue: the others keep theirs.
LEMMA LastNewGoes ==
  ASSUME CueSheetAssumption, NEW s \in Sound, Tidy(s), NEW g, NEW j \in Nat \ {0}, NEW t \in Extended(s, g, j)
  PROVE  RemovePosition(t, LastPos(s) + j) \in Extended(s, g, j - 1)
<1> DEFINE n == LastPos(s)
           last == LastIndex(s, Rows(s))
           A == DOMAIN s.cue
<1>1. /\ t \in Sound /\ t.group = g /\ A \subseteq DOMAIN t.cue
      /\ \A c \in A : t.cue[c] = s.cue[c]
      /\ \A c \in DOMAIN t.cue \ A : t.cue[c].idx >= last /\ t.cue[c].pos \in (n + 1)..(n + j)
      /\ \A p \in (n + 1)..(n + j) : \E c \in DOMAIN t.cue \ A : t.cue[c].pos = p
      /\ Cardinality(DOMAIN t.cue) = n + j
  BY DEF Extended
<1>2. n \in Nat
  BY Bounds
<1>3. PICK d \in DOMAIN t.cue \ A : t.cue[d].pos = n + j
  <2>1. n + j \in (n + 1)..(n + j)
    BY <1>2
  <2> QED BY <1>1, <2>1
<1> DEFINE rest == Without(t, {d})
           u == RemoveCue(t, d)
<1>4. RemovePosition(t, n + j) = u
  <2>1. \A x, y \in DOMAIN t.cue : t.cue[x].pos = t.cue[y].pos => x = y
    BY <1>1, SoundParts DEF GoodCues
  <2>2. Named(t, n + j) = {d}
    BY <1>3, <2>1 DEF Named
  <2> QED BY <1>1, <2>2, RemovePositionSound
<1>5. /\ rest \in Sound /\ DOMAIN rest.cue = DOMAIN t.cue \ {d}
      /\ \A c \in DOMAIN t.cue \ {d} : rest.cue[c] = t.cue[c]
  BY <1>1, WithoutSound
<1>6. u \in Sound /\ u.group = g /\ u.cue = Renumbered(rest).cue
  BY <1>1, RemoveFields
<1> HIDE DEF u, rest
<1>7. Cardinality(DOMAIN rest.cue) = n + j - 1
  <2>1. IsFiniteSet(DOMAIN t.cue)
    BY <1>1, SoundParts, RowsAreTwoKinds
  <2>2. Cardinality(DOMAIN t.cue \ {d}) = Cardinality(DOMAIN t.cue) - 1
    BY <1>3, <2>1, FS_RemoveElement
  <2> QED BY <1>1, <1>2, <1>5, <2>2
<1>8. A \subseteq DOMAIN rest.cue /\ \A c \in A : rest.cue[c] = s.cue[c]
  BY <1>1, <1>3, <1>5
<1>9. \A c \in DOMAIN rest.cue \ A : rest.cue[c].idx >= last /\ rest.cue[c].pos > n
  <2> TAKE c \in DOMAIN rest.cue \ A
  <2>1. t.cue[c].idx >= last /\ t.cue[c].pos \in (n + 1)..(n + j) /\ rest.cue[c] = t.cue[c]
    BY <1>1, <1>5
  <2>2. t.cue[c].pos > n
    BY <1>2, <2>1
  <2> QED BY <2>1, <2>2
<1>10. /\ \A c \in A : At(CueOrder(rest), c) = s.cue[c].pos
       /\ \A c \in DOMAIN rest.cue \ A : At(CueOrder(rest), c) \in (n + 1)..(n + j - 1)
       /\ \A p \in (n + 1)..(n + j - 1) : \E c \in DOMAIN rest.cue \ A : At(CueOrder(rest), c) = p
  <2>1. Prolongs(rest, s)
    BY <1>8, <1>9 DEF Prolongs
  <2>2. OldFirst(rest, s)
    BY <1>5, <2>1, NewAfterOld
  <2> QED BY <1>7, <2>2 DEF OldFirst
<1>11. /\ DOMAIN u.cue = DOMAIN rest.cue
       /\ \A c \in DOMAIN rest.cue : /\ u.cue[c].idx = rest.cue[c].idx
                                     /\ u.cue[c].pos = At(CueOrder(rest), c)
                                     /\ u.cue[c].parent = rest.cue[c].parent
  BY <1>5, <1>6, RenumberedFields
<1>12. \A c \in A : u.cue[c] = s.cue[c]
  <2> TAKE c \in A
  <2>1. c \in DOMAIN u.cue /\ u.cue[c].pos = s.cue[c].pos /\ u.cue[c].idx = s.cue[c].idx /\ u.cue[c].parent = s.cue[c].parent
    BY <1>8, <1>10, <1>11
  <2>2. u.cue[c] \in CueRec /\ s.cue[c] \in CueRec
    BY <1>6, <2>1, SoundParts DEF GoodCues
  <2> QED BY <2>1, <2>2 DEF CueRec
<1>13. \A c \in DOMAIN u.cue \ A : u.cue[c].idx >= last /\ u.cue[c].pos \in (n + 1)..(n + j - 1)
  BY <1>9, <1>10, <1>11
<1>14. \A p \in (n + 1)..(n + j - 1) : \E c \in DOMAIN u.cue \ A : u.cue[c].pos = p
  <2> TAKE p \in (n + 1)..(n + j - 1)
  <2>1. PICK c \in DOMAIN rest.cue \ A : At(CueOrder(rest), c) = p
    BY <1>10
  <2> QED BY <1>11, <2>1
<1>15. n + (j - 1) = n + j - 1
  BY <1>2
<1>16. A \subseteq DOMAIN u.cue /\ Cardinality(DOMAIN u.cue) = n + (j - 1)
  BY <1>7, <1>8, <1>11, <1>15
<1>17. u \in Extended(s, g, j - 1)
  <2>1. \A c \in DOMAIN u.cue \ A : u.cue[c].idx >= last /\ u.cue[c].pos \in (n + 1)..(n + (j - 1))
    BY <1>13, <1>15
  <2>2. \A p \in (n + 1)..(n + (j - 1)) : \E c \in DOMAIN u.cue \ A : u.cue[c].pos = p
    BY <1>14, <1>15
  <2> QED BY <1>6, <1>12, <1>16, <2>1, <2>2, Zenon DEF Extended
<1> QED BY <1>4, <1>17

\* The cues of an import extend a tidy sheet.
LEMMA EnteredExtends ==
  ASSUME CueSheetAssumption, ShowImportAssumption, NEW m \in Shows, NEW s \in Sound, Tidy(s),
         Len(m.cues) <= Cardinality(Cues) - Cardinality(DOMAIN s.cue),
         NEW j \in 0..Len(m.cues), NEW t \in Entered(s, m, j)
  PROVE  t \in Extended(s, ImportGroups(s, m).group, j)
<1> DEFINE e == Entries(s)
           n == LastPos(s)
           last == LastIndex(s, Rows(s))
           g == ImportGroups(s, m).group
           A == DOMAIN s.cue
<1>1. /\ Len(m.cues) \in Nat /\ Len(m.groups) \in Nat
      /\ \A i \in 1..Len(m.cues) : m.cues[i] \in 0..Len(m.groups) /\ e[i] \notin A
  BY EntriesNew
<1>2. j \in Nat /\ \A i \in 1..j : i \in Nat /\ i >= 1 /\ m.cues[i] \in 0..Len(m.groups) /\ e[i] \notin A
  <2> DEFINE l == Len(m.cues)
  <2>1. j \in Nat /\ \A i \in 1..j : i \in 1..l /\ i \in Nat /\ i >= 1
    BY <1>1
  <2> QED BY <1>1, <2>1
<1>3. /\ t \in Sound /\ t.group = g /\ DOMAIN t.cue = A \cup {e[i] : i \in 1..j}
      /\ \A c \in A : t.cue[c] = s.cue[c]
      /\ \A i \in 1..j : t.cue[e[i]].pos = n + i
      /\ Cardinality(DOMAIN t.cue) = Cardinality(A) + j
      /\ Seated(s, t, m, j)
  BY DEF Entered
<1>4. /\ n \in Nat /\ Cardinality(A) = n /\ last \in Int /\ last <= (n + 1) * Step /\ Step \in Nat
  BY TidyPlaces, Bounds, StepIsPositive DEF Tidy
<1>5. \A k \in 1..Len(m.groups) : g[LocalId(s, k)].idx = last + k * Step
  BY ImportGroupsPlaced DEF GroupsAt
<1> HIDE DEF e, n, last, g, A
<1>6. \A i \in 1..j : t.cue[e[i]].idx >= last
  <2> TAKE i \in 1..j
  <2>0. t.cue[e[i]].idx \in Int
    BY <1>3, SoundParts, RowsAreTwoKinds
  <2>1. CASE m.cues[i] = 0
    <3>1. t.cue[e[i]].idx = (n + i) * Step
      BY <1>3, <2>1 DEF Seated, e, n
    <3>2. (n + i) * Step = (n + 1) * Step + (i - 1) * Step /\ (n + 1) * Step \in Int /\ (i - 1) * Step \in Nat
      <4>1. i - 1 \in Nat
        BY <1>2
      <4>2. (i - 1) * Step \in Nat
        BY <1>4, <4>1
      <4> QED BY <1>2, <1>4, <4>2
    <3> QED BY <1>4, <3>1, <3>2
  <2>2. CASE m.cues[i] # 0
    <3> DEFINE k == m.cues[i]
    <3>1. k \in 1..Len(m.groups) /\ k \in Nat
      BY <1>1, <1>2, <2>2
    <3>2. t.cue[e[i]].idx > g[LocalId(s, k)].idx
      BY <1>3, <2>2 DEF Seated, e
    <3>3. g[LocalId(s, k)].idx = last + k * Step
      BY <1>5, <3>1
    <3> HIDE DEF k
    <3>4. k * Step \in Nat
      BY <1>4, <3>1
    <3> QED BY <1>4, <2>0, <3>2, <3>3, <3>4
  <2> QED BY <2>1, <2>2
<1>7. \A i \in 1..j : n + i \in (n + 1)..(n + j)
  BY <1>2, <1>4
<1>8. \A p \in (n + 1)..(n + j) : p - n \in 1..j /\ p = n + (p - n)
  BY <1>2, <1>4
<1>9. \A c \in DOMAIN t.cue \ A : t.cue[c].idx >= last /\ t.cue[c].pos \in (n + 1)..(n + j)
  <2> TAKE c \in DOMAIN t.cue \ A
  <2>1. PICK i \in 1..j : c = e[i]
    BY <1>3
  <2> QED BY <1>3, <1>6, <1>7, <2>1
<1>10. \A p \in (n + 1)..(n + j) : \E c \in DOMAIN t.cue \ A : t.cue[c].pos = p
  <2> TAKE p \in (n + 1)..(n + j)
  <2> DEFINE i == p - n
  <2>1. i \in 1..j /\ p = n + i
    BY <1>8
  <2> HIDE DEF i
  <2>2. e[i] \in DOMAIN t.cue \ A /\ t.cue[e[i]].pos = p
    BY <1>2, <1>3, <2>1
  <2> QED BY <2>2
<1>11. A \subseteq DOMAIN t.cue /\ Cardinality(DOMAIN t.cue) = n + j
  BY <1>3, <1>4
<1> QED BY <1>3, <1>9, <1>10, <1>11, Zenon DEF Extended, A, n, last, g

\* A rollback takes the cues of an import back.
LEMMA CuesTakenBack ==
  ASSUME CueSheetAssumption, NEW s \in Sound, Tidy(s), NEW g, NEW n \in Nat, NEW t \in Extended(s, g, n)
  PROVE  FoldLeft(RemovePosition, t, RemovedPositions(LastPos(s), n)) \in Extended(s, g, 0)
<1> DEFINE seq == RemovedPositions(LastPos(s), n)
           stage == [i \in 0..n |-> Extended(s, g, n - i)]
           S == {seq[i] : i \in 1..n}
           N == LastPos(s)
<1>1. seq = [i \in 1..n |-> N + n + 1 - i] /\ N \in Nat
  BY Bounds DEF RemovedPositions
<1> HIDE DEF seq, N
<1>2. seq \in Seq(S) /\ Len(seq) = n
  BY <1>1
<1>3. t \in Sound /\ t \in stage[0]
  BY DEF Extended
<1>4. \A i \in 0..n : stage[i] \subseteq Sound
  BY DEF Extended
<1>5. \A i \in 1..n : \A u \in stage[i - 1] : RemovePosition(u, seq[i]) \in stage[i]
  <2> TAKE i \in 1..n
  <2> TAKE u \in stage[i - 1]
  <2> DEFINE j == n - (i - 1)
  <2>1. j \in Nat \ {0} /\ seq[i] = N + j /\ n - i = j - 1 /\ i \in 0..n /\ i - 1 \in 0..n
    BY <1>1
  <2>2. u \in Extended(s, g, j)
    BY <2>1
  <2> HIDE DEF j
  <2>3. RemovePosition(u, LastPos(s) + j) \in Extended(s, g, j - 1)
    BY <2>1, <2>2, LastNewGoes
  <2>4. stage[i] = Extended(s, g, j - 1)
    BY <2>1
  <2> QED BY <2>1, <2>3, <2>4 DEF N
<1> HIDE DEF S
<1>6. stage[n] = Extended(s, g, 0)
  BY n \in 0..n
<1> HIDE DEF stage
<1>7. FoldLeft(RemovePosition, t, seq) \in stage[Len(seq)]
  BY <1>2, <1>3, <1>4, <1>5, RemovesThrough
<1> QED BY <1>2, <1>6, <1>7 DEF seq

\* With no cue more the cues are those of s.
LEMMA ExtendedByNone ==
  ASSUME NEW s \in Sound, NEW g, LastPos(s) \in Nat, NEW t \in Extended(s, g, 0)
  PROVE  t \in Sound /\ t.cue = s.cue /\ t.group = g
<1>1. /\ t \in Sound /\ t.group = g /\ DOMAIN s.cue \subseteq DOMAIN t.cue
      /\ \A c \in DOMAIN s.cue : t.cue[c] = s.cue[c]
      /\ \A c \in DOMAIN t.cue \ DOMAIN s.cue : t.cue[c].pos \in (LastPos(s) + 1)..(LastPos(s) + 0)
  BY DEF Extended
<1>2. (LastPos(s) + 1)..(LastPos(s) + 0) = {}
  OBVIOUS
<1>3. DOMAIN t.cue = DOMAIN s.cue
  BY <1>1, <1>2
<1>4. t.cue = [c \in DOMAIN t.cue |-> t.cue[c]] /\ s.cue = [c \in DOMAIN s.cue |-> s.cue[c]]
  BY <1>1, SoundParts DEF GoodCues
<1> QED BY <1>1, <1>3, <1>4

\* The sheet s with the groups of an import from the i-th on.
Ungrouped(s, m, i) ==
  {t \in Sound :
     /\ t.cue = s.cue
     /\ DOMAIN t.group = DOMAIN s.group \cup {LocalId(s, k) : k \in (i + 1)..Len(m.groups)}
     /\ \A h \in DOMAIN s.group : t.group[h] = s.group[h]}

\* The groups that were there are in none of an import, and so are the cues.
LEMMA FirstGroupGoes ==
  ASSUME CueSheetAssumption, ShowImportAssumption, NEW m \in Shows, NEW s \in Sound, NEW i \in 1..Len(m.groups),
         Len(m.groups) \in Nat, NEW t \in Ungrouped(s, m, i - 1)
  PROVE  DeleteGroupOnly(t, LocalId(s, i)) \in Ungrouped(s, m, i)
<1> DEFINE g == LocalId(s, i)
           u == DeleteGroupOnly(t, g)
           n == Len(m.groups)
           out(p) == IF p = g THEN 0 ELSE p
           c == [x \in DOMAIN t.cue |-> [t.cue[x] EXCEPT !.parent = out(t.cue[x].parent)]]
           left == [h \in DOMAIN t.group \ {g} |-> [t.group[h] EXCEPT !.up = out(t.group[h].up)]]
           id == IF t.anchor = -g THEN 0 ELSE t.anchor
           e == IF t.anchor = -g THEN {} ELSE t.set
<1>1. /\ t \in Sound /\ t.cue = s.cue /\ \A h \in DOMAIN s.group : t.group[h] = s.group[h]
      /\ DOMAIN t.group = DOMAIN s.group \cup {LocalId(s, k) : k \in (i - 1 + 1)..n}
  BY DEF Ungrouped
<1>2. u = Sh(c, left, id, e)
  <2>1. t \in [cue : CueMaps, group : GroupMaps, anchor : Int, set : SUBSET Int]
    BY <1>1 DEF Sound, Fields
  <2>2. u = [t EXCEPT !.cue = c, !.group = left, !.anchor = id, !.set = e]
    BY DEF DeleteGroupOnly
  <2> HIDE DEF c, left, id, e, u
  <2>3. [t EXCEPT !.cue = c, !.group = left, !.anchor = id, !.set = e]
          \in [cue : {c}, group : {left}, anchor : {id}, set : {e}]
    BY <2>1
  <2> QED BY <2>2, <2>3, OneSheet
<1>3. u.cue = c /\ u.group = left
  <2> HIDE DEF c, left, id, e, u
  <2> QED BY <1>2 DEF Sh
<1>4. u \in Sound
  BY <1>1, DeleteGroupSound
<1>5. /\ g \notin DOMAIN s.group /\ g # 0
      /\ \A x \in DOMAIN s.cue : s.cue[x].parent \in {0} \cup DOMAIN s.group /\ s.cue[x] \in CueRec
      /\ \A h \in DOMAIN s.group : s.group[h].up \in {0} \cup DOMAIN s.group /\ s.group[h] \in GroupRec
  <2>1. i \in Nat \ {0}
    OBVIOUS
  <2>2. g \notin DOMAIN s.group /\ g # 0
    BY <2>1, LocalIdsNew
  <2> QED BY <2>2, SoundParts DEF Members, Tree, GoodCues, GoodGroups
<1>6. u.cue = s.cue
  <2>1. \A x \in DOMAIN s.cue : c[x] = s.cue[x]
    BY <1>1, <1>5 DEF CueRec
  <2>2. DOMAIN c = DOMAIN s.cue /\ c = [x \in DOMAIN s.cue |-> c[x]]
    BY <1>1
  <2>3. s.cue = [x \in DOMAIN s.cue |-> s.cue[x]]
    BY SoundParts DEF GoodCues
  <2> HIDE DEF c
  <2> QED BY <1>3, <2>1, <2>2, <2>3
<1>7. DOMAIN left = DOMAIN s.group \cup {LocalId(s, k) : k \in (i + 1)..n}
  <2>1. \A k \in (i + 1)..n : LocalId(s, k) # g
    <3> TAKE k \in (i + 1)..n
    <3>1. k \in Nat /\ i \in Nat /\ k # i
      OBVIOUS
    <3> QED BY <3>1, LocalIdsNew
  <2>2. (i - 1 + 1)..n = {i} \cup (i + 1)..n
    OBVIOUS
  <2>3. {LocalId(s, k) : k \in (i - 1 + 1)..n} = {g} \cup {LocalId(s, k) : k \in (i + 1)..n}
    BY <2>2
  <2>4. DOMAIN left = DOMAIN t.group \ {g}
    OBVIOUS
  <2> HIDE DEF g, left
  <2> QED BY <1>1, <1>5, <2>1, <2>3, <2>4
<1>8. \A h \in DOMAIN s.group : left[h] = s.group[h]
  <2> TAKE h \in DOMAIN s.group
  <2>1. h \in DOMAIN t.group \ {g} /\ t.group[h] = s.group[h] /\ s.group[h] \in GroupRec /\ s.group[h].up # g
    BY <1>1, <1>5
  <2>2. left[h] = [s.group[h] EXCEPT !.up = s.group[h].up]
    BY <2>1
  <2> HIDE DEF left
  <2> QED BY <2>1, <2>2 DEF GroupRec
<1> HIDE DEF u, left, c
<1>9. u \in Ungrouped(s, m, i)
  BY <1>3, <1>4, <1>6, <1>7, <1>8 DEF Ungrouped
<1> QED BY <1>9 DEF u, g

\* ... and its groups.
LEMMA GroupsTakenBack ==
  ASSUME CueSheetAssumption, ShowImportAssumption, NEW m \in Shows, NEW s \in Sound, NEW t \in Ungrouped(s, m, 0)
  PROVE  /\ FoldLeft(DeleteGroupOnly, t, [k \in DOMAIN m.groups |-> LocalId(s, k)]).cue = s.cue
         /\ FoldLeft(DeleteGroupOnly, t, [k \in DOMAIN m.groups |-> LocalId(s, k)]).group = s.group
<1> DEFINE n == Len(m.groups)
           seq == [k \in DOMAIN m.groups |-> LocalId(s, k)]
           S == {LocalId(s, k) : k \in 1..n}
           stage == [i \in 0..n |-> Ungrouped(s, m, i)]
           u == FoldLeft(DeleteGroupOnly, t, seq)
<1>1. n \in Nat /\ DOMAIN m.groups = 1..n
  <2> DEFINE G == [up : 0..Len(m.groups), fold : BOOLEAN]
  <2>1. m.groups \in Seq(G)
    BY DEF ShowImportAssumption
  <2> HIDE DEF G
  <2> QED BY <2>1
<1>2. seq = [k \in 1..n |-> LocalId(s, k)]
  BY <1>1
<1> HIDE DEF seq
<1>3. seq \in Seq(S) /\ Len(seq) = n
  <2> HIDE DEF n
  <2> QED BY <1>1, <1>2
<1>4. t \in Sound /\ t \in stage[0]
  BY <1>1 DEF Ungrouped
<1>5. \A i \in 0..n : stage[i] \subseteq Sound
  BY DEF Ungrouped
<1>6. \A i \in 1..n : \A x \in stage[i - 1] : DeleteGroupOnly(x, seq[i]) \in stage[i]
  <2> TAKE i \in 1..n
  <2> TAKE x \in stage[i - 1]
  <2>1. i - 1 \in 0..n /\ i \in 0..n /\ i \in 1..Len(m.groups)
    BY <1>1
  <2>2. x \in Ungrouped(s, m, i - 1)
    BY <2>1
  <2>3. DeleteGroupOnly(x, LocalId(s, i)) \in Ungrouped(s, m, i)
    BY <1>1, <2>1, <2>2, FirstGroupGoes
  <2>4. seq[i] = LocalId(s, i)
    BY <1>2
  <2> QED BY <2>1, <2>3, <2>4
<1>7. stage[n] = Ungrouped(s, m, n)
  BY <1>1
<1> HIDE DEF S, stage, n
<1>8. u \in stage[Len(seq)]
  BY <1>3, <1>4, <1>5, <1>6, UngroupsThrough
<1>9. /\ u \in Sound /\ u.cue = s.cue /\ \A h \in DOMAIN s.group : u.group[h] = s.group[h]
      /\ DOMAIN u.group = DOMAIN s.group \cup {LocalId(s, k) : k \in (n + 1)..n}
  BY <1>3, <1>7, <1>8 DEF Ungrouped, n
<1>10. u.group = s.group
  <2>1. (n + 1)..n = {}
    BY <1>1
  <2>2. DOMAIN u.group = DOMAIN s.group
    BY <1>9, <2>1
  <2>3. u.group = [h \in DOMAIN u.group |-> u.group[h]] /\ s.group = [h \in DOMAIN s.group |-> s.group[h]]
    BY <1>9, SoundParts DEF GoodGroups
  <2> HIDE DEF u
  <2> QED BY <1>9, <2>2, <2>3
<1> QED BY <1>9, <1>10 DEF u, seq

\* An import that fails is taken back.
LEMMA SoundFailures ==
  ASSUME CueSheetAssumption, ShowImportAssumption, NEW sheet \in Sound, NEW mode
  PROVE  FailureUndone(sheet, mode)
<1> DEFINE s == Target(sheet, mode)
           offset == Offset(sheet, mode)
<1>1. s \in Sound
  BY ClearSound DEF Target
<1>2. offset = Cardinality(DOMAIN s.cue)
  <2>1. CASE mode = "overwrite"
    <3>1. s.cue = <<>> /\ offset = 0
      BY <2>1 DEF Target, ClearCueSheet, Offset
    <3>2. DOMAIN s.cue = {}
      BY <3>1
    <3> QED BY <3>1, <3>2, FS_EmptySet
  <2>2. CASE mode # "overwrite"
    BY <2>2 DEF Target, Offset
  <2> QED BY <2>1, <2>2
<1> HIDE DEF s, offset
<1>3. ASSUME NEW m \in Shows, Fits(sheet, m, mode), Tidy(s), NEW n \in 0..(Len(m.cues) - 1)
      PROVE  ImportShow(sheet, m, mode, n).cue = s.cue /\ ImportShow(sheet, m, mode, n).group = s.group
  <2> DEFINE l == Len(m.cues)
             filled == Filled(s, m, n)
             g == ImportGroups(s, m).group
             left == FoldLeft(RemovePosition, filled, RemovedPositions(offset, n))
             ids == [k \in DOMAIN m.groups |-> LocalId(s, k)]
             u == FoldLeft(DeleteGroupOnly, left, ids)
  <2>1. l \in Nat /\ l <= Cardinality(Cues) - Cardinality(DOMAIN s.cue)
    <3>1. m.cues \in Seq(0..Len(m.groups))
      BY DEF ShowImportAssumption
    <3>2. l \in Nat
      BY <3>1
    <3>3. l <= Cardinality(Cues) - Cardinality(DOMAIN s.cue)
      BY <1>3 DEF Fits, s
    <3> QED BY <3>2, <3>3
  <2>2. n \in Nat /\ n <= l /\ n < l /\ n \in 0..l
    BY <2>1
  <2>3. filled \in Entered(s, m, n)
    BY <1>1, <2>1, <2>2, FilledEnters
  <2>4. LastPos(s) \in Nat /\ offset = LastPos(s)
    BY <1>1, <1>2, <1>3, TidyPlaces
  <2> HIDE DEF filled
  <2>5. filled \in Extended(s, g, n)
    BY <1>1, <1>3, <2>1, <2>2, <2>3, EnteredExtends
  <2> HIDE DEF g
  <2>6. FoldLeft(RemovePosition, filled, RemovedPositions(LastPos(s), n)) \in Extended(s, g, 0)
    BY <1>1, <1>3, <2>2, <2>5, CuesTakenBack
  <2>7. left \in Extended(s, g, 0)
    BY <2>4, <2>6
  <2> HIDE DEF left
  <2>8. left \in Sound /\ left.cue = s.cue /\ left.group = g
    BY <1>1, <2>4, <2>7, ExtendedByNone
  <2>9. left \in Ungrouped(s, m, 0)
    <3> DEFINE a == NextGroupId(s)
               k0 == Len(m.groups)
    <3>1. /\ k0 \in Nat /\ a \in Nat \ {0} /\ DOMAIN g = DOMAIN s.group \cup a..(a + k0 - 1)
          /\ \A h \in DOMAIN s.group : g[h] = s.group[h]
      BY <1>1, ImportGroupsPlaced, Bounds DEF GroupsAt, GroupsIn, g
    <3>2. \A k : LocalId(s, k) = IF k = 0 THEN 0 ELSE a - 1 + k
      BY DEF LocalId
    <3> HIDE DEF a, k0
    <3>3. a..(a + k0 - 1) = {LocalId(s, k) : k \in (0 + 1)..k0}
      <4>1. \A k \in (0 + 1)..k0 : LocalId(s, k) = a - 1 + k /\ a - 1 + k \in a..(a + k0 - 1)
        BY <3>1, <3>2
      <4>2. \A h \in a..(a + k0 - 1) : h - a + 1 \in (0 + 1)..k0 /\ h = a - 1 + (h - a + 1)
        BY <3>1
      <4> QED BY <4>1, <4>2
    <3> QED BY <2>8, <3>1, <3>3 DEF Ungrouped, k0
  <2>10. u.cue = s.cue /\ u.group = s.group
    BY <1>1, <2>9, GroupsTakenBack
  <2>11. ImportShow(sheet, m, mode, n) = u
    <3>1. ImportShow(sheet, m, mode, n)
            = IF n < l THEN Rollback(filled, s, m, offset, n)
              ELSE IF m.selected = 0 THEN filled
              ELSE SetSelected(filled, m.selected + offset)
      BY Zenon DEF ImportShow, filled, s, offset
    <3>2. Rollback(filled, s, m, offset, n) = u
      BY Zenon DEF Rollback, left
    <3> HIDE DEF u
    <3> QED BY <2>2, <3>1, <3>2
  <2> HIDE DEF u
  <2> QED BY <2>10, <2>11
<1>4. \A m \in Shows : Fits(sheet, m, mode) /\ Tidy(s) => \A n \in 0..(Len(m.cues) - 1) :
        \A t \in {ImportShow(sheet, m, mode, n)} : t.cue = s.cue /\ t.group = s.group
  BY <1>3
<1> QED BY <1>4, Zenon DEF FailureUndone, s

\* Imports into a sound sheet are.
LEMMA SoundImports ==
  ASSUME CueSheetAssumption, ShowImportAssumption, IInv
  PROVE  ImportsSound
<1>1. Sheet \in Sound
  BY DEF IInv
<1> QED BY <1>1, SoundGathers, SoundFailures DEF ImportsSound

-----------------------------------------------------------------------------
\* show.go and export.go: into a sheet of any size, after any edits, a show of any size that is
\* imported over the sheet or after it shows each of its groups as the manifest has it, the
\* header and right below it the members, in order, if these fit below the next whole multiple
\* of Step; and one that is refused at any of its cues leaves a tidy sheet, cue by cue and
\* group by group, as it was, although the positions it removes by move at every step.
THEOREM SheetImportsSound == Spec => []ImportsSound
<1>1. IInv => ImportsSound
  BY SoundImports, CueSheetAssumption, ShowImportAssumption
<1> QED BY <1>1, SheetStays, PTL

\* show.go: the same of a sheet that imports were made into before.
THEOREM ImportImportsSound == ImportSpec => []ImportsSound
<1>1. IInv => ImportsSound
  BY SoundImports, CueSheetAssumption, ShowImportAssumption
<1> QED BY <1>1, ImportedStays, PTL
=============================================================================
