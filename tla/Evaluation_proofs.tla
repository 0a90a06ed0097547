-------------------------- MODULE Evaluation_proofs --------------------------
(***************************************************************************)
(* Proofs about the evaluation (TrialReplay, TrialAttempts,                *)
(* EvaluationCorpus and EvaluationRun together), for any cards, rollouts,  *)
(* processes and profiles.                                                 *)
(*                                                                         *)
(* The ledger only grows, and what a replay reads of a prefix stays what   *)
(* it is while no id is written twice.  The rest is what a process knows   *)
(* at each of its places.                                                  *)
(***************************************************************************)
EXTENDS EvaluationRun, FiniteSetTheorems, SequenceTheorems, WellFoundedInduction, TLAPS

-----------------------------------------------------------------------------
(* Numbers.                                                                *)

\* A set of numbers that is not empty has a least one.
LEMMA LeastNumber ==
    ASSUME NEW S \in SUBSET Nat, S # {}
    PROVE  \E m \in S : \A n \in S : m <= n
<1> DEFINE R == OpToRel(<, Nat)
<1>1. IsWellFoundedOn(R, Nat)
  BY NatLessThanWellFounded
<1>2. R = {ss \in Nat \X Nat : ss[1] < ss[2]}
  BY DEF OpToRel
<1> HIDE DEF R
<1>3. PICK m \in S : \A n \in S : ~(<<n, m>> \in R)
  BY <1>1, WFMin
<1>4. ASSUME NEW n \in S PROVE m <= n
  <2>1. m \in Nat /\ n \in Nat
    OBVIOUS
  <2>2. ~(n < m)
    BY <1>2, <1>3, <2>1
  <2> QED  BY <2>1, <2>2
<1> QED  BY <1>4

\* A finite set of numbers has an element at each of its places.
LEMMA PlaceTaken ==
    ASSUME NEW S \in SUBSET Nat, IsFiniteSet(S)
    PROVE  /\ Cardinality(S) \in Nat
           /\ \A k \in 1..Cardinality(S) : Nth(S, k) \in S
<1> DEFINE Below(i) == {j \in S : j < i}
           Missing == {n \in Nat : n < Cardinality(S) /\ ~\E i \in S : Cardinality(Below(i)) = n}
<1>1. Cardinality(S) \in Nat
  BY FS_CardinalityType
<1>0. \A i \in S : i \in Nat
  OBVIOUS
<1>2. Missing = {}
  <2> SUFFICES ASSUME Missing # {} PROVE FALSE
    OBVIOUS
  <2>1. PICK n \in Missing : \A k \in Missing : n <= k
    <3>1. Missing \in SUBSET Nat
      OBVIOUS
    <3> HIDE DEF Missing
    <3> QED  BY <3>1, LeastNumber
  <2>2. n \in Nat /\ n < Cardinality(S) /\ \A i \in S : Cardinality(Below(i)) # n
    BY <2>1
  <2>3. CASE n = 0
    <3>1. S # {}
      BY <1>1, <2>2, <2>3, FS_EmptySet
    <3>2. PICK m \in S : \A i \in S : m <= i
      BY <3>1, LeastNumber
    <3>3. \A j \in S : ~(j < m)
      BY <1>0, <3>2
    <3>4. Below(m) = {}
      BY <3>3
    <3> QED  BY <2>2, <2>3, <3>4, FS_EmptySet
  <2>4. CASE n # 0
    <3>1. n - 1 \in Nat /\ n - 1 \notin Missing /\ n - 1 < Cardinality(S)
      BY <1>1, <2>1, <2>2, <2>4
    <3>2. PICK i \in S : Cardinality(Below(i)) = n - 1
      BY <3>1
    <3> DEFINE Rest == {j \in S : j > i}
    <3> DEFINE B == Below(i)
    <3>3. IsFiniteSet(B) /\ i \notin B /\ Cardinality(B) = n - 1
      BY <1>0, <3>2, FS_Subset
    <3>8. \A j \in S : j \in B <=> j < i
      OBVIOUS
    <3>9. B \subseteq S
      OBVIOUS
    <3> HIDE DEF B
    <3>4. Cardinality(B \cup {i}) = n
      <4>1. Cardinality(B \cup {i}) = Cardinality(B) + 1
        BY <3>3, FS_AddElement
      <4> QED  BY <2>2, <3>3, <4>1
    <3>5. Rest # {}
      <4> SUFFICES ASSUME Rest = {} PROVE FALSE
        OBVIOUS
      <4>1. \A j \in S : j < i \/ j = i
        BY <1>0
      <4>2. S = B \cup {i}
        BY <3>8, <3>9, <4>1
      <4> QED  BY <2>2, <3>4, <4>2
    <3>6. PICK m \in Rest : \A j \in Rest : m <= j
      BY <3>5, LeastNumber
    <3>10. \A j \in S : j < m <=> (j < i \/ j = i)
      BY <1>0, <3>6
    <3>7. Below(m) = B \cup {i}
      BY <3>8, <3>9, <3>10
    <3> QED  BY <2>2, <3>4, <3>6, <3>7
  <2> QED  BY <2>3, <2>4
<1>3. ASSUME NEW k \in 1..Cardinality(S) PROVE Nth(S, k) \in S
  <2>1. k - 1 \in Nat /\ k - 1 < Cardinality(S)
    BY <1>1
  <2>2. \E i \in S : Cardinality({j \in S : j < i}) = k - 1
    BY <1>2, <2>1
  <2> QED  BY <2>2 DEF Nth
<1> QED  BY <1>1, <1>3

-----------------------------------------------------------------------------
(* Folds and sorted lists.                                                 *)

\* A fold over a set, as a function on its subsets: pick chooses the element that
\* is applied last.
IsFold(it, S, base, pick, step) ==
    it = [s \in SUBSET S |-> IF s = {} THEN base ELSE step[pick[s]][it[s \ {pick[s]}]]]

\* The sets of a finite set with at most k elements.
UpTo(S, k) == {s \in SUBSET S : Cardinality(s) <= k}

\* A fold over a finite set exists when its step stays in a set.
LEMMA FoldExists ==
    ASSUME NEW S, IsFiniteSet(S), NEW D, NEW base \in D, NEW pick, NEW step \in [S -> [D -> D]],
           \A s \in SUBSET S : s # {} => pick[s] \in s
    PROVE  \E it \in [SUBSET S -> D] : IsFold(it, S, base, pick, step)
<1> DEFINE T(f, s) == IF s = {} THEN base ELSE step[pick[s]][f[s \ {pick[s]}]]
           Exists(k) == \E f \in [UpTo(S, k) -> D] : \A s \in UpTo(S, k) : f[s] = T(f, s)
           Missing == {k \in Nat : ~Exists(k)}
<1>1. ASSUME NEW s \in SUBSET S PROVE IsFiniteSet(s) /\ Cardinality(s) \in Nat /\ (Cardinality(s) = 0 <=> s = {})
  BY FS_Subset, FS_CardinalityType, FS_EmptySet
<1>2. ASSUME NEW s \in SUBSET S, s # {}
      PROVE  /\ pick[s] \in S /\ s \ {pick[s]} \in SUBSET S
             /\ Cardinality(s \ {pick[s]}) = Cardinality(s) - 1
  BY <1>1, <1>2, FS_RemoveElement
<1>3. Missing = {}
  <2> SUFFICES ASSUME Missing # {} PROVE FALSE
    OBVIOUS
  <2>1. PICK k \in Missing : \A j \in Missing : k <= j
    <3>1. Missing \in SUBSET Nat
      OBVIOUS
    <3> HIDE DEF Missing
    <3> QED  BY <3>1, LeastNumber
  <2>2. k \in Nat /\ ~Exists(k)
    BY <2>1
  <2>3. k # 0
    <3> DEFINE f == [s \in UpTo(S, 0) |-> base]
    <3>1. \A s \in UpTo(S, 0) : s = {}
      BY <1>1 DEF UpTo
    <3>2. f \in [UpTo(S, 0) -> D] /\ \A s \in UpTo(S, 0) : f[s] = T(f, s)
      BY <3>1
    <3>3. Exists(0)
      BY <3>2
    <3> HIDE DEF Exists
    <3> QED  BY <2>2, <3>3
  <2>4. Exists(k - 1)
    <3>1. k - 1 \in Nat /\ k - 1 < k
      BY <2>2, <2>3
    <3> HIDE DEF Exists
    <3>2. k - 1 \notin Missing
      BY <2>1, <2>2, <3>1
    <3> QED  BY <3>1, <3>2
  <2>5. PICK f \in [UpTo(S, k - 1) -> D] : \A s \in UpTo(S, k - 1) : f[s] = T(f, s)
    BY <2>4
  <2> DEFINE g == [s \in UpTo(S, k) |-> T(f, s)]
  <2>6. ASSUME NEW s \in UpTo(S, k), s # {}
        PROVE  s \ {pick[s]} \in UpTo(S, k - 1) /\ pick[s] \in S
    BY <1>1, <1>2, <2>2, <2>6 DEF UpTo
  <2>7. ASSUME NEW s \in UpTo(S, k) PROVE T(f, s) \in D
    <3>1. CASE s = {}
      BY <3>1
    <3>2. CASE s # {}
      <4>1. f[s \ {pick[s]}] \in D /\ step[pick[s]] \in [D -> D]
        BY <2>6, <3>2
      <4> QED  BY <3>2, <4>1
    <3> QED  BY <3>1, <3>2
  <2>8. g \in [UpTo(S, k) -> D]
    <3> HIDE DEF T
    <3> QED  BY <2>7
  <2>9. ASSUME NEW s \in UpTo(S, k - 1) PROVE g[s] = f[s]
    <3>1. s \in UpTo(S, k)
      BY <1>1, <2>2 DEF UpTo
    <3> HIDE DEF T
    <3> QED  BY <2>5, <3>1
  <2>10. ASSUME NEW s \in UpTo(S, k) PROVE g[s] = T(g, s)
    <3>1. g[s] = T(f, s)
      OBVIOUS
    <3> HIDE DEF g
    <3>2. CASE s = {}
      BY <3>1, <3>2
    <3>3. CASE s # {}
      <4>1. g[s \ {pick[s]}] = f[s \ {pick[s]}]
        BY <2>6, <2>9, <3>3
      <4> QED  BY <3>1, <3>3, <4>1
    <3> QED  BY <3>2, <3>3
  <2> HIDE DEF g, T
  <2> QED  BY <2>2, <2>8, <2>10
<1>4. Cardinality(S) \in Nat /\ UpTo(S, Cardinality(S)) = SUBSET S
  <2>1. \A s \in SUBSET S : Cardinality(s) <= Cardinality(S)
    BY FS_Subset
  <2> QED  BY <1>1, <2>1 DEF UpTo
<1>5. PICK f \in [SUBSET S -> D] : \A s \in SUBSET S : f[s] = T(f, s)
  <2>1. Exists(Cardinality(S))
    <3> HIDE DEF Exists
    <3> QED  BY <1>3, <1>4
  <2> QED  BY <1>4, <2>1
<1>6. f = [s \in SUBSET S |-> T(f, s)]
  <2> HIDE DEF T
  <2> QED  BY <1>5
<1> QED  BY <1>6 DEF IsFold

\* The greatest of a set of numbers.
LEMMA MaxIn ==
    ASSUME NEW n \in Nat, NEW s \in SUBSET (1..n), s # {}
    PROVE  Max(s) \in s /\ \A x \in s : x <= Max(s)
<1> DEFINE B == {b \in Nat : \A x \in s : x <= b}
<1>1. n \in B /\ B \in SUBSET Nat
  OBVIOUS
<1>2. PICK b \in B : \A c \in B : b <= c
  <2> HIDE DEF B
  <2> QED  BY <1>1, LeastNumber
<1>3. b \in s
  <2> SUFFICES ASSUME b \notin s PROVE FALSE
    OBVIOUS
  <2>1. \A x \in s : x \in Nat /\ x > 0 /\ x <= b /\ x # b
    BY <1>2
  <2>2. b \in Nat /\ b # 0
    <3>1. PICK x : x \in s
      OBVIOUS
    <3> QED  BY <1>2, <2>1, <3>1
  <2>3. b - 1 \in B
    BY <1>2, <2>1, <2>2
  <2> QED  BY <1>2, <2>2, <2>3
<1>4. \A y \in s : b >= y
  BY <1>2
<1>5. PICK x : x = CHOOSE c \in s : \A y \in s : c >= y
  OBVIOUS
<1>6. x \in s /\ \A y \in s : x >= y
  BY <1>3, <1>4, <1>5
<1> QED  BY <1>5, <1>6 DEF Max

\* The places of a list, from the last.
LEMMA LastPlace ==
    ASSUME NEW n \in Nat
    PROVE  /\ \A s \in SUBSET (1..n) : s # {} => [t \in SUBSET (1..n) |-> Max(t)][s] \in s
           /\ \A k \in 1..n : 1..k \in SUBSET (1..n) /\ 1..k # {} /\ Max(1..k) = k /\ (1..k) \ {k} = 1..(k - 1)
           /\ 1..0 = {} /\ IsFiniteSet(1..n)
<1>1. \A s \in SUBSET (1..n) : s # {} => [t \in SUBSET (1..n) |-> Max(t)][s] \in s
  BY MaxIn
<1>2. ASSUME NEW k \in 1..n
      PROVE  1..k \in SUBSET (1..n) /\ 1..k # {} /\ Max(1..k) = k /\ (1..k) \ {k} = 1..(k - 1)
  <2>1. 1..k \in SUBSET (1..n) /\ k \in 1..k
    OBVIOUS
  <2>2. Max(1..k) \in 1..k /\ k <= Max(1..k)
    BY <2>1, MaxIn
  <2> QED  BY <2>1, <2>2
<1>3. 1..0 = {} /\ IsFiniteSet(1..n)
  BY FS_Interval
<1> QED  BY <1>1, <1>2, <1>3

\* What holds at the start and from each place to the next holds at every place.
LEMMA CountTo ==
    ASSUME NEW n \in Nat, NEW D, 0 \in D, \A k \in 1..n : k - 1 \in D => k \in D
    PROVE  0..n \subseteq D
<1> DEFINE Out == {k \in 0..n : k \notin D}
<1> SUFFICES ASSUME Out # {} PROVE FALSE
  OBVIOUS
<1>1. PICK k \in Out : \A j \in Out : k <= j
  <2>1. Out \in SUBSET Nat
    OBVIOUS
  <2> HIDE DEF Out
  <2> QED  BY <2>1, LeastNumber
<1>2. k \in 1..n /\ k - 1 \in 0..n /\ k - 1 < k
  BY <1>1
<1>3. k - 1 \in D
  BY <1>1, <1>2
<1> QED  BY <1>1, <1>2, <1>3

\* A fold over a list of n elements, and its values from place to place.
IsListFold(it, n, base, step) ==
    it = [s \in SUBSET (1..n) |-> IF s = {} THEN base ELSE step[Max(s)][it[s \ {Max(s)}]]]

AreValues(g, n, base, step) == g[0] = base /\ \A k \in 1..n : g[k] = step[k][g[k - 1]]

\* A fold over a list exists when its step stays in a set.
LEMMA ListFoldExists ==
    ASSUME NEW n \in Nat, NEW D, NEW base \in D, NEW step \in [1..n -> [D -> D]]
    PROVE  \E it \in [SUBSET (1..n) -> D] : IsListFold(it, n, base, step)
<1> DEFINE pick == [t \in SUBSET (1..n) |-> Max(t)]
<1>1. PICK S : S = 1..n
  OBVIOUS
<1>2. IsFiniteSet(S) /\ \A s \in SUBSET S : s # {} => pick[s] \in s /\ pick[s] = Max(s)
  BY <1>1, LastPlace
<1> HIDE DEF pick
<1>3. PICK it \in [SUBSET S -> D] : IsFold(it, S, base, pick, step)
  BY <1>1, <1>2, FoldExists
<1>4. it = [s \in SUBSET S |-> IF s = {} THEN base ELSE step[Max(s)][it[s \ {Max(s)}]]]
  BY <1>2, <1>3 DEF IsFold
<1> QED  BY <1>1, <1>4 DEF IsListFold

\* The values of a fold, place by place.
LEMMA ListFoldValues ==
    ASSUME NEW n \in Nat, NEW D, NEW base \in D, NEW f, NEW step \in [1..n -> [D -> D]],
           f[{}] = base,
           \A k \in 1..n : f[1..(k - 1)] \in D => f[1..k] = step[k][f[1..(k - 1)]]
    PROVE  \E g \in [0..n -> D] : g[n] = f[1..n] /\ AreValues(g, n, base, step)
<1> DEFINE Good == {k \in 0..n : f[1..k] \in D}
<1>1. 0 \in Good
  BY LastPlace
<1>2. \A k \in 1..n : k - 1 \in Good => k \in Good
  OBVIOUS
<1> HIDE DEF Good
<1>3. 0..n \subseteq Good
  BY <1>1, <1>2, CountTo
<1>4. \A k \in 0..n : f[1..k] \in D
  BY <1>3 DEF Good
<1> DEFINE g == [k \in 0..n |-> f[1..k]]
<1>5. g \in [0..n -> D] /\ g[0] = base /\ g[n] = f[1..n]
  BY <1>4, LastPlace
<1>6. \A k \in 1..n : g[k] = step[k][g[k - 1]]
  BY <1>4
<1> HIDE DEF g
<1> QED  BY <1>5, <1>6 DEF AreValues

\* A strict total order on a set.
Orders(before, S) ==
    /\ before \subseteq S \X S
    /\ \A x \in S : <<x, x>> \notin before
    /\ \A x, y, z \in S : <<x, y>> \in before /\ <<y, z>> \in before => <<x, z>> \in before
    /\ \A x, y \in S : x = y \/ <<x, y>> \in before \/ <<y, x>> \in before

\* Sorting lists every element once, in order.
LEMMA SortedByLists ==
    ASSUME NEW S, IsFiniteSet(S), NEW before, Orders(before, S)
    PROVE  LET s == SortedBy(S, before)
               n == Cardinality(S)
           IN  /\ n \in Nat /\ s \in [1..n -> S] /\ DOMAIN s = 1..n
               /\ \A x \in S : \E k \in 1..n : s[k] = x
               /\ \A i, j \in 1..n : i < j => <<s[i], s[j]>> \in before
<1> DEFINE n == Cardinality(S)
           Below(x) == {y \in S : <<y, x>> \in before}
           rank == [x \in S |-> Cardinality(Below(x))]
           s == SortedBy(S, before)
<1>1. n \in Nat /\ IsFiniteSet(0..(n - 1)) /\ Cardinality(0..(n - 1)) = n
  <2>1. n \in Nat
    BY FS_CardinalityType
  <2>2. 0 \in Int /\ n - 1 \in Int
    BY <2>1
  <2>3. IsFiniteSet(0..(n - 1)) /\ Cardinality(0..(n - 1)) = IF 0 > n - 1 THEN 0 ELSE n - 1 - 0 + 1
    BY <2>2, FS_Interval
  <2> QED  BY <2>1, <2>3
<1>2. ASSUME NEW x \in S
      PROVE  IsFiniteSet(Below(x)) /\ rank[x] = Cardinality(Below(x)) /\ rank[x] \in 0..(n - 1)
  <2>1. Below(x) \in SUBSET S /\ x \notin Below(x)
    BY DEF Orders
  <2>2. IsFiniteSet(Below(x)) /\ Cardinality(Below(x)) <= n /\ (n = Cardinality(Below(x)) => S = Below(x))
    BY <2>1, FS_Subset
  <2>3. Cardinality(Below(x)) \in Nat
    BY <2>2, FS_CardinalityType
  <2> QED  BY <1>1, <2>1, <2>2, <2>3
<1>3. ASSUME NEW x \in S, NEW y \in S, <<x, y>> \in before PROVE rank[x] < rank[y]
  <2>1. Below(x) \in SUBSET Below(y) /\ x \in Below(y) /\ x \notin Below(x)
    BY <1>3 DEF Orders
  <2>2. Cardinality(Below(x)) <= Cardinality(Below(y)) /\ Cardinality(Below(x)) # Cardinality(Below(y))
    <3>1. PICK X, Y : X = Below(x) /\ Y = Below(y)
      OBVIOUS
    <3>2. IsFiniteSet(Y) /\ X \in SUBSET Y /\ X # Y
      BY <1>2, <2>1, <3>1
    <3>3. Cardinality(X) <= Cardinality(Y) /\ (Cardinality(Y) = Cardinality(X) => Y = X)
      BY <3>2, FS_Subset
    <3> HIDE DEF Below
    <3> QED  BY <3>1, <3>2, <3>3
  <2> HIDE DEF Below, rank, n
  <2>3. rank[x] \in Int /\ rank[y] \in Int
    BY <1>1, <1>2
  <2> QED  BY <1>2, <2>2, <2>3
<1> HIDE DEF rank, Below
<1>4. \A x, y \in S : rank[x] = rank[y] => x = y
  <2> TAKE x, y \in S
  <2> HAVE rank[x] = rank[y]
  <2>1. rank[x] \in Int /\ rank[y] \in Int
    BY <1>1, <1>2
  <2>2. <<x, y>> \notin before /\ <<y, x>> \notin before
    BY <1>3, <2>1
  <2> QED  BY <2>2 DEF Orders
<1>5. ASSUME NEW k \in 1..n PROVE \E x \in S : rank[x] = k - 1
  <2>1. rank \in Injection(S, 0..(n - 1))
    <3>1. rank \in [S -> 0..(n - 1)]
      BY <1>2 DEF rank
    <3> QED  BY <1>4, <3>1 DEF Injection, IsInjective
  <2>2. rank \in Surjection(S, 0..(n - 1))
    BY <1>1, <2>1, FS_Injection
  <2>3. k - 1 \in 0..(n - 1)
    BY <1>1
  <2> QED  BY <2>2, <2>3 DEF Surjection
<1>6. ASSUME NEW k \in 1..n PROVE s[k] \in S /\ rank[s[k]] = k - 1
  <2>1. s[k] = CHOOSE x \in S : Cardinality(Below(x)) = k - 1
    BY DEF SortedBy, Below
  <2>2. PICK x \in S : Cardinality(Below(x)) = k - 1
    BY <1>2, <1>5
  <2> HIDE DEF Below, s
  <2>3. s[k] \in S /\ Cardinality(Below(s[k])) = k - 1
    BY <2>1, <2>2
  <2> QED  BY <1>2, <2>3
<1>7. s = [k \in 1..n |-> s[k]]
  <2> DEFINE at(k) == CHOOSE x \in S : Cardinality({y \in S : <<y, x>> \in before}) = k - 1
  <2>1. s = [k \in 1..n |-> at(k)]
    BY DEF SortedBy
  <2> HIDE DEF at, s
  <2> QED  BY <2>1
<1> HIDE DEF s, Below, n
<1>8. s \in [1..n -> S] /\ DOMAIN s = 1..n
  BY <1>6, <1>7
<1>9. \A x \in S : \E k \in 1..n : s[k] = x
  <2> TAKE x \in S
  <2>1. rank[x] \in 0..(n - 1)
    BY <1>2
  <2>2. rank[x] + 1 \in 1..n /\ (rank[x] + 1) - 1 = rank[x]
    BY <1>1, <2>1
  <2> QED  BY <1>4, <1>6, <2>2
<1>10. \A i, j \in 1..n : i < j => <<s[i], s[j]>> \in before
  <2> TAKE i, j \in 1..n
  <2> HAVE i < j
  <2>1. s[i] \in S /\ s[j] \in S /\ rank[s[i]] = i - 1 /\ rank[s[j]] = j - 1
    BY <1>6
  <2>2. ~(rank[s[j]] < rank[s[i]]) /\ s[i] # s[j]
    BY <1>1, <2>1
  <2> QED  BY <1>3, <2>1, <2>2 DEF Orders
<1> QED  BY <1>1, <1>8, <1>9, <1>10 DEF s, n

-----------------------------------------------------------------------------
(* Logs.                                                                   *)

IsLog(e) == e \in Seq({e[i] : i \in 1..Len(e)})

\* s is e and what was appended to it.
Grows(e, s) ==
    /\ IsLog(e) /\ IsLog(s)
    /\ Len(e) \in Nat /\ Len(s) \in Nat /\ Len(e) <= Len(s)
    /\ DOMAIN e = 1..Len(e) /\ DOMAIN s = 1..Len(s)
    /\ \A i \in 1..Len(e) : s[i] = e[i]

\* A log has its positions.
LEMMA LogPositions ==
    ASSUME NEW e, IsLog(e)
    PROVE  Len(e) \in Nat /\ DOMAIN e = 1..Len(e) /\ Grows(e, e)
BY DEF IsLog, Grows

\* Two logs, one behind the other.
LEMMA LogsJoin ==
    ASSUME NEW e, IsLog(e), NEW b, IsLog(b)
    PROVE  /\ Grows(e, e \o b)
           /\ Len(e \o b) = Len(e) + Len(b)
           /\ \A k \in 1..Len(b) : (e \o b)[Len(e) + k] = b[k]
<1> DEFINE T == {e[i] : i \in 1..Len(e)} \cup {b[i] : i \in 1..Len(b)}
           t == e \o b
<1>1. e \in Seq(T) /\ b \in Seq(T)
  <2> DEFINE E == {e[i] : i \in 1..Len(e)}
             B == {b[i] : i \in 1..Len(b)}
  <2>1. e \in Seq(E) /\ b \in Seq(B) /\ T = E \cup B
    BY DEF IsLog
  <2> HIDE DEF E, B, T
  <2> QED  BY <2>1
<1> HIDE DEF T
<1>2. /\ t \in Seq(T) /\ Len(e) \in Nat /\ Len(b) \in Nat /\ Len(t) = Len(e) + Len(b)
      /\ \A i \in 1..Len(e) : t[i] = e[i]
      /\ \A k \in 1..Len(b) : t[Len(e) + k] = b[k]
  BY <1>1
<1> HIDE DEF t
<1> DEFINE U == {t[j] : j \in 1..Len(t)}
<1>3. \A i \in 1..Len(t) : t[i] \in U
  OBVIOUS
<1> HIDE DEF U
<1>4. t \in Seq(U) /\ DOMAIN t = 1..Len(t)
  BY <1>2, <1>3
<1> USE DEF U
<1>5. IsLog(t) /\ Grows(e, t)
  BY <1>2, <1>4, LogPositions DEF Grows, IsLog
<1> QED  BY <1>2, <1>5 DEF t

\* One entry more.
LEMMA LogGrows ==
    ASSUME NEW e, IsLog(e), NEW r
    PROVE  /\ Grows(e, Append(e, r))
           /\ Len(Append(e, r)) = Len(e) + 1
           /\ Append(e, r)[Len(e) + 1] = r
<1> DEFINE b == <<r>>
<1>1. IsLog(b) /\ Len(b) = 1 /\ b[1] = r
  BY DEF IsLog
<1>2. Append(e, r) = e \o b
  <2> DEFINE T == {e[i] : i \in 1..Len(e)} \cup {r}
  <2>1. e \in Seq(T) /\ r \in T
    <3> DEFINE E == {e[i] : i \in 1..Len(e)}
    <3>1. e \in Seq(E) /\ T = E \cup {r}
      BY DEF IsLog
    <3> HIDE DEF E, T
    <3> QED  BY <3>1
  <2> HIDE DEF T
  <2> QED  BY <2>1
<1> HIDE DEF b
<1>3. Grows(e, e \o b) /\ Len(e \o b) = Len(e) + 1 /\ (e \o b)[Len(e) + 1] = b[1]
  BY <1>1, LogsJoin
<1> QED  BY <1>1, <1>2, <1>3

\* A list of anything is a log.
LEMMA ListIsLog ==
    ASSUME NEW n \in Nat, NEW f, f = [k \in 1..n |-> f[k]]
    PROVE  IsLog(f) /\ Len(f) = n
<1> DEFINE T == {f[i] : i \in 1..n}
<1>1. \A i \in 1..n : f[i] \in T
  OBVIOUS
<1> HIDE DEF T
<1>2. f \in [1..n -> T]
  BY <1>1
<1>3. f \in Seq(T) /\ Len(f) = n
  BY <1>2
<1> QED  BY <1>3 DEF T, IsLog

\* A log grows in steps.
LEMMA GrowsOn ==
    ASSUME NEW e, NEW s, NEW t, Grows(e, s), Grows(s, t)
    PROVE  Grows(e, t)
BY DEF Grows

-----------------------------------------------------------------------------
(* Causal ancestors.                                                       *)

\* The equation of Ancestors for the first n entries.
IsUp(e, f, n) == f = [i \in 1..n |-> {i} \cup UNION {f[q] : q \in e[i].parents \cap 1..i - 1}]

\* A function on 1..n is what it is at each place.
LEMMA UpAt ==
    ASSUME NEW e, NEW f, NEW n \in Nat, IsUp(e, f, n), NEW i \in 1..n
    PROVE  f[i] = {i} \cup UNION {f[q] : q \in e[i].parents \cap 1..i - 1}
<1> DEFINE F(g) == [j \in 1..n |-> {j} \cup UNION {g[q] : q \in e[j].parents \cap 1..j - 1}]
<1>1. f = F(f)
  BY DEF IsUp
<1>2. F(f)[i] = {i} \cup UNION {f[q] : q \in e[i].parents \cap 1..i - 1}
  OBVIOUS
<1> HIDE DEF F
<1> QED  BY <1>1, <1>2

\* The equation has a solution.
LEMMA UpExists ==
    ASSUME NEW e, NEW n \in Nat
    PROVE  \E f : IsUp(e, f, n)
<1> DEFINE Missing == {m \in Nat : ~\E f : IsUp(e, f, m)}
<1> SUFFICES ASSUME Missing # {} PROVE FALSE
  OBVIOUS
<1>1. PICK m \in Missing : \A k \in Missing : m <= k
  <2>1. Missing \in SUBSET Nat
    OBVIOUS
  <2> HIDE DEF Missing
  <2> QED  BY <2>1, LeastNumber
<1>2. m \in Nat /\ ~\E f : IsUp(e, f, m)
  BY <1>1
<1>3. CASE m = 0
  <2> DEFINE f == [i \in 1..0 |-> {}]
  <2>1. f = [i \in 1..0 |-> {i} \cup UNION {f[q] : q \in e[i].parents \cap 1..i - 1}]
    OBVIOUS
  <2>2. IsUp(e, f, 0)
    BY <2>1 DEF IsUp
  <2> QED  BY <1>2, <1>3, <2>2
<1>4. CASE m # 0
  <2>1. m - 1 \in Nat /\ m - 1 \notin Missing /\ m \in 1..m
    BY <1>1, <1>2, <1>4
  <2>2. PICK f : IsUp(e, f, m - 1)
    BY <2>1
  <2> DEFINE top == {m} \cup UNION {f[q] : q \in e[m].parents \cap 1..m - 1}
             g == [i \in 1..m |-> IF i = m THEN top ELSE f[i]]
             h == [i \in 1..m |-> {i} \cup UNION {g[q] : q \in e[i].parents \cap 1..i - 1}]
  <2>3. \A q \in 1..m - 1 : g[q] = f[q]
    BY <2>1
  <2> HIDE DEF top
  <2>4. ASSUME NEW i \in 1..m PROVE g[i] = h[i]
    <3>1. {g[q] : q \in e[i].parents \cap 1..i - 1} = {f[q] : q \in e[i].parents \cap 1..i - 1}
      <4>1. \A q \in e[i].parents \cap 1..i - 1 : g[q] = f[q]
        BY <1>2, <2>3
      <4> HIDE DEF g
      <4> QED  BY <4>1
    <3>2. h[i] = {i} \cup UNION {f[q] : q \in e[i].parents \cap 1..i - 1}
      <4>1. h[i] = {i} \cup UNION {g[q] : q \in e[i].parents \cap 1..i - 1}
        OBVIOUS
      <4> HIDE DEF g, h
      <4> QED  BY <3>1, <4>1
    <3>3. CASE i = m
      <4>1. g[i] = top
        BY <3>3
      <4> HIDE DEF g, h
      <4> QED  BY <3>2, <3>3, <4>1 DEF top
    <3>4. CASE i # m
      <4>1. i \in 1..m - 1 /\ g[i] = f[i]
        BY <1>2, <2>3, <3>4
      <4>2. f[i] = {i} \cup UNION {f[q] : q \in e[i].parents \cap 1..i - 1}
        BY <2>1, <2>2, <4>1, UpAt
      <4> HIDE DEF g, h
      <4> QED  BY <3>2, <4>1, <4>2
    <3> QED  BY <3>3, <3>4
  <2>5. g = h
    <3>1. g = [i \in 1..m |-> g[i]] /\ h = [i \in 1..m |-> h[i]]
      OBVIOUS
    <3> HIDE DEF g, h
    <3>2. [i \in 1..m |-> g[i]] = [i \in 1..m |-> h[i]]
      BY <2>4
    <3> QED  BY <3>1, <3>2
  <2>6. IsUp(e, g, m)
    <3> HIDE DEF g
    <3> QED  BY <2>5 DEF IsUp
  <2> QED  BY <1>2, <2>6
<1> QED  BY <1>3, <1>4

\* The ancestors of an event are itself and those of its parents.
LEMMA AncestorsUp ==
    ASSUME NEW e, Len(e) \in Nat
    PROVE  IsUp(e, Ancestors(e), Len(e))
<1>1. \E f : IsUp(e, f, Len(e))
  BY UpExists
<1>2. Ancestors(e) = CHOOSE f : IsUp(e, f, Len(e))
  BY DEF Ancestors, IsUp
<1> QED  BY <1>1, <1>2, Zenon

\* The ancestors of an event lie behind it, and stay what they are.
LEMMA AncestorsStay ==
    ASSUME NEW e, NEW s, Grows(e, s), NEW i \in 1..Len(e)
    PROVE  Ancestors(s)[i] = Ancestors(e)[i] /\ Ancestors(e)[i] \subseteq 1..i
<1> DEFINE f == Ancestors(e)
           g == Ancestors(s)
           Bad == {j \in 1..Len(e) : ~(g[j] = f[j] /\ f[j] \subseteq 1..j)}
<1>1. IsUp(e, f, Len(e)) /\ IsUp(s, g, Len(s)) /\ Len(e) \in Nat /\ Len(s) \in Nat /\ Len(e) <= Len(s)
  BY AncestorsUp DEF Grows
<1> HIDE DEF f, g
<1>2. Bad = {}
  <2> SUFFICES ASSUME Bad # {} PROVE FALSE
    OBVIOUS
  <2>1. PICK m \in Bad : \A j \in Bad : m <= j
    <3>1. Bad \in SUBSET Nat
      BY <1>1
    <3> HIDE DEF Bad
    <3> QED  BY <3>1, LeastNumber
  <2>2. m \in 1..Len(e) /\ m \in 1..Len(s) /\ ~(g[m] = f[m] /\ f[m] \subseteq 1..m)
    BY <1>1, <2>1
  <2>3. \A q \in 1..m - 1 : g[q] = f[q] /\ f[q] \subseteq 1..q
    <3> SUFFICES ASSUME NEW q \in 1..m - 1 PROVE g[q] = f[q] /\ f[q] \subseteq 1..q
      OBVIOUS
    <3>1. q \in 1..Len(e) /\ ~(m <= q)
      BY <1>1, <2>2
    <3>2. q \notin Bad
      BY <2>1, <3>1
    <3> QED  BY <3>1, <3>2
  <2> HIDE DEF Bad
  <2>4. f[m] = {m} \cup UNION {f[q] : q \in e[m].parents \cap 1..m - 1}
    BY <1>1, <2>2, UpAt
  <2>5. g[m] = {m} \cup UNION {g[q] : q \in s[m].parents \cap 1..m - 1}
    BY <1>1, <2>2, UpAt
  <2>6. s[m] = e[m]
    BY <2>2 DEF Grows
  <2>7. g[m] = f[m]
    BY <2>3, <2>4, <2>5, <2>6
  <2>8. f[m] \subseteq 1..m
    <3> SUFFICES ASSUME NEW x \in f[m] PROVE x \in 1..m
      OBVIOUS
    <3>1. CASE x = m
      BY <2>2, <3>1
    <3>2. CASE x # m
      <4>1. PICK q \in e[m].parents \cap 1..m - 1 : x \in f[q]
        BY <2>4, <3>2
      <4>2. x \in 1..q /\ q \in 1..m - 1 /\ m \in Nat
        BY <1>1, <2>2, <2>3, <4>1
      <4> QED  BY <4>2
    <3> QED  BY <3>1, <3>2
  <2> QED  BY <2>2, <2>7, <2>8
<1>3. i \notin Bad
  BY <1>2
<1> QED  BY <1>3 DEF f, g

\* What one event descends from.
LEMMA DescentStays ==
    ASSUME NEW e, NEW s, Grows(e, s), NEW i \in 1..Len(e), NEW a
    PROVE  isCausalDescendant(s, i, a) <=> isCausalDescendant(e, i, a)
BY AncestorsStay DEF isCausalDescendant

\* What several events descend from.
LEMMA InheritedStays ==
    ASSUME NEW e, NEW s, Grows(e, s), NEW events \in SUBSET (1..Len(e)), NEW kinds
    PROVE  causalAncestorKinds(s, events, kinds) = causalAncestorKinds(e, events, kinds)
<1>1. \A i \in events : Ancestors(s)[i] = Ancestors(e)[i] /\ Ancestors(e)[i] \subseteq 1..Len(e)
  <2> SUFFICES ASSUME NEW i \in events
               PROVE  Ancestors(s)[i] = Ancestors(e)[i] /\ Ancestors(e)[i] \subseteq 1..Len(e)
    OBVIOUS
  <2>1. i \in 1..Len(e) /\ Len(e) \in Nat
    BY DEF Grows
  <2>2. Ancestors(s)[i] = Ancestors(e)[i] /\ Ancestors(e)[i] \subseteq 1..i
    BY <2>1, AncestorsStay
  <2> QED  BY <2>1, <2>2
<1>2. \A q \in UNION {Ancestors(e)[i] : i \in events} : s[q] = e[q]
  BY <1>1 DEF Grows
<1>3. UNION {Ancestors(s)[i] : i \in events} = UNION {Ancestors(e)[i] : i \in events}
  BY <1>1
<1> QED  BY <1>2, <1>3 DEF causalAncestorKinds

-----------------------------------------------------------------------------
(* Ids.                                                                    *)

\* Where a log has an event of a kind, or an id.
LEMMA WhereIs ==
    ASSUME NEW e, IsLog(e), NEW i
    PROVE  /\ \A k : i \in OfKind(e, k) <=> (i \in 1..Len(e) /\ e[i].kind = k)
           /\ \A id : Has(e, id) <=> \E j \in 1..Len(e) : e[j].id = id
           /\ \A id : Has(e, id) => At(e, id) \in 1..Len(e) /\ e[At(e, id)].id = id
<1>1. DOMAIN e = 1..Len(e)
  BY LogPositions
<1>2. ASSUME NEW id, Has(e, id) PROVE At(e, id) \in 1..Len(e) /\ e[At(e, id)].id = id
  BY <1>1, <1>2 DEF Has, At
<1> QED  BY <1>1, <1>2 DEF OfKind, Has

\* No id twice.
LEMMA IndexedMeans ==
    ASSUME NEW e, IsLog(e)
    PROVE  loadIndexedRecords(e) <=> \A i, j \in 1..Len(e) : e[i].id = e[j].id => i = j
<1> DEFINE f == [i \in DOMAIN e |-> e[i].id]
<1>1. DOMAIN f = 1..Len(e) /\ \A i \in 1..Len(e) : f[i] = e[i].id
  BY LogPositions
<1>2. Len(e) \in Nat /\ IsFiniteSet(1..Len(e)) /\ Cardinality(1..Len(e)) = Len(e)
  <2>1. Len(e) \in Nat
    BY LogPositions
  <2>2. ASSUME NEW n \in Nat PROVE IsFiniteSet(1..n) /\ Cardinality(1..n) = n
    <3>1. /\ IsFiniteSet(1..n)
          /\ Cardinality(1..n) = IF 1 > n THEN 0 ELSE n - 1 + 1
      BY FS_Interval
    <3> QED  BY <3>1
  <2> QED  BY <2>1, <2>2
<1> DEFINE ids == {e[i].id : i \in DOMAIN e}
<1>3. f \in Surjection(1..Len(e), ids)
  BY <1>1, LogPositions DEF Surjection
<1>4. Cardinality(ids) = Len(e) <=> f \in Injection(1..Len(e), ids)
  BY <1>2, <1>3, FS_Surjection
<1>5. f \in Injection(1..Len(e), ids) <=> IsInjective(f)
  BY <1>3 DEF Surjection, Injection
<1>6. loadIndexedRecords(e) <=> IsInjective(f)
  BY <1>4, <1>5 DEF loadIndexedRecords
<1> HIDE DEF f
<1> QED  BY <1>1, <1>6 DEF IsInjective

\* An id is where it was.
LEMMA IdsStay ==
    ASSUME NEW e, NEW s, Grows(e, s), loadIndexedRecords(s)
    PROVE  /\ loadIndexedRecords(e)
           /\ \A id : Has(e, id) => Has(s, id) /\ At(s, id) = At(e, id)
<1>1. IsLog(e) /\ IsLog(s) /\ \A i \in 1..Len(e) : i \in 1..Len(s) /\ s[i] = e[i]
  BY DEF Grows
<1>2. \A i, j \in 1..Len(s) : s[i].id = s[j].id => i = j
  BY <1>1, IndexedMeans
<1>3. loadIndexedRecords(e)
  <2>1. \A i, j \in 1..Len(e) : e[i].id = e[j].id => i = j
    BY <1>1, <1>2
  <2> QED  BY <1>1, <2>1, IndexedMeans
<1>4. ASSUME NEW id, Has(e, id) PROVE Has(s, id) /\ At(s, id) = At(e, id)
  <2>1. At(e, id) \in 1..Len(e) /\ e[At(e, id)].id = id
    BY <1>1, <1>4, WhereIs
  <2>2. At(e, id) \in 1..Len(s) /\ s[At(e, id)].id = id
    BY <1>1, <2>1
  <2>3. Has(s, id)
    BY <1>1, <2>2, WhereIs
  <2>4. At(s, id) \in 1..Len(s) /\ s[At(s, id)].id = id
    BY <1>1, <2>3, WhereIs
  <2> QED  BY <1>2, <2>2, <2>3, <2>4
<1> QED  BY <1>3, <1>4

\* An id that is on record is at one place.
LEMMA AtIs ==
    ASSUME NEW e, IsLog(e), loadIndexedRecords(e), NEW i \in 1..Len(e)
    PROVE  Has(e, e[i].id) /\ At(e, e[i].id) = i
<1>1. Has(e, e[i].id)
  BY WhereIs
<1>2. At(e, e[i].id) \in 1..Len(e) /\ e[At(e, e[i].id)].id = e[i].id
  BY <1>1, WhereIs
<1> QED  BY <1>1, <1>2, IndexedMeans


-----------------------------------------------------------------------------
(* What a replay reads stays.                                              *)

\* The contract and the result of an arm are on record.
Bounded(e, arm) == Has(e, ContractID(arm)) /\ Has(e, ResultID(arm))

LEMMA WindowStays ==
    ASSUME NEW e, NEW s, Grows(e, s), loadIndexedRecords(s), NEW arm, Bounded(e, arm)
    PROVE  /\ Bounded(s, arm)
           /\ Window(s, arm) = Window(e, arm)
           /\ Window(e, arm) \in SUBSET (1..Len(e))
<1> DEFINE a == At(e, ContractID(arm))
           b == At(e, ResultID(arm))
<1>1. /\ Bounded(s, arm) /\ At(s, ContractID(arm)) = a /\ At(s, ResultID(arm)) = b
  BY IdsStay DEF Bounded
<1>2. a \in 1..Len(e) /\ b \in 1..Len(e) /\ Len(e) \in Nat
  BY WhereIs DEF Bounded, Grows
<1> HIDE DEF a, b
<1>3. \A i \in a..b : i \in 1..Len(e) /\ s[i] = e[i]
  BY <1>2 DEF Grows
<1>4. Window(s, arm) = {i \in a..b : s[i].context = ContextOf(arm)}
  BY <1>1 DEF Window
<1>5. Window(e, arm) = {i \in a..b : e[i].context = ContextOf(arm)}
  BY DEF Window, a, b
<1> QED  BY <1>1, <1>3, <1>4, <1>5

\* The parts of a window.
LEMMA PartsStay ==
    ASSUME NEW e, NEW s, Grows(e, s), NEW w \in SUBSET (1..Len(e))
    PROVE  /\ Results(s, w) = Results(e, w) /\ Users(s, w) = Users(e, w)
           /\ Complete(s, w) <=> Complete(e, w)
           /\ Results(e, w) \in SUBSET (1..Len(e)) /\ Users(e, w) \in SUBSET (1..Len(e))
<1>1. \A i \in w : s[i] = e[i]
  BY DEF Grows
<1> QED  BY <1>1 DEF Results, Users, Complete

\* What the oracle sees of them.
LEMMA ObservationsStay ==
    ASSUME NEW e, NEW s, Grows(e, s), NEW w \in SUBSET (1..Len(e))
    PROVE  blindOracleObservations(s, w) = blindOracleObservations(e, w)
<1>1. IsFiniteSet(w) /\ w \in SUBSET Nat
  <2>1. Len(e) \in Nat
    BY DEF Grows
  <2>2. IsFiniteSet(1..Len(e))
    <3>1. 1 \in Int /\ Len(e) \in Int
      BY <2>1
    <3> QED  BY <3>1, FS_Interval
  <2>3. IsFiniteSet(w)
    BY <2>2, FS_Subset
  <2>4. w \in SUBSET Nat
    <3> SUFFICES ASSUME NEW x \in w PROVE x \in Nat
      OBVIOUS
    <3> QED  BY <2>1
  <2> QED  BY <2>3, <2>4
<1>2. \A k \in 1..Cardinality(w) : Nth(w, k) \in w
  BY <1>1, PlaceTaken
<1>3. \A k \in 1..Cardinality(w) : s[Nth(w, k)] = e[Nth(w, k)]
  BY <1>2 DEF Grows
<1> QED  BY <1>3 DEF blindOracleObservations

\* What the oracle says of them.
LEMMA JudgmentStays ==
    ASSUME NEW e, NEW s, Grows(e, s), NEW w \in SUBSET (1..Len(e)), NEW u \in SUBSET (1..Len(e))
    PROVE  /\ Judgeable(s, w, u) <=> Judgeable(e, w, u)
           /\ runBuiltinEvidenceScoreOracle(s, w, u) = runBuiltinEvidenceScoreOracle(e, w, u)
<1>1. \A i \in w \cup u : s[i] = e[i]
  BY DEF Grows
<1>2. blindOracleObservations(s, w \cup u) = blindOracleObservations(e, w \cup u)
  BY ObservationsStay
<1>3. Judgeable(s, w, u) <=> Judgeable(e, w, u)
  BY <1>1, <1>2 DEF Judgeable
<1> DEFINE F(label, user) ==
        [results |-> label, users |-> user,
         halves |-> 2 * Quantify(w, LAMBDA i : label[i] = "success")
                    + Quantify(w, LAMBDA i : label[i] = "neutral"),
         pass |-> (2 * Quantify(w, LAMBDA i : label[i] = "success")
                    + Quantify(w, LAMBDA i : label[i] = "neutral")) * PassThreshold[2]
                      >= PassThreshold[1] * 2 * Cardinality(w)]
           ls == [i \in w |-> ResultLabels[s[i].payload]]
           le == [i \in w |-> ResultLabels[e[i].payload]]
           us == [i \in u |-> UserLabels[s[i].payload]]
           ue == [i \in u |-> UserLabels[e[i].payload]]
<1>4. ls = le /\ us = ue
  BY <1>1
<1>5. /\ runBuiltinEvidenceScoreOracle(s, w, u) = F(ls, us)
      /\ runBuiltinEvidenceScoreOracle(e, w, u) = F(le, ue)
  BY DEF runBuiltinEvidenceScoreOracle
<1> HIDE DEF F, ls, le, us, ue
<1> QED  BY <1>3, <1>4, <1>5

\* The verdict of an arm.
LEMMA VerdictStays ==
    ASSUME NEW e, NEW s, Grows(e, s), loadIndexedRecords(s), NEW arm, Bounded(e, arm)
    PROVE  /\ materializeBuiltinVerdict(s, arm) = materializeBuiltinVerdict(e, arm)
           /\ Judgeable(s, Results(s, Window(s, arm)), Users(s, Window(s, arm)))
                <=> Judgeable(e, Results(e, Window(e, arm)), Users(e, Window(e, arm)))
<1>1. Window(s, arm) = Window(e, arm) /\ Window(e, arm) \in SUBSET (1..Len(e))
  BY WindowStays
<1>2. /\ Results(s, Window(s, arm)) = Results(e, Window(e, arm))
      /\ Users(s, Window(s, arm)) = Users(e, Window(e, arm))
      /\ Results(e, Window(e, arm)) \in SUBSET (1..Len(e)) /\ Users(e, Window(e, arm)) \in SUBSET (1..Len(e))
  BY <1>1, PartsStay
<1> QED  BY <1>2, JudgmentStays DEF materializeBuiltinVerdict

\* The receipts of memory.
LEMMA MemoryReceiptsStay ==
    ASSUME NEW e, NEW s, Grows(e, s), loadIndexedRecords(s), NEW r,
           Bounded(e, r.arm), Has(e, VerdictID(r.arm)),
           r.retrieval \in 1..Len(e), r.injection \in 1..Len(e), r.adoption \in 1..Len(e)
    PROVE  validateMemoryAttempt(s, r) <=> validateMemoryAttempt(e, r)
<1>1. /\ At(s, ContractID(r.arm)) = At(e, ContractID(r.arm))
      /\ At(s, ResultID(r.arm)) = At(e, ResultID(r.arm))
      /\ At(s, VerdictID(r.arm)) = At(e, VerdictID(r.arm))
  BY IdsStay DEF Bounded
<1>2. /\ s[r.retrieval] = e[r.retrieval] /\ s[r.injection] = e[r.injection] /\ s[r.adoption] = e[r.adoption]
  BY DEF Grows
<1>3. /\ isCausalDescendant(s, r.injection, r.retrieval) <=> isCausalDescendant(e, r.injection, r.retrieval)
      /\ isCausalDescendant(s, r.adoption, r.injection) <=> isCausalDescendant(e, r.adoption, r.injection)
  BY DescentStays
<1>4. (\A i \in {r.retrieval, r.injection, r.adoption} : s[i].context = ContextOf(r.arm))
        <=> (\A i \in {r.retrieval, r.injection, r.adoption} : e[i].context = ContextOf(r.arm))
  BY <1>2
<1> QED  BY <1>1, <1>2, <1>3, <1>4 DEF validateMemoryAttempt

\* The condition of an arm.
LEMMA ConditionStays ==
    ASSUME NEW e, NEW s, Grows(e, s), loadIndexedRecords(s), NEW r,
           Bounded(e, r.arm), Has(e, VerdictID(r.arm)),
           r.arm.condition # "baseline" =>
               r.retrieval \in 1..Len(e) /\ r.injection \in 1..Len(e) /\ r.adoption \in 1..Len(e),
           NEW w \in SUBSET (1..Len(e))
    PROVE  ConditionHolds(s, r, w) <=> ConditionHolds(e, r, w)
<1> DEFINE evidence_ == Results(e, w) \cup Users(e, w)
           kinds == {"retrieval", "injection"}
           c == At(e, ContractID(r.arm))
<1>1. Results(s, w) \cup Users(s, w) = evidence_ /\ evidence_ \in SUBSET (1..Len(e))
  BY PartsStay
<1>2. c \in 1..Len(e) /\ At(s, ContractID(r.arm)) = c
  BY IdsStay, WhereIs DEF Bounded, Grows
<1>3. Exposed(s, r.arm) = Exposed(e, r.arm)
  <2>1. Window(s, r.arm) = Window(e, r.arm) /\ Window(e, r.arm) \in SUBSET (1..Len(e))
    BY WindowStays
  <2>2. \A i \in Window(e, r.arm) : s[i] = e[i]
    BY <2>1 DEF Grows
  <2> QED  BY <2>1, <2>2 DEF Exposed
<1> HIDE DEF evidence_, c
<1>4. causalAncestorKinds(s, evidence_ \cup {c}, kinds) = causalAncestorKinds(e, evidence_ \cup {c}, kinds)
  <2>1. evidence_ \cup {c} \in SUBSET (1..Len(e))
    BY <1>1, <1>2
  <2> QED  BY <2>1, InheritedStays
<1>5. \A a : (\A i \in evidence_ : isCausalDescendant(s, i, a)) <=> (\A i \in evidence_ : isCausalDescendant(e, i, a))
  BY <1>1, DescentStays
<1> HIDE DEF kinds
<1>6. CASE r.arm.condition = "baseline"
  <2>1. ConditionHolds(s, r, w) <=>
            /\ Exposed(e, r.arm) = {} /\ causalAncestorKinds(e, evidence_ \cup {c}, kinds) = {}
            /\ \A i \in evidence_ : isCausalDescendant(s, i, c)
    BY <1>1, <1>2, <1>3, <1>4, <1>6 DEF ConditionHolds, kinds
  <2>2. ConditionHolds(e, r, w) <=>
            /\ Exposed(e, r.arm) = {} /\ causalAncestorKinds(e, evidence_ \cup {c}, kinds) = {}
            /\ \A i \in evidence_ : isCausalDescendant(e, i, c)
    BY <1>6 DEF ConditionHolds, kinds, evidence_, c
  <2> QED  BY <1>5, <2>1, <2>2
<1>7. CASE r.arm.condition # "baseline"
  <2>1. validateMemoryAttempt(s, r) <=> validateMemoryAttempt(e, r)
    BY <1>7, MemoryReceiptsStay
  <2>2. ConditionHolds(s, r, w) <=>
            /\ Exposed(e, r.arm) = {r.retrieval, r.injection}
            /\ validateMemoryAttempt(s, r)
            /\ causalAncestorKinds(e, evidence_ \cup {c}, kinds) \subseteq {r.retrieval, r.injection}
            /\ \A i \in evidence_ : isCausalDescendant(s, i, r.injection)
    BY <1>1, <1>2, <1>3, <1>4, <1>7 DEF ConditionHolds, kinds
  <2>3. ConditionHolds(e, r, w) <=>
            /\ Exposed(e, r.arm) = {r.retrieval, r.injection}
            /\ validateMemoryAttempt(e, r)
            /\ causalAncestorKinds(e, evidence_ \cup {c}, kinds) \subseteq {r.retrieval, r.injection}
            /\ \A i \in evidence_ : isCausalDescendant(e, i, r.injection)
    BY <1>7 DEF ConditionHolds, kinds, evidence_, c
  <2> QED  BY <1>5, <2>1, <2>2, <2>3
<1> QED  BY <1>6, <1>7


\* What can be derived can be derived later, and the receipt is the same.
LEMMA DerivationStays ==
    ASSUME NEW e, NEW s, Grows(e, s), loadIndexedRecords(s), NEW r, Derivable(e, r)
    PROVE  /\ Derivable(s, r)
           /\ deriveTaskAttempt(s, r) = deriveTaskAttempt(e, r)
           /\ AttemptParents(s, r) = AttemptParents(e, r)
<1> DEFINE a == At(e, ContractID(r.arm))
           t == At(e, ResultID(r.arm))
           v == At(e, VerdictID(r.arm))
           w == Window(e, r.arm)
<1>0. IsLog(e) /\ DOMAIN e = 1..Len(e) /\ DOMAIN s = 1..Len(s) /\ Len(e) \in Nat /\ Len(s) \in Nat /\ Len(e) <= Len(s)
  BY DEF Grows
<1>1. Bounded(e, r.arm) /\ Has(e, VerdictID(r.arm))
  BY DEF Derivable, Bounded
<1>2. /\ Has(s, ContractID(r.arm)) /\ At(s, ContractID(r.arm)) = a
      /\ Has(s, ResultID(r.arm)) /\ At(s, ResultID(r.arm)) = t
      /\ Has(s, VerdictID(r.arm)) /\ At(s, VerdictID(r.arm)) = v
  BY <1>1, IdsStay DEF Bounded
<1>3. /\ a \in 1..Len(e) /\ t \in 1..Len(e) /\ v \in 1..Len(e)
      /\ s[a] = e[a] /\ s[t] = e[t] /\ s[v] = e[v]
  <2>1. a \in 1..Len(e) /\ t \in 1..Len(e) /\ v \in 1..Len(e)
    BY <1>0, <1>1, WhereIs DEF Bounded
  <2> HIDE DEF a, t, v
  <2> QED  BY <2>1 DEF Grows
<1>4. Window(s, r.arm) = w /\ w \in SUBSET (1..Len(e))
  BY <1>1, WindowStays
<1>5. /\ validateTaskAttemptRequest(r)
      /\ {r.retrieval, r.injection, r.adoption} \subseteq DOMAIN e \cup {NoEvent}
      /\ a < t /\ t < v
      /\ \A i \in {a, t, v} : e[i].context = ContextOf(r.arm)
      /\ Complete(e, w)
      /\ e[v].body.arm = r.arm
      /\ isCausalDescendant(e, v, t)
      /\ DOMAIN e[v].body.judgment.results = Results(e, w)
      /\ DOMAIN e[v].body.judgment.users = Users(e, w)
      /\ ConditionHolds(e, r, w)
  BY DEF Derivable
<1>6. /\ Results(s, w) = Results(e, w) /\ Users(s, w) = Users(e, w) /\ Complete(s, w)
  BY <1>4, <1>5, PartsStay
<1> HIDE DEF a, t, v, w
<1>7. isCausalDescendant(s, v, t)
  BY <1>3, <1>5, DescentStays
<1>8. ConditionHolds(s, r, w)
  <2>1. r.arm.condition # "baseline" =>
            r.retrieval \in 1..Len(e) /\ r.injection \in 1..Len(e) /\ r.adoption \in 1..Len(e)
    BY <1>0, <1>5 DEF validateTaskAttemptRequest
  <2> QED  BY <1>1, <1>4, <1>5, <2>1, ConditionStays
<1>9. Derivable(s, r)
  <2>1. {r.retrieval, r.injection, r.adoption} \subseteq DOMAIN s \cup {NoEvent}
    BY <1>0, <1>5
  <2>2. \A i \in {a, t, v} : s[i].context = ContextOf(r.arm)
    BY <1>3, <1>5
  <2>3. \A id \in {ContractID(r.arm), ResultID(r.arm), VerdictID(r.arm)} : Has(s, id)
    BY <1>2
  <2>4. s[v].body.arm = r.arm /\ DOMAIN s[v].body.judgment.results = Results(s, w)
        /\ DOMAIN s[v].body.judgment.users = Users(s, w)
    BY <1>3, <1>5, <1>6
  <2> QED  BY <1>2, <1>4, <1>5, <1>6, <1>7, <1>8, <2>1, <2>2, <2>3, <2>4 DEF Derivable
<1> DEFINE j == e[v].body.judgment
           D(res, users) ==
             [request |-> r, results |-> res, users |-> users, success |-> j.pass,
              halves |-> j.halves,
              errors |-> Quantify(DOMAIN j.results, LAMBDA i : j.results[i] = "error"),
              corrections |-> Quantify(DOMAIN j.users, LAMBDA i : j.users[i] = "correction")]
<1>10. deriveTaskAttempt(e, r) = D(Results(e, w), Users(e, w))
  BY DEF deriveTaskAttempt, v, w
<1>11. deriveTaskAttempt(s, r) = D(Results(s, w), Users(s, w))
  <2>1. s[At(s, VerdictID(r.arm))].body.judgment = j
    BY <1>2, <1>3
  <2>2. deriveTaskAttempt(s, r) =
            [request |-> r, results |-> Results(s, Window(s, r.arm)), users |-> Users(s, Window(s, r.arm)),
             success |-> s[At(s, VerdictID(r.arm))].body.judgment.pass,
             halves |-> s[At(s, VerdictID(r.arm))].body.judgment.halves,
             errors |-> Quantify(DOMAIN s[At(s, VerdictID(r.arm))].body.judgment.results,
                                 LAMBDA i : s[At(s, VerdictID(r.arm))].body.judgment.results[i] = "error"),
             corrections |-> Quantify(DOMAIN s[At(s, VerdictID(r.arm))].body.judgment.users,
                                 LAMBDA i : s[At(s, VerdictID(r.arm))].body.judgment.users[i] = "correction")]
    BY DEF deriveTaskAttempt
  <2> HIDE DEF j
  <2> QED  BY <1>4, <2>1, <2>2 DEF Quantify
<1>12. AttemptParents(s, r) = AttemptParents(e, r)
  BY <1>2, <1>4, <1>6 DEF AttemptParents, a, t, v, w
<1> HIDE DEF D
<1> QED  BY <1>6, <1>9, <1>10, <1>11, <1>12

\* A receipt that verifies, and replays, does so later.
LEMMA ReceiptStays ==
    ASSUME NEW e, NEW s, Grows(e, s), loadIndexedRecords(s), NEW i \in 1..Len(e), rerunTaskAttempt(e, i)
    PROVE  rerunTaskAttempt(s, i)
<1> DEFINE r == e[i].body.request
           v == At(e, VerdictID(r.arm))
<1>1. /\ Derivable(e, r) /\ e[i].body = deriveTaskAttempt(e, r) /\ e[i].parents = AttemptParents(e, r)
      /\ Judgeable(e, Results(e, Window(e, r.arm)), Users(e, Window(e, r.arm)))
      /\ e[v].body = materializeBuiltinVerdict(e, r.arm)
  BY DEF rerunTaskAttempt, verifyTaskAttemptRecord
<1>2. s[i] = e[i]
  BY DEF Grows
<1>3. Bounded(e, r.arm) /\ Has(e, VerdictID(r.arm))
  BY <1>1 DEF Derivable, Bounded
<1> HIDE DEF r
<1>4. v \in 1..Len(e) /\ s[v] = e[v] /\ At(s, VerdictID(r.arm)) = v
  <2>1. v \in 1..Len(e)
    BY <1>3, WhereIs DEF Grows
  <2>2. At(s, VerdictID(r.arm)) = v
    BY <1>3, IdsStay
  <2> HIDE DEF v
  <2> QED  BY <2>1, <2>2 DEF Grows
<1> HIDE DEF v
<1>5. Derivable(s, r) /\ s[i].body = deriveTaskAttempt(s, r) /\ s[i].parents = AttemptParents(s, r)
  BY <1>1, <1>2, DerivationStays
<1>6. /\ Judgeable(s, Results(s, Window(s, r.arm)), Users(s, Window(s, r.arm)))
      /\ materializeBuiltinVerdict(s, r.arm) = materializeBuiltinVerdict(e, r.arm)
  BY <1>1, <1>3, VerdictStays
<1>7. s[At(s, VerdictID(r.arm))].body = materializeBuiltinVerdict(s, r.arm)
  BY <1>1, <1>4, <1>6
<1>8. s[i].body.request = r
  BY <1>2 DEF r
<1> QED  BY <1>5, <1>6, <1>7, <1>8 DEF rerunTaskAttempt, verifyTaskAttemptRecord


-----------------------------------------------------------------------------
(* What a process knows where it is.                                       *)

\* The arm is the first of its pair, or that one ran.
FirstRan(rs, arm) == IsSecond(arm) => \E k \in DOMAIN rs : rs[k].arm = Before(arm)

StartRecorded(e, j) ==
    /\ j.start \in OfKind(e, "start")
    /\ e[j.start].body = [arm |-> j.request.arm, memory |-> j.request.memory]
NotRun(rs, j) == \A k \in DOMAIN rs : rs[k].start # j.start
RunRecorded(rs, j) ==
    \E k \in DOMAIN rs :
        rs[k] = [arm |-> j.request.arm, start |-> j.start, memory |-> j.request.memory, payload |-> j.payload]

\* The oracle can judge the arm; its verdict is on record.
Judged(e, arm) ==
    /\ Bounded(e, arm)
    /\ Judgeable(e, Results(e, Window(e, arm)), Users(e, Window(e, arm)))
Verdicted(e, arm) ==
    /\ Judged(e, arm)
    /\ Has(e, VerdictID(arm)) /\ e[At(e, VerdictID(arm))].body = materializeBuiltinVerdict(e, arm)

IsRequest(r) ==
    r = [arm |-> r.arm, retrieval |-> r.retrieval, injection |-> r.injection, adoption |-> r.adoption,
         memory |-> r.memory]

\* A build of the detector goes on with another command, or ends.
IsBuild(h) ==
    /\ h = [marker |-> h.marker, prefix |-> h.prefix, then |-> h.then, order |-> h.order]
    /\ h.then \in {"idle", "population"}

\* A freeze has read finitely many files, of which the index is one.
IsFreeze(h) ==
    /\ h = [limit |-> h.limit, index |-> h.index, artifacts |-> h.artifacts, changed |-> h.changed]
    /\ IsFiniteSet(h.artifacts) /\ IsFiniteSet(DOMAIN h.index) /\ h.artifacts # {}

\* The marker of a build names the prefix it was recorded after.
Marked(e, n) == n \in OfKind(e, "generation_attempt") /\ e[n].body = n - 1

\* What a process has read, outside trials.
Holds(e, place, h) ==
    /\ place \in {"mark", "scan", "publish", "audit"} => IsBuild(h)
    /\ place \in {"scan", "publish"} => Marked(e, h.marker)
    /\ place = "cards" => IsFiniteSet(h.files) /\ IsFiniteSet(DOMAIN h.index)
    /\ place \in {"plan", "freeze"} => IsFreeze(h)

Knows(e, rs, place, j) ==
    /\ Holds(e, place, j.held)
    /\ place \in {"retrieve", "inject"} => IsRequest(j.request)
    /\ place \in {"retrieve", "inject", "start", "run"} => FirstRan(rs, j.request.arm)
    /\ place = "run" => StartRecorded(e, j) /\ NotRun(rs, j)
    /\ place \in {"result", "receipt"} => RunRecorded(rs, j)
    /\ loadIndexedRecords(e) =>
           /\ place = "verdict" => Judged(e, j.request.arm)
           /\ place = "record" => Verdicted(e, j.request.arm)
           /\ place = "attempt" => Verdicted(e, j.request.arm) /\ Derivable(e, j.request)

IsJob(j) ==
    j = [request |-> j.request, start |-> j.start, payload |-> j.payload, outcome |-> j.outcome,
         result |-> j.result, held |-> j.held]

Shapes ==
    /\ IsLog(evidence) /\ IsLog(runs) /\ bound \in Profiles
    /\ pc = [p \in Procs |-> pc[p]] /\ job = [p \in Procs |-> job[p]]
    /\ \A p \in Procs : IsJob(job[p])

StartsApart ==
    \A p, q \in Procs : (pc[p] = "run" /\ pc[q] = "run" /\ job[p].start = job[q].start) => p = q

TrialInv ==
    /\ Shapes
    /\ PlansOnRecord(evidence)
    /\ RunsOnRecord(evidence, runs)
    /\ AttemptsReplay(evidence)
    /\ \A p \in Procs : Knows(evidence, runs, pc[p], job[p])
    /\ StartsApart

\* A step keeps it, and only appends to the ledger.
Keeps == TrialInv' /\ Grows(evidence, evidence')

-----------------------------------------------------------------------------
(* What a longer ledger keeps.                                             *)

\* The entries that s has beyond e.
New(e, s) == Len(e) + 1..Len(s)

\* Neither plan nor contract, receipt nor attempt.
Plain(x) == x.kind \notin {"plan", "receipt", "attempt"} /\ x.id[1] # "contract"

LEMMA OldOrNew ==
    ASSUME NEW e, NEW s, Grows(e, s), NEW i \in 1..Len(s)
    PROVE  (i \in 1..Len(e) /\ s[i] = e[i]) \/ i \in New(e, s)
BY DEF Grows, New

LEMMA PlansGrow ==
    ASSUME NEW e, NEW s, Grows(e, s), PlansOnRecord(e),
           \A i \in New(e, s) :
               /\ s[i].kind = "plan" => s[i].body \in Plans
               /\ s[i].id[1] = "contract" => s[i].kind = "contract" /\ s[i].id = ContractID(s[i].body)
    PROVE  PlansOnRecord(s)
<1>1. DOMAIN e = 1..Len(e) /\ DOMAIN s = 1..Len(s) /\ IsLog(e) /\ IsLog(s)
  BY DEF Grows
<1>2. ASSUME NEW i \in OfKind(s, "plan") PROVE s[i].body \in Plans
  BY <1>1, OldOrNew DEF PlansOnRecord, OfKind
<1>3. ASSUME NEW i \in DOMAIN s, s[i].id[1] = "contract"
      PROVE  s[i].kind = "contract" /\ s[i].id = ContractID(s[i].body)
  BY <1>1, <1>3, OldOrNew DEF PlansOnRecord
<1> QED  BY <1>2, <1>3 DEF PlansOnRecord

LEMMA RunsGrow ==
    ASSUME NEW e, NEW s, Grows(e, s), NEW rs, RunsOnRecord(e, rs),
           \A i \in New(e, s) : s[i].kind = "receipt" =>
               \E k \in DOMAIN rs :
                   rs[k] = [arm |-> s[i].body.arm, start |-> s[i].body.start, memory |-> s[i].body.memory,
                            payload |-> s[i].body.payload]
    PROVE  RunsOnRecord(s, rs)
<1>1. DOMAIN e = 1..Len(e) /\ DOMAIN s = 1..Len(s) /\ IsLog(e) /\ IsLog(s)
  BY DEF Grows
<1>2. \A i \in OfKind(e, "start") : i \in OfKind(s, "start") /\ s[i] = e[i]
  BY DEF Grows, OfKind
<1>3. ASSUME NEW k \in DOMAIN rs
      PROVE  /\ rs[k].start \in OfKind(s, "start")
             /\ s[rs[k].start].body = [arm |-> rs[k].arm, memory |-> rs[k].memory]
             /\ IsSecond(rs[k].arm) => \E l \in 1..k - 1 : rs[l].arm = Before(rs[k].arm)
  <2>1. /\ rs[k].start \in OfKind(e, "start")
        /\ e[rs[k].start].body = [arm |-> rs[k].arm, memory |-> rs[k].memory]
        /\ IsSecond(rs[k].arm) => \E l \in 1..k - 1 : rs[l].arm = Before(rs[k].arm)
    BY DEF RunsOnRecord
  <2>2. rs[k].start \in OfKind(s, "start") /\ s[rs[k].start] = e[rs[k].start]
    BY <1>2, <2>1
  <2> QED  BY <2>1, <2>2
<1>4. ASSUME NEW i \in OfKind(s, "receipt")
      PROVE  \E k \in DOMAIN rs :
                 rs[k] = [arm |-> s[i].body.arm, start |-> s[i].body.start, memory |-> s[i].body.memory,
                          payload |-> s[i].body.payload]
  <2>1. i \in 1..Len(s) /\ s[i].kind = "receipt"
    BY <1>1 DEF OfKind
  <2>2. CASE i \in New(e, s)
    BY <2>1, <2>2
  <2>3. CASE i \in 1..Len(e) /\ s[i] = e[i]
    <3>1. i \in OfKind(e, "receipt")
      BY <1>1, <2>1, <2>3 DEF OfKind
    <3> QED  BY <2>3, <3>1 DEF RunsOnRecord
  <2> QED  BY <2>1, <2>2, <2>3, OldOrNew
<1>5. \A k, l \in DOMAIN rs : rs[k].start = rs[l].start => k = l
  BY DEF RunsOnRecord
<1> QED  BY <1>3, <1>4, <1>5 DEF RunsOnRecord

LEMMA AttemptsGrow ==
    ASSUME NEW e, NEW s, Grows(e, s), AttemptsReplay(e),
           loadIndexedRecords(s) => \A i \in New(e, s) : s[i].kind = "attempt" => rerunTaskAttempt(s, i)
    PROVE  AttemptsReplay(s)
<1> SUFFICES ASSUME loadIndexedRecords(s), NEW i \in OfKind(s, "attempt") PROVE rerunTaskAttempt(s, i)
  BY DEF AttemptsReplay
<1>1. i \in 1..Len(s) /\ s[i].kind = "attempt" /\ DOMAIN e = 1..Len(e)
  BY DEF Grows, OfKind
<1>2. CASE i \in 1..Len(e) /\ s[i] = e[i]
  <2>1. i \in OfKind(e, "attempt") /\ loadIndexedRecords(e)
    BY <1>1, <1>2, IdsStay DEF OfKind
  <2>2. rerunTaskAttempt(e, i)
    BY <2>1 DEF AttemptsReplay
  <2> QED  BY <1>2, <2>2, ReceiptStays
<1>3. CASE i \in New(e, s)
  BY <1>1, <1>3
<1> QED  BY <1>1, <1>2, <1>3, OldOrNew

\* Records that are none of these.
LEMMA PlainRecords ==
    ASSUME NEW e, NEW s, Grows(e, s), NEW rs,
           PlansOnRecord(e), RunsOnRecord(e, rs), AttemptsReplay(e),
           \A i \in New(e, s) : Plain(s[i])
    PROVE  PlansOnRecord(s) /\ RunsOnRecord(s, rs) /\ AttemptsReplay(s)
<1>1. PlansOnRecord(s)
  BY PlansGrow DEF Plain
<1>2. RunsOnRecord(s, rs)
  BY RunsGrow DEF Plain
<1>3. AttemptsReplay(s)
  BY AttemptsGrow DEF Plain
<1> QED  BY <1>1, <1>2, <1>3

\* A judgment and a verdict.
LEMMA JudgedStays ==
    ASSUME NEW e, NEW s, Grows(e, s), loadIndexedRecords(s), NEW arm
    PROVE  /\ Judged(e, arm) => Judged(s, arm)
           /\ Verdicted(e, arm) => Verdicted(s, arm)
<1>1. ASSUME Judged(e, arm)
      PROVE  Judged(s, arm) /\ materializeBuiltinVerdict(s, arm) = materializeBuiltinVerdict(e, arm)
  BY <1>1, VerdictStays, WindowStays DEF Judged
<1>2. ASSUME Verdicted(e, arm) PROVE Verdicted(s, arm)
  <2> DEFINE v == At(e, VerdictID(arm))
  <2>1. v \in 1..Len(e) /\ Has(s, VerdictID(arm)) /\ At(s, VerdictID(arm)) = v
    BY <1>2, WhereIs, IdsStay DEF Verdicted, Grows
  <2>2. Judged(e, arm) /\ e[v].body = materializeBuiltinVerdict(e, arm)
    BY <1>2 DEF Verdicted
  <2> HIDE DEF v
  <2>3. s[v] = e[v]
    BY <2>1 DEF Grows
  <2> QED  BY <1>1, <2>1, <2>2, <2>3 DEF Verdicted
<1> QED  BY <1>1, <1>2

\* What a process knows, it goes on to know.
LEMMA KnowsStays ==
    ASSUME NEW e, NEW s, Grows(e, s), NEW rs, NEW ts, Grows(rs, ts), NEW place, NEW j,
           Knows(e, rs, place, j),
           place = "run" => \A k \in New(rs, ts) : ts[k].start # j.start
    PROVE  Knows(s, ts, place, j)
<1>1. DOMAIN rs = 1..Len(rs) /\ DOMAIN ts = 1..Len(ts) /\ \A k \in DOMAIN rs : k \in DOMAIN ts /\ ts[k] = rs[k]
  BY DEF Grows
<1>2. /\ Holds(s, place, j.held)
      /\ place \in {"retrieve", "inject"} => IsRequest(j.request)
      /\ place \in {"retrieve", "inject", "start", "run"} => FirstRan(ts, j.request.arm)
  <2>1. \A n : Marked(e, n) => Marked(s, n)
    BY DEF Marked, OfKind, Grows
  <2> QED  BY <1>1, <2>1 DEF Knows, Holds, FirstRan
<1>3. ASSUME place = "run" PROVE StartRecorded(s, j) /\ NotRun(ts, j)
  <2>1. StartRecorded(e, j) /\ NotRun(rs, j)
    BY <1>3 DEF Knows
  <2>2. StartRecorded(s, j)
    BY <2>1 DEF StartRecorded, OfKind, Grows
  <2>3. NotRun(ts, j)
    <3> SUFFICES ASSUME NEW k \in DOMAIN ts PROVE ts[k].start # j.start
      BY DEF NotRun
    <3> QED  BY <1>1, <1>3, <2>1, OldOrNew DEF NotRun
  <2> QED  BY <2>2, <2>3
<1>4. place \in {"result", "receipt"} => RunRecorded(ts, j)
  BY <1>1 DEF Knows, RunRecorded
<1>5. ASSUME loadIndexedRecords(s)
      PROVE  /\ place = "verdict" => Judged(s, j.request.arm)
             /\ place = "record" => Verdicted(s, j.request.arm)
             /\ place = "attempt" => Verdicted(s, j.request.arm) /\ Derivable(s, j.request)
  <2>1. loadIndexedRecords(e)
    BY <1>5, IdsStay
  <2>2. /\ place = "verdict" => Judged(e, j.request.arm)
        /\ place = "record" => Verdicted(e, j.request.arm)
        /\ place = "attempt" => Verdicted(e, j.request.arm) /\ Derivable(e, j.request)
    BY <2>1 DEF Knows
  <2> QED  BY <1>5, <2>2, JudgedStays, DerivationStays
<1> QED  BY <1>2, <1>3, <1>4, <1>5 DEF Knows


-----------------------------------------------------------------------------
(* Steps.                                                                  *)

\* A job with one field changed.
LEMMA JobFields ==
    ASSUME NEW j, IsJob(j), NEW x
    PROVE  /\ [j EXCEPT !.request = x] = [request |-> x, start |-> j.start, payload |-> j.payload,
                 outcome |-> j.outcome, result |-> j.result, held |-> j.held]
           /\ [j EXCEPT !.start = x] = [request |-> j.request, start |-> x, payload |-> j.payload,
                 outcome |-> j.outcome, result |-> j.result, held |-> j.held]
           /\ [j EXCEPT !.payload = x] = [request |-> j.request, start |-> j.start, payload |-> x,
                 outcome |-> j.outcome, result |-> j.result, held |-> j.held]
           /\ [j EXCEPT !.outcome = x] = [request |-> j.request, start |-> j.start, payload |-> j.payload,
                 outcome |-> x, result |-> j.result, held |-> j.held]
           /\ [j EXCEPT !.result = x] = [request |-> j.request, start |-> j.start, payload |-> j.payload,
                 outcome |-> j.outcome, result |-> x, held |-> j.held]
           /\ [j EXCEPT !.held = x] = [request |-> j.request, start |-> j.start, payload |-> j.payload,
                 outcome |-> j.outcome, result |-> j.result, held |-> x]
<1>1. PICK a, b, c, d, e, f :
          j = [request |-> a, start |-> b, payload |-> c, outcome |-> d, result |-> e, held |-> f]
  BY Zenon DEF IsJob
<1>2. j.request = a /\ j.start = b /\ j.payload = c /\ j.outcome = d /\ j.result = e /\ j.held = f
  BY <1>1
<1> QED  BY <1>1, <1>2

\* A request with one field changed.
LEMMA RequestFields ==
    ASSUME NEW r, IsRequest(r), NEW x
    PROVE  /\ [r EXCEPT !.retrieval = x] = [arm |-> r.arm, retrieval |-> x, injection |-> r.injection,
                 adoption |-> r.adoption, memory |-> r.memory]
           /\ [r EXCEPT !.injection = x] = [arm |-> r.arm, retrieval |-> r.retrieval, injection |-> x,
                 adoption |-> r.adoption, memory |-> r.memory]
           /\ [r EXCEPT !.memory = x] = [arm |-> r.arm, retrieval |-> r.retrieval, injection |-> r.injection,
                 adoption |-> r.adoption, memory |-> x]
<1>1. PICK a, b, c, d, e :
          r = [arm |-> a, retrieval |-> b, injection |-> c, adoption |-> d, memory |-> e]
  BY Zenon DEF IsRequest
<1>2. r.arm = a /\ r.retrieval = b /\ r.injection = c /\ r.adoption = d /\ r.memory = e
  BY <1>1
<1> QED  BY <1>1, <1>2

\* One more record that is plain.
LEMMA PlainAppend ==
    ASSUME NEW e, NEW s, IsLog(e), NEW rs, NEW x, s = Append(e, x), Plain(x),
           PlansOnRecord(e), RunsOnRecord(e, rs), AttemptsReplay(e)
    PROVE  /\ Grows(e, s) /\ Len(s) = Len(e) + 1 /\ s[Len(e) + 1] = x /\ Len(e) + 1 \in 1..Len(s)
           /\ PlansOnRecord(s) /\ RunsOnRecord(s, rs) /\ AttemptsReplay(s)
<1>1. Grows(e, s) /\ Len(s) = Len(e) + 1 /\ s[Len(e) + 1] = x
  BY LogGrows
<1>2. Len(e) + 1 \in 1..Len(s) /\ \A i \in New(e, s) : s[i] = x
  BY <1>1 DEF Grows, New
<1> QED  BY <1>1, <1>2, PlainRecords

\* A step that moves at most the processes of M.
LEMMA TrialStep ==
    ASSUME TrialInv, NEW M \in SUBSET Procs, \A p, q \in M : p = q,
           bound' = bound, Grows(evidence, evidence'), Grows(runs, runs'),
           pc' = [p \in Procs |-> pc'[p]], job' = [p \in Procs |-> job'[p]],
           \A q \in Procs \ M : pc'[q] = pc[q] /\ job'[q] = job[q],
           \A p \in M : IsJob(job'[p]) /\ Knows(evidence', runs', pc'[p], job'[p]),
           \A p \in M : pc'[p] = "run" =>
               \A q \in Procs \ M : pc[q] = "run" => job[q].start # job'[p].start,
           \A k \in New(runs, runs') : \A q \in Procs \ M : pc[q] = "run" => runs'[k].start # job[q].start,
           PlansOnRecord(evidence'), RunsOnRecord(evidence', runs'), AttemptsReplay(evidence')
    PROVE  Keeps
<1>1. Shapes'
  <2>1. IsLog(evidence') /\ IsLog(runs')
    BY DEF Grows
  <2>2. \A q \in Procs : IsJob(job'[q])
    BY DEF TrialInv, Shapes
  <2> QED  BY <2>1, <2>2 DEF TrialInv, Shapes
<1>2. ASSUME NEW q \in Procs PROVE Knows(evidence', runs', pc'[q], job'[q])
  <2>1. CASE q \in M
    BY <2>1
  <2>2. CASE q \notin M
    <3>1. Knows(evidence, runs, pc[q], job[q])
      BY DEF TrialInv
    <3>2. pc[q] = "run" => \A k \in New(runs, runs') : runs'[k].start # job[q].start
      BY <2>2
    <3>3. Knows(evidence', runs', pc[q], job[q])
      BY <3>1, <3>2, KnowsStays
    <3> QED  BY <2>2, <3>3
  <2> QED  BY <2>1, <2>2
<1>3. StartsApart'
  <2> SUFFICES ASSUME NEW p \in Procs, NEW q \in Procs,
                      pc'[p] = "run", pc'[q] = "run", job'[p].start = job'[q].start
               PROVE  p = q
    BY DEF StartsApart
  <2>1. CASE p \in M /\ q \in M
    BY <2>1
  <2>2. CASE p \in M /\ q \notin M
    BY <2>2
  <2>3. CASE p \notin M /\ q \in M
    BY <2>3
  <2>4. CASE p \notin M /\ q \notin M
    BY <2>4 DEF TrialInv, StartsApart
  <2> QED  BY <2>1, <2>2, <2>3, <2>4
<1> QED  BY <1>1, <1>2, <1>3 DEF TrialInv, Keeps

\* No process moves, and the new records are plain.
LEMMA StillStep ==
    ASSUME TrialInv, bound' = bound, pc' = pc, job' = job, runs' = runs,
           Grows(evidence, evidence'), PlansOnRecord(evidence'), RunsOnRecord(evidence', runs), AttemptsReplay(evidence')
    PROVE  Keeps
<1>1. Grows(runs, runs')
  BY LogPositions DEF TrialInv, Shapes
<1>2. New(runs, runs') = {}
  BY <1>1 DEF New, Grows
<1>3. pc' = [p \in Procs |-> pc'[p]] /\ job' = [p \in Procs |-> job'[p]]
  BY DEF TrialInv, Shapes
<1> DEFINE M == {}
<1>4. M \in SUBSET Procs /\ \A p \in M : FALSE
  OBVIOUS
<1>5. \A q \in Procs \ M : pc'[q] = pc[q] /\ job'[q] = job[q]
  OBVIOUS
<1> HIDE DEF M
<1> QED  BY <1>1, <1>2, <1>3, <1>4, <1>5, TrialStep

\* Process p goes to l with the job j.
LEMMA ProcessStep ==
    ASSUME TrialInv, NEW p \in Procs, NEW l, NEW j, IsJob(j),
           pc' = [pc EXCEPT ![p] = l], job' = [job EXCEPT ![p] = j], bound' = bound,
           Grows(evidence, evidence'), Grows(runs, runs'), Knows(evidence', runs', l, j),
           l = "run" => \A q \in Procs \ {p} : pc[q] = "run" => job[q].start # j.start,
           \A k \in New(runs, runs') : \A q \in Procs \ {p} : pc[q] = "run" => runs'[k].start # job[q].start,
           PlansOnRecord(evidence'), RunsOnRecord(evidence', runs'), AttemptsReplay(evidence')
    PROVE  Keeps
<1>1. pc = [q \in Procs |-> pc[q]] /\ job = [q \in Procs |-> job[q]]
  BY DEF TrialInv, Shapes
<1>2. /\ pc' = [q \in Procs |-> IF q = p THEN l ELSE pc[q]]
      /\ job' = [q \in Procs |-> IF q = p THEN j ELSE job[q]]
  BY <1>1
<1>3. pc' = [q \in Procs |-> pc'[q]] /\ job' = [q \in Procs |-> job'[q]]
  BY <1>2
<1>4. pc'[p] = l /\ job'[p] = j /\ \A q \in Procs \ {p} : pc'[q] = pc[q] /\ job'[q] = job[q]
  BY <1>2
<1> DEFINE M == {p}
<1>5. M \in SUBSET Procs /\ p \in M /\ \A q \in M : q = p
  OBVIOUS
<1>6. \A q \in Procs \ M : q \in Procs \ {p}
  OBVIOUS
<1> HIDE DEF M
<1>7. \A q \in Procs \ M : pc'[q] = pc[q] /\ job'[q] = job[q]
  BY <1>4, <1>6
<1>8. \A q \in M : IsJob(job'[q]) /\ Knows(evidence', runs', pc'[q], job'[q])
  BY <1>4, <1>5
<1>9. \A q \in M : pc'[q] = "run" => \A n \in Procs \ M : pc[n] = "run" => job[n].start # job'[q].start
  BY <1>4, <1>5, <1>6
<1>10. \A k \in New(runs, runs') : \A q \in Procs \ M : pc[q] = "run" => runs'[k].start # job[q].start
  BY <1>6
<1>11. \A q, n \in M : q = n
  BY <1>5
<1> QED  BY <1>3, <1>5, <1>7, <1>8, <1>9, <1>10, <1>11, TrialStep

\* Process p goes to a place at which a trial is not, and the new records are plain.
LEMMA QuietMove ==
    ASSUME TrialInv, NEW p \in Procs, NEW l, NEW j, IsJob(j),
           pc' = [pc EXCEPT ![p] = l], job' = [job EXCEPT ![p] = j], bound' = bound, runs' = runs,
           Grows(evidence, evidence'),
           l \notin {"retrieve", "inject", "start", "run", "result", "receipt", "verdict", "record", "attempt"},
           Holds(evidence', l, j.held),
           PlansOnRecord(evidence'), RunsOnRecord(evidence', runs), AttemptsReplay(evidence')
    PROVE  Keeps
<1>1. Grows(runs, runs')
  BY LogPositions DEF TrialInv, Shapes
<1>2. New(runs, runs') = {}
  BY <1>1 DEF New, Grows
<1>3. Knows(evidence', runs', l, j)
  BY DEF Knows, Holds
<1> QED  BY <1>1, <1>2, <1>3, ProcessStep


-----------------------------------------------------------------------------
(* Plans, contracts and what else happens in a thread.                     *)

\* The arms of a plan.
LEMMA ArmsMean ==
    ASSUME NEW plan \in Plans
    PROVE  /\ Cardinality(plan.cards) \in Nat /\ plan # Unplanned
           /\ IsLog(ArmsOf(plan)) /\ Len(ArmsOf(plan)) = 2 * Cardinality(plan.cards)
           /\ DOMAIN ArmsOf(plan) = 1..2 * Cardinality(plan.cards)
           /\ \A k \in 1..2 * Cardinality(plan.cards) :
                  ArmsOf(plan)[k] = Arm(plan, Nth(plan.cards, (k + 1) \div 2),
                                        IF k % 2 = 1 THEN "baseline" ELSE "memory")
<1>1. plan.cards \in SUBSET Cards /\ plan.cards # {}
  <2>1. plan.cards \in (SUBSET Cards) \ {{}}
    BY DEF Plans
  <2> QED  BY <2>1
<1>2. IsFiniteSet(plan.cards)
  BY <1>1, TrialAssumption, FS_Subset
<1>3. Cardinality(plan.cards) \in Nat
  BY <1>2, FS_CardinalityType
<1> DEFINE n == 2 * Cardinality(plan.cards)
           f == ArmsOf(plan)
<1>4. n \in Nat /\ f = [k \in 1..n |-> Arm(plan, Nth(plan.cards, (k + 1) \div 2),
                                          IF k % 2 = 1 THEN "baseline" ELSE "memory")]
  BY <1>3 DEF ArmsOf
<1>5. plan # Unplanned
  BY <1>1 DEF Unplanned
<1> HIDE DEF f, n
<1>6. f = [k \in 1..n |-> f[k]]
  BY <1>4
<1>7. IsLog(f) /\ Len(f) = n
  BY <1>4, <1>6, ListIsLog
<1> QED  BY <1>3, <1>4, <1>5, <1>7 DEF f, n

\* A plan and its contracts.
LEMMA PreregisterTrialPlanKeeps ==
    ASSUME TrialInv, NEW plan \in bound.plans, PreregisterTrialPlan(plan)
    PROVE  Keeps
<1> DEFINE arms == ArmsOf(plan)
           n == 2 * Cardinality(plan.cards)
           head == <<Event(PlanID(plan), "plan", <<"plan">>, "evaluation", {}, "plan", plan)>>
           tail == [k \in DOMAIN arms |->
                       Event(ContractID(arms[k]), "contract", ContextOf(arms[k]), "oracle", {Next1},
                             "contract", arms[k])]
           batch == PlanBatch(plan)
<1>1. plan \in Plans
  BY ProfileAssumption DEF TrialInv, Shapes
<1>2. n \in Nat /\ DOMAIN arms = 1..n
  BY <1>1, ArmsMean
<1>3. batch = head \o tail
  BY DEF PlanBatch
<1>4. IsLog(head) /\ Len(head) = 1 /\ head[1].kind = "plan" /\ head[1].body = plan /\ head[1].id[1] = "plan"
  BY DEF IsLog, Event, PlanID
<1> HIDE DEF arms, head, batch, n
<1>5. /\ DOMAIN tail = 1..n
      /\ \A k \in 1..n : /\ tail[k].id = ContractID(tail[k].body) /\ tail[k].kind = "contract"
  BY <1>2 DEF Event
<1>6. IsLog(tail) /\ Len(tail) = n
  <2>1. tail = [k \in 1..n |-> tail[k]]
    BY <1>2
  <2> HIDE DEF tail
  <2> QED  BY <1>2, <2>1, ListIsLog
<1> HIDE DEF tail
<1>7. /\ IsLog(batch) /\ Len(batch) = 1 + n
      /\ batch[1] = head[1] /\ \A k \in 1..n : batch[1 + k] = tail[k]
  <2>1. /\ Grows(head, head \o tail) /\ Len(head \o tail) = Len(head) + Len(tail)
        /\ \A k \in 1..Len(tail) : (head \o tail)[Len(head) + k] = tail[k]
    BY <1>4, <1>6, LogsJoin
  <2>2. Grows(head, batch) /\ Len(batch) = 1 + n /\ \A k \in 1..n : batch[1 + k] = tail[k]
    BY <1>3, <1>4, <1>6, <2>1
  <2> QED  BY <1>4, <2>2 DEF Grows
<1>8. /\ bound' = bound /\ pc' = pc /\ job' = job /\ runs' = runs /\ evidence' = evidence \o batch
  BY DEF PreregisterTrialPlan, batch
<1>9. /\ Grows(evidence, evidence') /\ Len(evidence') = Len(evidence) + 1 + n
      /\ \A k \in 1..1 + n : evidence'[Len(evidence) + k] = batch[k]
  <2>1. IsLog(evidence) /\ Len(evidence) \in Nat
    BY LogPositions DEF TrialInv, Shapes
  <2>2. /\ Grows(evidence, evidence \o batch) /\ Len(evidence \o batch) = Len(evidence) + Len(batch)
        /\ \A k \in 1..Len(batch) : (evidence \o batch)[Len(evidence) + k] = batch[k]
    <3>1. IsLog(evidence) /\ IsLog(batch)
      BY <1>7, <2>1
    <3> QED  BY <3>1, LogsJoin
  <2> QED  BY <1>2, <1>7, <1>8, <2>1, <2>2
<1>10. ASSUME NEW i \in New(evidence, evidence')
       PROVE  \/ evidence'[i] = head[1]
              \/ \E k \in 1..n : evidence'[i] = tail[k]
  <2>1. i - Len(evidence) \in 1..1 + n /\ i = Len(evidence) + (i - Len(evidence)) /\ Len(evidence) \in Nat
    BY <1>2, <1>9 DEF New, Grows
  <2>2. evidence'[i] = batch[i - Len(evidence)]
    BY <1>9, <2>1
  <2>3. i - Len(evidence) = 1 \/ \E k \in 1..n : i - Len(evidence) = 1 + k
    BY <1>2, <2>1
  <2> QED  BY <1>7, <2>2, <2>3
<1>11. \A k \in 1..n : tail[k].id[1] = "contract"
  BY <1>5 DEF ContractID
<1>12. PlansOnRecord(evidence')
  <2>1. \A i \in New(evidence, evidence') :
            /\ evidence'[i].kind = "plan" => evidence'[i].body \in Plans
            /\ evidence'[i].id[1] = "contract" =>
                   evidence'[i].kind = "contract" /\ evidence'[i].id = ContractID(evidence'[i].body)
    BY <1>1, <1>4, <1>5, <1>10
  <2> QED  BY <1>9, <2>1, PlansGrow DEF TrialInv
<1>13. \A i \in New(evidence, evidence') : evidence'[i].kind \in {"plan", "contract"}
  BY <1>4, <1>5, <1>10
<1>14. RunsOnRecord(evidence', runs)
  BY <1>9, <1>13, RunsGrow DEF TrialInv
<1>15. AttemptsReplay(evidence')
  BY <1>9, <1>13, AttemptsGrow DEF TrialInv
<1> QED  BY <1>8, <1>9, <1>12, <1>14, <1>15, StillStep

\* A contract outside plans.
LEMMA PreregisterTaskAttemptKeeps ==
    ASSUME TrialInv, NEW arm, PreregisterTaskAttempt(arm)
    PROVE  Keeps
<1> DEFINE x == Event(ContractID(arm), "contract", ContextOf(arm), "oracle", {}, "contract", arm)
<1>1. bound' = bound /\ pc' = pc /\ job' = job /\ runs' = runs /\ evidence' = Append(evidence, x)
  BY DEF PreregisterTaskAttempt, Append1
<1>2. x.kind = "contract" /\ x.id = ContractID(x.body)
  BY DEF Event
<1> HIDE DEF x
<1>3. Grows(evidence, evidence') /\ Len(evidence') = Len(evidence) + 1 /\ evidence'[Len(evidence) + 1] = x
  BY <1>1, LogGrows DEF TrialInv, Shapes
<1>4. \A i \in New(evidence, evidence') : evidence'[i] = x
  BY <1>3 DEF New, Grows
<1>5. PlansOnRecord(evidence')
  BY <1>2, <1>3, <1>4, PlansGrow DEF TrialInv
<1>6. RunsOnRecord(evidence', runs)
  BY <1>2, <1>3, <1>4, RunsGrow DEF TrialInv
<1>7. AttemptsReplay(evidence')
  BY <1>2, <1>3, <1>4, AttemptsGrow DEF TrialInv
<1> QED  BY <1>1, <1>3, <1>5, <1>6, <1>7, StillStep

\* One plain record, and nothing else.
LEMMA RecordKeeps ==
    ASSUME TrialInv, NEW x, Plain(x), evidence' = Append(evidence, x),
           bound' = bound, pc' = pc, job' = job, runs' = runs
    PROVE  Keeps
BY PlainAppend, StillStep DEF TrialInv, Shapes

\* Capture.
LEMMA WorkKeeps ==
    ASSUME TrialInv, NEW context, NEW x \in bound.events, NEW linked \in BOOLEAN, Work(context, x[1], x[2], linked)
    PROVE  Keeps
<1> DEFINE y == Event(Fresh(x[1]), x[1], context, "capture",
                      IF linked THEN {LastOf(context)} \ {NoEvent} ELSE {}, x[2], x[1])
<1>1. bound' = bound /\ pc' = pc /\ job' = job /\ runs' = runs /\ evidence' = Append(evidence, y)
  BY DEF Work, Append1
<1>2. x[1] \notin CommandKinds
  BY ProfileAssumption DEF TrialInv, Shapes
<1>3. y.kind = x[1] /\ y.id[1] = x[1]
  BY DEF Event, Fresh
<1>4. Plain(y)
  BY <1>2, <1>3 DEF Plain, CommandKinds
<1> HIDE DEF y
<1> QED  BY <1>1, <1>4, RecordKeeps

\* A use that is reported.
LEMMA ReportAdoptionKeeps ==
    ASSUME TrialInv, NEW i, NEW outcome, ReportAdoption(i, outcome)
    PROVE  Keeps
<1> DEFINE y == Event(Fresh("adoption"), "adoption", evidence[i].context, "retrieval",
                      {evidence[i].body.retrieval, i}, "adoption",
                      [injection |-> i, adopted |-> TRUE, outcome |-> outcome])
<1>1. bound' = bound /\ pc' = pc /\ job' = job /\ runs' = runs /\ evidence' = Append(evidence, y)
  BY DEF ReportAdoption, Append1
<1>2. Plain(y)
  BY DEF Plain, Event, Fresh
<1> HIDE DEF y
<1> QED  BY <1>1, <1>2, RecordKeeps

\* Another delivery.
LEMMA DeliverKeeps ==
    ASSUME TrialInv, NEW context, Deliver(context)
    PROVE  Keeps
<1> DEFINE x == Event(Fresh("retrieval"), "retrieval", context, "retrieval", {}, "retrieval",
                      [memory |-> "fits"])
           y == Event(<<"injection", Next1 + 1>>, "injection", context, "retrieval", {Next1}, "injection",
                      [retrieval |-> Next1, memory |-> "fits"])
           b == <<x, y>>
<1>1. bound' = bound /\ pc' = pc /\ job' = job /\ runs' = runs /\ evidence' = evidence \o b
  BY DEF Deliver
<1>2. Plain(x) /\ Plain(y)
  BY DEF Plain, Event, Fresh
<1> HIDE DEF x, y
<1>3. IsLog(b) /\ Len(b) = 2 /\ b[1] = x /\ b[2] = y
  <2>1. b \in Seq({x, y})
    OBVIOUS
  <2>2. {b[i] : i \in 1..2} = {x, y}
    OBVIOUS
  <2> QED  BY <2>1, <2>2 DEF IsLog
<1> HIDE DEF b
<1>4. /\ Grows(evidence, evidence') /\ Len(evidence') = Len(evidence) + 2
      /\ \A k \in 1..2 : evidence'[Len(evidence) + k] = b[k]
  <2>1. IsLog(evidence)
    BY DEF TrialInv, Shapes
  <2>2. /\ Grows(evidence, evidence \o b) /\ Len(evidence \o b) = Len(evidence) + Len(b)
        /\ \A k \in 1..Len(b) : (evidence \o b)[Len(evidence) + k] = b[k]
    BY <1>3, <2>1, LogsJoin
  <2> QED  BY <1>1, <1>3, <2>2
<1>5. \A i \in New(evidence, evidence') : i = Len(evidence) + 1 \/ i = Len(evidence) + 2
  BY <1>4 DEF New, Grows
<1>6. \A i \in New(evidence, evidence') : Plain(evidence'[i])
  BY <1>2, <1>3, <1>4, <1>5
<1>7. PlansOnRecord(evidence') /\ RunsOnRecord(evidence', runs) /\ AttemptsReplay(evidence')
  BY <1>4, <1>6, PlainRecords DEF TrialInv
<1> QED  BY <1>1, <1>4, <1>7, StillStep


-----------------------------------------------------------------------------
(* The commands of a trial.                                                *)

\* The job of a process with one field changed, or two.
LEMMA JobsWith ==
    ASSUME NEW f, NEW S, f = [q \in S |-> f[q]], NEW p \in S, NEW x, NEW y
    PROVE  /\ [f EXCEPT ![p].request = x] = [f EXCEPT ![p] = [f[p] EXCEPT !.request = x]]
           /\ [f EXCEPT ![p].start = x] = [f EXCEPT ![p] = [f[p] EXCEPT !.start = x]]
           /\ [f EXCEPT ![p].result = x] = [f EXCEPT ![p] = [f[p] EXCEPT !.result = x]]
           /\ [f EXCEPT ![p].held = x] = [f EXCEPT ![p] = [f[p] EXCEPT !.held = x]]
           /\ [f EXCEPT ![p].request.injection = x] =
                  [f EXCEPT ![p] = [f[p] EXCEPT !.request = [f[p].request EXCEPT !.injection = x]]]
           /\ [f EXCEPT ![p].payload = x, ![p].outcome = y] =
                  [f EXCEPT ![p] = [[f[p] EXCEPT !.payload = x] EXCEPT !.outcome = y]]
           /\ [f EXCEPT ![p].request.retrieval = x, ![p].request.memory = y] =
                  [f EXCEPT ![p] = [f[p] EXCEPT !.request =
                      [[f[p].request EXCEPT !.retrieval = x] EXCEPT !.memory = y]]]
<1>1. /\ [f EXCEPT ![p].request = x] = [f EXCEPT ![p] = [f[p] EXCEPT !.request = x]]
      /\ [f EXCEPT ![p].start = x] = [f EXCEPT ![p] = [f[p] EXCEPT !.start = x]]
      /\ [f EXCEPT ![p].result = x] = [f EXCEPT ![p] = [f[p] EXCEPT !.result = x]]
      /\ [f EXCEPT ![p].held = x] = [f EXCEPT ![p] = [f[p] EXCEPT !.held = x]]
  OBVIOUS
<1>2. [f EXCEPT ![p].request.injection = x] =
          [f EXCEPT ![p] = [f[p] EXCEPT !.request = [f[p].request EXCEPT !.injection = x]]]
  OBVIOUS
<1>3. [f EXCEPT ![p].payload = x, ![p].outcome = y] =
          [f EXCEPT ![p] = [[f[p] EXCEPT !.payload = x] EXCEPT !.outcome = y]]
  <2> DEFINE g == [f EXCEPT ![p] = [f[p] EXCEPT !.payload = x]]
  <2>1. g[p] = [f[p] EXCEPT !.payload = x]
    OBVIOUS
  <2>2. [f EXCEPT ![p].payload = x, ![p].outcome = y] = [g EXCEPT ![p] = [g[p] EXCEPT !.outcome = y]]
    OBVIOUS
  <2>3. [g EXCEPT ![p] = [[f[p] EXCEPT !.payload = x] EXCEPT !.outcome = y]]
          = [f EXCEPT ![p] = [[f[p] EXCEPT !.payload = x] EXCEPT !.outcome = y]]
    OBVIOUS
  <2> HIDE DEF g
  <2> QED  BY <2>1, <2>2, <2>3
<1>4. [f EXCEPT ![p].request.retrieval = x, ![p].request.memory = y] =
          [f EXCEPT ![p] = [f[p] EXCEPT !.request =
              [[f[p].request EXCEPT !.retrieval = x] EXCEPT !.memory = y]]]
  OBVIOUS
<1> QED  BY <1>1, <1>2, <1>3, <1>4

\* What holds of a process.
LEMMA HereIs ==
    ASSUME TrialInv, NEW p \in Procs
    PROVE  /\ IsLog(evidence) /\ IsLog(runs) /\ job = [q \in Procs |-> job[q]]
           /\ IsJob(job[p])
           /\ Knows(evidence, runs, pc[p], job[p])
           /\ PlansOnRecord(evidence) /\ RunsOnRecord(evidence, runs) /\ AttemptsReplay(evidence)
           /\ Grows(evidence, evidence)
BY LogPositions DEF TrialInv, Shapes

\* Process p goes to l with the job j, and the adapter does not run.
LEMMA TrialMove ==
    ASSUME TrialInv, NEW p \in Procs, NEW l, NEW j, IsJob(j),
           pc' = [pc EXCEPT ![p] = l], job' = [job EXCEPT ![p] = j], bound' = bound, runs' = runs,
           Grows(evidence, evidence'), Knows(evidence', runs, l, j),
           l = "run" => \A q \in Procs \ {p} : pc[q] = "run" => job[q].start # j.start,
           PlansOnRecord(evidence'), RunsOnRecord(evidence', runs), AttemptsReplay(evidence')
    PROVE  Keeps
<1>1. Grows(runs, runs')
  BY LogPositions DEF TrialInv, Shapes
<1>2. New(runs, runs') = {}
  BY <1>1 DEF New, Grows
<1> QED  BY <1>1, <1>2, ProcessStep

\* An execution begins.
LEMMA BeginExecutionKeeps ==
    ASSUME TrialInv, NEW p \in Procs, NEW arm, BeginExecution(p, arm)
    PROVE  Keeps
<1> DEFINE l == IF arm.condition = "memory" THEN "retrieve" ELSE "start"
           j == [job[p] EXCEPT !.request = Request(arm)]
<1>1. /\ pc' = [pc EXCEPT ![p] = l] /\ bound' = bound /\ runs' = runs /\ evidence' = evidence
      /\ job' = [job EXCEPT ![p].request = Request(arm)]
      /\ enforceExecutionOrder(evidence, arm)
  BY DEF BeginExecution, Goto
<1>2. job' = [job EXCEPT ![p] = j]
  BY <1>1, HereIs, JobsWith
<1>3. j = [request |-> Request(arm), start |-> job[p].start, payload |-> job[p].payload,
           outcome |-> job[p].outcome, result |-> job[p].result, held |-> job[p].held]
  BY HereIs, JobFields
<1> HIDE DEF j
<1>4. IsJob(j) /\ j.request.arm = arm /\ IsRequest(j.request)
  BY <1>3 DEF IsJob, IsRequest, Request
<1>5. FirstRan(runs, arm)
  <2> SUFFICES ASSUME IsSecond(arm) PROVE \E k \in DOMAIN runs : runs[k].arm = Before(arm)
    BY DEF FirstRan
  <2>1. PICK i : i \in ReceiptsOf(evidence, Before(arm))
    BY <1>1 DEF enforceExecutionOrder
  <2>2. i \in OfKind(evidence, "receipt") /\ evidence[i].body.arm = Before(arm)
    BY <2>1 DEF ReceiptsOf
  <2>3. PICK k \in DOMAIN runs :
            runs[k] = [arm |-> evidence[i].body.arm, start |-> evidence[i].body.start,
                       memory |-> evidence[i].body.memory, payload |-> evidence[i].body.payload]
    BY <2>2, HereIs DEF RunsOnRecord
  <2>4. runs[k].arm = Before(arm)
    BY <2>2, <2>3
  <2> QED  BY <2>4
<1>6. l \in {"retrieve", "start"}
  OBVIOUS
<1> HIDE DEF l
<1>7. Knows(evidence', runs, l, j)
  BY <1>4, <1>5, <1>6 DEF Knows, Holds
<1> QED  BY <1>1, <1>2, <1>4, <1>6, <1>7, HereIs, TrialMove

\* The process is done with its command.
LEMMA NoJobIs == IsJob(NoJob)
BY DEF NoJob, IsJob

\* A command ends, with a plain record.
LEMMA ReturnKeeps ==
    ASSUME TrialInv, NEW p \in Procs, Return(p), bound' = bound, runs' = runs,
           Grows(evidence, evidence'), PlansOnRecord(evidence'), RunsOnRecord(evidence', runs), AttemptsReplay(evidence')
    PROVE  Keeps
BY NoJobIs, QuietMove DEF Return, Goto, Holds

\* What was found is on record.
LEMMA RetrieveKeeps ==
    ASSUME TrialInv, NEW p \in Procs, NEW memory, Retrieve(p, memory)
    PROVE  Keeps
<1> DEFINE x == Event(Fresh("retrieval"), "retrieval", ContextOf(job[p].request.arm), "retrieval", {},
                      "retrieval", [memory |-> memory])
           r == job[p].request
           j == [job[p] EXCEPT !.request = [[r EXCEPT !.retrieval = Next1] EXCEPT !.memory = memory]]
<1>1. pc[p] = "retrieve" /\ bound' = bound /\ runs' = runs /\ evidence' = Append(evidence, x)
  BY DEF Retrieve, Append1
<1>2. Plain(x)
  BY DEF Plain, Event, Fresh
<1> HIDE DEF x
<1>3. /\ Grows(evidence, evidence')
      /\ PlansOnRecord(evidence') /\ RunsOnRecord(evidence', runs) /\ AttemptsReplay(evidence')
  BY <1>1, <1>2, HereIs, PlainAppend
<1>4. CASE memory = "none"
  <2>1. Return(p)
    BY <1>4 DEF Retrieve
  <2> QED  BY <1>1, <1>3, <2>1, ReturnKeeps
<1>5. CASE memory # "none"
  <2>1. /\ pc' = [pc EXCEPT ![p] = "inject"]
        /\ job' = [job EXCEPT ![p].request.retrieval = Next1, ![p].request.memory = memory]
    BY <1>5 DEF Retrieve, Goto
  <2>2. job' = [job EXCEPT ![p] = j]
    <3> DEFINE n == Next1
    <3>1. job = [q \in Procs |-> job[q]]
      BY HereIs
    <3>2. job' = [job EXCEPT ![p].request.retrieval = n, ![p].request.memory = memory]
      BY <2>1
    <3>3. j = [job[p] EXCEPT !.request = [[job[p].request EXCEPT !.retrieval = n] EXCEPT !.memory = memory]]
      OBVIOUS
    <3> HIDE DEF n, j
    <3>4. [job EXCEPT ![p].request.retrieval = n, ![p].request.memory = memory] =
              [job EXCEPT ![p] = [job[p] EXCEPT !.request =
                  [[job[p].request EXCEPT !.retrieval = n] EXCEPT !.memory = memory]]]
      OBVIOUS
    <3> QED  BY <3>2, <3>3, <3>4
  <2>3. IsJob(j) /\ j.request.arm = r.arm /\ IsRequest(j.request)
    <3>0. IsRequest(r)
      BY <1>1, HereIs DEF Knows
    <3> DEFINE q == [r EXCEPT !.retrieval = Next1]
               n == [q EXCEPT !.memory = memory]
    <3>1. q = [arm |-> r.arm, retrieval |-> Next1, injection |-> r.injection, adoption |-> r.adoption,
               memory |-> r.memory]
      BY <3>0, RequestFields
    <3> HIDE DEF q
    <3>2. IsRequest(q) /\ q.arm = r.arm
      BY <3>1 DEF IsRequest
    <3>3. n = [arm |-> q.arm, retrieval |-> q.retrieval, injection |-> q.injection, adoption |-> q.adoption,
               memory |-> memory]
      BY <3>2, RequestFields
    <3> HIDE DEF n
    <3>4. IsRequest(n) /\ n.arm = r.arm
      BY <3>2, <3>3 DEF IsRequest
    <3>5. [job[p] EXCEPT !.request = n] = [request |-> n, start |-> job[p].start, payload |-> job[p].payload,
               outcome |-> job[p].outcome, result |-> job[p].result, held |-> job[p].held]
      BY HereIs, JobFields
    <3>6. j = [job[p] EXCEPT !.request = n]
      BY DEF n, q
    <3> HIDE DEF j
    <3> QED  BY <3>4, <3>5, <3>6 DEF IsJob
  <2> HIDE DEF j
  <2>4. FirstRan(runs, r.arm)
    BY <1>1, HereIs DEF Knows
  <2>5. Knows(evidence', runs, "inject", j)
    BY <2>3, <2>4 DEF Knows, Holds
  <2> QED  BY <1>1, <1>3, <2>1, <2>2, <2>3, <2>5, TrialMove
<1> QED  BY <1>4, <1>5

\* The memory is delivered.
LEMMA InjectKeeps ==
    ASSUME TrialInv, NEW p \in Procs, Inject(p)
    PROVE  Keeps
<1> DEFINE r == job[p].request
           x == Event(Fresh("injection"), "injection", ContextOf(r.arm), "retrieval", {r.retrieval},
                      "injection", [retrieval |-> r.retrieval, memory |-> r.memory])
           n == [r EXCEPT !.injection = Next1]
           j == [job[p] EXCEPT !.request = n]
<1>1. /\ pc[p] = "inject" /\ bound' = bound /\ runs' = runs /\ evidence' = Append(evidence, x)
      /\ pc' = [pc EXCEPT ![p] = "start"] /\ job' = [job EXCEPT ![p].request.injection = Next1]
  BY DEF Inject, Append1, Goto
<1>2. Plain(x)
  BY DEF Plain, Event, Fresh
<1> HIDE DEF x
<1>3. /\ Grows(evidence, evidence')
      /\ PlansOnRecord(evidence') /\ RunsOnRecord(evidence', runs) /\ AttemptsReplay(evidence')
  BY <1>1, <1>2, HereIs, PlainAppend
<1>4. job' = [job EXCEPT ![p] = j]
  BY <1>1, HereIs, JobsWith
<1>5. n = [arm |-> r.arm, retrieval |-> r.retrieval, injection |-> Next1, adoption |-> r.adoption,
           memory |-> r.memory]
  <2>1. IsRequest(r)
    BY <1>1, HereIs DEF Knows, Holds
  <2> QED  BY <2>1, RequestFields
<1> HIDE DEF n
<1>6. n.arm = r.arm
  BY <1>5
<1>7. j = [request |-> n, start |-> job[p].start, payload |-> job[p].payload,
           outcome |-> job[p].outcome, result |-> job[p].result, held |-> job[p].held]
  BY HereIs, JobFields
<1> HIDE DEF j
<1>8. IsJob(j) /\ j.request.arm = r.arm
  BY <1>6, <1>7 DEF IsJob
<1>9. FirstRan(runs, r.arm)
  BY <1>1, HereIs DEF Knows
<1>10. Knows(evidence', runs, "start", j)
  BY <1>8, <1>9 DEF Knows, Holds
<1> QED  BY <1>1, <1>3, <1>4, <1>8, <1>10, TrialMove

\* The start is on record, and is nobody else's.
LEMMA AppendStartKeeps ==
    ASSUME TrialInv, NEW p \in Procs, AppendStart(p)
    PROVE  Keeps
<1> DEFINE r == job[p].request
           x == Supervised(Fresh("start"), "start", r.arm, StartParents(evidence, r),
                           "start", [arm |-> r.arm, memory |-> r.memory])
           n == Next1
           j == [job[p] EXCEPT !.start = n]
<1>1. /\ pc[p] = "start" /\ bound' = bound /\ runs' = runs /\ evidence' = Append(evidence, x)
      /\ pc' = [pc EXCEPT ![p] = "run"] /\ job' = [job EXCEPT ![p].start = n]
  BY DEF AppendStart, Append1, Goto
<1>2. Plain(x) /\ x.kind = "start" /\ x.body = [arm |-> r.arm, memory |-> r.memory]
  BY DEF Plain, Event, Supervised, Fresh
<1> HIDE DEF x
<1>3. /\ Grows(evidence, evidence') /\ n \in 1..Len(evidence') /\ evidence'[n] = x
      /\ PlansOnRecord(evidence') /\ RunsOnRecord(evidence', runs) /\ AttemptsReplay(evidence')
  BY <1>1, <1>2, HereIs, PlainAppend DEF Next1
<1>4. n \notin OfKind(evidence, "start")
  BY HereIs, LogPositions DEF OfKind, Next1
<1> HIDE DEF n
<1>5. job' = [job EXCEPT ![p] = j]
  BY <1>1, HereIs, JobsWith
<1>6. j = [request |-> r, start |-> n, payload |-> job[p].payload,
           outcome |-> job[p].outcome, result |-> job[p].result, held |-> job[p].held]
  BY HereIs, JobFields
<1> HIDE DEF j
<1>7. IsJob(j) /\ j.request = r /\ j.start = n
  BY <1>6 DEF IsJob
<1>8. FirstRan(runs, r.arm)
  BY <1>1, HereIs DEF Knows
<1>9. StartRecorded(evidence', j)
  BY <1>2, <1>3, <1>7 DEF StartRecorded, OfKind, Grows
<1>10. NotRun(runs, j)
  BY <1>4, <1>7, HereIs DEF NotRun, RunsOnRecord
<1>11. Knows(evidence', runs, "run", j)
  BY <1>7, <1>8, <1>9, <1>10 DEF Knows, Holds
<1>12. ASSUME NEW q \in Procs \ {p}, pc[q] = "run" PROVE job[q].start # j.start
  <2>1. Knows(evidence, runs, pc[q], job[q])
    BY HereIs
  <2> QED  BY <1>4, <1>7, <1>12, <2>1 DEF Knows, StartRecorded
<1> QED  BY <1>1, <1>3, <1>5, <1>7, <1>11, <1>12, TrialMove

\* The adapter runs.
LEMMA RunKeeps ==
    ASSUME TrialInv, NEW p \in Procs, NEW payload, Run(p, payload)
    PROVE  Keeps
<1> DEFINE b == job[p]
           r == b.request
           x == [arm |-> r.arm, start |-> b.start, memory |-> r.memory, payload |-> payload]
           o == IF payload = "failure" THEN "failed" ELSE "completed"
           h == [b EXCEPT !.payload = payload]
           j == [h EXCEPT !.outcome = o]
<1>1. /\ pc[p] = "run" /\ bound' = bound /\ evidence' = evidence /\ runs' = Append(runs, x)
      /\ pc' = [pc EXCEPT ![p] = "result"]
      /\ job' = [job EXCEPT ![p].payload = payload, ![p].outcome = o]
  BY DEF Run, Goto
<1>2. x.arm = r.arm /\ x.start = b.start /\ x.memory = r.memory /\ x.payload = payload
  OBVIOUS
<1>3. IsJob(j) /\ j.request = r /\ j.start = b.start /\ j.payload = payload
  <2>1. h = [request |-> r, start |-> b.start, payload |-> payload,
             outcome |-> b.outcome, result |-> b.result, held |-> b.held]
    BY HereIs, JobFields
  <2> HIDE DEF h, o
  <2>2. IsJob(h) /\ h.request = r /\ h.start = b.start /\ h.payload = payload
    BY <2>1 DEF IsJob
  <2>3. j = [request |-> h.request, start |-> h.start, payload |-> h.payload,
             outcome |-> o, result |-> h.result, held |-> h.held]
    BY <2>2, JobFields
  <2> HIDE DEF j
  <2> QED  BY <2>2, <2>3 DEF IsJob
<1>4. job' = [job EXCEPT ![p] = j]
  <2>1. job = [q \in Procs |-> job[q]]
    BY HereIs
  <2> HIDE DEF o
  <2>2. [job EXCEPT ![p].payload = payload, ![p].outcome = o] =
            [job EXCEPT ![p] = [[job[p] EXCEPT !.payload = payload] EXCEPT !.outcome = o]]
    BY <2>1, JobsWith
  <2> QED  BY <1>1, <2>2
<1>5. /\ FirstRan(runs, r.arm) /\ StartRecorded(evidence, b) /\ NotRun(runs, b)
      /\ RunsOnRecord(evidence, runs)
  BY <1>1, HereIs DEF Knows
<1> HIDE DEF x, j
<1>6. /\ Grows(runs, runs') /\ Len(runs') = Len(runs) + 1 /\ runs'[Len(runs) + 1] = x
      /\ Len(runs) \in Nat /\ DOMAIN runs = 1..Len(runs) /\ DOMAIN runs' = 1..Len(runs) + 1
      /\ \A k \in 1..Len(runs) : runs'[k] = runs[k]
  <2>1. Grows(runs, runs') /\ Len(runs') = Len(runs) + 1 /\ runs'[Len(runs) + 1] = x
    BY <1>1, HereIs, LogGrows
  <2> QED  BY <2>1 DEF Grows
<1>7. \A k \in New(runs, runs') : runs'[k] = x
  BY <1>6 DEF New
<1>8. RunsOnRecord(evidence, runs')
  <2>1. ASSUME NEW k \in DOMAIN runs'
        PROVE  /\ runs'[k].start \in OfKind(evidence, "start")
               /\ evidence[runs'[k].start].body = [arm |-> runs'[k].arm, memory |-> runs'[k].memory]
               /\ IsSecond(runs'[k].arm) => \E m \in 1..k - 1 : runs'[m].arm = Before(runs'[k].arm)
    <3>1. CASE k \in 1..Len(runs)
      <4>1. /\ runs[k].start \in OfKind(evidence, "start")
            /\ evidence[runs[k].start].body = [arm |-> runs[k].arm, memory |-> runs[k].memory]
            /\ IsSecond(runs[k].arm) => \E m \in 1..k - 1 : runs[m].arm = Before(runs[k].arm)
        BY <1>5, <1>6, <3>1 DEF RunsOnRecord
      <4>2. \A m \in 1..k - 1 : runs'[m] = runs[m]
        BY <1>6, <3>1
      <4> QED  BY <1>6, <3>1, <4>1, <4>2
    <3>2. CASE k = Len(runs) + 1
      <4>1. x.start \in OfKind(evidence, "start") /\ evidence[x.start].body = [arm |-> x.arm, memory |-> x.memory]
        BY <1>2, <1>5 DEF StartRecorded
      <4>2. IsSecond(x.arm) => \E m \in 1..k - 1 : runs'[m].arm = Before(x.arm)
        BY <1>2, <1>5, <1>6, <3>2 DEF FirstRan
      <4> QED  BY <1>6, <3>2, <4>1, <4>2
    <3> QED  BY <1>6, <3>1, <3>2
  <2>2. ASSUME NEW k \in DOMAIN runs', NEW m \in DOMAIN runs', runs'[k].start = runs'[m].start
        PROVE  k = m
    <3>1. \A i, n \in 1..Len(runs) : runs[i].start = runs[n].start => i = n
      BY <1>5, <1>6 DEF RunsOnRecord
    <3>2. \A i \in 1..Len(runs) : runs[i].start # x.start
      BY <1>2, <1>5, <1>6 DEF NotRun
    <3>3. (k \in 1..Len(runs) \/ k = Len(runs) + 1) /\ (m \in 1..Len(runs) \/ m = Len(runs) + 1)
      BY <1>6
    <3> QED  BY <1>6, <2>2, <3>1, <3>2, <3>3
  <2>3. ASSUME NEW i \in OfKind(evidence, "receipt")
        PROVE  \E k \in DOMAIN runs' :
                   runs'[k] = [arm |-> evidence[i].body.arm, start |-> evidence[i].body.start,
                               memory |-> evidence[i].body.memory, payload |-> evidence[i].body.payload]
    <3>1. PICK k \in DOMAIN runs :
              runs[k] = [arm |-> evidence[i].body.arm, start |-> evidence[i].body.start,
                         memory |-> evidence[i].body.memory, payload |-> evidence[i].body.payload]
      BY <1>5 DEF RunsOnRecord
    <3>2. k \in DOMAIN runs' /\ runs'[k] = runs[k]
      BY <1>6
    <3> QED  BY <3>1, <3>2
  <2> QED  BY <2>1, <2>2, <2>3 DEF RunsOnRecord
<1>9. RunRecorded(runs', j)
  <2>1. Len(runs) + 1 \in DOMAIN runs'
    BY <1>6
  <2>2. x = [arm |-> j.request.arm, start |-> j.start, memory |-> j.request.memory, payload |-> j.payload]
    BY <1>3 DEF x
  <2> QED  BY <1>6, <2>1, <2>2 DEF RunRecorded
<1>10. Knows(evidence', runs', "result", j)
  BY <1>9 DEF Knows, Holds
<1>11. \A k \in New(runs, runs') : \A q \in Procs \ {p} : pc[q] = "run" => runs'[k].start # job[q].start
  BY <1>1, <1>2, <1>7 DEF TrialInv, StartsApart
<1> QED  BY <1>1, <1>3, <1>4, <1>6, <1>8, <1>10, <1>11, HereIs, ProcessStep

\* The result is on record, under the id the contract fixed.
LEMMA AppendResultKeeps ==
    ASSUME TrialInv, NEW p \in Procs, AppendResult(p)
    PROVE  Keeps
<1> DEFINE b == job[p]
           x == Supervised(ResultID(b.request.arm), "tool_result", b.request.arm, {b.start},
                           b.payload, b.request.arm)
           n == Next1
           j == [b EXCEPT !.result = n]
<1>1. /\ pc[p] = "result" /\ bound' = bound /\ runs' = runs /\ evidence' = Append(evidence, x)
      /\ pc' = [pc EXCEPT ![p] = "receipt"] /\ job' = [job EXCEPT ![p].result = n]
  BY DEF AppendResult, Append1, Goto
<1>2. Plain(x)
  BY DEF Plain, Event, Supervised, ResultID
<1> HIDE DEF x, n
<1>3. /\ Grows(evidence, evidence')
      /\ PlansOnRecord(evidence') /\ RunsOnRecord(evidence', runs) /\ AttemptsReplay(evidence')
  BY <1>1, <1>2, HereIs, PlainAppend
<1>4. job' = [job EXCEPT ![p] = j]
  BY <1>1, HereIs, JobsWith
<1>5. j = [request |-> b.request, start |-> b.start, payload |-> b.payload,
           outcome |-> b.outcome, result |-> n, held |-> b.held]
  BY HereIs, JobFields
<1> HIDE DEF j
<1>6. IsJob(j) /\ j.request = b.request /\ j.start = b.start /\ j.payload = b.payload
  BY <1>5 DEF IsJob
<1>7. RunRecorded(runs, j)
  BY <1>1, <1>6, HereIs DEF Knows, RunRecorded
<1>8. Knows(evidence', runs, "receipt", j)
  BY <1>7 DEF Knows, Holds
<1> QED  BY <1>1, <1>3, <1>4, <1>6, <1>8, TrialMove

\* The receipt is on record, of the run that was.
LEMMA AppendReceiptKeeps ==
    ASSUME TrialInv, NEW p \in Procs, AppendReceipt(p)
    PROVE  Keeps
<1> DEFINE b == job[p]
           r == b.request
           y == [arm |-> r.arm, start |-> b.start, result |-> b.result, outcome |-> b.outcome,
                 payload |-> b.payload, retrieval |-> r.retrieval, injection |-> r.injection,
                 memory |-> r.memory]
           x == Supervised(Fresh("receipt"), "receipt", r.arm, {b.start, b.result}, "receipt", y)
<1>1. pc[p] = "receipt" /\ bound' = bound /\ runs' = runs /\ evidence' = Append(evidence, x)
  BY DEF AppendReceipt, Append1
<1>2. x.kind = "receipt" /\ x.id[1] = "receipt" /\ x.body = y
  BY DEF Event, Supervised, Fresh
<1>3. y.arm = r.arm /\ y.start = b.start /\ y.memory = r.memory /\ y.payload = b.payload
  OBVIOUS
<1> HIDE DEF x, y
<1>4. Grows(evidence, evidence') /\ Len(evidence') = Len(evidence) + 1 /\ evidence'[Len(evidence) + 1] = x
  BY <1>1, HereIs, LogGrows
<1>5. \A i \in New(evidence, evidence') : evidence'[i] = x
  BY <1>4 DEF New, Grows
<1>6. PlansOnRecord(evidence')
  BY <1>2, <1>4, <1>5, HereIs, PlansGrow
<1>7. RunsOnRecord(evidence', runs)
  <2>1. RunRecorded(runs, b)
    BY <1>1, HereIs DEF Knows
  <2>2. \E k \in DOMAIN runs :
            runs[k] = [arm |-> y.arm, start |-> y.start, memory |-> y.memory, payload |-> y.payload]
    BY <1>3, <2>1 DEF RunRecorded
  <2> QED  BY <1>2, <1>4, <1>5, <2>2, HereIs, RunsGrow
<1>8. AttemptsReplay(evidence')
  BY <1>2, <1>4, <1>5, HereIs, AttemptsGrow
<1>9. CASE r.arm.condition = "memory"
  <2>1. pc' = [pc EXCEPT ![p] = "adopt"] /\ job' = job
    BY <1>9 DEF AppendReceipt, Goto
  <2>2. job' = [job EXCEPT ![p] = b]
    BY <2>1, HereIs
  <2>3. Holds(evidence', "adopt", b.held)
    BY DEF Holds
  <2> QED  BY <1>1, <1>4, <1>6, <1>7, <1>8, <2>1, <2>2, <2>3, HereIs, QuietMove
<1>10. CASE r.arm.condition # "memory"
  <2>1. Return(p)
    BY <1>10 DEF AppendReceipt
  <2> QED  BY <1>1, <1>4, <1>6, <1>7, <1>8, <2>1, ReturnKeeps
<1> QED  BY <1>9, <1>10

\* The delivery is reported.
LEMMA AdoptKeeps ==
    ASSUME TrialInv, NEW p \in Procs, Adopt(p)
    PROVE  Keeps
<1> DEFINE r == job[p].request
           x == Event(Fresh("adoption"), "adoption", ContextOf(r.arm), "retrieval",
                      {r.retrieval, r.injection, job[p].result}, "adoption",
                      [injection |-> r.injection, adopted |-> FALSE, outcome |-> "unknown"])
<1>1. bound' = bound /\ runs' = runs /\ evidence' = Append(evidence, x) /\ Return(p)
  BY DEF Adopt, Append1
<1>2. Plain(x)
  BY DEF Plain, Event, Fresh
<1> HIDE DEF x
<1> QED  BY <1>1, <1>2, HereIs, PlainAppend, ReturnKeeps

\* A command is interrupted.
LEMMA AbortKeeps ==
    ASSUME TrialInv, NEW p \in Procs, Abort(p)
    PROVE  Keeps
<1>1. bound' = bound /\ runs' = runs /\ evidence' = evidence /\ Return(p)
  BY DEF Abort
<1> QED  BY <1>1, HereIs, ReturnKeeps

\* A manual result.
LEMMA ObserveKeeps ==
    ASSUME TrialInv, NEW p \in Procs, NEW arm, NEW payload, Observe(p, arm, payload)
    PROVE  Keeps
<1> DEFINE y == IF arm.condition = "baseline" THEN At(evidence, ContractID(arm))
                ELSE CHOOSE i \in Exposures(evidence, arm, Len(evidence), "injection") : TRUE
           g == [[job[p] EXCEPT !.request = Request(arm)] EXCEPT !.payload = payload]
           j == [g EXCEPT !.start = y]
<1>1. /\ pc' = [pc EXCEPT ![p] = "observe"] /\ bound' = bound /\ runs' = runs /\ evidence' = evidence
      /\ job' = [job EXCEPT ![p].request = Request(arm), ![p].payload = payload, ![p].start = y]
  BY DEF Observe, Goto
<1> HIDE DEF y
<1> DEFINE a == Request(arm)
<1>2. job' = [job EXCEPT ![p] = j]
  <2>1. job = [q \in Procs |-> job[q]]
    BY HereIs
  <2> HIDE DEF a
  <2>2. [job EXCEPT ![p].request = a, ![p].payload = payload, ![p].start = y] =
            [job EXCEPT ![p] = [[[job[p] EXCEPT !.request = a] EXCEPT !.payload = payload] EXCEPT !.start = y]]
    BY <2>1
  <2> QED  BY <1>1, <2>2 DEF a
<1>3. IsJob(j)
  <2> DEFINE f == [job[p] EXCEPT !.request = a]
  <2>1. IsJob(f)
    <3>1. f = [request |-> a, start |-> job[p].start, payload |-> job[p].payload,
               outcome |-> job[p].outcome, result |-> job[p].result, held |-> job[p].held]
      BY HereIs, JobFields
    <3> HIDE DEF f, a
    <3> QED  BY <3>1 DEF IsJob
  <2> HIDE DEF f
  <2> DEFINE k == [f EXCEPT !.payload = payload]
  <2>2. IsJob(k)
    BY <2>1, JobFields DEF IsJob
  <2> HIDE DEF k
  <2> DEFINE l == [k EXCEPT !.start = y]
  <2>3. IsJob(l)
    BY <2>2, JobFields DEF IsJob
  <2>4. l = j
    BY DEF k, f
  <2> HIDE DEF l, j
  <2> QED  BY <2>3, <2>4
<1> HIDE DEF j
<1>4. Holds(evidence', "observe", j.held)
  BY DEF Holds
<1> QED  BY <1>1, <1>2, <1>3, <1>4, HereIs, QuietMove

LEMMA AppendObservationKeeps ==
    ASSUME TrialInv, NEW p \in Procs, AppendObservation(p)
    PROVE  Keeps
<1> DEFINE arm == job[p].request.arm
           x == Event(ResultID(arm), "tool_result", ContextOf(arm), "evaluation",
                      {job[p].start}, job[p].payload, arm)
<1>1. bound' = bound /\ runs' = runs /\ evidence' = Append(evidence, x) /\ Return(p)
  BY DEF AppendObservation, Append1
<1>2. Plain(x)
  BY DEF Plain, Event, ResultID
<1> HIDE DEF x
<1> QED  BY <1>1, <1>2, HereIs, PlainAppend, ReturnKeeps

\* A request is finalized: its arm can be judged.
LEMMA FinalizeKeeps ==
    ASSUME TrialInv, NEW p \in Procs, NEW r, Finalize(p, r)
    PROVE  Keeps
<1> DEFINE l == IF Has(evidence, VerdictID(r.arm)) THEN "record" ELSE "verdict"
           j == [job[p] EXCEPT !.request = r]
<1>1. /\ pc' = [pc EXCEPT ![p] = l] /\ job' = [job EXCEPT ![p].request = r]
      /\ bound' = bound /\ runs' = runs /\ evidence' = evidence /\ Finalizable(evidence, r)
  BY DEF Finalize, Goto
<1>2. job' = [job EXCEPT ![p] = j]
  BY <1>1, HereIs, JobsWith
<1>3. j = [request |-> r, start |-> job[p].start, payload |-> job[p].payload,
           outcome |-> job[p].outcome, result |-> job[p].result, held |-> job[p].held]
  BY HereIs, JobFields
<1> HIDE DEF j
<1>4. IsJob(j) /\ j.request = r
  BY <1>3 DEF IsJob
<1>5. Judged(evidence, r.arm)
  BY <1>1 DEF Finalizable, Judged, Bounded
<1>6. l = "record" => Verdicted(evidence, r.arm)
  BY <1>1, <1>5 DEF Finalizable, Verdicted
<1>7. l \in {"record", "verdict"}
  OBVIOUS
<1> HIDE DEF l
<1>8. Knows(evidence', runs, l, j)
  BY <1>1, <1>4, <1>5, <1>6, <1>7 DEF Knows, Holds
<1> QED  BY <1>1, <1>2, <1>4, <1>7, <1>8, HereIs, TrialMove

\* The verdict is on record.
LEMMA AppendVerdictKeeps ==
    ASSUME TrialInv, NEW p \in Procs, AppendVerdict(p)
    PROVE  Keeps
<1> DEFINE arm == job[p].request.arm
           x == VerdictEvent(evidence, arm)
           n == Len(evidence) + 1
<1>1. /\ pc[p] = "verdict" /\ bound' = bound /\ runs' = runs /\ evidence' = Append(evidence, x)
      /\ pc' = [pc EXCEPT ![p] = "record"] /\ job' = job
  BY DEF AppendVerdict, Append1, Goto
<1>2. Plain(x) /\ x.id = VerdictID(arm) /\ x.body = materializeBuiltinVerdict(evidence, arm)
  BY DEF Plain, Event, VerdictEvent, VerdictID
<1> HIDE DEF x
<1>3. /\ Grows(evidence, evidence') /\ n \in 1..Len(evidence') /\ evidence'[n] = x
      /\ PlansOnRecord(evidence') /\ RunsOnRecord(evidence', runs) /\ AttemptsReplay(evidence')
  BY <1>1, <1>2, HereIs, PlainAppend
<1> HIDE DEF n
<1>4. job' = [job EXCEPT ![p] = job[p]]
  BY <1>1, HereIs
<1>5. ASSUME loadIndexedRecords(evidence') PROVE Verdicted(evidence', arm)
  <2>1. loadIndexedRecords(evidence)
    BY <1>3, <1>5, IdsStay
  <2>2. Judged(evidence, arm)
    BY <1>1, <2>1, HereIs DEF Knows
  <2>3. Judged(evidence', arm)
    BY <1>3, <1>5, <2>2, JudgedStays
  <2>4. materializeBuiltinVerdict(evidence', arm) = materializeBuiltinVerdict(evidence, arm)
    BY <1>3, <1>5, <2>2, VerdictStays DEF Judged
  <2>5. IsLog(evidence')
    BY <1>3 DEF Grows
  <2>6. Has(evidence', VerdictID(arm)) /\ At(evidence', VerdictID(arm)) = n
    BY <1>2, <1>3, <1>5, <2>5, AtIs
  <2> QED  BY <1>2, <1>3, <2>3, <2>4, <2>6 DEF Verdicted
<1>6. Knows(evidence', runs, "record", job[p])
  BY <1>5 DEF Knows, Holds
<1> QED  BY <1>1, <1>3, <1>4, <1>6, HereIs, TrialMove

\* The ledger is read again.
LEMMA RecordKeepsOn ==
    ASSUME TrialInv, NEW p \in Procs, Record(p)
    PROVE  Keeps
<1>1. pc[p] = "record" /\ bound' = bound /\ runs' = runs /\ evidence' = evidence
  BY DEF Record
<1>2. CASE Return(p)
  BY <1>1, <1>2, HereIs, ReturnKeeps
<1>3. CASE /\ loadIndexedRecords(evidence) /\ Derivable(evidence, job[p].request)
           /\ pc' = [pc EXCEPT ![p] = "attempt"] /\ job' = job
  <2>1. job' = [job EXCEPT ![p] = job[p]]
    BY <1>3, HereIs
  <2>2. Verdicted(evidence, job[p].request.arm)
    BY <1>1, <1>3, HereIs DEF Knows
  <2>3. Knows(evidence', runs, "attempt", job[p])
    BY <1>1, <1>3, <2>2 DEF Knows, Holds
  <2> QED  BY <1>1, <1>3, <2>1, <2>3, HereIs, TrialMove
<1> QED  BY <1>2, <1>3 DEF Record, Goto

\* The attempt receipt is on record, and replays.
LEMMA AppendAttemptKeeps ==
    ASSUME TrialInv, NEW p \in Procs, AppendAttempt(p)
    PROVE  Keeps
<1> DEFINE r == job[p].request
           x == Event(AttemptID(r), "attempt", ContextOf(r.arm), "evaluation",
                      AttemptParents(evidence, r), "attempt", deriveTaskAttempt(evidence, r))
           n == Len(evidence) + 1
<1>1. /\ pc[p] = "attempt" /\ bound' = bound /\ runs' = runs /\ evidence' = Append(evidence, x) /\ Return(p)
  BY DEF AppendAttempt, Append1
<1>2. /\ x.kind = "attempt" /\ x.id[1] = "attempt" /\ x.parents = AttemptParents(evidence, r)
      /\ x.body = deriveTaskAttempt(evidence, r) /\ x.body.request = r
  BY DEF Event, AttemptID, deriveTaskAttempt
<1> HIDE DEF x
<1>3. Grows(evidence, evidence') /\ Len(evidence') = n /\ evidence'[n] = x /\ n \in 1..Len(evidence')
  BY <1>1, HereIs, LogGrows DEF Grows
<1>4. \A i \in New(evidence, evidence') : i = n /\ evidence'[i] = x
  BY <1>3 DEF New, Grows
<1> HIDE DEF n
<1>5. PlansOnRecord(evidence')
  BY <1>2, <1>3, <1>4, HereIs, PlansGrow
<1>6. RunsOnRecord(evidence', runs)
  BY <1>2, <1>3, <1>4, HereIs, RunsGrow
<1>7. ASSUME loadIndexedRecords(evidence') PROVE rerunTaskAttempt(evidence', n)
  <2>1. loadIndexedRecords(evidence)
    BY <1>3, <1>7, IdsStay
  <2>2. Verdicted(evidence, r.arm) /\ Derivable(evidence, r)
    BY <1>1, <2>1, HereIs DEF Knows
  <2>3. Verdicted(evidence', r.arm)
    BY <1>3, <1>7, <2>2, JudgedStays
  <2>4. /\ Derivable(evidence', r) /\ deriveTaskAttempt(evidence', r) = deriveTaskAttempt(evidence, r)
        /\ AttemptParents(evidence', r) = AttemptParents(evidence, r)
    BY <1>3, <1>7, <2>2, DerivationStays
  <2> HIDE DEF r
  <2>5. /\ evidence'[n].body.request = r /\ evidence'[n].body = deriveTaskAttempt(evidence', r)
        /\ evidence'[n].parents = AttemptParents(evidence', r)
    BY <1>2, <1>3, <2>4
  <2> QED  BY <2>3, <2>4, <2>5 DEF rerunTaskAttempt, verifyTaskAttemptRecord, Verdicted, Judged
<1>8. AttemptsReplay(evidence')
  BY <1>3, <1>4, <1>7, HereIs, AttemptsGrow
<1> QED  BY <1>1, <1>3, <1>5, <1>6, <1>8, ReturnKeeps

\* Every step of the trials.
LEMMA TrialNextKeeps ==
    ASSUME TrialInv, TrialNext
    PROVE  Keeps
<1>1. CASE \E plan \in bound.plans : PreregisterTrialPlan(plan)
  BY <1>1, PreregisterTrialPlanKeeps
<1>2. CASE \E arm \in bound.drafts : PreregisterTaskAttempt(arm)
  BY <1>2, PreregisterTaskAttemptKeeps
<1>3. CASE \E context \in ContextsInUse :
               \/ \E x \in bound.events, linked \in BOOLEAN : Work(context, x[1], x[2], linked)
               \/ bound.deliver /\ Deliver(context)
  BY <1>3, WorkKeeps, DeliverKeeps
<1>4. CASE \E i \in OfKind(evidence, "injection"), outcome \in bound.outcomes : ReportAdoption(i, outcome)
  BY <1>4, ReportAdoptionKeeps
<1>5. ASSUME NEW p \in Procs,
             \/ \E arm \in Arms(evidence) : BeginExecution(p, arm)
             \/ \E memory \in bound.memories : Retrieve(p, memory)
             \/ Inject(p)
             \/ AppendStart(p)
             \/ \E payload \in bound.outputs : Run(p, payload)
             \/ AppendResult(p)
             \/ AppendReceipt(p)
             \/ Adopt(p)
             \/ \E arm \in Preregistered(evidence), payload \in bound.observed : Observe(p, arm, payload)
             \/ AppendObservation(p)
             \/ FinalizeExecution(p)
             \/ FinalizeRequest(p)
             \/ AppendVerdict(p)
             \/ Record(p)
             \/ AppendAttempt(p)
             \/ Abort(p)
      PROVE  Keeps
  <2>1. FinalizeExecution(p) => \E r : Finalize(p, r)
    BY DEF FinalizeExecution
  <2>2. FinalizeRequest(p) => \E r : Finalize(p, r)
    BY DEF FinalizeRequest
  <2> QED  BY <1>5, <2>1, <2>2, BeginExecutionKeeps, RetrieveKeeps, InjectKeeps, AppendStartKeeps, RunKeeps,
              AppendResultKeeps, AppendReceiptKeeps, AdoptKeeps, ObserveKeeps, AppendObservationKeeps,
              FinalizeKeeps, AppendVerdictKeeps, RecordKeepsOn, AppendAttemptKeeps, AbortKeeps
<1> QED  BY <1>1, <1>2, <1>3, <1>4, <1>5 DEF TrialNext


-----------------------------------------------------------------------------
(* The corpus, the detector, the labels and the runs.                      *)

\* Several records that are plain.
AllPlain(b) == \A k \in 1..Len(b) : Plain(b[k])
From(e, s, b) == \A i \in New(e, s) : \E k \in 1..Len(b) : s[i] = b[k]

LEMMA PlainBatch ==
    ASSUME NEW e, IsLog(e), NEW rs, NEW b, IsLog(b), AllPlain(b),
           PlansOnRecord(e), RunsOnRecord(e, rs), AttemptsReplay(e)
    PROVE  /\ Grows(e, e \o b) /\ Len(e \o b) = Len(e) + Len(b) /\ From(e, e \o b, b)
           /\ PlansOnRecord(e \o b) /\ RunsOnRecord(e \o b, rs) /\ AttemptsReplay(e \o b)
<1> DEFINE s == e \o b
<1>1. /\ Grows(e, s) /\ Len(s) = Len(e) + Len(b) /\ \A k \in 1..Len(b) : s[Len(e) + k] = b[k]
  BY LogsJoin
<1> HIDE DEF s
<1>2. ASSUME NEW i \in New(e, s) PROVE \E k \in 1..Len(b) : s[i] = b[k]
  <2>1. Len(e) \in Nat /\ Len(b) \in Nat
    BY LogPositions
  <2>2. i - Len(e) \in 1..Len(b) /\ i = Len(e) + (i - Len(e))
    BY <1>1, <2>1 DEF New
  <2> QED  BY <1>1, <2>2
<1>3. \A i \in New(e, s) : Plain(s[i])
  BY <1>2 DEF AllPlain
<1>4. PlansOnRecord(s) /\ RunsOnRecord(s, rs) /\ AttemptsReplay(s)
  BY <1>1, <1>3, PlainRecords
<1> QED  BY <1>1, <1>2, <1>4 DEF s, From

\* A range of lines.
IsRange(r) == r \in Nat \X Nat /\ r[1] <= r[2]

\* A segment and its lines.
LEMMA ImportGrows ==
    ASSUME TrialInv, NEW x \in bound.imports, Import(x[1], x[2], x[3])
    PROVE  /\ Grows(evidence, evidence')
           /\ \A i \in New(evidence, evidence') :
                  /\ evidence'[i].kind \notin CommandKinds /\ IsRange(evidence'[i].body.range)
                  /\ evidence'[i].id[1] \in {"segment", "line"}
           /\ PlansOnRecord(evidence') /\ RunsOnRecord(evidence', runs) /\ AttemptsReplay(evidence')
<1> DEFINE n == x[2][2] - x[2][1]
           lines == [k \in 1..n |->
                        Captured(<<"line", Next1 + k>>, Rollouts[x[1]][x[2][1] + k], "importer",
                                 x[1], <<x[2][1] + k - 1, x[2][1] + k>>, {Next1}, TRUE)]
           head == Captured(Fresh("segment"), "snapshot", "importer", x[1], x[2], {}, x[3])
           one == <<head>>
           mid == evidence \o one
<1>1. evidence' = mid \o lines
  BY DEF Import
<1>2. /\ x[2][1] \in Nat /\ x[2][2] \in Nat /\ n \in Nat /\ IsRange(x[2])
      /\ \A k \in 1..n : Rollouts[x[1]][x[2][1] + k] \notin CommandKinds
  <2>1. /\ x[2][1] \in Nat /\ x[2][2] \in Nat /\ x[2][1] <= x[2][2]
        /\ x[1] \in DOMAIN Rollouts /\ x[2][1] + 1..x[2][2] \subseteq DOMAIN Rollouts[x[1]]
        /\ IsRange(x[2])
    BY RolloutAssumption DEF TrialInv, Shapes, IsRange
  <2>2. n \in Nat /\ \A k \in 1..n : x[2][1] + k \in x[2][1] + 1..x[2][2]
    BY <2>1
  <2>3. \A k \in 1..n : x[2][1] + k \in DOMAIN Rollouts[x[1]]
    BY <2>1, <2>2
  <2>4. \A k \in DOMAIN Rollouts[x[1]] : Rollouts[x[1]][k] \notin CommandKinds
    BY <2>1, RolloutAssumption
  <2> QED  BY <2>1, <2>2, <2>3, <2>4
<1> HIDE DEF n
<1>3. /\ lines = [k \in 1..n |-> lines[k]]
      /\ \A k \in 1..n : lines[k].kind \notin CommandKinds /\ lines[k].id[1] = "line" /\ IsRange(lines[k].body.range)
  <2>1. ASSUME NEW k \in 1..n PROVE IsRange(<<x[2][1] + k - 1, x[2][1] + k>>)
    BY <1>2 DEF IsRange
  <2> QED  BY <1>2, <2>1 DEF Captured, Event
<1>4. head.kind = "snapshot" /\ head.id[1] = "segment" /\ IsRange(head.body.range)
  BY <1>2 DEF Captured, Event, Fresh
<1> HIDE DEF lines, head
<1>5. IsLog(lines) /\ Len(lines) = n
  BY <1>2, <1>3, ListIsLog
<1>6. IsLog(one) /\ Len(one) = 1 /\ one[1] = head
  BY DEF IsLog
<1> HIDE DEF one
<1>7. /\ Grows(evidence, mid) /\ Len(mid) = Len(evidence) + 1
      /\ \A i \in New(evidence, mid) : mid[i] = head
      /\ PlansOnRecord(mid) /\ RunsOnRecord(mid, runs) /\ AttemptsReplay(mid)
  <2>1. IsLog(evidence) /\ PlansOnRecord(evidence) /\ RunsOnRecord(evidence, runs) /\ AttemptsReplay(evidence)
    BY DEF TrialInv, Shapes
  <2>2. AllPlain(one)
    BY <1>4, <1>6 DEF Plain, AllPlain
  <2>3. mid = evidence \o one
    OBVIOUS
  <2> HIDE DEF mid
  <2>4. /\ Grows(evidence, mid) /\ Len(mid) = Len(evidence) + Len(one)
        /\ From(evidence, mid, one)
        /\ PlansOnRecord(mid) /\ RunsOnRecord(mid, runs) /\ AttemptsReplay(mid)
    <3>1. IsLog(one)
      BY <1>6
    <3> QED  BY <2>1, <2>2, <2>3, <3>1, PlainBatch
  <2>5. \A k \in 1..Len(one) : one[k] = head
    BY <1>6
  <2> QED  BY <1>6, <2>4, <2>5 DEF From
<1> HIDE DEF mid
<1>8. /\ Grows(mid, evidence')
      /\ \A i \in New(mid, evidence') : \E k \in 1..n : evidence'[i] = lines[k]
      /\ PlansOnRecord(evidence') /\ RunsOnRecord(evidence', runs) /\ AttemptsReplay(evidence')
  <2>1. IsLog(mid)
    BY <1>7 DEF Grows
  <2>2. AllPlain(lines)
    BY <1>3, <1>5 DEF Plain, CommandKinds, AllPlain
  <2>3. IsLog(lines) /\ PlansOnRecord(mid) /\ RunsOnRecord(mid, runs) /\ AttemptsReplay(mid)
    BY <1>5, <1>7
  <2>4. /\ Grows(mid, evidence')
        /\ From(mid, evidence', lines)
        /\ PlansOnRecord(evidence') /\ RunsOnRecord(evidence', runs) /\ AttemptsReplay(evidence')
    BY <1>1, <2>1, <2>2, <2>3, PlainBatch
  <2> QED  BY <1>5, <2>4 DEF From
<1>9. Grows(evidence, evidence')
  BY <1>7, <1>8, GrowsOn
<1>10. \A i \in New(evidence, evidence') :
           /\ evidence'[i].kind \notin CommandKinds /\ IsRange(evidence'[i].body.range)
           /\ evidence'[i].id[1] \in {"segment", "line"}
  <2> SUFFICES ASSUME NEW i \in New(evidence, evidence')
               PROVE  /\ evidence'[i].kind \notin CommandKinds /\ IsRange(evidence'[i].body.range)
                      /\ evidence'[i].id[1] \in {"segment", "line"}
    OBVIOUS
  <2>1. i \in New(mid, evidence') \/ (i \in New(evidence, mid) /\ i \in 1..Len(mid))
    BY <1>7, <1>8 DEF New, Grows
  <2>2. CASE i \in New(mid, evidence')
    BY <1>3, <1>8, <2>2
  <2>3. CASE i \in New(evidence, mid) /\ i \in 1..Len(mid)
    <3>1. evidence'[i] = head
      BY <1>7, <1>8, <2>3 DEF Grows
    <3> QED  BY <1>4, <3>1 DEF CommandKinds
  <2> QED  BY <2>1, <2>2, <2>3
<1> QED  BY <1>8, <1>9, <1>10

\* A segment is captured.
LEMMA ImportKeeps ==
    ASSUME TrialInv, NEW x \in bound.imports, Import(x[1], x[2], x[3])
    PROVE  Keeps
<1>1. bound' = bound /\ pc' = pc /\ job' = job /\ runs' = runs
  BY DEF Import
<1> QED  BY <1>1, ImportGrows, StillStep

\* Process p holds h from now on, and the new records are plain.
LEMMA HeldMove ==
    ASSUME TrialInv, NEW p \in Procs, NEW l, NEW h,
           pc' = [pc EXCEPT ![p] = l], job' = [job EXCEPT ![p].held = h], bound' = bound, runs' = runs,
           Grows(evidence, evidence'),
           l \notin {"retrieve", "inject", "start", "run", "result", "receipt", "verdict", "record", "attempt"},
           Holds(evidence', l, h),
           PlansOnRecord(evidence'), RunsOnRecord(evidence', runs), AttemptsReplay(evidence')
    PROVE  Keeps
<1> DEFINE j == [job[p] EXCEPT !.held = h]
<1>1. job' = [job EXCEPT ![p] = j]
  BY HereIs, JobsWith
<1>2. j = [request |-> job[p].request, start |-> job[p].start, payload |-> job[p].payload,
           outcome |-> job[p].outcome, result |-> job[p].result, held |-> h]
  BY HereIs, JobFields
<1> HIDE DEF j
<1>3. IsJob(j) /\ j.held = h
  BY <1>2 DEF IsJob
<1> QED  BY <1>1, <1>3, QuietMove

\* Process p holds h, and nothing is recorded.
LEMMA ReadMove ==
    ASSUME TrialInv, NEW p \in Procs, NEW l, NEW h,
           pc' = [pc EXCEPT ![p] = l], job' = [job EXCEPT ![p].held = h],
           bound' = bound, runs' = runs, evidence' = evidence,
           l \notin {"retrieve", "inject", "start", "run", "result", "receipt", "verdict", "record", "attempt"},
           Holds(evidence, l, h)
    PROVE  Keeps
BY HereIs, HeldMove

\* Other captures and other events.
LEMMA RecordMissingKeeps ==
    ASSUME TrialInv, NEW path, RecordMissing(path)
    PROVE  Keeps
<1> DEFINE x == Captured(Fresh("gap"), "gap", "recovery", path, <<0, 0>>, {}, FALSE)
<1>1. bound' = bound /\ pc' = pc /\ job' = job /\ runs' = runs /\ evidence' = Append(evidence, x)
  BY DEF RecordMissing, Append1
<1>2. Plain(x)
  BY DEF Plain, Event, Captured, Fresh
<1> HIDE DEF x
<1> QED  BY <1>1, <1>2, RecordKeeps

\* Nothing that a trial looks at changes.
LEMMA IdleStep ==
    ASSUME TrialInv, bound' = bound, pc' = pc, job' = job, runs' = runs, evidence' = evidence
    PROVE  Keeps
<1>1. IsLog(evidence) /\ PlansOnRecord(evidence) /\ RunsOnRecord(evidence, runs) /\ AttemptsReplay(evidence)
  BY DEF TrialInv, Shapes
<1> QED  BY <1>1, LogPositions, StillStep

\* A freeze reads the journal.
\* The journal and the frozen rollouts are finite.
Finite ==
    /\ IsFiniteSet(DOMAIN journal.cards) /\ IsLog(journal.index)
    /\ \A content \in DOMAIN manifests : IsFiniteSet(content.rollouts)

LEMMA BeginFreezeKeeps ==
    ASSUME TrialInv, Finite, NEW p \in Procs, NEW limit \in bound.limits, BeginFreeze(p, limit)
    PROVE  Keeps
<1> DEFINE index == limitLegacyIndexData(journal.index, limit)
           files == collectLegacyCards(index, limit)
           h == [limit |-> limit, index |-> index, files |-> files]
<1>1. /\ pc' = [pc EXCEPT ![p] = "cards"] /\ job' = [job EXCEPT ![p].held = h]
      /\ bound' = bound /\ runs' = runs /\ evidence' = evidence
  BY DEF BeginFreeze, Goto
<1>2. files \in SUBSET DOMAIN journal.cards
  BY DEF collectLegacyCards
<1>3. IsFiniteSet(files)
  BY <1>2, FS_Subset DEF Finite
<1>4. IsFiniteSet(DOMAIN index)
  <2>1. IsLog(journal.index) /\ Len(journal.index) \in Nat /\ DOMAIN journal.index = 1..Len(journal.index)
    BY LogPositions DEF Finite
  <2>2. limit \in Nat /\ limit <= Len(journal.index)
    BY JournalAssumption DEF TrialInv, Shapes, BeginFreeze
  <2>3. \E n \in Nat : DOMAIN index = 1..n
    <3>1. CASE limit = 0
      BY <2>1, <3>1 DEF limitLegacyIndexData
    <3>2. CASE limit # 0
      <4> DEFINE T == {journal.index[i] : i \in 1..Len(journal.index)}
      <4>1. journal.index \in Seq(T) /\ limit \in 1..Len(journal.index)
        BY <2>1, <2>2, <3>2 DEF IsLog
      <4> HIDE DEF T
      <4>2. DOMAIN SubSeq(journal.index, 1, limit) = 1..limit
        BY <4>1, <2>1
      <4> QED  BY <2>2, <3>2, <4>2 DEF limitLegacyIndexData
    <3> QED  BY <3>1, <3>2
  <2> HIDE DEF index
  <2>4. PICK n \in Nat : DOMAIN index = 1..n
    BY <2>3
  <2>5. 1 \in Int /\ n \in Int
    OBVIOUS
  <2>6. IsFiniteSet(1..n)
    BY <2>5, FS_Interval
  <2> QED  BY <2>4, <2>6
<1> HIDE DEF files, index
<1>6. h.files = files /\ h.index = index
  OBVIOUS
<1> HIDE DEF h
<1>5. Holds(evidence, "cards", h)
  BY <1>3, <1>4, <1>6 DEF Holds
<1> QED  BY <1>1, <1>5, ReadMove

LEMMA ReadCardsKeeps ==
    ASSUME TrialInv, NEW p \in Procs, ReadCards(p)
    PROVE  Keeps
<1> DEFINE b == job[p].held
           files == b.files
           cards == {Artifact(f, journal.cards[f]) : f \in files}
           artifacts == {Artifact("index", b.index)} \cup cards
           h == [limit |-> b.limit, index |-> b.index, artifacts |-> artifacts, changed |-> {}]
<1>1. /\ pc[p] = "cards" /\ pc' = [pc EXCEPT ![p] = "plan"] /\ job' = [job EXCEPT ![p].held = h]
      /\ bound' = bound /\ runs' = runs /\ evidence' = evidence
  BY DEF ReadCards, Goto
<1>2. IsFiniteSet(files) /\ IsFiniteSet(DOMAIN b.index)
  BY <1>1, HereIs DEF Knows, Holds
<1>3. IsFiniteSet(cards)
  <2> DEFINE art == [f \in files |-> Artifact(f, journal.cards[f])]
  <2> HIDE DEF files
  <2>1. art \in [files -> cards] /\ \A y \in cards : \E f \in files : art[f] = y
    OBVIOUS
  <2> HIDE DEF art, cards
  <2>2. art \in Surjection(files, cards)
    BY <2>1 DEF Surjection
  <2> QED  BY <1>2, <2>2, FS_Surjection
<1> HIDE DEF cards
<1>4. IsFiniteSet(artifacts) /\ artifacts # {}
  <2>1. IsFiniteSet({Artifact("index", b.index)})
    BY FS_Singleton
  <2> QED  BY <1>3, <2>1, FS_Union
<1> HIDE DEF artifacts
<1>5. IsFreeze(h)
  BY <1>2, <1>4 DEF IsFreeze
<1> HIDE DEF h
<1>6. Holds(evidence, "plan", h)
  BY <1>5 DEF Holds
<1> QED  BY <1>1, <1>6, ReadMove

LEMMA PlanSnapshotsKeeps ==
    ASSUME TrialInv, NEW p \in Procs, PlanSnapshots(p)
    PROVE  Keeps
<1> DEFINE b == job[p].held
           x == {a \in b.artifacts : Changed(a, b.limit)}
           h == [b EXCEPT !.changed = x]
<1>1. /\ pc[p] = "plan" /\ pc' = [pc EXCEPT ![p] = "freeze"] /\ job' = [job EXCEPT ![p].held.changed = x]
      /\ bound' = bound /\ runs' = runs /\ evidence' = evidence
  BY DEF PlanSnapshots, Goto
<1> HIDE DEF x
<1>2. job' = [job EXCEPT ![p].held = h]
  BY <1>1
<1>3. IsFreeze(b)
  BY <1>1, HereIs DEF Knows, Holds
<1>4. IsFreeze(h)
  <2>1. PICK a, c, d, e : b = [limit |-> a, index |-> c, artifacts |-> d, changed |-> e]
    BY <1>3, Zenon DEF IsFreeze
  <2>2. h = [limit |-> a, index |-> c, artifacts |-> d, changed |-> x] /\ b.artifacts = d /\ b.index = c
    BY <2>1
  <2> HIDE DEF h
  <2> QED  BY <1>3, <2>2 DEF IsFreeze
<1> HIDE DEF h
<1>5. Holds(evidence, "freeze", h)
  BY <1>4 DEF Holds
<1> QED  BY <1>1, <1>2, <1>5, ReadMove

\* A freeze records the snapshots that are missing and, last, its corpus.
LEMMA ListedOnce ==
    ASSUME NEW S, IsFiniteSet(S)
    PROVE  /\ Cardinality(S) \in Nat /\ SetToSeq(S) \in [1..Cardinality(S) -> S]
           /\ \A x \in S : \E k \in 1..Cardinality(S) : SetToSeq(S)[k] = x
<1>1. Cardinality(S) \in Nat /\ ExistsBijection(1..Cardinality(S), S)
  BY FS_CardinalityType
<1> DEFINE T == [1..Cardinality(S) -> S]
<1>2. PICK f : f \in Bijection(1..Cardinality(S), S)
  BY <1>1 DEF ExistsBijection
<1>3. f \in T /\ IsInjective(f)
  BY <1>2 DEF Bijection, Injection
<1>4. SetToSeq(S) = CHOOSE g \in T : IsInjective(g)
  BY DEF SetToSeq
<1> HIDE DEF T
<1>5. SetToSeq(S) \in T /\ IsInjective(SetToSeq(S))
  BY <1>3, <1>4
<1>6. SetToSeq(S) \in Surjection(1..Cardinality(S), S)
  <2> DEFINE n == Cardinality(S)
             g == SetToSeq(S)
  <2>1. g \in [1..n -> S] /\ IsInjective(g)
    BY <1>5 DEF T
  <2>2. IsFiniteSet(1..n) /\ Cardinality(1..n) = n
    <3>1. n \in Int /\ 1 \in Int
      BY <1>1
    <3>2. IsFiniteSet(1..n) /\ Cardinality(1..n) = IF 1 > n THEN 0 ELSE n - 1 + 1
      BY <3>1, FS_Interval
    <3>3. n \in Nat
      BY <1>1
    <3> HIDE DEF n
    <3> QED  BY <3>2, <3>3
  <2> HIDE DEF g
  <2>3. g \in Injection(1..n, S)
    BY <2>1 DEF Injection
  <2> QED  BY <2>2, <2>3, FS_Injection DEF g
<1> QED  BY <1>1, <1>5, <1>6 DEF T, Surjection

LEMMA PendingIs ==
    ASSUME NEW h, IsFreeze(h)
    PROVE  /\ IsLog(PendingSnapshots(h)) /\ AllPlain(PendingSnapshots(h))
           /\ \A k \in 1..Len(PendingSnapshots(h)) :
                  /\ PendingSnapshots(h)[k].kind = "snapshot" /\ PendingSnapshots(h)[k].by = "legacy"
                  /\ PendingSnapshots(h)[k].id[1] = "legacy"
           /\ \A a \in h.artifacts :
                  \/ Has(evidence, SnapshotID(a))
                  \/ \E k \in 1..Len(PendingSnapshots(h)) : PendingSnapshots(h)[k].id = SnapshotID(a)
<1> DEFINE S == {a \in h.artifacts : ~Has(evidence, SnapshotID(a))}
           n == Cardinality(S)
           missing == SetToSeq(S)
           b == [k \in DOMAIN missing |->
                    Event(SnapshotID(missing[k]), "snapshot", <<"journal">>, "legacy", {}, "snapshot",
                          [path |-> missing[k].file, range |-> <<0, Len(missing[k].bytes)>>,
                           complete |-> missing[k] \notin h.changed])]
<1>1. PendingSnapshots(h) = b
  BY DEF PendingSnapshots
<1>2. /\ S \in SUBSET h.artifacts /\ IsFiniteSet(h.artifacts)
      /\ \A a \in h.artifacts : Has(evidence, SnapshotID(a)) \/ a \in S
  BY DEF IsFreeze
<1> HIDE DEF S
<1>3. IsFiniteSet(S)
  BY <1>2, FS_Subset
<1>4. n \in Nat /\ missing \in [1..n -> S] /\ \A a \in S : \E k \in 1..n : missing[k] = a
  BY <1>3, ListedOnce
<1> HIDE DEF n, missing
<1>5. /\ b = [k \in 1..n |-> b[k]]
      /\ \A k \in 1..n : /\ b[k].kind = "snapshot" /\ b[k].id[1] = "legacy" /\ b[k].by = "legacy"
                         /\ b[k].id = SnapshotID(missing[k])
  BY <1>4 DEF Event, SnapshotID
<1> HIDE DEF b
<1>6. IsLog(b) /\ Len(b) = n
  BY <1>4, <1>5, ListIsLog
<1>7. \A a \in S : \E k \in 1..n : b[k].id = SnapshotID(a)
  BY <1>4, <1>5
<1>8. \A k \in 1..Len(b) : Plain(b[k])
  BY <1>5, <1>6 DEF Plain
<1> QED  BY <1>1, <1>2, <1>5, <1>6, <1>7, <1>8 DEF AllPlain

LEMMA FreezeKeeps ==
    ASSUME TrialInv, NEW p \in Procs, NEW cut, Freeze(p, cut)
    PROVE  Keeps
<1> DEFINE b == PendingSnapshots(job[p].held)
           e == evidence \o b
           m == CorpusManifest(job[p].held, e)
           x == Event(<<"corpus", m>>, "corpus", <<"journal">>, "legacy", {}, "corpus", m)
<1>1. /\ pc[p] = "freeze" /\ Return(p) /\ bound' = bound /\ runs' = runs
      /\ evidence' = e \/ evidence' = Append(e, x)
  BY DEF Freeze
<1>2. IsLog(b) /\ AllPlain(b)
  <2>1. IsFreeze(job[p].held)
    BY <1>1, HereIs DEF Knows, Holds
  <2> QED  BY <2>1, PendingIs
<1>3. Plain(x)
  BY DEF Plain, Event
<1> HIDE DEF b, x
<1>4. IsLog(evidence) /\ PlansOnRecord(evidence) /\ RunsOnRecord(evidence, runs) /\ AttemptsReplay(evidence)
  BY HereIs
<1>5. Grows(evidence, e) /\ PlansOnRecord(e) /\ RunsOnRecord(e, runs) /\ AttemptsReplay(e)
  BY <1>2, <1>4, PlainBatch
<1> HIDE DEF e
<1>6. CASE evidence' = e
  BY <1>1, <1>5, <1>6, ReturnKeeps
<1>7. CASE evidence' = Append(e, x)
  <2>1. IsLog(e)
    BY <1>5 DEF Grows
  <2>2. Grows(e, evidence') /\ PlansOnRecord(evidence') /\ RunsOnRecord(evidence', runs) /\ AttemptsReplay(evidence')
    BY <1>3, <1>5, <1>7, <2>1, PlainAppend
  <2>3. Grows(evidence, evidence')
    BY <1>5, <2>2, GrowsOn
  <2> QED  BY <1>1, <2>2, <2>3, ReturnKeeps
<1> QED  BY <1>1, <1>6, <1>7

\* The detector.
LEMMA BuildIs ==
    ASSUME NEW then \in {"idle", "population"}, NEW order
    PROVE  IsBuild(NewBuild(then, order))
BY DEF IsBuild, NewBuild

LEMMA BeginBuildKeeps ==
    ASSUME TrialInv, NEW p \in Procs, NEW rebuild, BeginBuild(p, rebuild)
    PROVE  Keeps
<1> DEFINE h == NewBuild("idle", <<>>)
<1>1. /\ pc' = [pc EXCEPT ![p] = "mark"] /\ job' = [job EXCEPT ![p].held = h]
      /\ bound' = bound /\ runs' = runs /\ evidence' = evidence
  BY DEF BeginBuild, Goto
<1>2. Holds(evidence, "mark", h)
  BY BuildIs DEF Holds
<1> HIDE DEF h
<1> QED  BY <1>1, <1>2, ReadMove

\* A build with one field changed.
LEMMA BuildFields ==
    ASSUME NEW h, IsBuild(h), NEW x
    PROVE  /\ IsBuild([h EXCEPT !.marker = x]) /\ [h EXCEPT !.marker = x].marker = x
           /\ IsBuild([h EXCEPT !.prefix = x]) /\ [h EXCEPT !.prefix = x].marker = h.marker
<1>1. PICK a, b, c, d : h = [marker |-> a, prefix |-> b, then |-> c, order |-> d]
  BY Zenon DEF IsBuild
<1>2. h.marker = a /\ h.then = c
  BY <1>1
<1>3. [h EXCEPT !.marker = x] = [marker |-> x, prefix |-> b, then |-> c, order |-> d]
  BY <1>1
<1>4. [h EXCEPT !.prefix = x] = [marker |-> a, prefix |-> x, then |-> c, order |-> d]
  BY <1>1
<1>5. c \in {"idle", "population"}
  BY <1>2 DEF IsBuild
<1> DEFINE g == [h EXCEPT !.marker = x]
           i == [h EXCEPT !.prefix = x]
<1> HIDE DEF g, i
<1>6. IsBuild(g) /\ g.marker = x
  BY <1>3, <1>5 DEF IsBuild, g
<1>7. IsBuild(i) /\ i.marker = h.marker
  BY <1>2, <1>4, <1>5 DEF IsBuild, i
<1> QED  BY <1>6, <1>7 DEF g, i

LEMMA HeldWith ==
    ASSUME NEW f, NEW S, f = [q \in S |-> f[q]], NEW p \in S, NEW x
    PROVE  /\ [f EXCEPT ![p].held.marker = x] = [f EXCEPT ![p].held = [f[p].held EXCEPT !.marker = x]]
           /\ [f EXCEPT ![p].held.prefix = x] = [f EXCEPT ![p].held = [f[p].held EXCEPT !.prefix = x]]
OBVIOUS

LEMMA MarkBuildKeeps ==
    ASSUME TrialInv, NEW p \in Procs, MarkBuild(p)
    PROVE  Keeps
<1> DEFINE n == Len(evidence)
           x == Event(<<"generation_attempt", n>>, "generation_attempt", <<"detector">>,
                      "detector", {}, "prefix", n)
           h == [job[p].held EXCEPT !.marker = n + 1]
<1>1. /\ pc[p] = "mark" /\ pc' = [pc EXCEPT ![p] = "scan"] /\ job' = [job EXCEPT ![p].held.marker = n + 1]
      /\ bound' = bound /\ runs' = runs /\ evidence' = Append(evidence, x)
  BY DEF MarkBuild, Goto, Append1, Next1
<1>2. Plain(x) /\ x.kind = "generation_attempt" /\ x.body = n
  BY DEF Plain, Event
<1>3. n \in Nat
  BY HereIs, LogPositions
<1>4. IsBuild(h) /\ h.marker = n + 1 /\ job' = [job EXCEPT ![p].held = h]
  <2>1. IsBuild(job[p].held)
    BY <1>1, HereIs DEF Knows, Holds
  <2>2. job' = [job EXCEPT ![p].held = h]
    BY <1>1, HereIs, HeldWith
  <2> QED  BY <2>1, <2>2, BuildFields
<1> HIDE DEF x, h
<1>5. /\ Grows(evidence, evidence') /\ Len(evidence') = n + 1 /\ evidence'[n + 1] = x
      /\ PlansOnRecord(evidence') /\ RunsOnRecord(evidence', runs) /\ AttemptsReplay(evidence')
  BY <1>1, <1>2, HereIs, PlainAppend
<1> HIDE DEF n
<1>6. Marked(evidence', n + 1)
  <2>1. n + 1 \in DOMAIN evidence'
    BY <1>3, <1>5 DEF Grows
  <2> QED  BY <1>2, <1>3, <1>5, <2>1 DEF Marked, OfKind
<1>7. Holds(evidence', "scan", h)
  BY <1>4, <1>6 DEF Holds
<1> QED  BY <1>1, <1>4, <1>5, <1>7, HeldMove

LEMMA ScanLedgerKeeps ==
    ASSUME TrialInv, NEW p \in Procs, ScanLedger(p)
    PROVE  Keeps
<1> DEFINE h == [job[p].held EXCEPT !.prefix = Len(evidence)]
<1>1. /\ pc[p] = "scan" /\ pc' = [pc EXCEPT ![p] = "publish"]
      /\ job' = [job EXCEPT ![p].held.prefix = Len(evidence)]
      /\ bound' = bound /\ runs' = runs /\ evidence' = evidence
  BY DEF ScanLedger, Goto
<1>2. job' = [job EXCEPT ![p].held = h]
  BY <1>1, HereIs, HeldWith
<1>3. IsBuild(job[p].held) /\ Marked(evidence, job[p].held.marker)
  BY <1>1, HereIs DEF Knows, Holds
<1>4. IsBuild(h) /\ Marked(evidence, h.marker)
  BY <1>3, BuildFields
<1> HIDE DEF h
<1>5. Holds(evidence, "publish", h)
  BY <1>4 DEF Holds
<1> QED  BY <1>1, <1>2, <1>5, ReadMove

\* Process p goes on with what it has.
LEMMA StayMove ==
    ASSUME TrialInv, NEW p \in Procs, NEW l, pc' = [pc EXCEPT ![p] = l], job' = job,
           bound' = bound, runs' = runs, Grows(evidence, evidence'),
           l \notin {"retrieve", "inject", "start", "run", "result", "receipt", "verdict", "record", "attempt"},
           Holds(evidence', l, job[p].held),
           PlansOnRecord(evidence'), RunsOnRecord(evidence', runs), AttemptsReplay(evidence')
    PROVE  Keeps
<1>1. job' = [job EXCEPT ![p] = job[p]] /\ IsJob(job[p])
  BY HereIs
<1> QED  BY <1>1, QuietMove

LEMMA PublishGenerationKeeps ==
    ASSUME TrialInv, NEW p \in Procs, PublishGeneration(p)
    PROVE  Keeps
<1>1. /\ pc[p] = "publish" /\ pc' = [pc EXCEPT ![p] = "audit"] /\ job' = job
      /\ bound' = bound /\ runs' = runs /\ evidence' = evidence
  BY DEF PublishGeneration, Goto
<1>2. Holds(evidence', "audit", job[p].held)
  BY <1>1, HereIs DEF Knows, Holds
<1> QED  BY <1>1, <1>2, HereIs, StayMove

LEMMA AuditGenerationKeeps ==
    ASSUME TrialInv, NEW p \in Procs, AuditGeneration(p)
    PROVE  Keeps
<1> DEFINE n == job[p].held.prefix
           l == job[p].held.then
           x == Event(<<"generation", n>>, "generation", <<"detector">>, "detector", {}, "prefix", n)
<1>1. /\ pc[p] = "audit" /\ bound' = bound /\ runs' = runs
      /\ \/ Return(p) /\ evidence' = evidence
         \/ Return(p) /\ evidence' = Append(evidence, x)
         \/ Goto(p, l) /\ job' = job /\ evidence' = Append(evidence, x)
  BY DEF AuditGeneration, Append1
<1>2. Plain(x)
  BY DEF Plain, Event
<1>3. IsBuild(job[p].held)
  BY <1>1, HereIs DEF Knows, Holds
<1> HIDE DEF x
<1>4. CASE Return(p) /\ evidence' = evidence
  BY <1>1, <1>4, HereIs, ReturnKeeps
<1>5. ASSUME evidence' = Append(evidence, x)
      PROVE  /\ Grows(evidence, evidence')
             /\ PlansOnRecord(evidence') /\ RunsOnRecord(evidence', runs) /\ AttemptsReplay(evidence')
  BY <1>2, <1>5, HereIs, PlainAppend
<1>6. CASE Return(p) /\ evidence' = Append(evidence, x)
  BY <1>1, <1>5, <1>6, ReturnKeeps
<1>7. CASE Goto(p, l) /\ job' = job /\ evidence' = Append(evidence, x)
  <2>1. l \in {"idle", "population"}
    BY <1>3 DEF IsBuild
  <2>2. pc' = [pc EXCEPT ![p] = l]
    BY <1>7 DEF Goto
  <2> HIDE DEF l
  <2>3. Holds(evidence', l, job[p].held)
    BY <2>1 DEF Holds
  <2> QED  BY <1>1, <1>5, <1>7, <2>1, <2>2, <2>3, StayMove
<1> QED  BY <1>1, <1>4, <1>6, <1>7

LEMMA BeginSealKeeps ==
    ASSUME TrialInv, NEW p \in Procs, NEW content, BeginSeal(p, content)
    PROVE  Keeps
<1>1. /\ pc' = [pc EXCEPT ![p] = "seal"] /\ bound' = bound /\ runs' = runs /\ evidence' = evidence
      /\ \E h : job' = [job EXCEPT ![p].held = h]
  BY DEF BeginSeal, Goto
<1>2. PICK h : job' = [job EXCEPT ![p].held = h]
  BY <1>1
<1>3. Holds(evidence, "seal", h)
  BY DEF Holds
<1> QED  BY <1>1, <1>2, <1>3, ReadMove

\* A command records its outcome and ends.
LEMMA RecordAndReturn ==
    ASSUME TrialInv, NEW p \in Procs, Return(p), bound' = bound, runs' = runs,
           NEW x, evidence' = Append(evidence, x), Plain(x)
    PROVE  Keeps
<1>1. /\ Grows(evidence, evidence')
      /\ PlansOnRecord(evidence') /\ RunsOnRecord(evidence', runs) /\ AttemptsReplay(evidence')
  BY HereIs, PlainAppend
<1> QED  BY <1>1, ReturnKeeps

LEMMA AppendSealKeeps ==
    ASSUME TrialInv, NEW p \in Procs, AppendSeal(p)
    PROVE  Keeps
<1> DEFINE x == Event(Fresh("truth"), "truth", <<"truth">>, "human", DOMAIN job[p].held.labels, "truth",
                      job[p].held)
<1>1. Return(p) /\ bound' = bound /\ runs' = runs /\ evidence' = Append(evidence, x)
  BY DEF AppendSeal, Append1
<1>2. Plain(x)
  BY DEF Plain, Event, Fresh
<1> HIDE DEF x
<1> QED  BY <1>1, <1>2, RecordAndReturn

LEMMA CorpusNextKeeps ==
    ASSUME TrialInv, Finite, CorpusNext
    PROVE  Keeps
<1>1. ASSUME NEW after, WriteJournal(after) PROVE Keeps
  <2>1. bound' = bound /\ pc' = pc /\ job' = job /\ runs' = runs /\ evidence' = evidence
    BY <1>1 DEF WriteJournal
  <2> QED  BY <2>1, IdleStep
<1>2. ASSUME NEW p \in Procs, NEW limit \in bound.limits, BeginFreeze(p, limit) PROVE Keeps
  BY <1>2, BeginFreezeKeeps
<1>3. CASE \E x \in bound.imports : Import(x[1], x[2], x[3])
  BY <1>3, ImportKeeps
<1>4. CASE \E path \in bound.missing : RecordMissing(path)
  BY <1>4, RecordMissingKeeps
<1>5. CASE \E after \in bound.writes : WriteJournal(after)
  BY <1>1, <1>5
<1>6. ASSUME NEW p \in Procs,
             \/ \E limit \in bound.limits : BeginFreeze(p, limit)
             \/ ReadCards(p)
             \/ PlanSnapshots(p)
             \/ \E cut \in {"none", "snapshots", "manifest"} : Freeze(p, cut)
             \/ \E rebuild \in BOOLEAN : BeginBuild(p, rebuild)
             \/ MarkBuild(p)
             \/ ScanLedger(p)
             \/ PublishGeneration(p)
             \/ AuditGeneration(p)
             \/ \E content \in DOMAIN manifests : BeginSeal(p, content)
             \/ AppendSeal(p)
      PROVE  Keeps
  BY <1>2, <1>6, ReadCardsKeeps, PlanSnapshotsKeeps, FreezeKeeps, BeginBuildKeeps, MarkBuildKeeps,
     ScanLedgerKeeps, PublishGenerationKeeps, AuditGenerationKeeps, BeginSealKeeps, AppendSealKeeps
<1> QED  BY <1>3, <1>4, <1>5, <1>6 DEF CorpusNext

\* A record of its own, and no process moves.
LEMMA PlainStep ==
    ASSUME TrialInv, bound' = bound, pc' = pc, job' = job, runs' = runs,
           evidence' = evidence \/ \E x : evidence' = Append(evidence, x) /\ Plain(x)
    PROVE  Keeps
<1>1. CASE evidence' = evidence
  BY <1>1, IdleStep
<1>2. CASE \E x : evidence' = Append(evidence, x) /\ Plain(x)
  BY <1>2, RecordKeeps
<1> QED  BY <1>1, <1>2

LEMMA BeginPrepareKeeps ==
    ASSUME TrialInv, NEW p \in Procs, NEW id, NEW content, BeginPrepare(p, id, content)
    PROVE  Keeps
<1> DEFINE h == NewBuild("population", [id |-> id, content |-> content, read |-> Len(evidence)])
           l == IF NeedsBuild(FALSE) THEN "mark" ELSE "population"
<1>1. /\ pc' = [pc EXCEPT ![p] = l] /\ job' = [job EXCEPT ![p].held = h]
      /\ bound' = bound /\ runs' = runs /\ evidence' = evidence
  BY DEF BeginPrepare, Goto
<1>2. IsBuild(h)
  BY BuildIs
<1>3. l \in {"mark", "population"}
  OBVIOUS
<1> HIDE DEF h, l
<1>4. Holds(evidence, l, h)
  BY <1>2, <1>3 DEF Holds
<1> QED  BY <1>1, <1>3, <1>4, ReadMove

LEMMA BeginRunKeeps ==
    ASSUME TrialInv, NEW p \in Procs, NEW input, BeginRun(p, input)
    PROVE  Keeps
<1> DEFINE h == [input |-> input, issues |-> OpenIssues(evidence, input, TRUE)]
<1>1. /\ pc' = [pc EXCEPT ![p] = "report"] /\ job' = [job EXCEPT ![p].held = h]
      /\ bound' = bound /\ runs' = runs /\ evidence' = evidence
  BY DEF BeginRun, Goto
<1> HIDE DEF h
<1>2. Holds(evidence, "report", h)
  BY DEF Holds
<1> QED  BY <1>1, <1>2, ReadMove

LEMMA FinishRunKeeps ==
    ASSUME TrialInv, NEW p \in Procs, NEW dies, FinishRun(p, dies)
    PROVE  Keeps
<1> DEFINE input == job[p].held.input
           report == Report(input, job[p].held.issues \cup lockedContinuousLedgerIssues(evidence, input)
                                       \cup AllCaseIssues(evidence, input))
           x == RunEvent(evidence, input, report)
<1>1. /\ Return(p) /\ bound' = bound /\ runs' = runs
      /\ evidence' = evidence \/ evidence' = Append(evidence, x)
  BY DEF FinishRun, Append1
<1>2. Plain(x)
  BY DEF Plain, RunEvent, RunID, Event
<1> HIDE DEF x
<1>3. CASE evidence' = evidence
  BY <1>1, <1>3, HereIs, ReturnKeeps
<1>4. CASE evidence' = Append(evidence, x)
  BY <1>1, <1>2, <1>4, RecordAndReturn
<1> QED  BY <1>1, <1>3, <1>4

LEMMA RunNextKeeps ==
    ASSUME TrialInv, RunNext
    PROVE  Keeps
<1>1. ASSUME NEW population, Promote(population) PROVE Keeps
  <2> DEFINE x == Event(Fresh("promotion"), "promotion", <<"memory">>, "promotion", {}, "promotion", population)
  <2>1. bound' = bound /\ pc' = pc /\ job' = job /\ runs' = runs /\ evidence' = Append(evidence, x)
    BY <1>1 DEF Promote, Append1
  <2>2. Plain(x)
    BY DEF Plain, Event, Fresh
  <2> HIDE DEF x
  <2> QED  BY <2>1, <2>2, PlainStep
<1>2. ASSUME Export PROVE Keeps
  <2>1. bound' = bound /\ pc' = pc /\ job' = job /\ runs' = runs /\ evidence' = evidence
    BY <1>2 DEF Export, trialVars
  <2> QED  BY <2>1, PlainStep
<1>3. ASSUME NEW items, Reconcile(items) PROVE Keeps
  <2>1. bound' = bound /\ pc' = pc /\ job' = job /\ runs' = runs /\ evidence' = evidence
    BY <1>3 DEF Reconcile
  <2> QED  BY <2>1, PlainStep
<1>4. ASSUME NEW case, NEW measure, RecordAttestation(case, measure) PROVE Keeps
  <2> DEFINE x == Event(AttestationID(case, measure), "attestation", <<"attestation">>, "evaluation", {},
                        "attestation", [case |-> case, measure |-> measure])
  <2>1. /\ bound' = bound /\ pc' = pc /\ job' = job /\ runs' = runs
        /\ evidence' = evidence \/ evidence' = Append(evidence, x)
    BY <1>4 DEF RecordAttestation, Append1
  <2>2. Plain(x)
    BY DEF Plain, Event, AttestationID
  <2> HIDE DEF x
  <2> QED  BY <2>1, <2>2, PlainStep
<1>5. ASSUME NEW p \in Procs, NEW id, NEW content, NEW minimum, PrepareBaseline(p, id, content, minimum)
      PROVE  Keeps
  <2>1. bound' = bound /\ pc' = pc /\ job' = job /\ runs' = runs /\ evidence' = evidence
    BY <1>5 DEF PrepareBaseline, trialVars
  <2> QED  BY <2>1, PlainStep
<1>6. ASSUME NEW p \in Procs, DerivePopulation(p) PROVE Keeps
  <2>1. Return(p) /\ bound' = bound /\ runs' = runs /\ evidence' = evidence
    BY <1>6 DEF DerivePopulation
  <2> QED  BY <2>1, HereIs, ReturnKeeps
<1>7. CASE \E population \in bound.populations : Promote(population)
  BY <1>1, <1>7
<1>8. CASE \E items \in bound.inventories : Reconcile(items)
  BY <1>3, <1>8
<1>9. CASE \E x \in bound.attestations : RecordAttestation(<<"false_memory", x[1]>>, x[2])
  BY <1>4, <1>9
<1>10. ASSUME NEW p \in Procs,
              \/ \E id \in RunIDs, content \in DOMAIN manifests :
                     \/ BeginPrepare(p, id, content)
                     \/ \E minimum \in bound.minimums : PrepareBaseline(p, id, content, minimum)
              \/ DerivePopulation(p)
              \/ \E input \in inputs : BeginRun(p, input)
              \/ \E dies \in BOOLEAN : FinishRun(p, dies)
       PROVE  Keeps
  BY <1>5, <1>6, <1>10, BeginPrepareKeeps, BeginRunKeeps, FinishRunKeeps
<1> QED  BY <1>2, <1>7, <1>8, <1>9, <1>10 DEF RunNext

\* Every step.
LEMMA NextKeeps ==
    ASSUME TrialInv, Finite, [Next]_vars
    PROVE  Keeps
<1>1. CASE TrialNext
  BY <1>1, TrialNextKeeps
<1>2. CASE CorpusNext
  BY <1>2, CorpusNextKeeps
<1>3. CASE RunNext
  BY <1>3, RunNextKeeps
<1>4. CASE UNCHANGED vars
  <2>1. bound' = bound /\ pc' = pc /\ job' = job /\ runs' = runs /\ evidence' = evidence
    BY <1>4 DEF vars, trialVars
  <2> QED  BY <2>1, IdleStep
<1> QED  BY <1>1, <1>2, <1>3, <1>4 DEF Next

-----------------------------------------------------------------------------
(* The invariant.                                                          *)

\* An execution starts with what the history has.
LEMMA TrialInvInit ==
    ASSUME Init
    PROVE  TrialInv /\ Finite
<1>1. /\ bound \in Profiles /\ evidence = bound.history /\ runs = bound.ran
      /\ journal = bound.journal /\ manifests = bound.manifests
      /\ pc = [p \in Procs |-> "idle"] /\ job = [p \in Procs |-> NoJob]
  BY DEF Init, TrialInit, CorpusInit
<1>2. PICK n \in 0..bound.records : evidence = [i \in 1..n |-> evidence[i]]
  BY <1>1, HistoryAssumption
<1>3. PICK l \in 0..bound.records : runs = [i \in 1..l |-> runs[i]]
  BY <1>1, HistoryAssumption
<1>4. bound.records \in Nat
  BY <1>1, ProfileAssumption
<1>5. IsLog(evidence) /\ IsLog(runs)
  BY <1>2, <1>3, <1>4, ListIsLog
<1>6. PlansOnRecord(evidence) /\ RunsOnRecord(evidence, runs) /\ AttemptsReplay(evidence)
  BY <1>1, HistoryAssumption
<1>7. \A p \in Procs : pc[p] = "idle" /\ IsJob(job[p])
  BY <1>1, NoJobIs
<1>8. Shapes
  BY <1>1, <1>5, <1>7 DEF Shapes
<1>9. \A p \in Procs : Knows(evidence, runs, pc[p], job[p])
  BY <1>7 DEF Knows, Holds
<1>10. StartsApart
  BY <1>7 DEF StartsApart
<1>11. Finite
  BY <1>1, JournalAssumption DEF Finite, IsLog
<1> QED  BY <1>6, <1>8, <1>9, <1>10, <1>11 DEF TrialInv

\* A freeze names finitely many rollouts.
LEMMA RolloutsFinite ==
    ASSUME NEW h, NEW e, IsFiniteSet(DOMAIN h.index)
    PROVE  IsFiniteSet(CorpusManifest(h, e).content.rollouts)
<1> DEFINE K == Entries(h.index)
           S == {RolloutReference(e, path) : path \in {h.index[k].path : k \in K}}
           f == [k \in K |-> RolloutReference(e, h.index[k].path)]
<1>1. CorpusManifest(h, e).content.rollouts = S
  BY DEF CorpusManifest, Content
<1>2. IsFiniteSet(K)
  <2>1. K \in SUBSET (DOMAIN h.index)
    BY DEF Entries
  <2> HIDE DEF K
  <2> QED  BY <2>1, FS_Subset
<1> HIDE DEF K
<1>3. f \in [K -> S] /\ \A y \in S : \E k \in K : f[k] = y
  OBVIOUS
<1> HIDE DEF f, S
<1>4. f \in Surjection(K, S)
  BY <1>3 DEF Surjection
<1> QED  BY <1>1, <1>2, <1>4, FS_Surjection

LEMMA FiniteKeeps ==
    ASSUME TrialInv, Finite, [Next]_vars
    PROVE  Finite'
<1>1. \A after \in bound.writes : IsFiniteSet(DOMAIN after.cards) /\ IsLog(after.index)
  BY JournalAssumption DEF TrialInv, Shapes, IsLog
<1>2. journal' = journal \/ \E after \in bound.writes : journal' = after
  <2>1. TrialNext /\ UNCHANGED <<corpusVars, runVars>> => journal' = journal
    BY DEF corpusVars
  <2>2. RunNext => journal' = journal
    BY DEF RunNext, Promote, Export, Reconcile, RecordAttestation, BeginPrepare, PrepareBaseline,
           DerivePopulation, BeginRun, FinishRun, corpusVars
  <2>3. CorpusNext => journal' = journal \/ \E after \in bound.writes : journal' = after
    BY DEF CorpusNext, Import, RecordMissing, WriteJournal, BeginFreeze, ReadCards, PlanSnapshots, Freeze,
           BeginBuild, MarkBuild, ScanLedger, PublishGeneration, AuditGeneration, BeginSeal, AppendSeal, corpusVars
  <2>4. UNCHANGED vars => journal' = journal
    BY DEF vars, corpusVars
  <2> QED  BY <2>1, <2>2, <2>3, <2>4 DEF Next
<1>3. manifests' = manifests \/ \E p \in Procs, cut \in {"none", "snapshots", "manifest"} : Freeze(p, cut)
  <2>1. TrialNext /\ UNCHANGED <<corpusVars, runVars>> => manifests' = manifests
    BY DEF corpusVars
  <2>2. RunNext => manifests' = manifests
    BY DEF RunNext, Promote, Export, Reconcile, RecordAttestation, BeginPrepare, PrepareBaseline,
           DerivePopulation, BeginRun, FinishRun, corpusVars
  <2>3. CorpusNext => \/ manifests' = manifests
                     \/ \E p \in Procs, cut \in {"none", "snapshots", "manifest"} : Freeze(p, cut)
    BY DEF CorpusNext, Import, RecordMissing, WriteJournal, BeginFreeze, ReadCards, PlanSnapshots,
           BeginBuild, MarkBuild, ScanLedger, PublishGeneration, AuditGeneration, BeginSeal, AppendSeal, corpusVars
  <2>4. UNCHANGED vars => manifests' = manifests
    BY DEF vars, corpusVars
  <2> QED  BY <2>1, <2>2, <2>3, <2>4 DEF Next
<1>4. ASSUME NEW p \in Procs, NEW cut, Freeze(p, cut) PROVE \A content \in DOMAIN manifests' : IsFiniteSet(content.rollouts)
  <2> DEFINE h == job[p].held
             m == CorpusManifest(h, evidence \o PendingSnapshots(h))
  <2>1. pc[p] = "freeze" /\ DOMAIN manifests' \in {DOMAIN manifests, DOMAIN manifests \cup {m.content}}
    BY <1>4 DEF Freeze
  <2>2. IsFiniteSet(DOMAIN h.index)
    BY <2>1, HereIs DEF Knows, Holds, IsFreeze
  <2> HIDE DEF h
  <2>3. IsFiniteSet(m.content.rollouts)
    BY <2>2, RolloutsFinite
  <2> HIDE DEF m
  <2> QED  BY <2>1, <2>3 DEF Finite
<1>5. \A content \in DOMAIN manifests' : IsFiniteSet(content.rollouts)
  BY <1>3, <1>4 DEF Finite
<1>6. IsFiniteSet(DOMAIN journal'.cards) /\ IsLog(journal'.index)
  BY <1>1, <1>2 DEF Finite
<1> QED  BY <1>5, <1>6 DEF Finite

\* What a process has read, and what is on record, stays true for every number of
\* processes and whatever the profiles allow: plans and contracts are what their
\* ids say, every receipt is of a run with a start of its own, the second arm of a
\* pair runs after the first, a judged window stays judged, and every attempt
\* receipt replays.
THEOREM TrialInvariant == Spec => [](TrialInv /\ Finite)
<1>1. Init => TrialInv /\ Finite
  BY TrialInvInit
<1>2. TrialInv /\ Finite /\ [Next]_vars => (TrialInv /\ Finite)'
  BY NextKeeps, FiniteKeeps DEF Keeps
<1> QED  BY <1>1, <1>2, PTL DEF Spec

\* ReceiptsStayVerifiable, for every number of processes, arms and other events: a
\* recorded attempt receipt verifies at every later time (VerifyTaskAttempt).
THEOREM ReceiptsVerify == Spec => []ReceiptsStayVerifiable
<1>1. TrialInv => ReceiptsStayVerifiable
  BY DEF TrialInv, ReceiptsStayVerifiable
<1> QED  BY <1>1, TrialInvariant, PTL

-----------------------------------------------------------------------------
(* One run for each measured arm.                                          *)

\* The one element of a set of positions.
LEMMA OnlyOne ==
    ASSUME NEW n \in Nat, NEW S \in SUBSET (1..n), Cardinality(S) = 1
    PROVE  \E i \in S : S = {i}
<1> DEFINE I == 1..n
<1>1. 1 \in Int /\ n \in Int
  OBVIOUS
<1>2. IsFiniteSet(I)
  BY <1>1, FS_Interval
<1> HIDE DEF I
<1>3. S \in SUBSET I
  BY DEF I
<1>4. IsFiniteSet(S)
  BY <1>2, <1>3, FS_Subset
<1>5. ExistsBijection(1..1, S)
  BY <1>4, FS_CardinalityType
<1>6. PICK f : f \in Bijection(1..1, S)
  BY <1>5 DEF ExistsBijection
<1>7. f[1] \in S /\ \A i \in S : \E k \in 1..1 : f[k] = i
  BY <1>6 DEF Bijection, Injection, Surjection
<1>8. \A k \in 1..1 : k = 1
  OBVIOUS
<1>9. S = {f[1]}
  BY <1>7, <1>8
<1> QED  BY <1>7, <1>9

\* A planned arm has its contract on record, and so has the other of its pair.
LEMMA ArmsMeasured ==
    ASSUME NEW e, IsLog(e), PlansOnRecord(e), loadPopulationTrialPlans(e), NEW arm \in Arms(e)
    PROVE  /\ Planned(arm) /\ arm \in Preregistered(e)
           /\ arm.condition \in {"baseline", "memory"}
           /\ Before(arm) \in Arms(e)
<1>1. PICK p \in OfKind(e, "plan") : arm \in ToSet(ArmsOf(e[p].body))
  BY DEF Arms
<1> DEFINE plan == e[p].body
           n == Cardinality(plan.cards)
           arms == ArmsOf(plan)
<1>2. plan \in Plans
  BY DEF PlansOnRecord
<1>3. /\ n \in Nat /\ plan # Unplanned /\ IsLog(arms) /\ DOMAIN arms = 1..2 * n
      /\ \A k \in 1..2 * n : arms[k] = Arm(plan, Nth(plan.cards, (k + 1) \div 2),
                                           IF k % 2 = 1 THEN "baseline" ELSE "memory")
  BY <1>2, ArmsMean
<1>4. PICK k \in 1..2 * n : arm = arms[k]
  BY <1>1, <1>3 DEF ToSet
<1>5. ContractBatch(e, p)
  BY DEF loadPopulationTrialPlans
<1>6. p + k <= Len(e) /\ e[p + k].id = ContractID(arm)
  BY <1>3, <1>4, <1>5 DEF ContractBatch
<1>7. p \in 1..Len(e)
  BY WhereIs
<1>8. \A i \in OfKind(e, "plan") : ToSet(ArmsOf(e[i].body)) \subseteq Arms(e)
  BY DEF Arms
<1>9. \A l \in 1..2 * n : arms[l] \in Arms(e)
  BY <1>3, <1>8 DEF ToSet
<1> HIDE DEF plan, n, arms
<1>10. arm.plan = plan /\ arm.card = Nth(plan.cards, (k + 1) \div 2)
       /\ arm.condition = IF k % 2 = 1 THEN "baseline" ELSE "memory"
  BY <1>3, <1>4 DEF Arm
<1>11. arm \in Preregistered(e)
  <2>1. p + k \in 1..Len(e) /\ DOMAIN e = 1..Len(e)
    BY <1>3, <1>6, <1>7, LogPositions
  <2> DEFINE i == p + k
  <2> HIDE DEF i
  <2>2. i \in DOMAIN e /\ e[i].id = <<"contract", arm>>
    BY <1>6, <2>1 DEF i, ContractID
  <2>3. e[i].id[1] = "contract"
    BY <2>2
  <2>4. e[i].kind = "contract" /\ e[i].id = <<"contract", e[i].body>>
    BY <2>2, <2>3 DEF PlansOnRecord, ContractID
  <2>5. e[i].body = arm
    BY <2>2, <2>4
  <2> QED  BY <2>2, <2>4, <2>5 DEF Preregistered, OfKind
<1>12. Before(arm) \in Arms(e)
  <2>1. Before(arm) = Arm(plan, Nth(plan.cards, (k + 1) \div 2), ExecutionOrder(arm.card)[1])
    BY <1>10 DEF Before
  <2>2. ExecutionOrder(arm.card)[1] \in {"baseline", "memory"}
    BY DEF ExecutionOrder
  <2> DEFINE c == ExecutionOrder(arm.card)[1]
  <2> HIDE DEF c
  <2>3. CASE k % 2 = 1
    <3>1. k + 1 \in 1..2 * n /\ (k + 1) % 2 = 0 /\ (k + 2) \div 2 = (k + 1) \div 2
      BY <1>3, <2>3
    <3>2. arms[k] = Arm(plan, Nth(plan.cards, (k + 1) \div 2), "baseline")
      BY <1>3, <2>3
    <3>3. arms[k + 1] = Arm(plan, Nth(plan.cards, (k + 1) \div 2), "memory")
      <4> DEFINE m == k + 1
      <4>1. m \in 1..2 * n /\ m % 2 # 1 /\ (m + 1) \div 2 = (k + 1) \div 2
        BY <1>3, <3>1
      <4> HIDE DEF m
      <4>2. arms[m] = Arm(plan, Nth(plan.cards, (m + 1) \div 2), "memory")
        BY <1>3, <4>1
      <4> QED  BY <4>1, <4>2 DEF m
    <3>4. Before(arm) = arms[k] \/ Before(arm) = arms[k + 1]
      BY <2>1, <2>2, <3>2, <3>3
    <3> QED  BY <1>9, <3>1, <3>4
  <2>4. CASE k % 2 # 1
    <3>1. k - 1 \in 1..2 * n /\ (k - 1) % 2 = 1 /\ k \div 2 = (k + 1) \div 2
      BY <1>3, <2>4
    <3>2. arms[k] = Arm(plan, Nth(plan.cards, (k + 1) \div 2), "memory")
      BY <1>3, <2>4
    <3>3. arms[k - 1] = Arm(plan, Nth(plan.cards, (k + 1) \div 2), "baseline")
      <4> DEFINE m == k - 1
      <4>1. m \in 1..2 * n /\ m % 2 = 1 /\ (m + 1) \div 2 = (k + 1) \div 2
        BY <1>3, <3>1
      <4> HIDE DEF m
      <4>2. arms[m] = Arm(plan, Nth(plan.cards, (m + 1) \div 2), "baseline")
        BY <1>3, <4>1
      <4> QED  BY <4>1, <4>2 DEF m
    <3>4. Before(arm) = arms[k] \/ Before(arm) = arms[k - 1]
      BY <2>1, <2>2, <3>2, <3>3
    <3> QED  BY <1>9, <3>1, <3>4
  <2> QED  BY <2>3, <2>4
<1>13. Planned(arm)
  BY <1>3, <1>10 DEF Planned
<1> QED  BY <1>10, <1>11, <1>12, <1>13

\* A measured arm ran once, as its receipts say.
LEMMA MeasuredRun ==
    ASSUME TrialInv, Eligible(evidence), NEW arm \in Arms(evidence)
    PROVE  \E k \in DOMAIN runs :
               /\ RunsOf(arm) = {k}
               /\ (runs[k].memory = "fits") = (arm.condition = "memory")
               /\ evidence[At(evidence, ResultID(arm))].payload = runs[k].payload
<1> DEFINE e == evidence
<1>1. IsLog(e) /\ PlansOnRecord(e) /\ RunsOnRecord(e, runs) /\ Len(e) \in Nat
  BY LogPositions DEF TrialInv, Shapes
<1>2. loadPopulationTrialPlans(e) /\ loadPopulationAttempts(e) /\ validatePopulationExecutionReceipts(e)
  BY DEF Eligible
<1> HIDE DEF e
<1>3. Planned(arm) /\ arm \in Preregistered(e) /\ arm.condition \in {"baseline", "memory"}
  <2>1. arm \in Arms(e)
    BY DEF e
  <2> QED  BY <1>1, <1>2, <2>1, ArmsMeasured
<1>4. PICK s : StartsOf(e, arm) = {s}
  <2>1. StartsOf(e, arm) \in SUBSET (1..Len(e))
    BY <1>1, WhereIs DEF StartsOf
  <2>2. Cardinality(StartsOf(e, arm)) = 1
    BY <1>2, <1>3 DEF validatePopulationExecutionReceipts, StartedOnce
  <2> QED  BY <1>1, <2>1, <2>2, OnlyOne
<1>5. PICK i : ReceiptsOf(e, arm) = {i}
  <2>1. ReceiptsOf(e, arm) \in SUBSET (1..Len(e))
    BY <1>1, WhereIs DEF ReceiptsOf
  <2>2. Cardinality(ReceiptsOf(e, arm)) = 1
    BY <1>2, <1>3 DEF validatePopulationExecutionReceipts
  <2> QED  BY <1>1, <2>1, <2>2, OnlyOne
<1>6. PICK a : AttemptsOf(e, arm) = {a}
  <2>1. AttemptsOf(e, arm) \in SUBSET (1..Len(e))
    BY <1>1, WhereIs DEF AttemptsOf
  <2>2. Cardinality(AttemptsOf(e, arm)) = 1
    BY <1>2, <1>3 DEF loadPopulationAttempts
  <2> QED  BY <1>1, <2>1, <2>2, OnlyOne
<1> DEFINE r == e[a].body.request
           x == e[i].body
<1>7. r.arm = arm /\ rerunTaskAttempt(e, a)
  BY <1>2, <1>3, <1>6 DEF loadPopulationAttempts, AttemptsOf
<1>8. i \in OfKind(e, "receipt") /\ x.arm = arm
  BY <1>5 DEF ReceiptsOf
<1>9. validatePopulationExecutionReceipt(e, i, r)
  BY <1>2, <1>3, <1>5, <1>6 DEF validatePopulationExecutionReceipts
<1>10. PICK k \in DOMAIN runs :
           runs[k] = [arm |-> x.arm, start |-> x.start, memory |-> x.memory, payload |-> x.payload]
  BY <1>1, <1>8 DEF RunsOnRecord
<1>11. Derivable(e, r)
  BY <1>7 DEF rerunTaskAttempt, verifyTaskAttemptRecord
<1> HIDE DEF r, x
<1>12. runs[k].arm = arm /\ runs[k].memory = x.memory /\ runs[k].payload = x.payload
  BY <1>8, <1>10
<1>13. x.memory = r.memory /\ e[At(e, ResultID(arm))].payload = x.payload
  BY <1>7, <1>9 DEF validatePopulationExecutionReceipt, x
<1>14. RunsOf(arm) = {k}
  <2> SUFFICES ASSUME NEW l \in RunsOf(arm) PROVE l = k
    BY <1>12 DEF RunsOf
  <2>1. l \in DOMAIN runs /\ runs[l].arm = arm
    BY DEF RunsOf
  <2>2. ASSUME NEW q \in DOMAIN runs, runs[q].arm = arm PROVE runs[q].start \in StartsOf(e, arm)
    <3>1. runs[q].start \in OfKind(e, "start") /\ e[runs[q].start].body = [arm |-> runs[q].arm, memory |-> runs[q].memory]
      BY <1>1 DEF RunsOnRecord
    <3>2. e[runs[q].start].body.arm = arm
      BY <2>2, <3>1
    <3> QED  BY <3>1, <3>2 DEF StartsOf
  <2>3. runs[l].start = s /\ runs[k].start = s
    BY <1>4, <1>12, <2>1, <2>2
  <2> QED  BY <1>1, <2>1, <2>3 DEF RunsOnRecord
<1>15. CASE arm.condition = "baseline"
  <2>1. r = Request(arm)
    BY <1>7, <1>11, <1>15 DEF Derivable, validateTaskAttemptRequest
  <2>2. r.memory = "none"
    BY <2>1 DEF Request
  <2> QED  BY <1>12, <1>13, <1>14, <1>15, <2>2 DEF e
<1>16. CASE arm.condition = "memory"
  <2>1. validateMemoryAttempt(e, r)
    BY <1>7, <1>11, <1>16 DEF Derivable, ConditionHolds
  <2>2. r.memory = "fits"
    BY <2>1 DEF validateMemoryAttempt
  <2> QED  BY <1>12, <1>13, <1>14, <1>16, <2>2 DEF e
<1> QED  BY <1>3, <1>15, <1>16

\* OneRunPerMeasuredArm, for every number of processes and arms: whatever was
\* interrupted or ran at the same time, an eligible population has one run of the
\* adapter behind each arm, with the memory of its condition, in the sealed order,
\* and what was judged is the output of that run
\* (validatePopulationExecutionReceipts).
THEOREM MeasuredArmsRanOnce == Spec => []OneRunPerMeasuredArm
<1>1. ASSUME TrialInv PROVE OneRunPerMeasuredArm
  <2> SUFFICES ASSUME Eligible(evidence), NEW arm \in Arms(evidence)
               PROVE  /\ Cardinality(RunsOf(arm)) = 1
                      /\ \A k \in RunsOf(arm) :
                             /\ (runs[k].memory = "fits") = (arm.condition = "memory")
                             /\ evidence[At(evidence, ResultID(arm))].payload = runs[k].payload
                             /\ IsSecond(arm) => \A l \in RunsOf(Before(arm)) : l < k
    BY DEF OneRunPerMeasuredArm
  <2>1. PICK k \in DOMAIN runs :
            /\ RunsOf(arm) = {k}
            /\ (runs[k].memory = "fits") = (arm.condition = "memory")
            /\ evidence[At(evidence, ResultID(arm))].payload = runs[k].payload
    BY <1>1, MeasuredRun
  <2>2. Cardinality(RunsOf(arm)) = 1
    BY <2>1, FS_Singleton
  <2>3. ASSUME IsSecond(arm), NEW l \in RunsOf(Before(arm)) PROVE l < k
    <3>1. IsLog(evidence) /\ PlansOnRecord(evidence) /\ RunsOnRecord(evidence, runs) /\ IsLog(runs)
      BY <1>1 DEF TrialInv, Shapes
    <3>2. Before(arm) \in Arms(evidence)
      BY <3>1, ArmsMeasured DEF Eligible
    <3>3. PICK q \in DOMAIN runs : RunsOf(Before(arm)) = {q}
      BY <1>1, <3>2, MeasuredRun
    <3>4. runs[k].arm = arm
      BY <2>1 DEF RunsOf
    <3>5. PICK o \in 1..k - 1 : runs[o].arm = Before(arm)
      BY <2>3, <3>1, <3>4 DEF RunsOnRecord
    <3>6. DOMAIN runs = 1..Len(runs) /\ Len(runs) \in Nat
      BY <3>1, LogPositions
    <3>7. k \in 1..Len(runs)
      BY <3>6
    <3>8. o \in DOMAIN runs /\ o < k
      BY <3>6, <3>7
    <3>9. o \in RunsOf(Before(arm))
      BY <3>5, <3>8 DEF RunsOf
    <3> QED  BY <2>3, <3>3, <3>8, <3>9
  <2> QED  BY <2>1, <2>2, <2>3
<1> QED  BY <1>1, TrialInvariant, PTL

-----------------------------------------------------------------------------
(* Labels that were sealed before the detector had published anything.     *)

\* A generation has the marker of its build, recorded before it was published.
MarkedGenerations ==
    \A g \in generations : Marked(evidence, g.marker) /\ g.at \in Nat /\ g.marker <= g.at

LEMMA MarkedGrows ==
    ASSUME NEW e, NEW s, Grows(e, s), NEW n, Marked(e, n)
    PROVE  Marked(s, n) /\ n \in 1..Len(e)
BY DEF Marked, OfKind, Grows

\* Only a build publishes.
LEMMA GenerationsKeep ==
    ASSUME TrialInv, Finite, MarkedGenerations, [Next]_vars
    PROVE  MarkedGenerations'
<1>1. Grows(evidence, evidence')
  BY NextKeeps DEF Keeps
<1>2. generations' = generations \/ \E p \in Procs : PublishGeneration(p)
  <2>1. TrialNext /\ UNCHANGED <<corpusVars, runVars>> => generations' = generations
    BY DEF corpusVars
  <2>2. RunNext => generations' = generations
    BY DEF RunNext, Promote, Export, Reconcile, RecordAttestation, BeginPrepare, PrepareBaseline,
           DerivePopulation, BeginRun, FinishRun, corpusVars
  <2>3. CorpusNext => generations' = generations \/ \E p \in Procs : PublishGeneration(p)
    BY DEF CorpusNext, Import, RecordMissing, WriteJournal, BeginFreeze, ReadCards, PlanSnapshots, Freeze,
           BeginBuild, MarkBuild, ScanLedger, AuditGeneration, BeginSeal, AppendSeal, corpusVars
  <2>4. UNCHANGED vars => generations' = generations
    BY DEF vars, corpusVars
  <2> QED  BY <2>1, <2>2, <2>3, <2>4 DEF Next
<1>3. \A g \in generations : Marked(evidence', g.marker) /\ g.at \in Nat /\ g.marker <= g.at
  BY <1>1, MarkedGrows DEF MarkedGenerations
<1>4. CASE generations' = generations
  BY <1>3, <1>4 DEF MarkedGenerations
<1>5. ASSUME NEW p \in Procs, PublishGeneration(p) PROVE MarkedGenerations'
  <2> DEFINE h == job[p].held
             new == [prefix |-> h.prefix, marker |-> h.marker, at |-> Len(evidence)]
  <2>1. pc[p] = "publish" /\ generations' \in {generations, generations \cup {new}}
    BY <1>5 DEF PublishGeneration
  <2>2. Marked(evidence, h.marker)
    BY <2>1, HereIs DEF Knows, Holds
  <2>3. Marked(evidence', h.marker) /\ h.marker \in 1..Len(evidence) /\ Len(evidence) \in Nat
    BY <1>1, <2>2, MarkedGrows DEF Grows
  <2>4. new.marker = h.marker /\ new.at = Len(evidence)
    OBVIOUS
  <2> HIDE DEF h, new
  <2>5. Marked(evidence', new.marker) /\ new.at \in Nat /\ new.marker <= new.at
    BY <2>3, <2>4
  <2> QED  BY <1>3, <2>1, <2>5 DEF MarkedGenerations
<1> QED  BY <1>2, <1>4, <1>5

\* QuietTruthIsBlind, for every number of processes: labels that count were sealed
\* before any generation over their compactions was published by a build that read
\* the ledger as it found it, crashed and stale builds included (audit.go,
\* compaction_truth.go).
THEOREM AcceptedLabelsAreBlind == Spec => []QuietTruthIsBlind
<1>1. Init => MarkedGenerations
  BY DEF Init, CorpusInit, MarkedGenerations
<1>2. TrialInv /\ Finite /\ MarkedGenerations /\ [Next]_vars => MarkedGenerations'
  BY GenerationsKeep
<1>3. ASSUME TrialInv, MarkedGenerations PROVE QuietTruthIsBlind
  <2> SUFFICES ASSUME NEW content \in DOMAIN manifests, Accepted(evidence, content),
                      NEW t \in Truths(evidence, content),
                      NEW g \in PublishedBefore(Max(Truths(evidence, content))), g.prefix = g.marker,
                      NEW i \in DOMAIN evidence[t].body.labels
               PROVE  i > g.prefix
    BY DEF QuietTruthIsBlind
  <2>1. IsLog(evidence) /\ Len(evidence) \in Nat /\ DOMAIN evidence = 1..Len(evidence)
    BY <1>3, LogPositions DEF TrialInv, Shapes
  <2>2. Truths(evidence, content) \in SUBSET (1..Len(evidence)) /\ t \in 1..Len(evidence)
    BY <2>1, WhereIs DEF Truths
  <2>3. Truths(evidence, content) = {t}
    <3>1. Cardinality(Truths(evidence, content)) = 1
      BY DEF Accepted, SealedTruth
    <3> QED  BY <2>1, <2>2, <3>1, OnlyOne
  <2>4. Max(Truths(evidence, content)) = t
    BY <2>2, <2>3 DEF Max
  <2>5. /\ g.marker \in OfKind(evidence, "generation_attempt") /\ evidence[g.marker].body = g.marker - 1
        /\ g.marker \in 1..Len(evidence) /\ g.marker < t
    <3>1. g \in generations /\ g.at < t
      BY <2>4 DEF PublishedBefore
    <3>2. Marked(evidence, g.marker) /\ g.at \in Nat /\ g.marker <= g.at
      BY <1>3, <3>1 DEF MarkedGenerations
    <3>3. g.marker \in OfKind(evidence, "generation_attempt") /\ evidence[g.marker].body = g.marker - 1
      BY <3>2 DEF Marked
    <3>4. g.marker \in 1..Len(evidence)
      BY <2>1, <3>3, WhereIs
    <3> QED  BY <2>1, <2>2, <3>1, <3>2, <3>3, <3>4
  <2>6. ~(i <= evidence[g.marker].body)
    <3>1. ~DetectedBefore(evidence, t)
      BY DEF Accepted
    <3>2. g.marker \in {k \in Markers(evidence) \cup Audits(evidence) : k < t}
      BY <2>5 DEF Markers
    <3> QED  BY <3>1, <3>2 DEF DetectedBefore, Covers
  <2>7. i \in 1..manifests[content].anchor /\ evidence[i].kind = "compaction"
    BY DEF Accepted, SealedTruth, FrozenCompactions
  <2>8. evidence[g.marker].kind = "generation_attempt"
    BY <2>5 DEF OfKind
  <2>9. i \in Int /\ i # g.marker
    BY <2>7, <2>8
  <2> QED  BY <2>5, <2>6, <2>9
<1> QED  BY <1>1, <1>2, <1>3, TrialInvariant, PTL DEF Spec

-----------------------------------------------------------------------------
(* What a step may do to the corpus, to the detector and to a process.     *)

\* One more record, of kind k.
Adds(k) == \E x : evidence' = Append(evidence, x) /\ x.kind = k

\* No audit and no report; no corpus and no segment of a rollout; nothing on the use of memory.
Silent == \A i \in New(evidence, evidence') : evidence'[i].kind \notin {"generation", "evaluation_run"}
Segment(x) == x.kind = "snapshot" /\ x.by = "importer"
Unfrozen == \A i \in New(evidence, evidence') : evidence'[i].kind # "corpus" /\ ~Segment(evidence'[i])
Unadopted == \A i \in New(evidence, evidence') : evidence'[i].kind # "adoption"

LEMMA AppendOne ==
    ASSUME TrialInv, NEW x, evidence' = Append(evidence, x)
    PROVE  /\ Grows(evidence, evidence') /\ Len(evidence') = Len(evidence) + 1
           /\ \A i \in New(evidence, evidence') : i = Len(evidence) + 1 /\ evidence'[i] = x
<1>2. /\ Grows(evidence, evidence') /\ Len(evidence') = Len(evidence) + 1
      /\ evidence'[Len(evidence) + 1] = x
  BY LogGrows DEF TrialInv, Shapes
<1>3. \A i \in New(evidence, evidence') : i = Len(evidence) + 1
  BY <1>2 DEF New, Grows
<1> QED  BY <1>2, <1>3

LEMMA AddsSilent ==
    ASSUME TrialInv, NEW k, Adds(k)
    PROVE  /\ k \notin {"generation", "evaluation_run"} => Silent
           /\ k \notin {"corpus", "snapshot"} => Unfrozen
           /\ k # "adoption" => Unadopted
<1>1. PICK x : evidence' = Append(evidence, x) /\ x.kind = k
  BY DEF Adds
<1>2. \A i \in New(evidence, evidence') : evidence'[i].kind = k
  BY <1>1, AppendOne
<1> QED  BY <1>2 DEF Silent, Unfrozen, Unadopted, Segment

LEMMA StillSilent ==
    ASSUME TrialInv, evidence' = evidence
    PROVE  Silent /\ Unfrozen /\ Unadopted
BY LogPositions DEF TrialInv, Shapes, New, Silent, Unfrozen, Unadopted

LEMMA BatchSilent ==
    ASSUME TrialInv, NEW b, IsLog(b), evidence' = evidence \o b,
           \A k \in 1..Len(b) : b[k].kind \notin {"generation", "evaluation_run"}
    PROVE  /\ Silent
           /\ (\A k \in 1..Len(b) : b[k].kind # "corpus" /\ ~Segment(b[k])) => Unfrozen
           /\ (\A k \in 1..Len(b) : b[k].kind # "adoption") => Unadopted
<1>1. IsLog(evidence) /\ Len(evidence) \in Nat /\ Len(b) \in Nat
  BY LogPositions DEF TrialInv, Shapes
<1>2. Len(evidence') = Len(evidence) + Len(b) /\ \A k \in 1..Len(b) : evidence'[Len(evidence) + k] = b[k]
  BY <1>1, LogsJoin
<1>3. ASSUME NEW i \in New(evidence, evidence') PROVE \E k \in 1..Len(b) : evidence'[i] = b[k]
  <2>1. i - Len(evidence) \in 1..Len(b) /\ i = Len(evidence) + (i - Len(evidence))
    BY <1>1, <1>2 DEF New
  <2> QED  BY <1>2, <2>1
<1> QED  BY <1>3 DEF Silent, Unfrozen, Unadopted

LEMMA TrialNextSilent ==
    ASSUME TrialInv, TrialNext
    PROVE  /\ Silent /\ Unfrozen
           /\ \/ Unadopted
              \/ \E i \in OfKind(evidence, "injection"), outcome \in bound.outcomes : ReportAdoption(i, outcome)
              \/ \E p \in Procs : Adopt(p)
<1>1. ASSUME NEW plan \in bound.plans, PreregisterTrialPlan(plan) PROVE Silent /\ Unfrozen /\ Unadopted
  <2> DEFINE arms == ArmsOf(plan)
             b == PlanBatch(plan)
             one == <<Event(PlanID(plan), "plan", <<"plan">>, "evaluation", {}, "plan", plan)>>
             rest == [k \in DOMAIN arms |->
                         Event(ContractID(arms[k]), "contract", ContextOf(arms[k]), "oracle", {Next1},
                               "contract", arms[k])]
  <2>1. evidence' = evidence \o b /\ b = one \o rest
    BY <1>1 DEF PreregisterTrialPlan, PlanBatch
  <2>2. plan \in Plans
    BY ProfileAssumption DEF TrialInv, Shapes
  <2>3. \E n \in Nat : DOMAIN arms = 1..n
    BY <2>2, ArmsMean
  <2>4. PICK n \in Nat : DOMAIN arms = 1..n
    BY <2>3
  <2> HIDE DEF arms
  <2>5. rest = [k \in 1..n |-> rest[k]] /\ \A k \in 1..n : rest[k].kind = "contract"
    BY <2>4 DEF Event
  <2>6. IsLog(one) /\ Len(one) = 1 /\ one[1].kind = "plan"
    BY DEF IsLog, Event
  <2> HIDE DEF rest, one, b
  <2>7. IsLog(rest) /\ Len(rest) = n
    BY <2>5, ListIsLog
  <2>8. Grows(one, b) /\ Len(b) = 1 + n /\ \A k \in 1..n : b[1 + k] = rest[k]
    <3>1. IsLog(one) /\ IsLog(rest)
      BY <2>6, <2>7
    <3>2. /\ Grows(one, one \o rest) /\ Len(one \o rest) = Len(one) + Len(rest)
          /\ \A k \in 1..Len(rest) : (one \o rest)[Len(one) + k] = rest[k]
      BY <3>1, LogsJoin
    <3> QED  BY <2>1, <2>6, <2>7, <3>2
  <2>9. ASSUME NEW k \in 1..Len(b) PROVE b[k].kind \in {"plan", "contract"}
    <3>1. CASE k = 1
      BY <2>6, <2>8, <3>1 DEF Grows
    <3>2. CASE k # 1
      <4>1. k - 1 \in 1..n /\ k = 1 + (k - 1)
        BY <2>8, <3>2
      <4> QED  BY <2>5, <2>8, <4>1
    <3> QED  BY <3>1, <3>2
  <2> QED  BY <2>1, <2>8, <2>9, BatchSilent DEF Grows, Segment
<1>2. ASSUME NEW context, Deliver(context) PROVE Silent /\ Unfrozen /\ Unadopted
  <2> DEFINE x == Event(Fresh("retrieval"), "retrieval", context, "retrieval", {}, "retrieval",
                        [memory |-> "fits"])
             y == Event(<<"injection", Next1 + 1>>, "injection", context, "retrieval", {Next1}, "injection",
                        [retrieval |-> Next1, memory |-> "fits"])
             b == <<x, y>>
  <2>1. evidence' = evidence \o b
    BY <1>2 DEF Deliver
  <2>2. x.kind = "retrieval" /\ y.kind = "injection"
    BY DEF Event
  <2> HIDE DEF x, y
  <2>3. IsLog(b) /\ Len(b) = 2 /\ b[1] = x /\ b[2] = y
    BY DEF IsLog
  <2> HIDE DEF b
  <2>4. \A k \in 1..Len(b) : b[k].kind \in {"retrieval", "injection"}
    BY <2>2, <2>3
  <2> QED  BY <2>1, <2>3, <2>4, BatchSilent DEF Segment
<1>3. ASSUME NEW context, NEW x \in bound.events, NEW linked, Work(context, x[1], x[2], linked)
      PROVE Silent /\ Unfrozen /\ Unadopted
  <2>1. x[1] \notin CommandKinds
    BY ProfileAssumption DEF TrialInv, Shapes
  <2>2. Adds(x[1])
    BY <1>3 DEF Work, Append1, Event, Adds
  <2>3. Silent /\ Unadopted
    BY <2>1, <2>2, AddsSilent DEF CommandKinds
  <2>4. \E y : evidence' = Append(evidence, y) /\ y.kind = x[1] /\ y.by = "capture"
    BY <1>3 DEF Work, Append1, Event
  <2>5. \A i \in New(evidence, evidence') : evidence'[i].kind = x[1] /\ evidence'[i].by = "capture"
    BY <2>4, AppendOne
  <2> QED  BY <2>1, <2>3, <2>5 DEF CommandKinds, Unfrozen, Segment
<1>4. ASSUME NEW arm, PreregisterTaskAttempt(arm) PROVE Silent /\ Unfrozen /\ Unadopted
  <2>1. Adds("contract")
    BY <1>4 DEF PreregisterTaskAttempt, Append1, Event, Adds
  <2> QED  BY <2>1, AddsSilent
<1>5. ASSUME NEW i, NEW outcome, ReportAdoption(i, outcome) PROVE Silent /\ Unfrozen
  <2>1. Adds("adoption")
    BY <1>5 DEF ReportAdoption, Append1, Event, Adds
  <2> QED  BY <2>1, AddsSilent
<1>6. ASSUME NEW p \in Procs,
             \/ \E arm \in Arms(evidence) : BeginExecution(p, arm)
             \/ \E arm \in Preregistered(evidence), payload \in bound.observed : Observe(p, arm, payload)
             \/ \E payload \in bound.outputs : Run(p, payload)
             \/ FinalizeExecution(p)
             \/ FinalizeRequest(p)
             \/ Record(p)
             \/ Abort(p)
      PROVE  Silent /\ Unfrozen /\ Unadopted
  <2>1. evidence' = evidence
    BY <1>6 DEF BeginExecution, Observe, Run, FinalizeExecution, FinalizeRequest, Finalize, Record, Abort
  <2> QED  BY <2>1, StillSilent
<1>7. ASSUME NEW p \in Procs, NEW memory, Retrieve(p, memory) PROVE Silent /\ Unfrozen /\ Unadopted
  <2>1. Adds("retrieval")
    BY <1>7 DEF Retrieve, Append1, Event, Adds
  <2> QED  BY <2>1, AddsSilent
<1>8. ASSUME NEW p \in Procs, Inject(p) PROVE Silent /\ Unfrozen /\ Unadopted
  <2>1. Adds("injection")
    BY <1>8 DEF Inject, Append1, Event, Adds
  <2> QED  BY <2>1, AddsSilent
<1>9. ASSUME NEW p \in Procs, AppendStart(p) PROVE Silent /\ Unfrozen /\ Unadopted
  <2>1. Adds("start")
    BY <1>9 DEF AppendStart, Append1, Supervised, Event, Adds
  <2> QED  BY <2>1, AddsSilent
<1>10. ASSUME NEW p \in Procs, AppendResult(p) \/ AppendObservation(p) \/ AppendVerdict(p)
       PROVE Silent /\ Unfrozen /\ Unadopted
  <2>1. Adds("tool_result")
    BY <1>10 DEF AppendResult, AppendObservation, AppendVerdict, VerdictEvent, Append1, Supervised, Event, Adds
  <2> QED  BY <2>1, AddsSilent
<1>11. ASSUME NEW p \in Procs, AppendReceipt(p) PROVE Silent /\ Unfrozen /\ Unadopted
  <2>1. Adds("receipt")
    BY <1>11 DEF AppendReceipt, Append1, Supervised, Event, Adds
  <2> QED  BY <2>1, AddsSilent
<1>12. ASSUME NEW p \in Procs, Adopt(p) PROVE Silent /\ Unfrozen
  <2>1. Adds("adoption")
    BY <1>12 DEF Adopt, Append1, Event, Adds
  <2> QED  BY <2>1, AddsSilent
<1>13. ASSUME NEW p \in Procs, AppendAttempt(p) PROVE Silent /\ Unfrozen /\ Unadopted
  <2>1. Adds("attempt")
    BY <1>13 DEF AppendAttempt, Append1, Event, Adds
  <2> QED  BY <2>1, AddsSilent
<1> QED  BY <1>1, <1>2, <1>3, <1>4, <1>5, <1>6, <1>7, <1>8, <1>9, <1>10, <1>11, <1>12, <1>13 DEF TrialNext

LEMMA CorpusNextSilent ==
    ASSUME TrialInv, CorpusNext
    PROVE  /\ Unadopted
           /\ Silent \/ \E p \in Procs : AuditGeneration(p)
           /\ \/ Unfrozen
              \/ \E x \in bound.imports : Import(x[1], x[2], x[3])
              \/ \E p \in Procs, cut \in {"none", "snapshots", "manifest"} : Freeze(p, cut)
<1>1. ASSUME NEW x \in bound.imports, Import(x[1], x[2], x[3]) PROVE Silent /\ Unadopted
  BY <1>1, ImportGrows DEF Silent, Unadopted, CommandKinds
<1>2. ASSUME NEW path, RecordMissing(path) PROVE Silent /\ Unfrozen /\ Unadopted
  <2>1. Adds("gap")
    BY <1>2 DEF RecordMissing, Append1, Captured, Event, Adds
  <2> QED  BY <2>1, AddsSilent
<1>3. ASSUME NEW p \in Procs,
             \/ \E after \in bound.writes : WriteJournal(after)
             \/ \E limit \in bound.limits : BeginFreeze(p, limit)
             \/ ReadCards(p)
             \/ PlanSnapshots(p)
             \/ \E rebuild \in BOOLEAN : BeginBuild(p, rebuild)
             \/ ScanLedger(p)
             \/ PublishGeneration(p)
             \/ \E content \in DOMAIN manifests : BeginSeal(p, content)
      PROVE  Silent /\ Unfrozen /\ Unadopted
  <2>1. evidence' = evidence
    BY <1>3 DEF WriteJournal, BeginFreeze, ReadCards, PlanSnapshots, BeginBuild, ScanLedger,
                PublishGeneration, BeginSeal
  <2> QED  BY <2>1, StillSilent
<1>4. ASSUME NEW after, WriteJournal(after) PROVE Silent /\ Unfrozen /\ Unadopted
  <2>1. evidence' = evidence
    BY <1>4 DEF WriteJournal
  <2> QED  BY <2>1, StillSilent
<1>5. ASSUME NEW p \in Procs, NEW cut, Freeze(p, cut) PROVE Silent /\ Unadopted
  <2> DEFINE b == PendingSnapshots(job[p].held)
             e == evidence \o b
             m == CorpusManifest(job[p].held, e)
             x == Event(<<"corpus", m>>, "corpus", <<"journal">>, "legacy", {}, "corpus", m)
             n == Append(b, x)
  <2>1. pc[p] = "freeze" /\ evidence' \in {e, Append(e, x)}
    BY <1>5 DEF Freeze
  <2>2. IsLog(b) /\ \A k \in 1..Len(b) : b[k].kind = "snapshot"
    <3>1. IsFreeze(job[p].held)
      BY <2>1, HereIs DEF Knows, Holds
    <3> QED  BY <3>1, PendingIs
  <2>3. x.kind = "corpus"
    BY DEF Event
  <2> HIDE DEF b, x
  <2>4. IsLog(evidence)
    BY HereIs
  <2>5. CASE evidence' = e
    BY <2>2, <2>5, BatchSilent
  <2>6. CASE evidence' = Append(e, x)
    <3>1. IsLog(n) /\ \A k \in 1..Len(n) : n[k].kind \in {"snapshot", "corpus"}
      <4>1. Grows(b, n) /\ Len(n) = Len(b) + 1 /\ n[Len(b) + 1] = x
        BY <2>2, LogGrows
      <4> QED  BY <2>2, <2>3, <4>1 DEF Grows
    <3>2. evidence' = evidence \o n
      <4> DEFINE T == {evidence[i] : i \in 1..Len(evidence)} \cup {b[i] : i \in 1..Len(b)} \cup {x}
      <4>1. evidence \in Seq(T) /\ b \in Seq(T) /\ x \in T
        BY <2>2, <2>4 DEF IsLog
      <4> HIDE DEF T
      <4> QED  BY <2>6, <4>1
    <3> HIDE DEF n
    <3> QED  BY <3>1, <3>2, BatchSilent
  <2> QED  BY <2>1, <2>5, <2>6
<1>6. ASSUME NEW p \in Procs, MarkBuild(p) PROVE Silent /\ Unfrozen /\ Unadopted
  <2>1. Adds("generation_attempt")
    BY <1>6 DEF MarkBuild, Append1, Event, Adds
  <2> QED  BY <2>1, AddsSilent
<1>7. ASSUME NEW p \in Procs, AppendSeal(p) PROVE Silent /\ Unfrozen /\ Unadopted
  <2>1. Adds("truth")
    BY <1>7 DEF AppendSeal, Append1, Event, Adds
  <2> QED  BY <2>1, AddsSilent
<1>8. ASSUME NEW p \in Procs, AuditGeneration(p) PROVE Unfrozen /\ Unadopted
  <2>1. evidence' = evidence \/ Adds("generation")
    BY <1>8 DEF AuditGeneration, Append1, Event, Adds
  <2> QED  BY <2>1, AddsSilent, StillSilent
<1>9. Silent \/ \E p \in Procs : AuditGeneration(p)
  BY <1>1, <1>2, <1>3, <1>4, <1>5, <1>6, <1>7 DEF CorpusNext
<1>10. \/ Unfrozen
       \/ \E x \in bound.imports : Import(x[1], x[2], x[3])
       \/ \E p \in Procs, cut \in {"none", "snapshots", "manifest"} : Freeze(p, cut)
  BY <1>2, <1>3, <1>4, <1>6, <1>7, <1>8 DEF CorpusNext
<1>11. Unadopted
  BY <1>1, <1>2, <1>3, <1>4, <1>5, <1>6, <1>7, <1>8 DEF CorpusNext
<1> QED  BY <1>9, <1>10, <1>11

LEMMA RunNextSilent ==
    ASSUME TrialInv, RunNext
    PROVE  /\ Silent \/ \E p \in Procs, dies \in BOOLEAN : FinishRun(p, dies)
           /\ Unfrozen /\ Unadopted
<1>1. ASSUME NEW population, Promote(population) PROVE Silent /\ Unfrozen /\ Unadopted
  <2>1. Adds("promotion")
    BY <1>1 DEF Promote, Append1, Event, Adds
  <2> QED  BY <2>1, AddsSilent
<1>2. ASSUME NEW case, NEW measure, RecordAttestation(case, measure) PROVE Silent /\ Unfrozen /\ Unadopted
  <2>1. evidence' = evidence \/ Adds("attestation")
    BY <1>2 DEF RecordAttestation, Append1, Event, Adds
  <2> QED  BY <2>1, AddsSilent, StillSilent
<1>3. ASSUME NEW items, Export \/ Reconcile(items) PROVE Silent /\ Unfrozen /\ Unadopted
  <2>1. evidence' = evidence
    BY <1>3 DEF Export, Reconcile, trialVars
  <2> QED  BY <2>1, StillSilent
<1>4. ASSUME NEW p \in Procs, NEW id, NEW content, NEW minimum,
             \/ BeginPrepare(p, id, content)
             \/ PrepareBaseline(p, id, content, minimum)
             \/ DerivePopulation(p)
             \/ \E input \in inputs : BeginRun(p, input)
      PROVE  Silent /\ Unfrozen /\ Unadopted
  <2>1. evidence' = evidence
    BY <1>4 DEF BeginPrepare, PrepareBaseline, DerivePopulation, BeginRun, trialVars
  <2> QED  BY <2>1, StillSilent
<1>5. ASSUME \E x \in bound.attestations : RecordAttestation(<<"false_memory", x[1]>>, x[2])
      PROVE  Silent /\ Unfrozen /\ Unadopted
  BY <1>2, <1>5
<1>6. ASSUME NEW p \in Procs, NEW dies, FinishRun(p, dies) PROVE Unfrozen /\ Unadopted
  <2>1. evidence' = evidence \/ Adds("evaluation_run")
    BY <1>6 DEF FinishRun, RunEvent, Append1, Event, Adds
  <2> QED  BY <2>1, AddsSilent, StillSilent
<1>7. Silent \/ \E p \in Procs, dies \in BOOLEAN : FinishRun(p, dies)
  BY <1>1, <1>3, <1>4, <1>5 DEF RunNext
<1>8. Unfrozen /\ Unadopted
  BY <1>1, <1>3, <1>4, <1>5, <1>6 DEF RunNext
<1> QED  BY <1>7, <1>8

\* Only the detector records an audit, and only a run its report; only an import
\* records a segment, and only a freeze a corpus; only an execution or a report on
\* it records an adoption.
LEMMA NextSilent ==
    ASSUME TrialInv, [Next]_vars
    PROVE  /\ \/ Silent
              \/ \E p \in Procs : AuditGeneration(p)
              \/ \E p \in Procs, dies \in BOOLEAN : FinishRun(p, dies)
           /\ \/ Unfrozen
              \/ \E x \in bound.imports : Import(x[1], x[2], x[3])
              \/ \E p \in Procs, cut \in {"none", "snapshots", "manifest"} : Freeze(p, cut)
           /\ \/ Unadopted
              \/ \E i \in OfKind(evidence, "injection"), outcome \in bound.outcomes : ReportAdoption(i, outcome)
              \/ \E p \in Procs : Adopt(p)
<1>1. CASE UNCHANGED vars
  <2>1. evidence' = evidence
    BY <1>1 DEF vars, trialVars
  <2> QED  BY <2>1, StillSilent
<1> QED  BY <1>1, TrialNextSilent, CorpusNextSilent, RunNextSilent DEF Next

\* A process that has published or measured got there by doing so, and keeps what it had.
Kept(q) == pc'[q] = pc[q] /\ job'[q] = job[q]
Arrived(q) == PublishGeneration(q) \/ \E input \in inputs : BeginRun(q, input)
Reached == \A q \in Procs : pc'[q] \in {"audit", "report"} => Kept(q) \/ Arrived(q)

LEMMA NobodyMoves ==
    ASSUME pc' = pc, job' = job
    PROVE  Reached
BY DEF Reached, Kept

\* Process p goes elsewhere.
Elsewhere(p) ==
    /\ \E l : pc' = [pc EXCEPT ![p] = l] /\ l \notin {"audit", "report"}
    /\ \A q \in Procs \ {p} : job'[q] = job[q]

LEMMA GoesElsewhere ==
    ASSUME TrialInv, NEW p \in Procs, Elsewhere(p)
    PROVE  Reached
<1>1. PICK l : pc' = [pc EXCEPT ![p] = l] /\ l \notin {"audit", "report"}
  BY DEF Elsewhere
<1>2. pc = [q \in Procs |-> pc[q]]
  BY DEF TrialInv, Shapes
<1>3. pc'[p] = l /\ \A q \in Procs \ {p} : pc'[q] = pc[q] /\ job'[q] = job[q]
  BY <1>1, <1>2 DEF Elsewhere
<1> QED  BY <1>1, <1>3 DEF Reached, Kept

\* What a command of process p does to pc and job.
MovesTo(p, l) ==
    /\ pc' = [pc EXCEPT ![p] = l]
    /\ \A q \in Procs \ {p} : job'[q] = job[q]

LEMMA MovesElsewhere ==
    ASSUME TrialInv, NEW p \in Procs, NEW l, l \notin {"audit", "report"}, MovesTo(p, l)
    PROVE  Reached
BY GoesElsewhere DEF MovesTo, Elsewhere

LEMMA ReturnsElsewhere ==
    ASSUME TrialInv, NEW p \in Procs, Return(p)
    PROVE  Reached
<1>1. job = [q \in Procs |-> job[q]]
  BY HereIs
<1>2. MovesTo(p, "idle")
  BY <1>1 DEF Return, Goto, MovesTo
<1> QED  BY <1>2, MovesElsewhere

LEMMA TrialNextReached ==
    ASSUME TrialInv, TrialNext
    PROVE  Reached
<1>1. job = [q \in Procs |-> job[q]]
  BY DEF TrialInv, Shapes
<1>2. CASE pc' = pc /\ job' = job
  BY <1>2, NobodyMoves
<1>3. ASSUME NEW p \in Procs, NEW arm, BeginExecution(p, arm) PROVE Reached
  <2>1. \E l : l \in {"retrieve", "start"} /\ MovesTo(p, l)
    BY <1>1, <1>3 DEF BeginExecution, Goto, MovesTo
  <2> QED  BY <2>1, MovesElsewhere
<1>4. ASSUME NEW p \in Procs, NEW memory, Retrieve(p, memory) PROVE Reached
  <2>1. CASE Return(p)
    BY <2>1, ReturnsElsewhere
  <2>2. CASE ~Return(p)
    <3>1. MovesTo(p, "inject")
      BY <1>1, <1>4, <2>2 DEF Retrieve, Goto, MovesTo
    <3> QED  BY <3>1, MovesElsewhere
  <2> QED  BY <2>1, <2>2
<1>5. ASSUME NEW p \in Procs, Inject(p) PROVE Reached
  <2>1. MovesTo(p, "start")
    BY <1>1, <1>5 DEF Inject, Goto, MovesTo
  <2> QED  BY <2>1, MovesElsewhere
<1>6. ASSUME NEW p \in Procs, AppendStart(p) PROVE Reached
  <2>1. MovesTo(p, "run")
    BY <1>1, <1>6 DEF AppendStart, Goto, MovesTo
  <2> QED  BY <2>1, MovesElsewhere
<1>7. ASSUME NEW p \in Procs, NEW payload, Run(p, payload) PROVE Reached
  <2>1. MovesTo(p, "result")
    BY <1>1, <1>7 DEF Run, Goto, MovesTo
  <2> QED  BY <2>1, MovesElsewhere
<1>8. ASSUME NEW p \in Procs, AppendResult(p) PROVE Reached
  <2>1. MovesTo(p, "receipt")
    BY <1>1, <1>8 DEF AppendResult, Goto, MovesTo
  <2> QED  BY <2>1, MovesElsewhere
<1>9. ASSUME NEW p \in Procs, AppendReceipt(p) PROVE Reached
  <2>1. CASE Return(p)
    BY <2>1, ReturnsElsewhere
  <2>2. CASE ~Return(p)
    <3>1. MovesTo(p, "adopt")
      BY <1>1, <1>9, <2>2 DEF AppendReceipt, Goto, MovesTo
    <3> QED  BY <3>1, MovesElsewhere
  <2> QED  BY <2>1, <2>2
<1>10. ASSUME NEW p \in Procs, NEW arm, NEW payload, Observe(p, arm, payload) PROVE Reached
  <2>1. MovesTo(p, "observe")
    BY <1>1, <1>10 DEF Observe, Goto, MovesTo
  <2> QED  BY <2>1, MovesElsewhere
<1>11. ASSUME NEW p \in Procs, Adopt(p) \/ Abort(p) \/ AppendObservation(p) \/ AppendAttempt(p) PROVE Reached
  <2>1. Return(p)
    BY <1>11 DEF Adopt, Abort, AppendObservation, AppendAttempt
  <2> QED  BY <2>1, ReturnsElsewhere
<1>12. ASSUME NEW p \in Procs, FinalizeExecution(p) \/ FinalizeRequest(p) PROVE Reached
  <2>1. PICK r : Finalize(p, r)
    BY <1>12 DEF FinalizeExecution, FinalizeRequest
  <2>2. \E l : l \in {"record", "verdict"} /\ MovesTo(p, l)
    BY <1>1, <2>1 DEF Finalize, Goto, MovesTo
  <2> QED  BY <2>2, MovesElsewhere
<1>13. ASSUME NEW p \in Procs, AppendVerdict(p) PROVE Reached
  <2>1. MovesTo(p, "record")
    BY <1>13 DEF AppendVerdict, Goto, MovesTo
  <2> QED  BY <2>1, MovesElsewhere
<1>14. ASSUME NEW p \in Procs, Record(p) PROVE Reached
  <2>1. CASE Return(p)
    BY <2>1, ReturnsElsewhere
  <2>2. CASE ~Return(p)
    <3>1. MovesTo(p, "attempt")
      BY <1>14, <2>2 DEF Record, Goto, MovesTo
    <3> QED  BY <3>1, MovesElsewhere
  <2> QED  BY <2>1, <2>2
<1>15. ASSUME \/ \E plan \in bound.plans : PreregisterTrialPlan(plan)
              \/ \E arm \in bound.drafts : PreregisterTaskAttempt(arm)
              \/ \E context \in ContextsInUse :
                     \/ \E x \in bound.events, linked \in BOOLEAN : Work(context, x[1], x[2], linked)
                     \/ bound.deliver /\ Deliver(context)
              \/ \E i \in OfKind(evidence, "injection"), outcome \in bound.outcomes : ReportAdoption(i, outcome)
       PROVE  pc' = pc /\ job' = job
  BY <1>15 DEF PreregisterTrialPlan, PreregisterTaskAttempt, Work, Deliver, ReportAdoption
<1> QED  BY <1>2, <1>3, <1>4, <1>5, <1>6, <1>7, <1>8, <1>9, <1>10, <1>11, <1>12, <1>13, <1>14, <1>15 DEF TrialNext

LEMMA CorpusNextReached ==
    ASSUME TrialInv, CorpusNext
    PROVE  Reached
<1>1. job = [q \in Procs |-> job[q]] /\ pc = [q \in Procs |-> pc[q]]
  BY DEF TrialInv, Shapes
<1>2. ASSUME \/ \E x \in bound.imports : Import(x[1], x[2], x[3])
             \/ \E path \in bound.missing : RecordMissing(path)
             \/ \E after \in bound.writes : WriteJournal(after)
      PROVE  Reached
  <2>1. pc' = pc /\ job' = job
    BY <1>2 DEF Import, RecordMissing, WriteJournal
  <2> QED  BY <2>1, NobodyMoves
<1>3. ASSUME NEW p \in Procs, NEW limit, BeginFreeze(p, limit) PROVE Reached
  <2>1. MovesTo(p, "cards")
    BY <1>1, <1>3 DEF BeginFreeze, Goto, MovesTo
  <2> QED  BY <2>1, MovesElsewhere
<1>4. ASSUME NEW p \in Procs, ReadCards(p) PROVE Reached
  <2>1. MovesTo(p, "plan")
    BY <1>1, <1>4 DEF ReadCards, Goto, MovesTo
  <2> QED  BY <2>1, MovesElsewhere
<1>5. ASSUME NEW p \in Procs, PlanSnapshots(p) PROVE Reached
  <2>1. MovesTo(p, "freeze")
    BY <1>1, <1>5 DEF PlanSnapshots, Goto, MovesTo
  <2> QED  BY <2>1, MovesElsewhere
<1>6. ASSUME NEW p \in Procs, NEW rebuild, BeginBuild(p, rebuild) PROVE Reached
  <2>1. MovesTo(p, "mark")
    BY <1>1, <1>6 DEF BeginBuild, Goto, MovesTo
  <2> QED  BY <2>1, MovesElsewhere
<1>7. ASSUME NEW p \in Procs, MarkBuild(p) PROVE Reached
  <2>1. MovesTo(p, "scan")
    BY <1>1, <1>7 DEF MarkBuild, Goto, MovesTo
  <2> QED  BY <2>1, MovesElsewhere
<1>8. ASSUME NEW p \in Procs, ScanLedger(p) PROVE Reached
  <2>1. MovesTo(p, "publish")
    BY <1>1, <1>8 DEF ScanLedger, Goto, MovesTo
  <2> QED  BY <2>1, MovesElsewhere
<1>9. ASSUME NEW p \in Procs, PublishGeneration(p) PROVE Reached
  <2>1. \A q \in Procs \ {p} : pc'[q] = pc[q] /\ job'[q] = job[q]
    BY <1>1, <1>9 DEF PublishGeneration, Goto
  <2> QED  BY <1>9, <2>1 DEF Reached, Kept, Arrived
<1>10. ASSUME NEW p \in Procs, AuditGeneration(p) PROVE Reached
  <2>1. CASE Return(p)
    BY <2>1, ReturnsElsewhere
  <2>2. CASE ~Return(p)
    <3>1. pc[p] = "audit" /\ Goto(p, job[p].held.then) /\ job' = job
      BY <1>10, <2>2 DEF AuditGeneration
    <3>2. job[p].held.then \in {"idle", "population"}
      BY <3>1, HereIs DEF Knows, Holds, IsBuild
    <3>3. MovesTo(p, job[p].held.then)
      BY <3>1 DEF Goto, MovesTo
    <3> QED  BY <3>2, <3>3, MovesElsewhere
  <2> QED  BY <2>1, <2>2
<1>11. ASSUME NEW p \in Procs, NEW content, BeginSeal(p, content) PROVE Reached
  <2>1. MovesTo(p, "seal")
    BY <1>1, <1>11 DEF BeginSeal, Goto, MovesTo
  <2> QED  BY <2>1, MovesElsewhere
<1>12. ASSUME NEW p \in Procs, NEW cut, AppendSeal(p) \/ Freeze(p, cut) PROVE Reached
  <2>1. Return(p)
    BY <1>12 DEF AppendSeal, Freeze
  <2> QED  BY <2>1, ReturnsElsewhere
<1> QED  BY <1>2, <1>3, <1>4, <1>5, <1>6, <1>7, <1>8, <1>9, <1>10, <1>11, <1>12 DEF CorpusNext

LEMMA RunNextReached ==
    ASSUME TrialInv, RunNext
    PROVE  Reached
<1>1. job = [q \in Procs |-> job[q]] /\ pc = [q \in Procs |-> pc[q]]
  BY DEF TrialInv, Shapes
<1>2. ASSUME \/ \E population \in bound.populations : Promote(population)
             \/ Export
             \/ \E items \in bound.inventories : Reconcile(items)
             \/ \E x \in bound.attestations : RecordAttestation(<<"false_memory", x[1]>>, x[2])
             \/ \E p \in Procs, id \in RunIDs, content \in DOMAIN manifests, minimum \in bound.minimums :
                    PrepareBaseline(p, id, content, minimum)
      PROVE  Reached
  <2>1. pc' = pc /\ job' = job
    BY <1>2 DEF Promote, Export, Reconcile, RecordAttestation, PrepareBaseline, trialVars
  <2> QED  BY <2>1, NobodyMoves
<1>3. ASSUME NEW p \in Procs, NEW id, NEW content, BeginPrepare(p, id, content) PROVE Reached
  <2>1. \E l : l \in {"mark", "population"} /\ MovesTo(p, l)
    BY <1>1, <1>3 DEF BeginPrepare, Goto, MovesTo
  <2> QED  BY <2>1, MovesElsewhere
<1>4. ASSUME NEW p \in Procs, NEW input \in inputs, BeginRun(p, input) PROVE Reached
  <2>1. \A q \in Procs \ {p} : pc'[q] = pc[q] /\ job'[q] = job[q]
    BY <1>1, <1>4 DEF BeginRun, Goto
  <2> QED  BY <1>4, <2>1 DEF Reached, Kept, Arrived
<1>5. ASSUME NEW p \in Procs, NEW dies, DerivePopulation(p) \/ FinishRun(p, dies) PROVE Reached
  <2>1. Return(p)
    BY <1>5 DEF DerivePopulation, FinishRun
  <2> QED  BY <2>1, ReturnsElsewhere
<1> QED  BY <1>2, <1>3, <1>4, <1>5 DEF RunNext

LEMMA NextReached ==
    ASSUME TrialInv, [Next]_vars
    PROVE  Reached
<1>1. CASE UNCHANGED vars
  <2>1. pc' = pc /\ job' = job
    BY <1>1 DEF vars, trialVars
  <2> QED  BY <2>1, NobodyMoves
<1> QED  BY <1>1, TrialNextReached, CorpusNextReached, RunNextReached DEF Next

-----------------------------------------------------------------------------
(* A population, while the ledger goes on.                                 *)

\* What is frozen or published stays.
Stays ==
    /\ \A c \in DOMAIN manifests : c \in DOMAIN manifests' /\ manifests'[c] = manifests[c]
    /\ generations \subseteq generations'

LEMMA NextStays ==
    ASSUME [Next]_vars
    PROVE  Stays
<1>1. ASSUME UNCHANGED <<manifests, generations>> PROVE Stays
  BY <1>1 DEF Stays
<1>2. ASSUME NEW p, NEW cut, Freeze(p, cut) PROVE Stays
  <2> DEFINE m == CorpusManifest(job[p].held, evidence \o PendingSnapshots(job[p].held))
  <2>1. /\ generations' = generations
        /\ \/ manifests' = manifests
           \/ /\ m.content \notin DOMAIN manifests
              /\ manifests' = [x \in DOMAIN manifests \cup {m.content} |-> IF x = m.content THEN m ELSE manifests[x]]
    BY <1>2 DEF Freeze, AlreadyFrozen
  <2> HIDE DEF m
  <2> QED  BY <2>1 DEF Stays
<1>3. ASSUME NEW p, PublishGeneration(p) PROVE Stays
  <2>1. manifests' = manifests /\ generations \subseteq generations'
    BY <1>3 DEF PublishGeneration
  <2> QED  BY <2>1 DEF Stays
<1>4. CASE TrialNext /\ UNCHANGED <<corpusVars, runVars>>
  BY <1>1, <1>4 DEF corpusVars
<1>5. CASE RunNext
  <2>1. UNCHANGED <<manifests, generations>>
    BY <1>5 DEF RunNext, Promote, Export, Reconcile, RecordAttestation, BeginPrepare, PrepareBaseline,
                DerivePopulation, BeginRun, FinishRun, corpusVars
  <2> QED  BY <1>1, <2>1
<1>6. CASE CorpusNext
  <2>1. \/ UNCHANGED <<manifests, generations>>
        \/ \E p \in Procs, cut \in {"none", "snapshots", "manifest"} : Freeze(p, cut)
        \/ \E p \in Procs : PublishGeneration(p)
    BY <1>6 DEF CorpusNext, Import, RecordMissing, WriteJournal, BeginFreeze, ReadCards, PlanSnapshots,
                BeginBuild, MarkBuild, ScanLedger, AuditGeneration, BeginSeal, AppendSeal, corpusVars
  <2> QED  BY <1>1, <1>2, <1>3, <2>1
<1>7. CASE UNCHANGED vars
  BY <1>1, <1>7 DEF vars, corpusVars
<1> QED  BY <1>4, <1>5, <1>6, <1>7 DEF Next

\* What the detector recorded as a generation is published.
Published ==
    /\ \A i \in Audits(evidence) : \E g \in generations : g.prefix = evidence[i].body
    /\ \A p \in Procs : pc[p] = "audit" => \E g \in generations : g.prefix = job[p].held.prefix

LEMMA PublishedKeeps ==
    ASSUME TrialInv, Finite, Published, [Next]_vars
    PROVE  Published'
<1>1. Grows(evidence, evidence') /\ generations \subseteq generations'
  BY NextKeeps, NextStays DEF Keeps, Stays
<1>2. ASSUME NEW i \in New(evidence, evidence'), evidence'[i].kind = "generation"
      PROVE  \E g \in generations' : g.prefix = evidence'[i].body
  <2>1. CASE Silent
    BY <1>2, <2>1 DEF Silent
  <2>2. ASSUME NEW p \in Procs, AuditGeneration(p) PROVE \E g \in generations' : g.prefix = evidence'[i].body
    <3> DEFINE n == job[p].held.prefix
               x == Event(<<"generation", n>>, "generation", <<"detector">>, "detector", {}, "prefix", n)
    <3>1. pc[p] = "audit" /\ evidence' \in {evidence, Append(evidence, x)}
      BY <2>2 DEF AuditGeneration, Append1
    <3>2. evidence' # evidence
      BY <1>1 DEF New, Grows
    <3>3. x.body = n
      BY DEF Event
    <3> HIDE DEF x
    <3>4. evidence'[i] = x
      BY <3>1, <3>2, AppendOne
    <3> QED  BY <1>1, <3>1, <3>3, <3>4 DEF Published
  <2>3. ASSUME NEW p \in Procs, NEW dies, FinishRun(p, dies) PROVE FALSE
    <3> DEFINE input == job[p].held.input
               report == Report(input, job[p].held.issues \cup lockedContinuousLedgerIssues(evidence, input)
                                           \cup AllCaseIssues(evidence, input))
               x == RunEvent(evidence, input, report)
    <3>1. evidence' \in {evidence, Append(evidence, x)}
      BY <2>3 DEF FinishRun, Append1
    <3>2. evidence' # evidence
      BY <1>1 DEF New, Grows
    <3>3. x.kind = "evaluation_run"
      BY DEF RunEvent, Event
    <3> HIDE DEF x
    <3>4. evidence'[i] = x
      BY <3>1, <3>2, AppendOne
    <3> QED  BY <1>2, <3>3, <3>4
  <2> QED  BY <2>1, <2>2, <2>3, NextSilent
<1>3. ASSUME NEW i \in Audits(evidence') PROVE \E g \in generations' : g.prefix = evidence'[i].body
  <2>1. i \in 1..Len(evidence') /\ evidence'[i].kind = "generation" /\ DOMAIN evidence = 1..Len(evidence)
    BY <1>1 DEF Audits, OfKind, Grows
  <2>2. CASE i \in 1..Len(evidence) /\ evidence'[i] = evidence[i]
    <3>1. i \in Audits(evidence)
      BY <2>1, <2>2 DEF Audits, OfKind
    <3> QED  BY <1>1, <2>2, <3>1 DEF Published
  <2>3. CASE i \in New(evidence, evidence')
    BY <1>2, <2>1, <2>3
  <2> QED  BY <1>1, <2>1, <2>2, <2>3, OldOrNew
<1>4. ASSUME NEW p \in Procs, pc'[p] = "audit" PROVE \E g \in generations' : g.prefix = job'[p].held.prefix
  <2>1. Kept(p) \/ Arrived(p)
    BY <1>4, NextReached DEF Reached
  <2>2. CASE Kept(p)
    BY <1>1, <1>4, <2>2 DEF Kept, Published
  <2>3. CASE PublishGeneration(p)
    <3> DEFINE h == job[p].held
               new == [prefix |-> h.prefix, marker |-> h.marker, at |-> Len(evidence)]
    <3>1. /\ job' = job
          /\ generations' = IF \E g \in generations : g.prefix = h.prefix THEN generations
                            ELSE generations \cup {new}
      BY <2>3 DEF PublishGeneration
    <3>2. new.prefix = h.prefix
      OBVIOUS
    <3> HIDE DEF h, new
    <3>3. \E g \in generations' : g.prefix = h.prefix
      BY <3>1, <3>2
    <3>4. job'[p].held = h
      BY <3>1 DEF h
    <3> QED  BY <3>3, <3>4
  <2>4. ASSUME NEW input \in inputs, BeginRun(p, input) PROVE FALSE
    <3>1. pc'[p] = "report"
      BY <2>4, HereIs DEF BeginRun, Goto, TrialInv, Shapes
    <3> QED  BY <1>4, <3>1
  <2> QED  BY <2>1, <2>2, <2>3, <2>4 DEF Arrived
<1> QED  BY <1>3, <1>4 DEF Published

\* The cases and the issues of a prefix, as the corpus and the generations are now.
CompactionPart(pre, content) == <<CompactionCases(pre, content), CompactionIssues(pre, content)>>

\* An audit of the prefix has its generation.
AuditsPublished(pre) == \A i \in Audits(pre) : \E g \in generations : g.prefix = pre[i].body

LEMMA CompactionsStay ==
    ASSUME NEW pre, NEW content \in DOMAIN manifests, Stays, AuditsPublished(pre)
    PROVE  /\ CompactionCases(pre, content)' = CompactionCases(pre, content)
           /\ CompactionIssues(pre, content)' = CompactionIssues(pre, content)
<1>1. manifests'[content] = manifests[content] /\ content \in DOMAIN manifests'
  BY DEF Stays
<1>2. ASSUME Len(pre) \in Audits(pre)
      PROVE  /\ \E g \in generations : g.prefix = pre[Len(pre)].body
             /\ \E g \in generations' : g.prefix = pre[Len(pre)].body
  BY <1>2 DEF Stays, AuditsPublished
<1>3. DetectorBound(pre, content)' <=> DetectorBound(pre, content)
  BY <1>2 DEF DetectorBound
<1>4. SealedTruth(pre, content)' <=> SealedTruth(pre, content)
  BY <1>1 DEF SealedTruth
<1>5. Accepted(pre, content)' <=> Accepted(pre, content)
  BY <1>4 DEF Accepted
<1>6. CompactionCases(pre, content)' = CompactionCases(pre, content)
  <2>1. CASE DetectorBound(pre, content)
    BY <1>1, <1>3, <2>1 DEF CompactionCases
  <2>2. CASE ~DetectorBound(pre, content)
    BY <1>3, <2>2 DEF CompactionCases
  <2> QED  BY <2>1, <2>2
<1>7. ASSUME NEW l PROVE Control(pre, content, l)' <=> Control(pre, content, l)
  BY <1>1, <1>6 DEF Control
<1>8. CompactionIssues(pre, content)' = CompactionIssues(pre, content)
  BY <1>3, <1>4, <1>5, <1>7 DEF CompactionIssues
<1> QED  BY <1>6, <1>8

LEMMA PopulationsStay ==
    ASSUME NEW pre, NEW content \in DOMAIN manifests, Stays, AuditsPublished(pre), NEW portable, NEW inv
    PROVE  /\ PopulationCases(pre, content, portable, inv)' = PopulationCases(pre, content, portable, inv)
           /\ PopulationIssues(pre, content, portable, inv)' = PopulationIssues(pre, content, portable, inv)
<1>1. /\ CompactionCases(pre, content)' = CompactionCases(pre, content)
      /\ CompactionIssues(pre, content)' = CompactionIssues(pre, content)
  BY CompactionsStay
<1>2. PopulationCases(pre, content, portable, inv)' = PopulationCases(pre, content, portable, inv)
  BY <1>1 DEF PopulationCases
<1>3. PopulationIssues(pre, content, portable, inv)' = PopulationIssues(pre, content, portable, inv)
  BY <1>1, <1>2 DEF PopulationIssues
<1> QED  BY <1>2, <1>3

-----------------------------------------------------------------------------
(* An input describes its prefix, and a report its input.                  *)

\* A prefix is a prefix, however the log grows.
LEMMA PrefixStays ==
    ASSUME NEW e, NEW s, Grows(e, s), NEW n \in 1..Len(e)
    PROVE  /\ SubSeq(s, 1, n) = SubSeq(e, 1, n)
           /\ \A i \in DOMAIN SubSeq(e, 1, n) : i \in 1..n /\ SubSeq(e, 1, n)[i] = e[i]
<1>1. n \in 1..Len(s) /\ IsLog(e) /\ IsLog(s) /\ Len(e) \in Nat /\ Len(s) \in Nat
  BY DEF Grows
<1>2. ASSUME NEW t, IsLog(t), n \in 1..Len(t), Len(t) \in Nat PROVE SubSeq(t, 1, n) = [i \in 1..n |-> t[i]]
  <2> DEFINE T == {t[i] : i \in 1..Len(t)}
  <2>1. t \in Seq(T)
    BY <1>2 DEF IsLog
  <2> HIDE DEF T
  <2>2. SubSeq(t, 1, n) = [i \in 1..1 + n - 1 |-> t[1 + i - 1]]
    BY <1>2, <2>1
  <2>3. 1 + n - 1 = n /\ \A i \in 1..n : 1 + i - 1 = i
    BY <1>2
  <2> QED  BY <2>2, <2>3
<1>3. SubSeq(s, 1, n) = [i \in 1..n |-> s[i]] /\ SubSeq(e, 1, n) = [i \in 1..n |-> e[i]]
  BY <1>1, <1>2
<1>4. \A i \in 1..n : s[i] = e[i]
  BY <1>1 DEF Grows
<1> QED  BY <1>3, <1>4

\* The population of an input is the one of its prefix, with no memory active.
IsPopulation(pre, b, content) ==
    /\ b.issues = PopulationIssues(pre, content, NoneActive(b.portable), b.inventory)
    /\ b.cases = PopulationCases(pre, content, NoneActive(b.portable), b.inventory)
    /\ b = [prefix |-> b.prefix, portable |-> b.portable, inventory |-> b.inventory,
            issues |-> b.issues, cases |-> b.cases]

Describes(input) ==
    /\ input.content \in DOMAIN manifests
    /\ input.population.prefix \in 1..Len(evidence)
    /\ \E pre : pre = SubSeq(evidence, 1, input.population.prefix) /\ IsPopulation(pre, input.population, input.content)
    /\ input.cases = input.population.cases

\* A baseline input has one case, the rollouts of a frozen corpus.
IsBaseline(input) ==
    /\ input.profile = "component"
    /\ IsFiniteSet(input.content.rollouts)
    /\ \E c, minimum : /\ input.cases = {c} /\ c.category = "capture_coverage"
                       /\ c.measure = RolloutCounts(input.content)
                       /\ \A r \in c.evidence : r[1] = "corpus_artifact"
                       /\ input.thresholds = [capture_coverage |-> minimum]

Inputs == \A input \in inputs : IF input.profile = "continuous" THEN Describes(input) ELSE IsBaseline(input)

\* The audits of a prefix are audits of the ledger.
LEMMA PrefixPublished ==
    ASSUME TrialInv, Published, NEW n \in 1..Len(evidence)
    PROVE  AuditsPublished(SubSeq(evidence, 1, n))
<1>1. Grows(evidence, evidence)
  BY LogPositions DEF TrialInv, Shapes
<1>2. \A i \in DOMAIN SubSeq(evidence, 1, n) : i \in 1..n /\ SubSeq(evidence, 1, n)[i] = evidence[i]
  BY <1>1, PrefixStays
<1>3. \A i \in 1..n : i \in DOMAIN evidence
  BY <1>1 DEF Grows
<1> DEFINE pre == SubSeq(evidence, 1, n)
<1>4. \A i \in DOMAIN pre : i \in DOMAIN evidence /\ pre[i] = evidence[i]
  BY <1>2, <1>3
<1> HIDE DEF pre
<1>5. AuditsPublished(pre)
  BY <1>4 DEF AuditsPublished, Published, Audits, OfKind
<1> QED  BY <1>5 DEF pre

LEMMA DescribesStays ==
    ASSUME TrialInv, Published, Stays, Grows(evidence, evidence'), NEW input, Describes(input)
    PROVE  Describes(input)'
<1> DEFINE b == input.population
<1>1. /\ input.content \in DOMAIN manifests /\ b.prefix \in 1..Len(evidence)
      /\ input.cases = b.cases
  BY DEF Describes
<1>2. PICK pre : pre = SubSeq(evidence, 1, b.prefix) /\ IsPopulation(pre, b, input.content)
  BY DEF Describes
<1>3. AuditsPublished(pre)
  BY <1>1, <1>2, PrefixPublished
<1>4. pre = SubSeq(evidence', 1, b.prefix)
  BY <1>1, <1>2, PrefixStays
<1>5. /\ PopulationCases(pre, input.content, NoneActive(b.portable), b.inventory)'
             = PopulationCases(pre, input.content, NoneActive(b.portable), b.inventory)
      /\ PopulationIssues(pre, input.content, NoneActive(b.portable), b.inventory)'
             = PopulationIssues(pre, input.content, NoneActive(b.portable), b.inventory)
  BY <1>1, <1>3, PopulationsStay
<1>6. IsPopulation(pre, b, input.content)'
  BY <1>2, <1>5 DEF IsPopulation
<1>7. input.content \in DOMAIN manifests' /\ b.prefix \in 1..Len(evidence')
  BY <1>1 DEF Stays, Grows
<1> QED  BY <1>1, <1>4, <1>6, <1>7 DEF Describes

\* Inputs stay, and new ones are derived or not continuous.
LEMMA NextInputs ==
    ASSUME Finite, [Next]_vars
    PROVE  \/ inputs' = inputs
           \/ \E p \in Procs : DerivePopulation(p)
           \/ inputs \subseteq inputs' /\ \A x \in inputs' \ inputs : IsBaseline(x)
<1>1. TrialNext /\ UNCHANGED <<corpusVars, runVars>> => inputs' = inputs
  BY DEF runVars
<1>2. CorpusNext /\ UNCHANGED runVars => inputs' = inputs
  BY DEF runVars
<1>3. UNCHANGED vars => inputs' = inputs
  BY DEF vars, runVars
<1>4. ASSUME NEW p \in Procs, NEW id, NEW content, NEW minimum, PrepareBaseline(p, id, content, minimum)
      PROVE  inputs \subseteq inputs' /\ \A x \in inputs' \ inputs : IsBaseline(x)
  <2> DEFINE c == Case("capture_coverage", "legacy", {<<"corpus_artifact", a>> : a \in IndexArtifacts(content)},
                       RolloutCounts(content))
             x == Input(id, "component", content, NoPopulation, {c}, [capture_coverage |-> minimum])
  <2>1. inputs' = inputs \cup {x}
    BY <1>4 DEF PrepareBaseline
  <2>2. /\ c.category = "capture_coverage" /\ c.measure = RolloutCounts(content)
        /\ \A r \in c.evidence : r[1] = "corpus_artifact"
    BY DEF Case
  <2> HIDE DEF c
  <2>3. /\ x.profile = "component" /\ x.content = content /\ x.cases = {c}
        /\ x.thresholds = [capture_coverage |-> minimum]
    BY DEF Input
  <2> HIDE DEF x
  <2>4. IsFiniteSet(content.rollouts)
    BY <1>4 DEF PrepareBaseline, VerifyCorpus, Finite
  <2>5. IsBaseline(x)
    BY <2>2, <2>3, <2>4 DEF IsBaseline
  <2> QED  BY <2>1, <2>5
<1>5. CASE RunNext
  <2>1. \/ inputs' = inputs
        \/ \E p \in Procs : DerivePopulation(p)
        \/ \E p \in Procs, id \in RunIDs, content \in DOMAIN manifests, minimum \in bound.minimums :
               PrepareBaseline(p, id, content, minimum)
    BY <1>5 DEF RunNext, Promote, Export, Reconcile, RecordAttestation, BeginPrepare, BeginRun, FinishRun, runVars
  <2> QED  BY <1>4, <2>1
<1> QED  BY <1>1, <1>2, <1>3, <1>5 DEF Next

LEMMA DerivedDescribes ==
    ASSUME NEW p \in Procs, DerivePopulation(p), NEW x \in inputs', x \notin inputs
    PROVE  Describes(x)
<1> DEFINE o == job[p].held.order
           b == PreparedPopulation(evidence, o.read, o.content, repository, inventory)
           y == Input(o.id, "continuous", o.content, b, b.cases, FixedContinuousLearningThresholds)
           pre == SubSeq(evidence, 1, o.read)
<1>1. Buildable(evidence, o.read, o.content, repository) /\ x = y
  BY DEF DerivePopulation
<1>2. y.content = o.content /\ y.population = b /\ y.cases = b.cases
  BY DEF Input
<1>3. /\ b.prefix = o.read /\ b.portable = repository /\ b.inventory = inventory
      /\ b.issues = PopulationIssues(pre, o.content, NoneActive(repository), inventory)
      /\ b.cases = PopulationCases(pre, o.content, NoneActive(repository), inventory)
      /\ b = [prefix |-> b.prefix, portable |-> b.portable, inventory |-> b.inventory,
              issues |-> b.issues, cases |-> b.cases]
  BY DEF PreparedPopulation, Population
<1>4. o.read \in 1..Len(evidence) /\ o.content \in DOMAIN manifests
  BY <1>1 DEF Buildable, VerifyCorpus
<1> HIDE DEF b, y
<1>5. IsPopulation(pre, b, o.content)
  BY <1>3 DEF IsPopulation
<1> QED  BY <1>1, <1>2, <1>3, <1>4, <1>5 DEF Describes

LEMMA InputsKeep ==
    ASSUME TrialInv, Finite, Published, Inputs, [Next]_vars
    PROVE  Inputs' /\ inputs \subseteq inputs'
<1>1. Grows(evidence, evidence') /\ Stays
  BY NextKeeps, NextStays DEF Keeps
<1>2. ASSUME NEW input \in inputs
      PROVE  IF input.profile = "continuous" THEN Describes(input)' ELSE IsBaseline(input)
  BY <1>1, <1>2, DescribesStays DEF Inputs
<1>3. ASSUME NEW p \in Procs, DerivePopulation(p) PROVE Inputs' /\ inputs \subseteq inputs'
  <2>1. inputs \subseteq inputs'
    BY <1>3 DEF DerivePopulation
  <2>2. ASSUME NEW x \in inputs', x \notin inputs PROVE x.profile = "continuous" /\ Describes(x)'
    <3>1. x.profile = "continuous"
      BY <1>3, <2>2 DEF DerivePopulation, Input
    <3> QED  BY <1>1, <1>3, <2>2, <3>1, DerivedDescribes, DescribesStays
  <2> QED  BY <1>2, <2>1, <2>2 DEF Inputs
<1>4. CASE inputs' = inputs
  BY <1>2, <1>4 DEF Inputs
<1>5. CASE inputs \subseteq inputs' /\ \A x \in inputs' \ inputs : IsBaseline(x)
  BY <1>2, <1>5 DEF Inputs, IsBaseline
<1> QED  BY <1>3, <1>4, <1>5, NextInputs

\* A difference is nothing that a population or its evidence can find.
Differs == <<"population differs">>

LEMMA NotAnIssue ==
    ASSUME NEW e, NEW content, NEW portable, NEW inv
    PROVE  Differs \notin PopulationIssues(e, content, portable, inv)
<1>1. Differs \notin CaptureIssues(e, inv)
  BY DEF Differs, CaptureIssues
<1>2. Differs \notin MemoryIssues(e, portable)
  BY DEF Differs, MemoryIssues
<1>3. Differs \notin CompactionIssues(e, content)
  BY DEF Differs, CompactionIssues
<1>4. ASSUME NEW s, NEW x PROVE Differs # <<s, x>>
  BY DEF Differs
<1>5. Differs \notin {<<"unpaired attempts">>, <<"trials">>, <<"verified native agent execution">>}
  BY DEF Differs
<1>6. ASSUME NEW s, NEW S PROVE Differs \notin {<<s, x>> : x \in S}
  BY <1>4
<1> DEFINE cases == PopulationCases(e, content, portable, inv)
           F == {key \in CorrectedKeys(e) : FollowUps(e, key) = {}}
           K == {x \in Categories : Of(cases, x) = {}}
           T == {x \in {"paired_outcome", "repeated_correction"} : Cardinality(Of(cases, x)) < 3}
           U == {a \in Attempts(e) : \A c \in PairCases(e) : a \notin {c.measure.first, c.measure.second}}
<1>7. PopulationIssues(e, content, portable, inv) =
          CaptureIssues(e, inv) \cup MemoryIssues(e, portable) \cup CompactionIssues(e, content) \cup
          {<<"follow-up", x>> : x \in F} \cup {<<"empty", x>> : x \in K} \cup {<<"stratum", x>> : x \in T} \cup
          (IF \E a \in Attempts(e) : a \in U THEN {<<"unpaired attempts">>} ELSE {}) \cup
          (IF Eligible(e) THEN {} ELSE {<<"trials">>}) \cup {<<"verified native agent execution">>}
  BY DEF PopulationIssues
<1> HIDE DEF F, K, T, U, cases
<1>8. /\ Differs \notin {<<"follow-up", x>> : x \in F}
      /\ Differs \notin {<<"empty", x>> : x \in K}
      /\ Differs \notin {<<"stratum", x>> : x \in T}
  BY <1>6
<1> QED  BY <1>1, <1>2, <1>3, <1>5, <1>7, <1>8

LEMMA NotInTheCases ==
    ASSUME NEW e, NEW input
    PROVE  Differs \notin AllCaseIssues(e, input)
<1>1. ASSUME NEW c, NEW content, NEW portable PROVE Differs \notin CaseIssues(e, c, content, portable)
  <2>1. \A x, y, z : Differs # <<x, y>> /\ Differs # <<x, y, z>>
    BY DEF Differs
  <2> QED  BY <2>1 DEF CaseIssues
<1> QED  BY <1>1 DEF AllCaseIssues

\* Nothing makes the replay of an input differ if it has no active memory.
Undisputed(input) ==
    input.profile = "continuous" /\ input.population.portable = NoneActive(input.population.portable)

\* What a run holds under the writer lock.
Measuring ==
    \A p \in Procs : pc[p] = "report" =>
        /\ job[p].held.input \in inputs
        /\ Undisputed(job[p].held.input) => Differs \notin job[p].held.issues
        /\ job[p].held.input.profile = "continuous" => job[p].held.issues # {}

\* What is on record of a run.
Faithful(i, x) ==
    LET input == x.body.input
    IN  /\ input \in inputs
        /\ (input.profile = "continuous" /\ Current(x.body.report)) =>
               /\ \A k \in input.population.prefix + 1..i - 1 : evidence[k].kind = "evaluation_run"
               /\ Undisputed(input) => Differs \notin x.body.report.issues
        /\ x.body.report.ready =>
               input.profile # "continuous" /\ gatesPassed(input.thresholds, Metrics(input.cases))
Recorded == \A i \in RunEvents(evidence) : Faithful(i, evidence[i])

LEMMA OpenIssuesAgree ==
    ASSUME NEW input \in inputs, Inputs
    PROVE  /\ Undisputed(input) => Differs \notin OpenIssues(evidence, input, TRUE)
           /\ input.profile = "continuous" => OpenIssues(evidence, input, TRUE) # {}
<1> DEFINE b == input.population
           wanted == Population(evidence, b.prefix, input.content, b.portable, b.inventory)
<1>1. ASSUME Undisputed(input) PROVE wanted = b /\ wanted.cases = input.cases /\ Differs \notin wanted.issues
  <2>1. PICK pre : pre = SubSeq(evidence, 1, b.prefix) /\ IsPopulation(pre, b, input.content)
    BY <1>1 DEF Inputs, Describes, Undisputed
  <2>2. wanted = b
    BY <1>1, <2>1 DEF IsPopulation, Population, Undisputed
  <2>3. b.cases = input.cases
    BY <1>1 DEF Inputs, Describes, Undisputed
  <2>4. Differs \notin b.issues
    BY <2>1, NotAnIssue DEF IsPopulation
  <2> QED  BY <2>2, <2>3, <2>4
<1> HIDE DEF wanted, b
<1>2. Differs \notin {<<"population replay failed">>, <<"stale">>, <<"corpus">>}
  BY DEF Differs
<1>3. \/ PopulationReplayIssues(evidence, input, TRUE) = {}
      \/ PopulationReplayIssues(evidence, input, TRUE) = {<<"population replay failed">>}
      \/ /\ input.profile = "continuous"
         /\ PopulationReplayIssues(evidence, input, TRUE) =
                wanted.issues \cup (IF Stale(evidence, input) THEN {<<"stale">>} ELSE {}) \cup
                (IF wanted = b /\ wanted.cases = input.cases THEN {} ELSE {<<"population differs">>})
  BY DEF PopulationReplayIssues, wanted, b
<1>4. Undisputed(input) => Differs \notin PopulationReplayIssues(evidence, input, TRUE)
  BY <1>1, <1>2, <1>3
<1>5. ASSUME input.profile = "continuous" PROVE PopulationReplayIssues(evidence, input, TRUE) # {}
  <2>1. <<"verified native agent execution">> \in wanted.issues
    BY DEF wanted, Population, PopulationIssues
  <2> QED  BY <1>5, <2>1 DEF PopulationReplayIssues, wanted, b
<1> QED  BY <1>2, <1>4, <1>5 DEF OpenIssues

LEMMA MeasuringKeeps ==
    ASSUME TrialInv, Inputs, Measuring, inputs \subseteq inputs', [Next]_vars
    PROVE  Measuring'
<1> SUFFICES ASSUME NEW p \in Procs, pc'[p] = "report"
             PROVE  /\ job'[p].held.input \in inputs'
                    /\ Undisputed(job'[p].held.input) => Differs \notin job'[p].held.issues
                    /\ job'[p].held.input.profile = "continuous" => job'[p].held.issues # {}
  BY DEF Measuring, Undisputed
<1>1. Kept(p) \/ Arrived(p)
  BY NextReached DEF Reached
<1>2. CASE Kept(p)
  BY <1>2 DEF Kept, Measuring
<1>3. ASSUME PublishGeneration(p) PROVE FALSE
  <2>1. pc'[p] = "audit"
    BY <1>3, HereIs DEF PublishGeneration, Goto, TrialInv, Shapes
  <2> QED  BY <2>1
<1>4. ASSUME NEW input \in inputs, BeginRun(p, input)
      PROVE  /\ job'[p].held.input \in inputs'
             /\ Undisputed(job'[p].held.input) => Differs \notin job'[p].held.issues
             /\ job'[p].held.input.profile = "continuous" => job'[p].held.issues # {}
  <2> DEFINE h == [input |-> input, issues |-> OpenIssues(evidence, input, TRUE)]
  <2>1. job' = [job EXCEPT ![p].held = h]
    BY <1>4 DEF BeginRun
  <2>2. h.input = input /\ h.issues = OpenIssues(evidence, input, TRUE)
    OBVIOUS
  <2> HIDE DEF h
  <2>3. job'[p].held = h
    <3> DEFINE j == [job[p] EXCEPT !.held = h]
    <3>1. job' = [job EXCEPT ![p] = j]
      BY <2>1, HereIs, JobsWith
    <3>2. j.held = h
      <4>1. j = [request |-> job[p].request, start |-> job[p].start, payload |-> job[p].payload,
                 outcome |-> job[p].outcome, result |-> job[p].result, held |-> h]
        BY HereIs, JobFields
      <4> HIDE DEF j
      <4> QED  BY <4>1
    <3>3. job = [q \in Procs |-> job[q]]
      BY HereIs
    <3> HIDE DEF j
    <3> QED  BY <3>1, <3>2, <3>3
  <2> QED  BY <2>2, <2>3, OpenIssuesAgree
<1> QED  BY <1>1, <1>2, <1>3, <1>4 DEF Arrived

\* A report of a run that found nothing stale under the lock has only reports behind its prefix.
LEMMA FinishedFaithful ==
    ASSUME TrialInv, Inputs, Measuring, inputs \subseteq inputs', NEW p \in Procs, NEW dies, FinishRun(p, dies),
           NEW i \in New(evidence, evidence'), Grows(evidence, evidence')
    PROVE  \A r : r = evidence'[i] => Faithful(i, r)'
<1> DEFINE input == job[p].held.input
           issues == job[p].held.issues \cup lockedContinuousLedgerIssues(evidence, input)
                         \cup AllCaseIssues(evidence, input)
           report == Report(input, issues)
           x == RunEvent(evidence, input, report)
<1>1. pc[p] = "report" /\ evidence' \in {evidence, Append(evidence, x)}
  BY DEF FinishRun, Append1
<1>2. evidence' # evidence
  BY DEF New, Grows
<1>3. /\ x.body.input = input /\ x.body.report.issues = issues
      /\ x.body.report.ready <=> issues = {} /\ gatesPassed(input.thresholds, Metrics(input.cases))
  BY DEF RunEvent, Event, Report
<1>4. input \in inputs /\ (Undisputed(input) => Differs \notin issues) /\ (input.profile = "continuous" => issues # {})
  <2>1. Differs # <<"stale under lock">>
    BY DEF Differs
  <2>2. Differs \notin lockedContinuousLedgerIssues(evidence, input)
    BY <2>1 DEF lockedContinuousLedgerIssues
  <2> QED  BY <1>1, <2>2, NotInTheCases DEF Measuring
<1>5. (input.profile = "continuous" /\ <<"stale under lock">> \notin issues) =>
          \A k \in input.population.prefix + 1..Len(evidence) : evidence[k].kind = "evaluation_run"
  BY DEF lockedContinuousLedgerIssues, Stale
<1> HIDE DEF x, issues, input
<1>6. i = Len(evidence) + 1 /\ evidence'[i] = x /\ Len(evidence) \in Nat
  BY <1>1, <1>2, AppendOne DEF Grows
<1>7. Current(x.body.report) => <<"stale under lock">> \notin issues
  BY <1>3 DEF Current
<1>8. ASSUME input.profile = "continuous", Current(x.body.report)
      PROVE  \A k \in input.population.prefix + 1..i - 1 : evidence'[k].kind = "evaluation_run"
  <2>1. input.population.prefix \in 1..Len(evidence)
    BY <1>4, <1>8 DEF Inputs, Describes
  <2>2. \A k \in input.population.prefix + 1..i - 1 : k \in 1..Len(evidence)
            /\ k \in input.population.prefix + 1..Len(evidence)
    BY <1>6, <2>1
  <2>3. \A k \in 1..Len(evidence) : evidence'[k] = evidence[k]
    BY DEF Grows
  <2> QED  BY <1>5, <1>7, <1>8, <2>2, <2>3
<1> TAKE r
<1> HAVE r = evidence'[i]
<1>9. input \in inputs' /\ r = x
  BY <1>4, <1>6
<1> QED  BY <1>3, <1>4, <1>8, <1>9 DEF Faithful, Undisputed

LEMMA RecordedKeeps ==
    ASSUME TrialInv, Finite, Inputs, Measuring, Recorded, inputs \subseteq inputs', [Next]_vars
    PROVE  Recorded'
<1>1. Grows(evidence, evidence')
  BY NextKeeps DEF Keeps
<1>2. ASSUME NEW i \in RunEvents(evidence') PROVE \A r : r = evidence'[i] => Faithful(i, r)'
  <2>1. i \in 1..Len(evidence') /\ evidence'[i].kind = "evaluation_run" /\ DOMAIN evidence = 1..Len(evidence)
    BY <1>1 DEF RunEvents, OfKind, Grows
  <2>2. CASE i \in 1..Len(evidence) /\ evidence'[i] = evidence[i]
    <3>1. i \in RunEvents(evidence)
      BY <2>1, <2>2 DEF RunEvents, OfKind
    <3>2. Faithful(i, evidence[i])
      BY <3>1 DEF Recorded
    <3> DEFINE input == evidence[i].body.input
    <3>3. ASSUME input.profile = "continuous", Current(evidence[i].body.report)
          PROVE  \A k \in input.population.prefix + 1..i - 1 : evidence'[k].kind = "evaluation_run"
      <4>1. input.population.prefix \in 1..Len(evidence)
        BY <3>2, <3>3 DEF Inputs, Describes, Faithful
      <4>2. \A k \in input.population.prefix + 1..i - 1 : k \in 1..Len(evidence)
        BY <1>1, <2>2, <4>1 DEF Grows
      <4>3. \A k \in 1..Len(evidence) : evidence'[k] = evidence[k]
        BY <1>1 DEF Grows
      <4> QED  BY <3>2, <3>3, <4>2, <4>3 DEF Faithful
    <3> QED  BY <2>2, <3>2, <3>3 DEF Faithful, Undisputed
  <2>3. CASE i \in New(evidence, evidence')
    <3>1. ASSUME NEW p \in Procs, AuditGeneration(p) PROVE FALSE
      <4> DEFINE n == job[p].held.prefix
                 x == Event(<<"generation", n>>, "generation", <<"detector">>, "detector", {}, "prefix", n)
      <4>1. evidence' \in {evidence, Append(evidence, x)}
        BY <3>1 DEF AuditGeneration, Append1
      <4>2. evidence' # evidence
        BY <1>1, <2>3 DEF New, Grows
      <4>3. x.kind = "generation"
        BY DEF Event
      <4> HIDE DEF x
      <4>4. evidence'[i] = x
        BY <2>3, <4>1, <4>2, AppendOne
      <4> QED  BY <2>1, <4>3, <4>4
    <3>2. ~Silent
      BY <2>1, <2>3 DEF Silent
    <3> QED  BY <1>1, <2>3, <3>1, <3>2, FinishedFaithful, NextSilent
  <2> QED  BY <1>1, <2>1, <2>2, <2>3, OldOrNew
<1>3. \A i \in RunEvents(evidence)' : Faithful(i, evidence[i])'
  BY <1>2
<1> QED  BY <1>3 DEF Recorded

Reporting == Published /\ Inputs /\ Measuring /\ Recorded

LEMMA ReportingInvariant == Spec => [](TrialInv /\ Finite /\ Reporting)
<1>1. Init => Reporting
  <2> SUFFICES ASSUME Init PROVE Reporting
    OBVIOUS
  <2>1. /\ bound \in Profiles /\ evidence = bound.history /\ inputs = {}
        /\ \A p \in Procs : pc[p] = "idle"
    BY DEF Init, TrialInit
  <2>2. Audits(evidence) = {} /\ RunEvents(evidence) = {}
    BY <2>1, DetectorAssumption DEF Audits, RunEvents, OfKind
  <2> QED  BY <2>1, <2>2 DEF Reporting, Published, Inputs, Measuring, Recorded
<1>2. TrialInv /\ Finite /\ Reporting /\ [Next]_vars => Reporting'
  BY PublishedKeeps, InputsKeep, MeasuringKeeps, RecordedKeeps DEF Reporting
<1> QED  BY <1>1, <1>2, TrialInvariant, PTL DEF Spec

\* ReportsDescribeTheirPrefix, for every number of processes and whatever the
\* ledger, the repository, the inventory and the detector do between prepare and
\* run: a report that does not call itself stale has only reports behind the prefix
\* of its input, the cases of that input are still those of the prefix with no memory
\* active, and unless one is active the report finds no difference (population.go,
\* run.go).
THEOREM CurrentReportsDescribe == Spec => []ReportsDescribeTheirPrefix
<1>1. TrialInv /\ Reporting => ReportsDescribeTheirPrefix
  <2> SUFFICES ASSUME Reporting, NEW i \in RunEvents(evidence)
               PROVE  LET input == evidence[i].body.input
                          b == input.population
                      IN  (input.profile = "continuous" /\ Current(evidence[i].body.report)) =>
                              /\ \A k \in b.prefix + 1..i - 1 : evidence[k].kind = "evaluation_run"
                              /\ input.cases = PopulationCases(SubSeq(evidence, 1, b.prefix), input.content,
                                                              NoneActive(b.portable), b.inventory)
                              /\ b.portable = NoneActive(b.portable) =>
                                     <<"population differs">> \notin evidence[i].body.report.issues
    BY DEF ReportsDescribeTheirPrefix
  <2>1. Faithful(i, evidence[i])
    BY DEF Reporting, Recorded
  <2>2. ASSUME evidence[i].body.input.profile = "continuous"
        PROVE  Describes(evidence[i].body.input)
    BY <2>1, <2>2 DEF Reporting, Inputs, Faithful
  <2> QED  BY <2>1, <2>2 DEF Faithful, Describes, IsPopulation, Differs, Undisputed
<1> QED  BY <1>1, ReportingInvariant, PTL

-----------------------------------------------------------------------------
(* What a ready report has measured.                                       *)

\* f adds n up over a single case c.
AddsUp(f, c, n) == f = [s \in SUBSET {c} |-> IF s = {} THEN 0 ELSE f[s \ {CHOOSE x \in s : TRUE}] + n]

LEMMA SumOfOne ==
    ASSUME NEW c, NEW n \in Nat
    PROVE  /\ \E f : AddsUp(f, c, n)
           /\ \A f : AddsUp(f, c, n) => f[{c}] = n
<1>1. /\ {c} \in SUBSET {c} /\ {} \in SUBSET {c} /\ {c} # {}
      /\ (CHOOSE x \in {c} : TRUE) = c /\ {c} \ {c} = {}
      /\ \A s \in SUBSET {c} : s = {} \/ s = {c}
  OBVIOUS
<1>2. \E f : AddsUp(f, c, n)
  <2> DEFINE g == [s \in SUBSET {c} |-> IF s = {} THEN 0 ELSE n]
  <2>1. g[{}] = 0 /\ g[{c}] = n /\ g = [s \in SUBSET {c} |-> g[s]] /\ 0 + n = n
    BY <1>1
  <2> HIDE DEF g
  <2>2. \A s \in SUBSET {c} : g[s] = IF s = {} THEN 0 ELSE g[s \ {CHOOSE x \in s : TRUE}] + n
    <3> TAKE s \in SUBSET {c}
    <3>1. CASE s = {}
      BY <2>1, <3>1
    <3>2. CASE s = {c}
      <4>1. (CHOOSE x \in s : TRUE) = c /\ s \ {c} = {} /\ s # {}
        BY <1>1, <3>2
      <4> QED  BY <2>1, <3>2, <4>1
    <3> QED  BY <1>1, <3>1, <3>2
  <2>3. AddsUp(g, c, n)
    BY <2>1, <2>2 DEF AddsUp
  <2> QED  BY <2>3
<1>3. ASSUME NEW f, AddsUp(f, c, n) PROVE f[{c}] = n
  <2>1. f[{}] = 0 /\ f[{c}] = f[{}] + n
    BY <1>1, <1>3 DEF AddsUp
  <2> QED  BY <2>1
<1> QED  BY <1>2, <1>3

LEMMA TotalOfOne ==
    ASSUME NEW c
    PROVE  /\ c.measure.complete \in Nat => Total({c}, LAMBDA x : x.measure.complete) = c.measure.complete
           /\ c.measure.expected \in Nat => Total({c}, LAMBDA x : x.measure.expected) = c.measure.expected
<1>1. \A s \in SUBSET {c} : s # {} => (CHOOSE x \in s : TRUE) = c
  OBVIOUS
<1>2. ASSUME c.measure.complete \in Nat
      PROVE  Total({c}, LAMBDA x : x.measure.complete) = c.measure.complete
  <2> DEFINE Is(f) == f = [s \in SUBSET {c} |-> IF s = {} THEN 0
                              ELSE LET x == CHOOSE x \in s : TRUE IN f[s \ {x}] + x.measure.complete]
             h == CHOOSE f : Is(f)
  <2>1. Total({c}, LAMBDA x : x.measure.complete) = h[{c}]
    BY DEF Total, FoldSet, MapThenFoldSet
  <2>2. \A f : Is(f) <=> AddsUp(f, c, c.measure.complete)
    BY <1>1 DEF AddsUp
  <2> HIDE DEF Is
  <2>3. AddsUp(h, c, c.measure.complete)
    BY <1>2, <2>2, SumOfOne
  <2> HIDE DEF h
  <2> QED  BY <1>2, <2>1, <2>3, SumOfOne
<1>3. ASSUME c.measure.expected \in Nat
      PROVE  Total({c}, LAMBDA x : x.measure.expected) = c.measure.expected
  <2> DEFINE Is(f) == f = [s \in SUBSET {c} |-> IF s = {} THEN 0
                              ELSE LET x == CHOOSE x \in s : TRUE IN f[s \ {x}] + x.measure.expected]
             h == CHOOSE f : Is(f)
  <2>1. Total({c}, LAMBDA x : x.measure.expected) = h[{c}]
    BY DEF Total, FoldSet, MapThenFoldSet
  <2>2. \A f : Is(f) <=> AddsUp(f, c, c.measure.expected)
    BY <1>1 DEF AddsUp
  <2> HIDE DEF Is
  <2>3. AddsUp(h, c, c.measure.expected)
    BY <1>3, <2>2, SumOfOne
  <2> HIDE DEF h
  <2> QED  BY <1>3, <2>1, <2>3, SumOfOne
<1> QED  BY <1>2, <1>3

\* The gate of a baseline.
LEMMA BaselineGate ==
    ASSUME NEW input, IsBaseline(input), gatesPassed(input.thresholds, Metrics(input.cases))
    PROVE  /\ input.content.rollouts # {}
           /\ Cardinality({r \in input.content.rollouts : r.status = "captured"})
                      * input.thresholds.capture_coverage[2]
                  >= input.thresholds.capture_coverage[1] * Cardinality(input.content.rollouts)
<1> DEFINE rollouts == input.content.rollouts
           captured == {r \in rollouts : r.status = "captured"}
<1>1. PICK c, minimum : /\ input.cases = {c} /\ c.category = "capture_coverage"
                        /\ c.measure = RolloutCounts(input.content)
                        /\ input.thresholds = [capture_coverage |-> minimum]
  BY DEF IsBaseline
<1>2. c.measure.complete = Cardinality(captured) /\ c.measure.expected = Cardinality(rollouts)
  BY <1>1 DEF RolloutCounts
<1>3. Cardinality(captured) \in Nat /\ Cardinality(rollouts) \in Nat
  <2>1. IsFiniteSet(rollouts) /\ captured \in SUBSET rollouts
    BY DEF IsBaseline
  <2> HIDE DEF rollouts, captured
  <2> QED  BY <2>1, FS_Subset, FS_CardinalityType
<1>4. Metrics(input.cases).capture_coverage =
          <<Total({c}, LAMBDA x : x.measure.complete), Total({c}, LAMBDA x : x.measure.expected)>>
  <2>1. Of({c}, "capture_coverage") = {c}
    BY <1>1 DEF Of
  <2> QED  BY <1>1, <2>1 DEF Metrics, ratio
<1> HIDE DEF rollouts, captured
<1>5. Metrics(input.cases).capture_coverage = <<Cardinality(captured), Cardinality(rollouts)>>
  BY <1>2, <1>3, <1>4, TotalOfOne
<1>6. input.thresholds.capture_coverage = minimum /\ "capture_coverage" \in DOMAIN input.thresholds
  BY <1>1
<1>7. gate("capture_coverage", minimum, <<Cardinality(captured), Cardinality(rollouts)>>)
  BY <1>5, <1>6 DEF gatesPassed
<1>8. /\ Cardinality(rollouts) > 0
      /\ Cardinality(captured) * minimum[2] >= minimum[1] * Cardinality(rollouts)
  BY <1>7 DEF gate, Measured, Minimums, AtLeast
<1>9. rollouts # {}
  BY <1>8, FS_EmptySet
<1> QED  BY <1>6, <1>8, <1>9 DEF rollouts, captured

\* ReadyMeansMeasured, for every number of processes: no continuous report is
\* ready, and a baseline report is ready only if its corpus has rollouts of which
\* the required share was captured (run.go, metrics.go, baseline.go).
THEOREM ReadyReportsMeasured == Spec => []ReadyMeansMeasured
<1>1. ASSUME Reporting PROVE ReadyMeansMeasured
  <2> SUFFICES ASSUME NEW i \in RunEvents(evidence), evidence[i].body.report.ready
               PROVE  LET input == evidence[i].body.input
                          minimum == input.thresholds.capture_coverage
                          rollouts == input.content.rollouts
                      IN  /\ input.profile = "component"
                          /\ rollouts # {}
                          /\ Cardinality({r \in rollouts : r.status = "captured"}) * minimum[2]
                                 >= minimum[1] * Cardinality(rollouts)
    BY DEF ReadyMeansMeasured
  <2>1. Faithful(i, evidence[i])
    BY <1>1 DEF Reporting, Recorded
  <2> DEFINE input == evidence[i].body.input
  <2>2. /\ input \in inputs /\ input.profile # "continuous"
        /\ gatesPassed(input.thresholds, Metrics(input.cases))
    BY <2>1 DEF Faithful
  <2>3. IsBaseline(input)
    BY <1>1, <2>2 DEF Reporting, Inputs
  <2> HIDE DEF input
  <2>4. input.profile = "component"
    BY <2>3 DEF IsBaseline
  <2> QED  BY <2>2, <2>3, <2>4, BaselineGate DEF input
<1> QED  BY <1>1, ReportingInvariant, PTL

-----------------------------------------------------------------------------
(* Merged ranges.                                                          *)

InRange(r, x) == r[1] <= x /\ x < r[2]
Covered(d, x) == \E j \in 1..Len(d) : InRange(d[j], x)
Ranges == Nat \X Nat

\* The last of a list of ranges begins no later than r, and none ends before it begins.
Reaches(d, r) == d = <<>> \/ (d[Len(d)][1] <= r[1] /\ d[Len(d)][1] <= d[Len(d)][2])

\* One more range covers what it covers.
LEMMA MergeRangeCovers ==
    ASSUME NEW d \in Seq(Ranges), NEW r \in Ranges, r[1] <= r[2]
    PROVE  /\ mergeRange(d, r) \in Seq(Ranges) \ {<<>>}
           /\ Reaches(d, r) => /\ Reaches(mergeRange(d, r), r)
                               /\ \A x \in Nat : Covered(mergeRange(d, r), x) <=> Covered(d, x) \/ InRange(r, x)
<1>1. r[1] \in Nat /\ r[2] \in Nat /\ Len(d) \in Nat /\ \A j \in 1..Len(d) : d[j] \in Ranges /\ d[j][1] \in Nat /\ d[j][2] \in Nat
  BY DEF Ranges
<1> DEFINE m == mergeRange(d, r)
<1>2. CASE d = <<>> \/ r[1] > Last(d)[2]
  <2>1. m = Append(d, r)
    BY <1>2 DEF mergeRange
  <2> HIDE DEF m
  <2>2. /\ m \in Seq(Ranges) /\ Len(m) = Len(d) + 1 /\ m[Len(m)] = r
        /\ \A j \in 1..Len(d) : m[j] = d[j]
    BY <1>1, <2>1
  <2>3. m # <<>> /\ Reaches(m, r)
    BY <1>1, <2>2 DEF Reaches
  <2>4. ASSUME NEW x \in Nat PROVE Covered(m, x) <=> Covered(d, x) \/ InRange(r, x)
    <3>1. 1..Len(m) = 1..Len(d) \cup {Len(m)}
      BY <1>1, <2>2
    <3> QED  BY <2>2, <3>1 DEF Covered
  <2> QED  BY <2>2, <2>3, <2>4 DEF m
<1>3. CASE ~(d = <<>> \/ r[1] > Last(d)[2])
  <2> DEFINE n == Len(d)
             new == <<d[n][1], IF r[2] > d[n][2] THEN r[2] ELSE d[n][2]>>
  <2>1. m = [d EXCEPT ![n] = new]
    BY <1>3 DEF mergeRange
  <2>2. n \in 1..Len(d) /\ d[n] \in Ranges /\ r[1] <= d[n][2]
    BY <1>1, <1>3 DEF Last
  <2>3. new \in Ranges /\ new[1] = d[n][1] /\ new[2] \in Nat
        /\ new[2] = IF r[2] > d[n][2] THEN r[2] ELSE d[n][2]
    BY <1>1, <2>2 DEF Ranges
  <2> HIDE DEF m, new
  <2>4. /\ m \in Seq(Ranges) /\ Len(m) = n /\ m[n] = new /\ \A j \in 1..n : j # n => m[j] = d[j]
    BY <2>1, <2>2, <2>3
  <2>5. m # <<>>
    BY <2>2, <2>4
  <2>6. ASSUME Reaches(d, r) PROVE Reaches(m, r)
    BY <1>1, <1>3, <2>2, <2>3, <2>4, <2>6 DEF Reaches
  <2>7. ASSUME Reaches(d, r), NEW x \in Nat PROVE InRange(new, x) <=> InRange(d[n], x) \/ InRange(r, x)
    <3>1. d[n][1] <= r[1] /\ r[1] <= d[n][2] /\ d[n][1] <= d[n][2]
      BY <1>3, <2>2, <2>7 DEF Reaches
    <3>2. d[n][1] \in Nat /\ d[n][2] \in Nat
      BY <1>1, <2>2
    <3> QED  BY <1>1, <2>3, <3>1, <3>2 DEF InRange
  <2>8. ASSUME Reaches(d, r), NEW x \in Nat PROVE Covered(m, x) <=> Covered(d, x) \/ InRange(r, x)
    BY <2>2, <2>4, <2>7, <2>8 DEF Covered
  <2> QED  BY <2>4, <2>5, <2>6, <2>8 DEF m
<1> QED  BY <1>2, <1>3

\* The values of the fold.
LEMMA MergeFold ==
    ASSUME NEW s, NEW n \in Nat, DOMAIN s = 1..n, \A k \in 1..n : s[k] \in Ranges /\ s[k][1] <= s[k][2]
    PROVE  \E g \in [0..n -> Seq(Ranges)] :
              /\ FoldLeft(LAMBDA merged, r : mergeRange(merged, r), <<>>, s) = g[n] /\ g[0] = <<>>
              /\ \A k \in 1..n : g[k] = mergeRange(g[k - 1], s[k])
<1> DEFINE D == Seq(Ranges)
           step == [k \in 1..n |-> [d \in D |-> mergeRange(d, s[k])]]
           F(h) == [t \in SUBSET (1..n) |-> IF t = {} THEN <<>>
                                            ELSE mergeRange(h[t \ {Max(t)}], s[Max(t)])]
           all == FoldLeft(LAMBDA merged, r : mergeRange(merged, r), <<>>, s)
<1>1. step \in [1..n -> [D -> D]] /\ <<>> \in D
  <2>1. \A k \in 1..n : \A d \in D : mergeRange(d, s[k]) \in D
    BY MergeRangeCovers
  <2>2. <<>> \in D
    OBVIOUS
  <2> HIDE DEF D
  <2> QED  BY <2>1, <2>2
<1>2. \A k \in 1..n : \A d \in D : step[k][d] = mergeRange(d, s[k])
  OBVIOUS
<1> HIDE DEF step, D
<1>3. PICK it \in [SUBSET (1..n) -> D] : IsListFold(it, n, <<>>, step)
  BY <1>1, ListFoldExists
<1>4. it = F(it)
  BY <1>2, <1>3, MaxIn DEF IsListFold
<1>5. PICK f : f = CHOOSE h : h = F(h)
  OBVIOUS
<1>6. f = F(f) /\ all = f[1..n]
  BY <1>4, <1>5 DEF FoldLeft, MapThenFoldSet
<1> HIDE DEF all
<1>7. f[{}] = <<>> /\ \A k \in 1..n : f[1..k] = mergeRange(f[1..(k - 1)], s[k])
  <2> DEFINE G == F(f)
  <2>1. G[{}] = <<>> /\ \A k \in 1..n : G[1..k] = mergeRange(f[1..(k - 1)], s[k])
    BY LastPlace
  <2>2. f = G
    BY <1>6
  <2> HIDE DEF G, F
  <2> QED  BY <2>1, <2>2
<1> HIDE DEF F
<1>8. \A k \in 1..n : f[1..(k - 1)] \in D => f[1..k] = step[k][f[1..(k - 1)]]
  BY <1>2, <1>7
<1>9. PICK g \in [0..n -> D] : g[n] = f[1..n] /\ AreValues(g, n, <<>>, step)
  BY <1>1, <1>7, <1>8, ListFoldValues
<1>10. g[0] = <<>> /\ \A k \in 1..n : g[k] = mergeRange(g[k - 1], s[k])
  BY <1>2, <1>9 DEF AreValues
<1> QED  BY <1>6, <1>9, <1>10 DEF all, D

\* The order of their starts is total on ranges.
LEMMA ByStartOrders ==
    ASSUME NEW R, R \subseteq Ranges
    PROVE  Orders(byStart(R), R)
<1>1. \A r \in R : r[1] \in Nat /\ r[2] \in Nat /\ r = <<r[1], r[2]>>
  BY DEF Ranges
<1>2. byStart(R) \subseteq R \X R
  BY DEF byStart
<1>3. \A x, y \in R : <<x, y>> \in byStart(R) <=> x[1] < y[1] \/ (x[1] = y[1] /\ x[2] < y[2])
  BY DEF byStart
<1>4. \A x \in R : <<x, x>> \notin byStart(R)
  BY <1>1, <1>3
<1>5. ASSUME NEW x \in R, NEW y \in R, NEW z \in R, <<x, y>> \in byStart(R), <<y, z>> \in byStart(R)
      PROVE  <<x, z>> \in byStart(R)
  <2>1. /\ x[1] < y[1] \/ (x[1] = y[1] /\ x[2] < y[2])
        /\ y[1] < z[1] \/ (y[1] = z[1] /\ y[2] < z[2])
    BY <1>3, <1>5
  <2>2. x[1] < z[1] \/ (x[1] = z[1] /\ x[2] < z[2])
    BY <1>1, <2>1
  <2> QED  BY <1>3, <2>2
<1>6. ASSUME NEW x \in R, NEW y \in R PROVE x = y \/ <<x, y>> \in byStart(R) \/ <<y, x>> \in byStart(R)
  <2>1. \/ x[1] < y[1] \/ (x[1] = y[1] /\ x[2] < y[2])
        \/ y[1] < x[1] \/ (x[1] = y[1] /\ y[2] < x[2])
        \/ x[1] = y[1] /\ x[2] = y[2]
    BY <1>1
  <2> QED  BY <1>1, <1>3, <2>1
<1> QED  BY <1>2, <1>4, <1>5, <1>6 DEF Orders

\* The merged ranges cover what the ranges cover.
LEMMA MergedCovers ==
    ASSUME NEW R, IsFiniteSet(R), R \subseteq Ranges, \A r \in R : r[1] <= r[2]
    PROVE  /\ mergeRanges(R) \in Seq(Ranges)
           /\ \A x \in Nat : Covered(mergeRanges(R), x) <=> \E r \in R : InRange(r, x)
<1> DEFINE s == SortedBy(R, byStart(R))
           n == Cardinality(R)
           all == FoldLeft(LAMBDA merged, r : mergeRange(merged, r), <<>>, s)
<1>1. /\ n \in Nat /\ s \in [1..n -> R] /\ DOMAIN s = 1..n
      /\ \A x \in R : \E k \in 1..n : s[k] = x
      /\ \A i, j \in 1..n : i < j => <<s[i], s[j]>> \in byStart(R)
  BY ByStartOrders, SortedByLists
<1> HIDE DEF s, n
<1>2. \A k \in 1..n : s[k] \in Ranges /\ s[k] \in R /\ s[k][1] <= s[k][2]
  BY <1>1
<1>3. PICK g \in [0..n -> Seq(Ranges)] :
          /\ all = g[n] /\ g[0] = <<>>
          /\ \A k \in 1..n : g[k] = mergeRange(g[k - 1], s[k])
  BY <1>1, <1>2, MergeFold
<1>4. mergeRanges(R) = g[n]
  BY <1>3 DEF mergeRanges, s
<1> HIDE DEF all
<1> DEFINE Fine(k) == /\ k < n => Reaches(g[k], s[k + 1])
                      /\ \A x \in Nat : Covered(g[k], x) <=> \E i \in 1..k : InRange(s[i], x)
           Good == {k \in 0..n : Fine(k)}
<1>5. Fine(0)
  <2>1. Reaches(g[0], s[0 + 1])
    BY <1>3 DEF Reaches
  <2>2. \A x : ~Covered(g[0], x)
    BY <1>3 DEF Covered
  <2> QED  BY <2>1, <2>2
<1>6. ASSUME NEW k \in 1..n, Fine(k - 1) PROVE Fine(k)
  <2>1. k - 1 \in 0..n /\ k - 1 < n /\ (k - 1) + 1 = k
    BY <1>1
  <2>2. g[k - 1] \in Seq(Ranges) /\ Reaches(g[k - 1], s[k]) /\ g[k] = mergeRange(g[k - 1], s[k])
    BY <1>3, <1>6, <2>1
  <2>3. s[k] \in Ranges /\ s[k][1] <= s[k][2]
    BY <1>2
  <2>4. /\ g[k] \in Seq(Ranges) \ {<<>>} /\ Reaches(g[k], s[k])
        /\ \A x \in Nat : Covered(g[k], x) <=> Covered(g[k - 1], x) \/ InRange(s[k], x)
    BY <2>2, <2>3, MergeRangeCovers
  <2>5. ASSUME k < n PROVE Reaches(g[k], s[k + 1])
    <3>1. k + 1 \in 1..n /\ k < k + 1
      BY <1>1, <2>5
    <3>2. <<s[k], s[k + 1]>> \in byStart(R)
      BY <1>1, <3>1
    <3>3. PICK next : next = s[k + 1]
      OBVIOUS
    <3>4. next \in Ranges /\ (s[k][1] < next[1] \/ s[k][1] = next[1])
      BY <1>2, <3>1, <3>2, <3>3 DEF byStart
    <3>5. s[k][1] \in Nat /\ next[1] \in Nat /\ g[k][Len(g[k])][1] \in Nat
      <4>1. Len(g[k]) \in 1..Len(g[k])
        BY <2>4
      <4> QED  BY <2>3, <2>4, <3>4, <4>1 DEF Ranges
    <3>6. Reaches(g[k], next)
      BY <2>4, <3>4, <3>5 DEF Reaches
    <3> QED  BY <3>3, <3>6
  <2>6. 1..k = 1..(k - 1) \cup {k}
    OBVIOUS
  <2>7. ASSUME NEW x \in Nat PROVE Covered(g[k], x) <=> \E i \in 1..k : InRange(s[i], x)
    <3>1. Covered(g[k - 1], x) <=> \E i \in 1..(k - 1) : InRange(s[i], x)
      BY <1>6
    <3> QED  BY <2>4, <2>6, <3>1
  <2> QED  BY <2>5, <2>7
<1> HIDE DEF Fine
<1>7. 0 \in Good /\ \A k \in 1..n : k - 1 \in Good => k \in Good
  BY <1>1, <1>5, <1>6
<1> HIDE DEF Good
<1>8. 0..n \subseteq Good
  BY <1>1, <1>7, CountTo
<1>9. Fine(n)
  BY <1>1, <1>8 DEF Good
<1>10. \A x \in Nat : Covered(g[n], x) <=> \E i \in 1..n : InRange(s[i], x)
  BY <1>9 DEF Fine
<1>11. \A x : (\E i \in 1..n : InRange(s[i], x)) <=> \E r \in R : InRange(r, x)
  BY <1>1
<1>12. g[n] \in Seq(Ranges)
  BY <1>1, <1>3
<1> QED  BY <1>4, <1>10, <1>11, <1>12

\* One range from the start on: the ranges have its lines.
LEMMA OneRangeIsWhole ==
    ASSUME NEW R, IsFiniteSet(R), R \subseteq Ranges, \A r \in R : r[1] <= r[2],
           rangesBeginAtZeroAndContiguous(mergeRanges(R))
    PROVE  UNION {r[1]..r[2] - 1 : r \in R} = 0..mergeRanges(R)[1][2] - 1
<1> DEFINE m == mergeRanges(R)
<1>1. m \in Seq(Ranges) /\ Len(m) = 1 /\ m[1][1] = 0
      /\ \A x \in Nat : Covered(m, x) <=> \E r \in R : InRange(r, x)
  BY MergedCovers DEF rangesBeginAtZeroAndContiguous
<1> HIDE DEF m
<1>2. m[1] \in Ranges /\ m[1][2] \in Nat
  BY <1>1 DEF Ranges
<1>3. \A x \in Nat : Covered(m, x) <=> x < m[1][2]
  BY <1>1, <1>2 DEF Covered, InRange
<1>4. ASSUME NEW r \in R PROVE r[1]..r[2] - 1 = {x \in Nat : InRange(r, x)}
  <2>1. r[1] \in Nat /\ r[2] \in Nat
    BY DEF Ranges
  <2> QED  BY <2>1 DEF InRange
<1>5. UNION {r[1]..r[2] - 1 : r \in R} = {x \in Nat : \E r \in R : InRange(r, x)}
  BY <1>4
<1>6. 0..m[1][2] - 1 = {x \in Nat : x < m[1][2]}
  BY <1>2
<1> QED  BY <1>1, <1>3, <1>5, <1>6 DEF m

-----------------------------------------------------------------------------
(* Frozen corpora.                                                         *)

\* What a corpus names is still there in a longer ledger.
LEMMA NamedStays ==
    ASSUME NEW e, NEW s, Grows(e, s)
    PROVE  /\ \A path : /\ Segments(e, path) \subseteq Segments(s, path) \cap 1..Len(e)
                        /\ MissingGaps(e, path) \subseteq MissingGaps(s, path)
           /\ \A id : Has(e, id) => Has(s, id)
<1>1. /\ DOMAIN e = 1..Len(e) /\ DOMAIN s = 1..Len(s)
      /\ \A i \in 1..Len(e) : i \in 1..Len(s) /\ s[i] = e[i]
  BY DEF Grows
<1>2. \A k : OfKind(e, k) \subseteq OfKind(s, k) \cap 1..Len(e)
  BY <1>1 DEF OfKind
<1>3. \A id : Has(e, id) => Has(s, id)
  BY <1>1 DEF Has
<1> QED  BY <1>1, <1>2, <1>3 DEF Segments, MissingGaps

LEMMA OnRecordStays ==
    ASSUME NEW e, NEW s, Grows(e, s), NEW content, OnRecord(e, content)
    PROVE  /\ OnRecord(s, content)
           /\ \A r \in content.rollouts : Whole(e, r) => Whole(s, r)
<1>1. OnRecord(s, content)
  BY NamedStays DEF OnRecord
<1>2. ASSUME NEW r \in content.rollouts, Whole(e, r) PROVE Whole(s, r)
  <2>1. \A i \in r.segments : s[i] = e[i]
    BY NamedStays DEF OnRecord, Grows
  <2>2. Lines(s, r.segments) = Lines(e, r.segments)
    BY <2>1 DEF Lines
  <2> QED  BY <1>2, <2>1, <2>2 DEF Whole
<1> QED  BY <1>1, <1>2

\* What CorporaOnRecord says of one freeze event.
IsCorpus(e, files, i) ==
    /\ e[i].id = <<"corpus", e[i].body>> /\ e[i].body.anchor \in DOMAIN e
    /\ e[i].body.content \in DOMAIN files /\ files[e[i].body.content] = e[i].body
    /\ OnRecord(e, e[i].body.content)
    /\ \A r \in e[i].body.content.rollouts : Whole(e, r)

\* Corpora stay frozen while the ledger grows and no manifest is replaced.
LEMMA CorporaStay ==
    ASSUME NEW e, NEW s, Grows(e, s), NEW f, NEW g, CorporaOnRecord(e, f),
           \A c \in DOMAIN f : c \in DOMAIN g /\ g[c] = f[c],
           \A i \in New(e, s) : s[i].kind = "corpus" => IsCorpus(s, g, i)
    PROVE  CorporaOnRecord(s, g)
<1>1. ASSUME NEW i \in OfKind(s, "corpus") PROVE IsCorpus(s, g, i)
  <2>1. i \in 1..Len(s) /\ s[i].kind = "corpus"
    BY DEF OfKind, Grows
  <2>2. CASE i \in 1..Len(e) /\ s[i] = e[i]
    <3>1. i \in OfKind(e, "corpus")
      BY <2>1, <2>2 DEF OfKind, Grows
    <3>2. IsCorpus(e, f, i)
      BY <3>1 DEF CorporaOnRecord, IsCorpus
    <3>3. s[i].body.anchor \in DOMAIN s
      BY <2>2, <3>2 DEF Grows, IsCorpus
    <3> QED  BY <2>2, <3>2, <3>3, OnRecordStays DEF IsCorpus
  <2>3. CASE i \in New(e, s)
    BY <2>1, <2>3
  <2> QED  BY <2>1, <2>2, <2>3, OldOrNew
<1> QED  BY <1>1 DEF CorporaOnRecord, IsCorpus

\* Ranges stay ranges.
LEMMA RangesStay ==
    ASSUME NEW e, NEW s, Grows(e, s), RangesOnRecord(e),
           \A i \in New(e, s) : Segment(s[i]) => IsRange(s[i].body.range)
    PROVE  RangesOnRecord(s)
<1>1. ASSUME NEW i \in OfKind(s, "snapshot"), s[i].by = "importer" PROVE IsRange(s[i].body.range)
  <2>1. i \in 1..Len(s) /\ Segment(s[i])
    BY <1>1 DEF OfKind, Grows, Segment
  <2>2. CASE i \in 1..Len(e) /\ s[i] = e[i]
    BY <2>1, <2>2 DEF OfKind, Grows, Segment, RangesOnRecord, IsRange
  <2> QED  BY <2>1, <2>2, OldOrNew
<1> QED  BY <1>1 DEF RangesOnRecord, IsRange

\* A rollout is called captured only if all of it is.
LEMMA ReferenceIsWhole ==
    ASSUME NEW e, IsLog(e), RangesOnRecord(e), NEW path
    PROVE  LET r == RolloutReference(e, path)
           IN  /\ Whole(e, r) /\ r.path = path
               /\ r.segments = Segments(e, path) /\ r.gaps = MissingGaps(e, path)
<1> DEFINE S == Segments(e, path)
           R == {e[i].body.range : i \in S}
           ranges == mergeRanges(R)
           r == RolloutReference(e, path)
<1>1. /\ r.path = path /\ r.segments = S /\ r.gaps = MissingGaps(e, path) /\ r.ranges = ranges
      /\ r.status = CASE S = {} -> "missing"
                      [] (\E i \in S : ~e[i].body.complete) \/ ~rangesBeginAtZeroAndContiguous(ranges) -> "partial"
                      [] OTHER -> "captured"
  BY DEF RolloutReference
<1> HIDE DEF r
<1>2. S \in SUBSET (1..Len(e)) /\ \A i \in S : IsRange(e[i].body.range)
  <2>1. \A i \in S : i \in 1..Len(e) /\ i \in OfKind(e, "snapshot") /\ e[i].by = "importer"
    BY LogPositions DEF Segments, OfKind
  <2> QED  BY <2>1 DEF RangesOnRecord, IsRange
<1>3. IsFiniteSet(S)
  <2>1. 1 \in Int /\ Len(e) \in Int
    BY LogPositions
  <2>2. IsFiniteSet(1..Len(e))
    BY <2>1, FS_Interval
  <2> HIDE DEF S
  <2> QED  BY <1>2, <2>2, FS_Subset
<1> HIDE DEF S
<1>4. IsFiniteSet(R) /\ R \subseteq Ranges /\ \A x \in R : x[1] <= x[2]
  <2> DEFINE f == [i \in S |-> e[i].body.range]
  <2>1. f \in [S -> R] /\ \A y \in R : \E i \in S : f[i] = y
    OBVIOUS
  <2>2. R \subseteq Ranges /\ \A x \in R : x[1] <= x[2]
    BY <1>2 DEF IsRange, Ranges
  <2> HIDE DEF f, R
  <2>3. f \in Surjection(S, R)
    BY <2>1 DEF Surjection
  <2> QED  BY <1>3, <2>2, <2>3, FS_Surjection
<1>5. Lines(e, S) = UNION {x[1]..x[2] - 1 : x \in R}
  BY DEF Lines
<1> HIDE DEF R, ranges
<1>6. ASSUME r.status = "captured"
      PROVE  Lines(e, r.segments) = 0..r.ranges[1][2] - 1 /\ \A k \in r.segments : e[k].body.complete
  <2>1. rangesBeginAtZeroAndContiguous(ranges) /\ \A i \in S : e[i].body.complete
    BY <1>1, <1>6
  <2>2. UNION {x[1]..x[2] - 1 : x \in R} = 0..ranges[1][2] - 1
    BY <1>4, <2>1, OneRangeIsWhole DEF ranges
  <2> QED  BY <1>1, <1>5, <2>1, <2>2
<1>7. Whole(e, r)
  BY <1>6 DEF Whole
<1> QED  BY <1>1, <1>7 DEF r, S

\* The content of a corpus names what is there when it is frozen.
LEMMA ContentIsThere ==
    ASSUME NEW h, NEW e, IsLog(e), RangesOnRecord(e), \A a \in h.artifacts : Has(e, SnapshotID(a))
    PROVE  /\ OnRecord(e, Content(h, e))
           /\ \A r \in Content(h, e).rollouts : Whole(e, r)
<1>1. /\ Content(h, e).artifacts = h.artifacts
      /\ \A r \in Content(h, e).rollouts : \E path : r = RolloutReference(e, path)
  BY DEF Content
<1>2. ASSUME NEW r \in Content(h, e).rollouts
      PROVE  Whole(e, r) /\ r.segments = Segments(e, r.path) /\ r.gaps = MissingGaps(e, r.path)
  <2>1. PICK path : r = RolloutReference(e, path)
    BY <1>1
  <2> QED  BY <2>1, ReferenceIsWhole
<1> QED  BY <1>1, <1>2 DEF OnRecord

\* What is on file of the corpora is what is on record.
Frozen == RangesOnRecord(evidence) /\ CorporaOnRecord(evidence, manifests)

\* A freeze records the snapshots first: its corpus names what is there.
LEMMA FreezeFrozen ==
    ASSUME TrialInv, Frozen, NEW p \in Procs, NEW cut, Freeze(p, cut), [Next]_vars
    PROVE  Frozen'
<1> DEFINE h == job[p].held
           b == PendingSnapshots(h)
           e == evidence \o b
           m == CorpusManifest(h, e)
           x == Event(<<"corpus", m>>, "corpus", <<"journal">>, "legacy", {}, "corpus", m)
<1>1. /\ pc[p] = "freeze"
      /\ \/ evidence' = e
         \/ /\ evidence' = Append(e, x)
            /\ m.content \in DOMAIN manifests' /\ manifests'[m.content] = m
  BY DEF Freeze
<1>2. IsFreeze(h)
  BY <1>1, HereIs DEF Knows, Holds
<1>3. /\ m.content = Content(h, e) /\ m.anchor = Len(e)
      /\ x.kind = "corpus" /\ x.id = <<"corpus", m>> /\ x.body = m
  BY DEF CorpusManifest, Event
<1>4. \A c \in DOMAIN manifests : c \in DOMAIN manifests' /\ manifests'[c] = manifests[c]
  BY NextStays DEF Stays
<1>5. /\ IsLog(b) /\ IsLog(evidence)
      /\ \A k \in 1..Len(b) : b[k].kind = "snapshot" /\ b[k].by = "legacy"
      /\ \A a \in h.artifacts : Has(evidence, SnapshotID(a)) \/ \E k \in 1..Len(b) : b[k].id = SnapshotID(a)
      /\ h.artifacts # {}
  BY <1>2, PendingIs DEF TrialInv, Shapes, IsFreeze
<1> HIDE DEF b, x, h
<1>6. /\ Grows(evidence, e) /\ Len(e) = Len(evidence) + Len(b)
      /\ \A k \in 1..Len(b) : e[Len(evidence) + k] = b[k]
  BY <1>5, LogsJoin
<1>7. \A i \in New(evidence, e) : e[i].kind = "snapshot" /\ e[i].by = "legacy"
  <2> SUFFICES ASSUME NEW i \in New(evidence, e) PROVE e[i].kind = "snapshot" /\ e[i].by = "legacy"
    OBVIOUS
  <2>1. Len(evidence) \in Nat /\ Len(b) \in Nat
    BY <1>5, LogPositions
  <2>2. i - Len(evidence) \in 1..Len(b) /\ i = Len(evidence) + (i - Len(evidence))
    BY <1>6, <2>1 DEF New
  <2> QED  BY <1>5, <1>6, <2>2
<1>8. \A a \in h.artifacts : Has(e, SnapshotID(a))
  <2> SUFFICES ASSUME NEW a \in h.artifacts PROVE Has(e, SnapshotID(a))
    OBVIOUS
  <2>1. CASE Has(evidence, SnapshotID(a))
    BY <1>6, <2>1, NamedStays
  <2>2. CASE \E k \in 1..Len(b) : b[k].id = SnapshotID(a)
    <3>1. PICK k \in 1..Len(b) : b[k].id = SnapshotID(a)
      BY <2>2
    <3>2. Len(evidence) + k \in 1..Len(e) /\ e[Len(evidence) + k].id = SnapshotID(a)
      BY <1>5, <1>6, <3>1, LogPositions
    <3>3. IsLog(e)
      BY <1>6 DEF Grows
    <3> QED  BY <3>2, <3>3, WhereIs
  <2> QED  BY <1>5, <2>1, <2>2
<1> HIDE DEF e, m
<1>9. RangesOnRecord(e) /\ CorporaOnRecord(e, manifests')
  <2>1. RangesOnRecord(evidence) /\ CorporaOnRecord(evidence, manifests)
    BY DEF Frozen
  <2>2. RangesOnRecord(e)
    BY <1>6, <1>7, <2>1, RangesStay DEF Segment
  <2>3. CorporaOnRecord(e, manifests')
    BY <1>4, <1>6, <1>7, <2>1, CorporaStay
  <2> QED  BY <2>2, <2>3
<1>10. CASE evidence' = e
  BY <1>9, <1>10 DEF Frozen
<1>11. CASE /\ evidence' = Append(e, x)
            /\ m.content \in DOMAIN manifests' /\ manifests'[m.content] = m
  <2>1. IsLog(e)
    BY <1>6 DEF Grows
  <2>2. Grows(e, evidence') /\ Len(evidence') = Len(e) + 1 /\ evidence'[Len(e) + 1] = x
    BY <1>11, <2>1, LogGrows
  <2>3. \A i \in New(e, evidence') : evidence'[i] = x
    BY <2>2 DEF New, Grows
  <2>4. RangesOnRecord(evidence')
    <3>1. \A i \in New(e, evidence') : ~Segment(evidence'[i])
      BY <1>3, <2>3 DEF Segment
    <3> QED  BY <1>9, <2>2, <3>1, RangesStay
  <2>5. OnRecord(e, m.content) /\ \A r \in m.content.rollouts : Whole(e, r)
    BY <1>3, <1>8, <1>9, <2>1, ContentIsThere
  <2>6. OnRecord(evidence', m.content) /\ \A r \in m.content.rollouts : Whole(evidence', r)
    BY <2>2, <2>5, OnRecordStays
  <2>7. m.anchor \in DOMAIN evidence'
    <3>1. PICK a \in h.artifacts : TRUE
      BY <1>5
    <3>2. \E j \in 1..Len(e) : e[j].id = SnapshotID(a)
      BY <1>8, <2>1, <3>1, WhereIs
    <3> QED  BY <1>3, <2>2, <3>2 DEF Grows
  <2>8. \A i \in New(e, evidence') : IsCorpus(evidence', manifests', i)
    BY <1>3, <1>11, <2>3, <2>6, <2>7 DEF IsCorpus
  <2>9. CorporaOnRecord(evidence', manifests')
    <3>1. \A c \in DOMAIN manifests' : c \in DOMAIN manifests' /\ manifests'[c] = manifests'[c]
      OBVIOUS
    <3> QED  BY <1>9, <2>2, <2>8, <3>1, CorporaStay
  <2> QED  BY <2>4, <2>9 DEF Frozen
<1> QED  BY <1>1, <1>10, <1>11

LEMMA FrozenKeeps ==
    ASSUME TrialInv, Finite, Frozen, [Next]_vars
    PROVE  Frozen'
<1>1. Grows(evidence, evidence')
  BY NextKeeps DEF Keeps
<1>2. \A c \in DOMAIN manifests : c \in DOMAIN manifests' /\ manifests'[c] = manifests[c]
  BY NextStays DEF Stays
<1>3. ASSUME \A i \in New(evidence, evidence') : /\ evidence'[i].kind # "corpus"
                                                 /\ Segment(evidence'[i]) => IsRange(evidence'[i].body.range)
      PROVE  Frozen'
  <2>1. RangesOnRecord(evidence')
    BY <1>1, <1>3, RangesStay DEF Frozen
  <2>2. CorporaOnRecord(evidence', manifests')
    BY <1>1, <1>2, <1>3, CorporaStay DEF Frozen
  <2> QED  BY <2>1, <2>2 DEF Frozen
<1>4. ASSUME NEW x \in bound.imports, Import(x[1], x[2], x[3]) PROVE Frozen'
  BY <1>3, <1>4, ImportGrows DEF CommandKinds
<1>5. ASSUME NEW p \in Procs, NEW cut, Freeze(p, cut) PROVE Frozen'
  BY <1>5, FreezeFrozen
<1>6. CASE Unfrozen
  BY <1>3, <1>6 DEF Unfrozen
<1> QED  BY <1>4, <1>5, <1>6, NextSilent

\* FrozenCorporaVerify, for every number of processes and whatever is imported,
\* frozen, written to the journal or cut off meanwhile: the manifest on file of a
\* frozen corpus is the one of its freeze event, everything it names stays on
\* record, and a rollout it calls captured has every line from the first on, merged
\* from segments in any order, under complete snapshots (corpus.go).
THEOREM FrozenCorporaStayFrozen == Spec => []FrozenCorporaVerify
<1>1. Init => Frozen
  BY CorpusAssumption DEF Init, TrialInit, CorpusInit, Frozen
<1>2. TrialInv /\ Finite /\ Frozen /\ [Next]_vars => Frozen'
  BY FrozenKeeps
<1>3. TrialInv /\ Frozen => FrozenCorporaVerify
  <2> SUFFICES ASSUME TrialInv, Frozen, NEW i \in OfKind(evidence, "corpus")
               PROVE  LET m == evidence[i].body
                      IN  /\ manifests[m.content] = m
                          /\ validateCorpusManifest(m) => VerifyCorpus(evidence, m.content)
                          /\ \A r \in m.content.rollouts : Whole(evidence, r)
    BY DEF FrozenCorporaVerify
  <2>1. IsCorpus(evidence, manifests, i) /\ i \in DOMAIN evidence
    BY DEF Frozen, CorporaOnRecord, IsCorpus, OfKind
  <2>2. Has(evidence, <<"corpus", evidence[i].body>>)
    BY <2>1 DEF Has, IsCorpus
  <2> QED  BY <2>1, <2>2 DEF VerifyCorpus, IsCorpus
<1> QED  BY <1>1, <1>2, <1>3, TrialInvariant, PTL DEF Spec

-----------------------------------------------------------------------------
(* What a supervised execution has on record.                              *)

\* An arm of a plan.
Armed(arm) == Planned(arm) /\ arm.condition \in {"baseline", "memory"}

\* What was found for the arm, after its contract, and what was delivered of it.
Found(e, r) ==
    /\ r.retrieval \in OfKind(e, "retrieval") /\ r.memory # "none"
    /\ e[r.retrieval].context = ContextOf(r.arm) /\ e[r.retrieval].parents = {}
    /\ e[r.retrieval].body = [memory |-> r.memory]
    /\ \E c \in DOMAIN e : c < r.retrieval /\ e[c].id = ContractID(r.arm)
Injected(e, r) ==
    /\ r.injection \in OfKind(e, "injection") /\ r.retrieval < r.injection
    /\ e[r.injection].context = ContextOf(r.arm) /\ e[r.injection].parents = {r.retrieval}
    /\ e[r.injection].body = [retrieval |-> r.retrieval, memory |-> r.memory]
Supplied(e, r) ==
    IF r.arm.condition = "baseline" THEN r.retrieval = NoEvent /\ r.injection = NoEvent /\ r.memory = "none"
    ELSE Found(e, r) /\ Injected(e, r)

\* The start, the result and the receipt of the execution.
Started(e, r, s) ==
    /\ s \in OfKind(e, "start") /\ r.injection < s
    /\ e[s].by = "supervisor" /\ e[s].context = ContextOf(r.arm)
    /\ e[s].body = [arm |-> r.arm, memory |-> r.memory]
    /\ \E c \in DOMAIN e : c < s /\ e[c].id = ContractID(r.arm) /\ e[s].parents = {c, r.injection} \ {NoEvent}
Resulted(e, arm, s, t, payload) ==
    /\ t \in OfKind(e, "tool_result") /\ s < t /\ e[t].id = ResultID(arm)
    /\ e[t].by = "supervisor" /\ e[t].context = ContextOf(arm)
    /\ e[t].parents = {s} /\ e[t].payload = payload
IsReceiptOf(x, r, s, t, payload) ==
    /\ x.arm = r.arm /\ x.start = s /\ x.result = t /\ x.payload = payload
    /\ x.retrieval = r.retrieval /\ x.injection = r.injection /\ x.memory = r.memory
Received(e, r, s, t, payload) ==
    \E i \in OfKind(e, "receipt") :
        /\ t < i /\ e[i].by = "supervisor" /\ e[i].context = ContextOf(r.arm) /\ e[i].parents = {s, t}
        /\ IsReceiptOf(e[i].body, r, s, t, payload)

\* The delivery is reported after the result.
Reported(e, r, t) ==
    /\ r.adoption \in OfKind(e, "adoption") /\ t < r.adoption
    /\ e[r.adoption].context = ContextOf(r.arm) /\ r.injection \in e[r.adoption].parents
    /\ e[r.adoption].body.injection = r.injection

\* A request that an execution handed out.
Executed(e, r, s, t) ==
    /\ Started(e, r, s) /\ Resulted(e, r.arm, s, t, e[t].payload) /\ Received(e, r, s, t, e[t].payload)
    /\ IF r.arm.condition = "baseline" THEN r.adoption = NoEvent ELSE Reported(e, r, t)
HandedOut(e, r) ==
    /\ Armed(r.arm) /\ IsRequest(r) /\ Supplied(e, r)
    /\ \E s, t \in DOMAIN e : Executed(e, r, s, t)

\* A process at a place of a trial, with its job.
Executing == {"retrieve", "inject", "start", "run", "result", "receipt", "adopt"}
Aimed(e, r) == Armed(r.arm) /\ IsRequest(r) /\ r.adoption = NoEvent /\ Has(e, ContractID(r.arm))
Doing(e, l, j) ==
    LET r == j.request
    IN  /\ l \in Executing => Aimed(e, r)
        /\ l \in {"retrieve", "inject", "adopt"} => r.arm.condition = "memory"
        /\ l = "inject" => Found(e, r)
        /\ l \in {"start", "run", "result", "receipt", "adopt"} => Supplied(e, r)
        /\ l \in {"run", "result", "receipt", "adopt"} => Started(e, r, j.start)
        /\ l \in {"receipt", "adopt"} => Resulted(e, r.arm, j.start, j.result, j.payload)
        /\ l = "adopt" => Received(e, r, j.start, j.result, j.payload)
        /\ l = "verdict" => Decided(e, r.arm, Len(e))

Trialing ==
    /\ OriginsOnRecord(evidence) /\ VerdictsOnRecord(evidence)
    /\ \A p \in Procs : Doing(evidence, pc[p], job[p])
    /\ \A r \in handed : HandedOut(evidence, r)

\* A longer ledger has the same events.
LEMMA SameThere ==
    ASSUME NEW e, NEW s, Grows(e, s)
    PROVE  /\ \A i \in DOMAIN e : i \in DOMAIN s /\ s[i] = e[i]
           /\ \A k : \A i \in OfKind(e, k) : i \in DOMAIN e /\ i \in OfKind(s, k) /\ s[i] = e[i]
           /\ Len(e) \in Nat /\ Len(s) \in Nat /\ Len(e) <= Len(s)
           /\ DOMAIN e = 1..Len(e) /\ DOMAIN s = 1..Len(s)
BY DEF Grows, OfKind

\* The parts of an execution stay on record.
LEMMA SuppliesStay ==
    ASSUME NEW e, NEW s, Grows(e, s), NEW r
    PROVE  /\ Aimed(e, r) => Aimed(s, r)
           /\ Found(e, r) => Found(s, r)
           /\ Supplied(e, r) => Supplied(s, r)
<1>1. Aimed(e, r) => Aimed(s, r)
  BY SameThere DEF Aimed, Has
<1>2. Found(e, r) => Found(s, r)
  BY SameThere DEF Found
<1>3. Injected(e, r) => Injected(s, r)
  BY SameThere DEF Injected
<1> QED  BY <1>1, <1>2, <1>3 DEF Supplied

LEMMA ExecutionStays ==
    ASSUME NEW e, NEW s, Grows(e, s), NEW r, NEW x, NEW t, NEW payload
    PROVE  /\ Started(e, r, x) => Started(s, r, x)
           /\ Resulted(e, r.arm, x, t, payload) => Resulted(s, r.arm, x, t, payload)
           /\ Received(e, r, x, t, payload) => Received(s, r, x, t, payload)
           /\ Reported(e, r, t) => Reported(s, r, t)
<1>1. Started(e, r, x) => Started(s, r, x)
  BY SameThere DEF Started
<1>2. Resulted(e, r.arm, x, t, payload) => Resulted(s, r.arm, x, t, payload)
  BY SameThere DEF Resulted
<1>3. Received(e, r, x, t, payload) => Received(s, r, x, t, payload)
  BY SameThere DEF Received
<1>4. Reported(e, r, t) => Reported(s, r, t)
  BY SameThere DEF Reported
<1> QED  BY <1>1, <1>2, <1>3, <1>4

\* A verdict may come later.
LEMMA DecisionStays ==
    ASSUME NEW e, NEW s, Grows(e, s), NEW arm, NEW v \in Int, NEW w \in Int, v <= w, Decided(e, arm, v)
    PROVE  Decided(s, arm, w)
<1>1. PICK c \in DOMAIN e, t \in DOMAIN e :
          /\ c < t /\ t <= v
          /\ e[c].id = ContractID(arm) /\ e[t].id = ResultID(arm)
          /\ arm.condition = "memory" => \E a \in OfKind(e, "adoption"), i \in OfKind(e, "injection") :
                 /\ t < a /\ a <= v /\ e[a].body.injection = i
                 /\ c < i /\ i <= t /\ e[i].context = ContextOf(arm)
  BY DEF Decided
<1>2. c \in DOMAIN s /\ t \in DOMAIN s /\ s[c] = e[c] /\ s[t] = e[t] /\ t \in Int
  BY SameThere
<1>3. t <= w
  BY <1>1, <1>2
<1>4. arm.condition = "memory" => \E a \in OfKind(s, "adoption"), i \in OfKind(s, "injection") :
          /\ t < a /\ a <= w /\ s[a].body.injection = i
          /\ c < i /\ i <= t /\ s[i].context = ContextOf(arm)
  <2> SUFFICES ASSUME arm.condition = "memory"
               PROVE  \E a \in OfKind(s, "adoption"), i \in OfKind(s, "injection") :
                          /\ t < a /\ a <= w /\ s[a].body.injection = i
                          /\ c < i /\ i <= t /\ s[i].context = ContextOf(arm)
    OBVIOUS
  <2>1. PICK a \in OfKind(e, "adoption"), i \in OfKind(e, "injection") :
            /\ t < a /\ a <= v /\ e[a].body.injection = i
            /\ c < i /\ i <= t /\ e[i].context = ContextOf(arm)
    BY <1>1
  <2>2. a \in OfKind(s, "adoption") /\ i \in OfKind(s, "injection") /\ s[a] = e[a] /\ s[i] = e[i] /\ a \in Int
    BY SameThere
  <2>3. a <= w
    BY <2>1, <2>2
  <2> QED  BY <2>1, <2>2, <2>3
<1> QED  BY <1>1, <1>2, <1>3, <1>4 DEF Decided

LEMMA DoingStays ==
    ASSUME NEW e, NEW s, Grows(e, s), NEW l, NEW j, Doing(e, l, j)
    PROVE  Doing(s, l, j)
<1>1. Len(e) \in Int /\ Len(s) \in Int /\ Len(e) <= Len(s)
  BY SameThere
<1>2. Decided(e, j.request.arm, Len(e)) => Decided(s, j.request.arm, Len(s))
  BY <1>1, DecisionStays
<1> QED  BY <1>2, SuppliesStay, ExecutionStays DEF Doing

LEMMA HandedStays ==
    ASSUME NEW e, NEW s, Grows(e, s), NEW r, HandedOut(e, r)
    PROVE  HandedOut(s, r)
<1>1. PICK x \in DOMAIN e, t \in DOMAIN e : Executed(e, r, x, t)
  BY DEF HandedOut
<1>2. x \in DOMAIN s /\ t \in DOMAIN s /\ s[t] = e[t]
  BY SameThere
<1>3. Executed(s, r, x, t)
  BY <1>1, <1>2, ExecutionStays DEF Executed
<1>4. Supplied(s, r)
  BY SuppliesStay DEF HandedOut
<1> QED  BY <1>2, <1>3, <1>4 DEF HandedOut

\* Neither a plan, nor a contract or a verdict.
Ordinary(x) == x.kind # "plan" /\ x.id[1] \notin {"contract", "verdict"}

\* Plans and contracts come from where they came.
LEMMA OriginsGrow ==
    ASSUME NEW e, NEW s, Grows(e, s), OriginsOnRecord(e),
           \A i \in New(e, s) :
               /\ s[i].kind = "plan" => s[i].parents = {}
               /\ s[i].id[1] = "contract" =>
                      s[i].context = ContextOf(s[i].body) /\ s[i].parents \subseteq OfKind(s, "plan")
    PROVE  OriginsOnRecord(s)
<1>1. ASSUME NEW i \in OfKind(s, "plan") PROVE s[i].parents = {}
  <2>1. i \in 1..Len(s) /\ s[i].kind = "plan"
    BY SameThere DEF OfKind
  <2>2. CASE i \in 1..Len(e) /\ s[i] = e[i]
    <3>1. i \in OfKind(e, "plan")
      BY <2>1, <2>2, SameThere DEF OfKind
    <3> QED  BY <2>2, <3>1 DEF OriginsOnRecord
  <2> QED  BY <2>1, <2>2, OldOrNew
<1>2. ASSUME NEW i \in DOMAIN s, s[i].id[1] = "contract"
      PROVE  s[i].context = ContextOf(s[i].body) /\ s[i].parents \subseteq OfKind(s, "plan")
  <2>1. i \in 1..Len(s)
    BY SameThere
  <2>2. CASE i \in 1..Len(e) /\ s[i] = e[i]
    <3>1. s[i].context = ContextOf(s[i].body) /\ s[i].parents \subseteq OfKind(e, "plan")
      BY <1>2, <2>2, SameThere DEF OriginsOnRecord
    <3> QED  BY <3>1, SameThere
  <2> QED  BY <1>2, <2>1, <2>2, OldOrNew
<1> QED  BY <1>1, <1>2 DEF OriginsOnRecord

\* Verdicts stay the ones of their arms.
LEMMA OldVerdictStays ==
    ASSUME NEW e, NEW s, Grows(e, s), VerdictsOnRecord(e), NEW i \in 1..Len(e), e[i].id[1] = "verdict", s[i] = e[i]
    PROVE  /\ Decided(s, s[i].body.arm, i - 1)
           /\ loadIndexedRecords(s) => s[i] = VerdictEvent(s, s[i].body.arm)
<1> DEFINE arm == e[i].body.arm
<1>1. i \in DOMAIN e /\ i - 1 \in Int /\ IsLog(e)
  BY SameThere DEF Grows
<1>2. Decided(e, arm, i - 1) /\ (loadIndexedRecords(e) => e[i] = VerdictEvent(e, arm))
  BY <1>1 DEF VerdictsOnRecord
<1>3. s[i].body.arm = arm
  OBVIOUS
<1> HIDE DEF arm
<1>4. Decided(s, arm, i - 1)
  BY <1>1, <1>2, DecisionStays
<1>5. ASSUME loadIndexedRecords(s) PROVE s[i] = VerdictEvent(s, arm)
  <2>1. Bounded(e, arm)
    BY <1>2 DEF Decided, Bounded, Has
  <2>2. loadIndexedRecords(e) /\ At(s, ResultID(arm)) = At(e, ResultID(arm))
    BY <1>5, <2>1, IdsStay DEF Bounded
  <2>3. materializeBuiltinVerdict(s, arm) = materializeBuiltinVerdict(e, arm)
    BY <1>5, <2>1, VerdictStays
  <2> QED  BY <1>2, <2>2, <2>3 DEF VerdictEvent
<1> QED  BY <1>3, <1>4, <1>5

LEMMA VerdictsGrow ==
    ASSUME NEW e, NEW s, Grows(e, s), VerdictsOnRecord(e),
           \A i \in New(e, s) : s[i].id[1] = "verdict" =>
               /\ Decided(s, s[i].body.arm, i - 1)
               /\ loadIndexedRecords(s) => s[i] = VerdictEvent(s, s[i].body.arm)
    PROVE  VerdictsOnRecord(s)
<1> SUFFICES ASSUME NEW i \in DOMAIN s, s[i].id[1] = "verdict"
             PROVE  /\ Decided(s, s[i].body.arm, i - 1)
                    /\ loadIndexedRecords(s) => s[i] = VerdictEvent(s, s[i].body.arm)
  BY DEF VerdictsOnRecord
<1>1. i \in 1..Len(s)
  BY SameThere
<1>2. CASE i \in 1..Len(e) /\ s[i] = e[i]
  BY <1>2, OldVerdictStays
<1> QED  BY <1>1, <1>2, OldOrNew

\* A step that moves nobody in a trial unless it says how.
LEMMA TrialingStep ==
    ASSUME Trialing, Grows(evidence, evidence'),
           OriginsOnRecord(evidence'), VerdictsOnRecord(evidence'),
           \A q \in Procs : Kept(q) \/ Doing(evidence', pc'[q], job'[q]),
           \A r \in handed' : r \in handed \/ HandedOut(evidence', r)
    PROVE  Trialing'
<1>1. ASSUME NEW q \in Procs PROVE Doing(evidence', pc'[q], job'[q])
  <2>1. CASE Kept(q)
    <3>1. Doing(evidence, pc[q], job[q])
      BY DEF Trialing
    <3>2. Doing(evidence', pc[q], job[q])
      BY <3>1, DoingStays
    <3> QED  BY <2>1, <3>2 DEF Kept
  <2> QED  BY <2>1
<1>2. ASSUME NEW r \in handed' PROVE HandedOut(evidence', r)
  <2>1. CASE r \in handed
    <3>1. HandedOut(evidence, r)
      BY <2>1 DEF Trialing
    <3> QED  BY <3>1, HandedStays
  <2> QED  BY <2>1
<1> QED  BY <1>1, <1>2 DEF Trialing

\* The new records are ordinary.
LEMMA OrdinaryRecords ==
    ASSUME NEW e, NEW s, Grows(e, s), OriginsOnRecord(e), VerdictsOnRecord(e),
           \A i \in New(e, s) : Ordinary(s[i])
    PROVE  OriginsOnRecord(s) /\ VerdictsOnRecord(s)
<1>1. OriginsOnRecord(s)
  BY OriginsGrow DEF Ordinary
<1>2. VerdictsOnRecord(s)
  BY VerdictsGrow DEF Ordinary
<1> QED  BY <1>1, <1>2

\* Outside trials, nothing is done in one.
TrialPlaces == Executing \cup {"verdict"}

LEMMA DoingNothing ==
    ASSUME NEW e, NEW l, l \notin TrialPlaces, NEW j
    PROVE  Doing(e, l, j)
BY DEF Doing, TrialPlaces, Executing

\* No process moves in a trial, and the new records are ordinary.
LEMMA QuietTrials ==
    ASSUME Trialing, Grows(evidence, evidence'), handed' = handed,
           \A i \in New(evidence, evidence') : Ordinary(evidence'[i]),
           \A q \in Procs : Kept(q) \/ pc'[q] \notin TrialPlaces
    PROVE  Trialing'
<1>1. OriginsOnRecord(evidence') /\ VerdictsOnRecord(evidence')
  BY OrdinaryRecords DEF Trialing
<1>2. \A q \in Procs : Kept(q) \/ Doing(evidence', pc'[q], job'[q])
  BY DoingNothing
<1> QED  BY <1>1, <1>2, TrialingStep

\* Process p goes to l with the job j.
LEMMA ProcessDoes ==
    ASSUME TrialInv, Trialing, NEW p \in Procs, NEW l, NEW j,
           pc' = [pc EXCEPT ![p] = l], job' = [job EXCEPT ![p] = j], Grows(evidence, evidence'),
           OriginsOnRecord(evidence'), VerdictsOnRecord(evidence'), Doing(evidence', l, j),
           \A r \in handed' : r \in handed \/ HandedOut(evidence', r)
    PROVE  Trialing'
<1>1. pc = [q \in Procs |-> pc[q]] /\ job = [q \in Procs |-> job[q]]
  BY DEF TrialInv, Shapes
<1>2. pc'[p] = l /\ job'[p] = j /\ \A q \in Procs \ {p} : pc'[q] = pc[q] /\ job'[q] = job[q]
  BY <1>1
<1>3. \A q \in Procs : Kept(q) \/ Doing(evidence', pc'[q], job'[q])
  BY <1>2 DEF Kept
<1> QED  BY <1>3, TrialingStep

\* One ordinary record more.
LEMMA OrdinaryAppend ==
    ASSUME TrialInv, Trialing, NEW x, Ordinary(x), evidence' = Append(evidence, x)
    PROVE  /\ Grows(evidence, evidence') /\ OriginsOnRecord(evidence') /\ VerdictsOnRecord(evidence')
           /\ Next1 \in DOMAIN evidence' /\ evidence'[Next1] = x /\ Next1 \in Nat \ {0}
           /\ \A i \in DOMAIN evidence : i \in Nat /\ i < Next1
<1>1. /\ Grows(evidence, evidence') /\ Len(evidence') = Len(evidence) + 1
      /\ \A i \in New(evidence, evidence') : i = Len(evidence) + 1 /\ evidence'[i] = x
  BY AppendOne
<1>2. OriginsOnRecord(evidence') /\ VerdictsOnRecord(evidence')
  BY <1>1, OrdinaryRecords DEF Trialing
<1>3. Next1 \in New(evidence, evidence') /\ Next1 \in DOMAIN evidence' /\ Next1 \in Nat \ {0}
  BY <1>1, SameThere DEF New, Next1
<1>4. \A i \in DOMAIN evidence : i \in Nat /\ i < Next1
  BY <1>1, SameThere DEF Next1
<1> QED  BY <1>1, <1>2, <1>3, <1>4

\* A command ends.
LEMMA ReturnTrials ==
    ASSUME TrialInv, Trialing, NEW p \in Procs, Return(p), Grows(evidence, evidence'),
           OriginsOnRecord(evidence'), VerdictsOnRecord(evidence'),
           \A r \in handed' : r \in handed \/ HandedOut(evidence', r)
    PROVE  Trialing'
<1>1. Doing(evidence', "idle", NoJob)
  BY DoingNothing DEF TrialPlaces, Executing
<1> QED  BY <1>1, ProcessDoes DEF Return, Goto

\* Nobody moves.
LEMMA StillTrials ==
    ASSUME TrialInv, Trialing, pc' = pc, job' = job, handed' = handed, Grows(evidence, evidence'),
           OriginsOnRecord(evidence'), VerdictsOnRecord(evidence')
    PROVE  Trialing'
BY TrialingStep DEF Kept

\* A plan and its contracts.
LEMMA PreregisterTrialPlanTrials ==
    ASSUME TrialInv, Trialing, NEW plan \in bound.plans, PreregisterTrialPlan(plan)
    PROVE  Trialing'
<1> DEFINE arms == ArmsOf(plan)
           n == 2 * Cardinality(plan.cards)
           head == <<Event(PlanID(plan), "plan", <<"plan">>, "evaluation", {}, "plan", plan)>>
           tail == [k \in DOMAIN arms |->
                       Event(ContractID(arms[k]), "contract", ContextOf(arms[k]), "oracle", {Next1},
                             "contract", arms[k])]
           batch == PlanBatch(plan)
<1>1. plan \in Plans
  BY ProfileAssumption DEF TrialInv, Shapes
<1>2. n \in Nat /\ DOMAIN arms = 1..n
  BY <1>1, ArmsMean
<1>3. batch = head \o tail
  BY DEF PlanBatch
<1>4. IsLog(head) /\ Len(head) = 1 /\ head[1].kind = "plan" /\ head[1].parents = {} /\ head[1].id[1] = "plan"
  BY DEF IsLog, Event, PlanID
<1> HIDE DEF arms, head, batch, n
<1>5. /\ DOMAIN tail = 1..n
      /\ \A k \in 1..n : /\ tail[k].id[1] = "contract" /\ tail[k].kind = "contract"
                         /\ tail[k].context = ContextOf(tail[k].body) /\ tail[k].parents = {Next1}
  BY <1>2 DEF Event, ContractID
<1>6. IsLog(tail) /\ Len(tail) = n
  <2>1. tail = [k \in 1..n |-> tail[k]]
    BY <1>2
  <2> HIDE DEF tail
  <2> QED  BY <1>2, <2>1, ListIsLog
<1> HIDE DEF tail
<1>7. /\ IsLog(batch) /\ Len(batch) = 1 + n
      /\ batch[1] = head[1] /\ \A k \in 1..n : batch[1 + k] = tail[k]
  <2>1. /\ Grows(head, head \o tail) /\ Len(head \o tail) = Len(head) + Len(tail)
        /\ \A k \in 1..Len(tail) : (head \o tail)[Len(head) + k] = tail[k]
    BY <1>4, <1>6, LogsJoin
  <2>2. Grows(head, batch) /\ Len(batch) = 1 + n /\ \A k \in 1..n : batch[1 + k] = tail[k]
    BY <1>3, <1>4, <1>6, <2>1
  <2> QED  BY <1>4, <2>2 DEF Grows
<1>8. pc' = pc /\ job' = job /\ handed' = handed /\ evidence' = evidence \o batch
  BY DEF PreregisterTrialPlan, batch
<1>9. /\ Grows(evidence, evidence') /\ Len(evidence') = Len(evidence) + 1 + n /\ Len(evidence) \in Nat
      /\ \A k \in 1..1 + n : evidence'[Len(evidence) + k] = batch[k]
  <2>1. IsLog(evidence) /\ Len(evidence) \in Nat
    BY LogPositions DEF TrialInv, Shapes
  <2>2. /\ Grows(evidence, evidence \o batch) /\ Len(evidence \o batch) = Len(evidence) + Len(batch)
        /\ \A k \in 1..Len(batch) : (evidence \o batch)[Len(evidence) + k] = batch[k]
    <3>1. IsLog(evidence) /\ IsLog(batch)
      BY <1>7, <2>1
    <3> QED  BY <3>1, LogsJoin
  <2> QED  BY <1>2, <1>7, <1>8, <2>1, <2>2
<1>10. Next1 \in OfKind(evidence', "plan")
  <2>1. 1 \in 1..1 + n /\ Next1 \in 1..Len(evidence')
    BY <1>2, <1>9 DEF Next1
  <2>2. evidence'[Next1] = head[1]
    BY <1>7, <1>9, <2>1 DEF Next1
  <2> QED  BY <1>4, <1>9, <2>1, <2>2, SameThere DEF OfKind
<1>11. ASSUME NEW i \in New(evidence, evidence')
       PROVE  \/ evidence'[i] = head[1]
              \/ \E k \in 1..n : evidence'[i] = tail[k]
  <2>1. i - Len(evidence) \in 1..1 + n /\ i = Len(evidence) + (i - Len(evidence))
    BY <1>2, <1>9 DEF New, Grows
  <2>2. evidence'[i] = batch[i - Len(evidence)]
    BY <1>9, <2>1
  <2>3. i - Len(evidence) = 1 \/ \E k \in 1..n : i - Len(evidence) = 1 + k
    <3>1. i - Len(evidence) = 1 \/ (i - Len(evidence) - 1 \in 1..n /\ i - Len(evidence) = 1 + (i - Len(evidence) - 1))
      BY <1>2, <1>9, <2>1 DEF New
    <3> QED  BY <3>1
  <2> QED  BY <1>7, <2>2, <2>3
<1>12. OriginsOnRecord(evidence')
  <2>1. \A i \in New(evidence, evidence') :
            /\ evidence'[i].kind = "plan" => evidence'[i].parents = {}
            /\ evidence'[i].id[1] = "contract" =>
                   /\ evidence'[i].context = ContextOf(evidence'[i].body)
                   /\ evidence'[i].parents \subseteq OfKind(evidence', "plan")
    BY <1>4, <1>5, <1>10, <1>11
  <2> QED  BY <1>9, <2>1, OriginsGrow DEF Trialing
<1>13. VerdictsOnRecord(evidence')
  <2>1. \A i \in New(evidence, evidence') : evidence'[i].id[1] # "verdict"
    BY <1>4, <1>5, <1>11
  <2> QED  BY <1>9, <2>1, VerdictsGrow DEF Trialing
<1> QED  BY <1>8, <1>9, <1>12, <1>13, StillTrials

\* A contract outside plans.
LEMMA PreregisterTaskAttemptTrials ==
    ASSUME TrialInv, Trialing, NEW arm, PreregisterTaskAttempt(arm)
    PROVE  Trialing'
<1> DEFINE x == Event(ContractID(arm), "contract", ContextOf(arm), "oracle", {}, "contract", arm)
<1>1. pc' = pc /\ job' = job /\ handed' = handed /\ evidence' = Append(evidence, x)
  BY DEF PreregisterTaskAttempt, Append1
<1>2. x.kind = "contract" /\ x.id[1] = "contract" /\ x.context = ContextOf(x.body) /\ x.parents = {}
  BY DEF Event, ContractID
<1> HIDE DEF x
<1>3. Grows(evidence, evidence') /\ \A i \in New(evidence, evidence') : evidence'[i] = x
  BY <1>1, AppendOne
<1>4. OriginsOnRecord(evidence')
  BY <1>2, <1>3, OriginsGrow DEF Trialing
<1>5. VerdictsOnRecord(evidence')
  BY <1>2, <1>3, VerdictsGrow DEF Trialing
<1> QED  BY <1>1, <1>3, <1>4, <1>5, StillTrials

\* What else happens in a thread.
LEMMA ThreadTrials ==
    ASSUME TrialInv, Trialing, NEW context,
           \/ \E x \in bound.events, linked \in BOOLEAN : Work(context, x[1], x[2], linked)
           \/ Deliver(context)
           \/ \E i, outcome : ReportAdoption(i, outcome)
    PROVE  Trialing'
<1>1. pc' = pc /\ job' = job /\ handed' = handed
  BY DEF Work, Deliver, ReportAdoption
<1>2. ASSUME NEW x \in bound.events, NEW linked \in BOOLEAN, Work(context, x[1], x[2], linked)
      PROVE  \E y : evidence' = Append(evidence, y) /\ Ordinary(y)
  <2> DEFINE y == Event(Fresh(x[1]), x[1], context, "capture",
                        IF linked THEN {LastOf(context)} \ {NoEvent} ELSE {}, x[2], x[1])
  <2>1. evidence' = Append(evidence, y)
    BY <1>2 DEF Work, Append1
  <2>2. x[1] \notin CommandKinds \cup {"verdict"}
    BY ProfileAssumption DEF TrialInv, Shapes
  <2>3. y.kind = x[1] /\ y.id[1] = x[1]
    BY DEF Event, Fresh
  <2>4. Ordinary(y)
    BY <2>2, <2>3 DEF Ordinary, CommandKinds
  <2> HIDE DEF y
  <2> QED  BY <2>1, <2>4
<1>3. ASSUME NEW i, NEW outcome, ReportAdoption(i, outcome)
      PROVE  \E y : evidence' = Append(evidence, y) /\ Ordinary(y)
  <2> DEFINE y == Event(Fresh("adoption"), "adoption", evidence[i].context, "retrieval",
                        {evidence[i].body.retrieval, i}, "adoption",
                        [injection |-> i, adopted |-> TRUE, outcome |-> outcome])
  <2>1. evidence' = Append(evidence, y)
    BY <1>3 DEF ReportAdoption, Append1
  <2>2. Ordinary(y)
    BY DEF Ordinary, Event, Fresh
  <2> HIDE DEF y
  <2> QED  BY <2>1, <2>2
<1>4. CASE \E y : evidence' = Append(evidence, y) /\ Ordinary(y)
  BY <1>1, <1>4, OrdinaryAppend, StillTrials
<1>5. CASE Deliver(context)
  <2> DEFINE x == Event(Fresh("retrieval"), "retrieval", context, "retrieval", {}, "retrieval",
                        [memory |-> "fits"])
             y == Event(<<"injection", Next1 + 1>>, "injection", context, "retrieval", {Next1}, "injection",
                        [retrieval |-> Next1, memory |-> "fits"])
             b == <<x, y>>
  <2>1. evidence' = evidence \o b
    BY <1>5 DEF Deliver
  <2>2. Ordinary(x) /\ Ordinary(y)
    BY DEF Ordinary, Event, Fresh
  <2> HIDE DEF x, y
  <2>3. IsLog(b) /\ Len(b) = 2 /\ b[1] = x /\ b[2] = y
    BY DEF IsLog
  <2> HIDE DEF b
  <2>4. IsLog(evidence) /\ Len(evidence) \in Nat
    BY LogPositions DEF TrialInv, Shapes
  <2>5. /\ Grows(evidence, evidence \o b) /\ Len(evidence \o b) = Len(evidence) + Len(b)
        /\ \A k \in 1..Len(b) : (evidence \o b)[Len(evidence) + k] = b[k]
    <3>1. IsLog(evidence) /\ IsLog(b)
      BY <2>3, <2>4
    <3> QED  BY <3>1, LogsJoin
  <2>6. \A i \in New(evidence, evidence') : i = Len(evidence) + 1 \/ i = Len(evidence) + 2
    BY <2>1, <2>3, <2>4, <2>5 DEF New
  <2>7. \A i \in New(evidence, evidence') : Ordinary(evidence'[i])
    BY <2>1, <2>2, <2>3, <2>5, <2>6
  <2>8. OriginsOnRecord(evidence') /\ VerdictsOnRecord(evidence')
    BY <2>1, <2>5, <2>7, OrdinaryRecords DEF Trialing
  <2> QED  BY <1>1, <2>1, <2>5, <2>8, StillTrials
<1> QED  BY <1>2, <1>3, <1>4, <1>5

\* A map of jobs, and its changes to the job of a process.
Mapped(f, S) == f = [q \in S |-> f[q]]
WithJob(f, p, j) == [f EXCEPT ![p] = j]
WithRequest(f, p, x) == [f EXCEPT ![p].request = x]
WithStart(f, p, x) == [f EXCEPT ![p].start = x]
WithOutcome(f, p, x, y) == [f EXCEPT ![p].payload = x, ![p].outcome = y]
WithResult(f, p, x) == [f EXCEPT ![p].result = x]
WithRetrieval(f, p, x, y) == [f EXCEPT ![p].request.retrieval = x, ![p].request.memory = y]
WithInjection(f, p, x) == [f EXCEPT ![p].request.injection = x]

\* A request that is bound to what was found, or to what was delivered.
Retrieved(r, x, y) ==
    [arm |-> r.arm, retrieval |-> x, injection |-> r.injection, adoption |-> r.adoption, memory |-> y]
Delivered(r, x) ==
    [arm |-> r.arm, retrieval |-> r.retrieval, injection |-> x, adoption |-> r.adoption, memory |-> r.memory]

\* A job that has another request, and one that differs in what an execution adds.
LEMMA JobAfter ==
    ASSUME NEW f, NEW S, Mapped(f, S), NEW p \in S, IsJob(f[p]), NEW x, NEW y
    PROVE  /\ \E j : /\ WithRequest(f, p, x) = WithJob(f, p, j) /\ j.request = x
           /\ \E j : /\ WithStart(f, p, x) = WithJob(f, p, j)
                     /\ j.request = f[p].request /\ j.start = x
           /\ \E j : /\ WithOutcome(f, p, x, y) = WithJob(f, p, j)
                     /\ j.request = f[p].request /\ j.start = f[p].start
           /\ \E j : /\ WithResult(f, p, x) = WithJob(f, p, j)
                     /\ j.request = f[p].request /\ j.start = f[p].start
                     /\ j.result = x /\ j.payload = f[p].payload
<1>1. \E j : WithRequest(f, p, x) = WithJob(f, p, j) /\ j.request = x
  <2> DEFINE j == [f[p] EXCEPT !.request = x]
  <2>1. WithRequest(f, p, x) = WithJob(f, p, j)
    BY JobsWith DEF Mapped, WithJob, WithRequest
  <2>2. j.request = x
    BY JobFields
  <2> HIDE DEF j
  <2> QED  BY <2>1, <2>2
<1>2. \E j : /\ WithStart(f, p, x) = WithJob(f, p, j)
             /\ j.request = f[p].request /\ j.start = x
  <2> DEFINE j == [f[p] EXCEPT !.start = x]
  <2>1. WithStart(f, p, x) = WithJob(f, p, j)
    BY JobsWith DEF Mapped, WithJob, WithStart
  <2>2. j.request = f[p].request /\ j.start = x
    BY JobFields
  <2> HIDE DEF j
  <2> QED  BY <2>1, <2>2
<1>3. \E j : /\ WithOutcome(f, p, x, y) = WithJob(f, p, j)
             /\ j.request = f[p].request /\ j.start = f[p].start
  <2> DEFINE h == [f[p] EXCEPT !.payload = x]
             j == [h EXCEPT !.outcome = y]
  <2>1. WithOutcome(f, p, x, y) = WithJob(f, p, j)
    BY JobsWith DEF Mapped, WithJob, WithOutcome
  <2>2. h = [request |-> f[p].request, start |-> f[p].start, payload |-> x,
             outcome |-> f[p].outcome, result |-> f[p].result, held |-> f[p].held]
    BY JobFields
  <2> HIDE DEF h
  <2>3. IsJob(h) /\ h.request = f[p].request /\ h.start = f[p].start
    BY <2>2 DEF IsJob
  <2>4. j.request = h.request /\ j.start = h.start
    BY <2>3, JobFields
  <2> HIDE DEF j
  <2> QED  BY <2>1, <2>3, <2>4
<1>4. \E j : /\ WithResult(f, p, x) = WithJob(f, p, j)
             /\ j.request = f[p].request /\ j.start = f[p].start
             /\ j.result = x /\ j.payload = f[p].payload
  <2> DEFINE j == [f[p] EXCEPT !.result = x]
  <2>1. WithResult(f, p, x) = WithJob(f, p, j)
    BY JobsWith DEF Mapped, WithJob, WithResult
  <2>2. j.request = f[p].request /\ j.start = f[p].start /\ j.result = x /\ j.payload = f[p].payload
    BY JobFields
  <2> HIDE DEF j
  <2> QED  BY <2>1, <2>2
<1> QED  BY <1>1, <1>2, <1>3, <1>4

\* A change of the jobs is a change of the request of process p to r.
Requests(f, p, g, r) == \E j : g = WithJob(f, p, j) /\ j.request = r

\* A job whose request is bound to more.
LEMMA RequestAfter ==
    ASSUME NEW f, NEW S, Mapped(f, S), NEW p \in S, IsJob(f[p]), IsRequest(f[p].request), NEW x, NEW y
    PROVE  /\ Requests(f, p, WithRetrieval(f, p, x, y), Retrieved(f[p].request, x, y))
           /\ Requests(f, p, WithInjection(f, p, x), Delivered(f[p].request, x))
<1>1. Requests(f, p, WithRetrieval(f, p, x, y), Retrieved(f[p].request, x, y))
  <2> DEFINE q == [f[p].request EXCEPT !.retrieval = x]
             n == [q EXCEPT !.memory = y]
             j == [f[p] EXCEPT !.request = n]
  <2>1. WithRetrieval(f, p, x, y) = WithJob(f, p, j)
    <3> DEFINE z == [f[p] EXCEPT !.request = [[f[p].request EXCEPT !.retrieval = x] EXCEPT !.memory = y]]
    <3>1. z = j
      OBVIOUS
    <3>2. f = [a \in S |-> f[a]] /\ WithRetrieval(f, p, x, y) =
            [f EXCEPT ![p].request.retrieval = x, ![p].request.memory = y]
      BY DEF Mapped, WithRetrieval
    <3> HIDE DEF j
    <3>3. WithRetrieval(f, p, x, y) = [f EXCEPT ![p] = z]
      BY <3>2
    <3> HIDE DEF z
    <3> QED  BY <3>1, <3>3 DEF WithJob
  <2>2. q = [arm |-> f[p].request.arm, retrieval |-> x, injection |-> f[p].request.injection, adoption |-> f[p].request.adoption,
             memory |-> f[p].request.memory]
    BY RequestFields
  <2> HIDE DEF q
  <2>3. /\ IsRequest(q) /\ q.arm = f[p].request.arm /\ q.retrieval = x /\ q.injection = f[p].request.injection
        /\ q.adoption = f[p].request.adoption
    BY <2>2 DEF IsRequest
  <2>4. n = [arm |-> q.arm, retrieval |-> q.retrieval, injection |-> q.injection, adoption |-> q.adoption,
             memory |-> y]
    BY <2>3, RequestFields
  <2> HIDE DEF n
  <2>5. j.request = n
    BY JobFields
  <2> HIDE DEF j
  <2> QED  BY <2>1, <2>3, <2>4, <2>5 DEF Retrieved, Requests
<1>2. Requests(f, p, WithInjection(f, p, x), Delivered(f[p].request, x))
  <2> DEFINE n == [f[p].request EXCEPT !.injection = x]
             j == [f[p] EXCEPT !.request = n]
  <2>1. WithInjection(f, p, x) = WithJob(f, p, j)
    BY JobsWith DEF Mapped, WithJob, WithInjection
  <2>2. n = [arm |-> f[p].request.arm, retrieval |-> f[p].request.retrieval, injection |-> x, adoption |-> f[p].request.adoption,
             memory |-> f[p].request.memory]
    BY RequestFields
  <2> HIDE DEF n
  <2>3. j.request = n
    BY JobFields
  <2> HIDE DEF j
  <2> QED  BY <2>1, <2>2, <2>3 DEF Delivered, Requests
<1> QED  BY <1>1, <1>2

\* The arms of plans.
LEMMA ArmsArmed ==
    ASSUME TrialInv, NEW arm \in Arms(evidence)
    PROVE  Armed(arm)
<1>1. PICK i \in OfKind(evidence, "plan") : arm \in ToSet(ArmsOf(evidence[i].body))
  BY DEF Arms
<1> DEFINE plan == evidence[i].body
<1>2. plan \in Plans
  BY <1>1 DEF TrialInv, PlansOnRecord
<1>3. arm \in ToSet(ArmsOf(plan))
  BY <1>1
<1> HIDE DEF plan
<1>4. PICK k \in DOMAIN ArmsOf(plan) : arm = ArmsOf(plan)[k]
  BY <1>3 DEF ToSet
<1>5. arm = Arm(plan, Nth(plan.cards, (k + 1) \div 2), IF k % 2 = 1 THEN "baseline" ELSE "memory")
  BY <1>2, <1>4, ArmsMean
<1>6. arm.plan = plan /\ arm.condition \in {"baseline", "memory"}
  BY <1>5 DEF Arm
<1>7. plan # Unplanned
  BY <1>2, ArmsMean
<1> QED  BY <1>6, <1>7 DEF Armed, Planned

\* What a process does, by its place.
LEMMA DoingHere ==
    ASSUME TrialInv, Trialing, NEW p \in Procs, NEW l, pc[p] = l
    PROVE  /\ Mapped(job, Procs) /\ IsJob(job[p])
           /\ OriginsOnRecord(evidence) /\ VerdictsOnRecord(evidence) /\ Grows(evidence, evidence)
           /\ Doing(evidence, l, job[p])
<1>1. Doing(evidence, pc[p], job[p]) /\ OriginsOnRecord(evidence) /\ VerdictsOnRecord(evidence)
  BY DEF Trialing
<1> QED  BY <1>1, HereIs DEF Mapped

\* An execution begins.
LEMMA BeginExecutionTrials ==
    ASSUME TrialInv, Trialing, NEW p \in Procs, NEW arm \in Arms(evidence), BeginExecution(p, arm)
    PROVE  Trialing'
<1> DEFINE l == IF arm.condition = "memory" THEN "retrieve" ELSE "start"
           r == Request(arm)
<1>1. /\ pc' = [pc EXCEPT ![p] = l] /\ evidence' = evidence /\ handed' = handed
      /\ job' = [job EXCEPT ![p].request = r] /\ Has(evidence, ContractID(arm))
  BY DEF BeginExecution, Goto
<1>2. r.arm = arm /\ r.retrieval = NoEvent /\ r.injection = NoEvent /\ r.memory = "none"
      /\ r.adoption = NoEvent /\ IsRequest(r)
  BY DEF Request, IsRequest
<1> HIDE DEF r
<1>3. PICK j : job' = [job EXCEPT ![p] = j] /\ j.request = r
  <2>1. PICK j : WithRequest(job, p, r) = WithJob(job, p, j) /\ j.request = r
    <3>1. Mapped(job, Procs) /\ IsJob(job[p])
      BY DoingHere
    <3> QED  BY <3>1, JobAfter
  <2> QED  BY <1>1, <2>1 DEF WithRequest, WithJob
<1>4. Armed(arm)
  BY ArmsArmed
<1>5. Aimed(evidence, r)
  BY <1>1, <1>2, <1>4 DEF Aimed
<1>6. arm.condition = "baseline" => Supplied(evidence, r)
  BY <1>2 DEF Supplied
<1>7. l \in {"retrieve", "start"} /\ (l = "retrieve" => arm.condition = "memory")
      /\ (l = "start" => arm.condition = "baseline")
  BY <1>4 DEF Armed
<1> HIDE DEF l
<1>8. Doing(evidence, l, j)
  BY <1>2, <1>3, <1>5, <1>6, <1>7 DEF Doing
<1>9. OriginsOnRecord(evidence) /\ VerdictsOnRecord(evidence) /\ Grows(evidence, evidence)
  BY HereIs DEF Trialing
<1> QED  BY <1>1, <1>3, <1>8, <1>9, ProcessDoes

\* What was found is on record.
LEMMA RetrieveTrials ==
    ASSUME TrialInv, Trialing, NEW p \in Procs, NEW memory, Retrieve(p, memory)
    PROVE  Trialing'
<1> DEFINE r == job[p].request
           n == Next1
           x == Event(Fresh("retrieval"), "retrieval", ContextOf(r.arm), "retrieval", {},
                      "retrieval", [memory |-> memory])
<1>1. pc[p] = "retrieve" /\ handed' = handed /\ evidence' = Append(evidence, x)
  BY DEF Retrieve, Append1
<1>2. /\ Ordinary(x) /\ x.kind = "retrieval" /\ x.context = ContextOf(r.arm) /\ x.parents = {}
      /\ x.body = [memory |-> memory]
  BY DEF Ordinary, Event, Fresh
<1> HIDE DEF x
<1>3. /\ Grows(evidence, evidence') /\ OriginsOnRecord(evidence') /\ VerdictsOnRecord(evidence')
      /\ n \in DOMAIN evidence' /\ evidence'[n] = x
      /\ \A i \in DOMAIN evidence : i < n
  BY <1>1, <1>2, OrdinaryAppend
<1>4. CASE Return(p)
  BY <1>1, <1>3, <1>4, ReturnTrials
<1>5. CASE ~Return(p)
  <2>1. /\ memory # "none" /\ pc' = [pc EXCEPT ![p] = "inject"]
        /\ job' = [job EXCEPT ![p].request.retrieval = n, ![p].request.memory = memory]
    BY <1>5 DEF Retrieve, Goto
  <2>2. Aimed(evidence, r) /\ r.arm.condition = "memory"
    BY <1>1, DoingHere DEF Doing, Executing
  <2> HIDE DEF n
  <2>3. IsRequest(r) /\ IsJob(job[p]) /\ Mapped(job, Procs)
    BY <2>2, DoingHere DEF Aimed
  <2>4. PICK j : /\ job' = [job EXCEPT ![p] = j]
                 /\ j.request = Retrieved(r, n, memory)
    <3>1. PICK j : /\ WithRetrieval(job, p, n, memory) = WithJob(job, p, j)
                   /\ j.request = Retrieved(r, n, memory)
      <4>1. Requests(job, p, WithRetrieval(job, p, n, memory), Retrieved(r, n, memory))
        BY <2>3, RequestAfter
      <4> QED  BY <4>1 DEF Requests
    <3> QED  BY <2>1, <3>1 DEF WithRetrieval, WithJob
  <2> DEFINE q == j.request
  <2>5. /\ q.arm = r.arm /\ q.retrieval = n /\ q.memory = memory /\ q.adoption = r.adoption
        /\ IsRequest(q)
    BY <2>4 DEF IsRequest, Retrieved
  <2> HIDE DEF q
  <2>6. Aimed(evidence', q)
    <3>1. Aimed(evidence', r)
      BY <1>3, <2>2, SuppliesStay
    <3> QED  BY <2>5, <3>1 DEF Aimed
  <2>7. Found(evidence', q)
    <3>1. PICK c \in DOMAIN evidence : evidence[c].id = ContractID(r.arm)
      BY <2>2 DEF Aimed, Has
    <3>2. c \in DOMAIN evidence' /\ c < n /\ evidence'[c].id = ContractID(r.arm)
      BY <1>3, <3>1, SameThere
    <3> QED  BY <1>2, <1>3, <2>1, <2>5, <3>2 DEF Found, OfKind
  <2>8. Doing(evidence', "inject", j)
    BY <2>2, <2>5, <2>6, <2>7 DEF Doing, q
  <2> QED  BY <1>1, <1>3, <2>1, <2>4, <2>8, ProcessDoes
<1> QED  BY <1>4, <1>5

\* The memory is delivered.
LEMMA InjectTrials ==
    ASSUME TrialInv, Trialing, NEW p \in Procs, Inject(p)
    PROVE  Trialing'
<1> DEFINE r == job[p].request
           n == Next1
           x == Event(Fresh("injection"), "injection", ContextOf(r.arm), "retrieval", {r.retrieval},
                      "injection", [retrieval |-> r.retrieval, memory |-> r.memory])
<1>1. /\ pc[p] = "inject" /\ handed' = handed /\ evidence' = Append(evidence, x)
      /\ pc' = [pc EXCEPT ![p] = "start"] /\ job' = [job EXCEPT ![p].request.injection = n]
  BY DEF Inject, Append1, Goto
<1>2. /\ Ordinary(x) /\ x.kind = "injection" /\ x.context = ContextOf(r.arm) /\ x.parents = {r.retrieval}
      /\ x.body = [retrieval |-> r.retrieval, memory |-> r.memory]
  BY DEF Ordinary, Event, Fresh
<1> HIDE DEF x
<1>3. /\ Grows(evidence, evidence') /\ OriginsOnRecord(evidence') /\ VerdictsOnRecord(evidence')
      /\ n \in DOMAIN evidence' /\ evidence'[n] = x
      /\ \A i \in DOMAIN evidence : i < n
  BY <1>1, <1>2, OrdinaryAppend
<1>4. Aimed(evidence, r) /\ r.arm.condition = "memory" /\ Found(evidence, r)
  BY <1>1, DoingHere DEF Doing, Executing
<1> HIDE DEF n
<1>5. IsRequest(r) /\ IsJob(job[p]) /\ Mapped(job, Procs)
  BY <1>4, DoingHere DEF Aimed
<1>6. PICK j : /\ job' = [job EXCEPT ![p] = j]
               /\ j.request = Delivered(r, n)
  <2>1. PICK j : /\ WithInjection(job, p, n) = WithJob(job, p, j)
                 /\ j.request = Delivered(r, n)
    <3>1. Requests(job, p, WithInjection(job, p, n), Delivered(r, n))
      BY <1>5, RequestAfter
    <3> QED  BY <3>1 DEF Requests
  <2> QED  BY <1>1, <2>1 DEF WithInjection, WithJob
<1> DEFINE q == j.request
<1>7. /\ q.arm = r.arm /\ q.retrieval = r.retrieval /\ q.memory = r.memory /\ q.adoption = r.adoption
      /\ q.injection = n /\ IsRequest(q)
  BY <1>6 DEF IsRequest, Delivered
<1> HIDE DEF q
<1>8. Aimed(evidence', q) /\ Found(evidence', q)
  <2>1. Aimed(evidence', r) /\ Found(evidence', r)
    BY <1>3, <1>4, SuppliesStay
  <2>2. Aimed(evidence', q)
    BY <1>7, <2>1 DEF Aimed
  <2>3. Found(evidence', q)
    BY <1>7, <2>1 DEF Found
  <2> QED  BY <2>2, <2>3
<1>9. Injected(evidence', q)
  <2>1. r.retrieval < n
    BY <1>3, <1>4 DEF Found, OfKind
  <2> QED  BY <1>2, <1>3, <1>7, <2>1 DEF Injected, OfKind
<1>10. Doing(evidence', "start", j)
  BY <1>4, <1>7, <1>8, <1>9 DEF Doing, Supplied, q
<1> QED  BY <1>1, <1>3, <1>6, <1>10, ProcessDoes

\* The start is on record.
LEMMA AppendStartTrials ==
    ASSUME TrialInv, Trialing, NEW p \in Procs, AppendStart(p)
    PROVE  Trialing'
<1> DEFINE r == job[p].request
           n == Next1
           c == At(evidence, ContractID(r.arm))
           x == Supervised(Fresh("start"), "start", r.arm, StartParents(evidence, r),
                           "start", [arm |-> r.arm, memory |-> r.memory])
<1>1. /\ pc[p] = "start" /\ handed' = handed /\ evidence' = Append(evidence, x)
      /\ pc' = [pc EXCEPT ![p] = "run"] /\ job' = [job EXCEPT ![p].start = n]
  BY DEF AppendStart, Append1, Goto
<1>2. /\ Ordinary(x) /\ x.kind = "start" /\ x.context = ContextOf(r.arm) /\ x.by = "supervisor"
      /\ x.parents = {c, r.injection} \ {NoEvent} /\ x.body = [arm |-> r.arm, memory |-> r.memory]
  BY DEF Ordinary, Event, Supervised, Fresh, StartParents
<1> HIDE DEF x
<1>3. /\ Grows(evidence, evidence') /\ OriginsOnRecord(evidence') /\ VerdictsOnRecord(evidence')
      /\ n \in DOMAIN evidence' /\ evidence'[n] = x /\ n \in Nat \ {0}
      /\ \A i \in DOMAIN evidence : i < n
  BY <1>1, <1>2, OrdinaryAppend
<1>4. Aimed(evidence, r) /\ Supplied(evidence, r)
  BY <1>1, DoingHere DEF Doing, Executing
<1>5. c \in DOMAIN evidence /\ evidence[c].id = ContractID(r.arm)
  BY <1>4 DEF Aimed, Has, At
<1> HIDE DEF n, c
<1>6. PICK j : job' = [job EXCEPT ![p] = j] /\ j.request = r /\ j.start = n
  <2>1. PICK j : WithStart(job, p, n) = WithJob(job, p, j) /\ j.request = r /\ j.start = n
    BY DoingHere, JobAfter
  <2> QED  BY <1>1, <2>1 DEF WithStart, WithJob
<1>7. Aimed(evidence', r) /\ Supplied(evidence', r)
  BY <1>3, <1>4, SuppliesStay
<1>8. r.injection < n
  BY <1>3, <1>4 DEF Supplied, Injected, OfKind, NoEvent
<1>9. Started(evidence', r, n)
  <2>1. c \in DOMAIN evidence' /\ c < n /\ evidence'[c].id = ContractID(r.arm)
    BY <1>3, <1>5, SameThere
  <2> QED  BY <1>2, <1>3, <1>8, <2>1 DEF Started, OfKind
<1>10. Doing(evidence', "run", j)
  BY <1>6, <1>7, <1>9 DEF Doing
<1> QED  BY <1>1, <1>3, <1>6, <1>10, ProcessDoes

\* The adapter runs.
LEMMA RunTrials ==
    ASSUME TrialInv, Trialing, NEW p \in Procs, NEW payload, Run(p, payload)
    PROVE  Trialing'
<1> DEFINE o == IF payload = "failure" THEN "failed" ELSE "completed"
           r == job[p].request
<1>1. /\ pc[p] = "run" /\ handed' = handed /\ evidence' = evidence /\ pc' = [pc EXCEPT ![p] = "result"]
      /\ job' = [job EXCEPT ![p].payload = payload, ![p].outcome = o]
  BY DEF Run, Goto
<1> HIDE DEF o
<1>2. Aimed(evidence, r) /\ Supplied(evidence, r) /\ Started(evidence, r, job[p].start)
  BY <1>1, DoingHere DEF Doing, Executing
<1>3. PICK j : job' = [job EXCEPT ![p] = j] /\ j.request = r /\ j.start = job[p].start
  <2>1. PICK j : WithOutcome(job, p, payload, o) = WithJob(job, p, j) /\ j.request = r /\ j.start = job[p].start
    BY DoingHere, JobAfter
  <2> QED  BY <1>1, <2>1 DEF WithOutcome, WithJob
<1>4. Doing(evidence, "result", j)
  BY <1>2, <1>3 DEF Doing
<1> QED  BY <1>1, <1>3, <1>4, DoingHere, ProcessDoes

\* The result is on record.
LEMMA AppendResultTrials ==
    ASSUME TrialInv, Trialing, NEW p \in Procs, AppendResult(p)
    PROVE  Trialing'
<1> DEFINE b == job[p]
           r == b.request
           n == Next1
           x == Supervised(ResultID(r.arm), "tool_result", r.arm, {b.start}, b.payload, r.arm)
<1>1. /\ pc[p] = "result" /\ handed' = handed /\ evidence' = Append(evidence, x)
      /\ pc' = [pc EXCEPT ![p] = "receipt"] /\ job' = [job EXCEPT ![p].result = n]
  BY DEF AppendResult, Append1, Goto
<1>2. /\ Ordinary(x) /\ x.kind = "tool_result" /\ x.context = ContextOf(r.arm) /\ x.by = "supervisor"
      /\ x.id = ResultID(r.arm) /\ x.parents = {b.start} /\ x.payload = b.payload
  BY DEF Ordinary, Event, Supervised, ResultID
<1> HIDE DEF x
<1>3. /\ Grows(evidence, evidence') /\ OriginsOnRecord(evidence') /\ VerdictsOnRecord(evidence')
      /\ n \in DOMAIN evidence' /\ evidence'[n] = x
      /\ \A i \in DOMAIN evidence : i < n
  BY <1>1, <1>2, OrdinaryAppend
<1>4. Aimed(evidence, r) /\ Supplied(evidence, r) /\ Started(evidence, r, b.start)
  BY <1>1, DoingHere DEF Doing, Executing
<1> HIDE DEF n
<1>5. PICK j : job' = [job EXCEPT ![p] = j] /\ j.request = r /\ j.start = b.start /\ j.result = n /\ j.payload = b.payload
  <2>1. PICK j : /\ WithResult(job, p, n) = WithJob(job, p, j)
                 /\ j.request = r /\ j.start = b.start /\ j.result = n /\ j.payload = b.payload
    <3>1. Mapped(job, Procs) /\ IsJob(job[p])
      BY DoingHere
    <3> QED  BY <3>1, JobAfter
  <2> QED  BY <1>1, <2>1 DEF WithResult, WithJob
<1>6. Aimed(evidence', r) /\ Supplied(evidence', r) /\ Started(evidence', r, b.start)
  BY <1>3, <1>4, SuppliesStay, ExecutionStays
<1>7. b.start < n
  BY <1>3, <1>4 DEF Started, OfKind
<1>8. Resulted(evidence', r.arm, b.start, n, b.payload)
  BY <1>2, <1>3, <1>7 DEF Resulted, OfKind
<1>9. Doing(evidence', "receipt", j)
  BY <1>5, <1>6, <1>8 DEF Doing
<1> QED  BY <1>1, <1>3, <1>5, <1>9, ProcessDoes

\* The receipt is on record; without memory, the execution is done.
LEMMA AppendReceiptTrials ==
    ASSUME TrialInv, Trialing, NEW p \in Procs, AppendReceipt(p)
    PROVE  Trialing'
<1> DEFINE b == job[p]
           r == b.request
           n == Next1
           y == [arm |-> r.arm, start |-> b.start, result |-> b.result, outcome |-> b.outcome,
                 payload |-> b.payload, retrieval |-> r.retrieval, injection |-> r.injection,
                 memory |-> r.memory]
           x == Supervised(Fresh("receipt"), "receipt", r.arm, {b.start, b.result}, "receipt", y)
<1>1. pc[p] = "receipt" /\ evidence' = Append(evidence, x)
  BY DEF AppendReceipt, Append1
<1>2. /\ Ordinary(x) /\ x.kind = "receipt" /\ x.context = ContextOf(r.arm) /\ x.by = "supervisor"
      /\ x.parents = {b.start, b.result} /\ x.body = y
  BY DEF Ordinary, Event, Supervised, Fresh
<1>3. IsReceiptOf(y, r, b.start, b.result, b.payload)
  BY DEF IsReceiptOf
<1> HIDE DEF x, y
<1>4. /\ Grows(evidence, evidence') /\ OriginsOnRecord(evidence') /\ VerdictsOnRecord(evidence')
      /\ n \in DOMAIN evidence' /\ evidence'[n] = x
      /\ \A i \in DOMAIN evidence : i < n
  BY <1>1, <1>2, OrdinaryAppend
<1>5. /\ Aimed(evidence, r) /\ Supplied(evidence, r) /\ Started(evidence, r, b.start)
      /\ Resulted(evidence, r.arm, b.start, b.result, b.payload)
  BY <1>1, DoingHere DEF Doing, Executing
<1> HIDE DEF n
<1>6. /\ Aimed(evidence', r) /\ Supplied(evidence', r) /\ Started(evidence', r, b.start)
      /\ Resulted(evidence', r.arm, b.start, b.result, b.payload)
  BY <1>4, <1>5, SuppliesStay, ExecutionStays
<1>7. b.result < n
  BY <1>4, <1>5 DEF Resulted, OfKind
<1>8. Received(evidence', r, b.start, b.result, b.payload)
  BY <1>2, <1>3, <1>4, <1>7 DEF Received, OfKind
<1>9. CASE r.arm.condition = "memory"
  <2>1. pc' = [pc EXCEPT ![p] = "adopt"] /\ job' = job /\ handed' = handed
    BY <1>9 DEF AppendReceipt, Goto
  <2>2. job' = [job EXCEPT ![p] = b]
    BY <2>1, HereIs
  <2>3. Doing(evidence', "adopt", b)
    BY <1>6, <1>8, <1>9 DEF Doing
  <2> QED  BY <1>4, <2>1, <2>2, <2>3, ProcessDoes
<1>10. CASE r.arm.condition # "memory"
  <2>1. Return(p) /\ handed' = handed \cup {r}
    BY <1>10 DEF AppendReceipt
  <2>2. r.arm.condition = "baseline" /\ Armed(r.arm) /\ IsRequest(r) /\ r.adoption = NoEvent
    BY <1>5, <1>10 DEF Aimed, Armed
  <2>3. /\ b.start \in DOMAIN evidence' /\ b.result \in DOMAIN evidence'
        /\ evidence'[b.result].payload = b.payload
    BY <1>6 DEF Started, Resulted, OfKind
  <2>4. Executed(evidence', r, b.start, b.result)
    BY <1>6, <1>8, <2>2, <2>3 DEF Executed
  <2>5. HandedOut(evidence', r)
    BY <1>6, <2>2, <2>3, <2>4 DEF HandedOut
  <2> QED  BY <1>4, <2>1, <2>5, ReturnTrials
<1> QED  BY <1>9, <1>10

\* The delivery is reported: the execution hands its request out.
LEMMA AdoptTrials ==
    ASSUME TrialInv, Trialing, NEW p \in Procs, Adopt(p)
    PROVE  Trialing'
<1> DEFINE b == job[p]
           r == b.request
           n == Next1
           q == [r EXCEPT !.adoption = n]
           x == Event(Fresh("adoption"), "adoption", ContextOf(r.arm), "retrieval",
                      {r.retrieval, r.injection, b.result}, "adoption",
                      [injection |-> r.injection, adopted |-> FALSE, outcome |-> "unknown"])
<1>1. pc[p] = "adopt" /\ evidence' = Append(evidence, x) /\ Return(p) /\ handed' = handed \cup {q}
  BY DEF Adopt, Append1
<1>2. /\ Ordinary(x) /\ x.kind = "adoption" /\ x.context = ContextOf(r.arm)
      /\ r.injection \in x.parents /\ x.body.injection = r.injection
  BY DEF Ordinary, Event, Fresh
<1> HIDE DEF x
<1>3. /\ Grows(evidence, evidence') /\ OriginsOnRecord(evidence') /\ VerdictsOnRecord(evidence')
      /\ n \in DOMAIN evidence' /\ evidence'[n] = x /\ n \in Nat \ {0}
      /\ \A i \in DOMAIN evidence : i < n
  BY <1>1, <1>2, OrdinaryAppend
<1>4. /\ Aimed(evidence, r) /\ Supplied(evidence, r) /\ Started(evidence, r, b.start)
      /\ Resulted(evidence, r.arm, b.start, b.result, b.payload)
      /\ Received(evidence, r, b.start, b.result, b.payload)
      /\ r.arm.condition = "memory"
  BY <1>1, DoingHere DEF Doing, Executing
<1> HIDE DEF n
<1>5. /\ Aimed(evidence', r) /\ Supplied(evidence', r) /\ Started(evidence', r, b.start)
      /\ Resulted(evidence', r.arm, b.start, b.result, b.payload)
      /\ Received(evidence', r, b.start, b.result, b.payload)
  BY <1>3, <1>4, SuppliesStay, ExecutionStays
<1>6. q = [arm |-> r.arm, retrieval |-> r.retrieval, injection |-> r.injection, adoption |-> n,
           memory |-> r.memory]
  <2>1. IsRequest(r)
    BY <1>4 DEF Aimed
  <2> HIDE DEF r
  <2> QED  BY <2>1 DEF IsRequest
<1> HIDE DEF q
<1>7. /\ q.arm = r.arm /\ q.retrieval = r.retrieval /\ q.injection = r.injection /\ q.adoption = n
      /\ q.memory = r.memory /\ IsRequest(q)
  BY <1>6 DEF IsRequest
<1>8. Supplied(evidence', q)
  <2>1. Found(evidence', q) /\ Injected(evidence', q)
    BY <1>4, <1>5, <1>7 DEF Supplied, Found, Injected
  <2> QED  BY <1>4, <1>7, <2>1 DEF Supplied
<1>9. Started(evidence', q, b.start)
  BY <1>5, <1>7 DEF Started
<1>10. Received(evidence', q, b.start, b.result, b.payload)
  BY <1>5, <1>7 DEF Received, IsReceiptOf
<1>11. Reported(evidence', q, b.result)
  <2>1. b.result < n
    BY <1>3, <1>4 DEF Resulted, OfKind
  <2> QED  BY <1>2, <1>3, <1>7, <2>1 DEF Reported, OfKind
<1>12. /\ b.start \in DOMAIN evidence' /\ b.result \in DOMAIN evidence'
       /\ evidence'[b.result].payload = b.payload
  BY <1>5 DEF Started, Resulted, OfKind
<1>13. Executed(evidence', q, b.start, b.result)
  BY <1>4, <1>5, <1>7, <1>9, <1>10, <1>11, <1>12 DEF Executed
<1>14. HandedOut(evidence', q)
  BY <1>5, <1>7, <1>8, <1>12, <1>13 DEF HandedOut, Aimed
<1> QED  BY <1>1, <1>3, <1>14, ReturnTrials

\* A command is interrupted.
LEMMA AbortTrials ==
    ASSUME TrialInv, Trialing, NEW p \in Procs, Abort(p)
    PROVE  Trialing'
<1>1. Return(p) /\ evidence' = evidence /\ handed' = handed
  BY DEF Abort
<1>2. OriginsOnRecord(evidence) /\ VerdictsOnRecord(evidence) /\ Grows(evidence, evidence)
  BY HereIs DEF Trialing
<1> QED  BY <1>1, <1>2, ReturnTrials

\* A process that goes outside trials adds nothing to the ledger.
LEMMA LeavesTrials ==
    ASSUME TrialInv, Trialing, NEW p \in Procs, NEW l, NEW j, l \notin TrialPlaces,
           pc' = [pc EXCEPT ![p] = l], job' = [job EXCEPT ![p] = j],
           evidence' = evidence, handed' = handed
    PROVE  Trialing'
<1>1. OriginsOnRecord(evidence) /\ VerdictsOnRecord(evidence) /\ Grows(evidence, evidence)
  BY HereIs DEF Trialing
<1>2. Doing(evidence', l, j)
  BY DoingNothing
<1> QED  BY <1>1, <1>2, ProcessDoes

\* A manual result.
LEMMA ObserveTrials ==
    ASSUME TrialInv, Trialing, NEW p \in Procs, NEW arm, NEW payload, Observe(p, arm, payload)
    PROVE  Trialing'
<1>1. pc' = [pc EXCEPT ![p] = "observe"] /\ evidence' = evidence /\ handed' = handed
  BY DEF Observe, Goto
<1>2. pc = [q \in Procs |-> pc[q]] /\ job = [q \in Procs |-> job[q]]
  BY DEF TrialInv, Shapes
<1>3. \A q \in Procs \ {p} : pc'[q] = pc[q]
  BY <1>1, <1>2
<1>4. \A q \in Procs \ {p} : job'[q] = job[q]
  BY <1>2 DEF Observe
<1>5. pc'[p] \notin TrialPlaces
  BY <1>1, <1>2 DEF TrialPlaces, Executing
<1>6. \A q \in Procs : Kept(q) \/ pc'[q] \notin TrialPlaces
  BY <1>3, <1>4, <1>5 DEF Kept
<1>7. OriginsOnRecord(evidence) /\ VerdictsOnRecord(evidence) /\ Grows(evidence, evidence)
  BY HereIs DEF Trialing
<1>8. \A q \in Procs : Kept(q) \/ Doing(evidence', pc'[q], job'[q])
  BY <1>6, DoingNothing
<1> QED  BY <1>1, <1>7, <1>8, TrialingStep

LEMMA AppendObservationTrials ==
    ASSUME TrialInv, Trialing, NEW p \in Procs, AppendObservation(p)
    PROVE  Trialing'
<1> DEFINE arm == job[p].request.arm
           x == Event(ResultID(arm), "tool_result", ContextOf(arm), "evaluation",
                      {job[p].start}, job[p].payload, arm)
<1>1. Return(p) /\ handed' = handed /\ evidence' = Append(evidence, x)
  BY DEF AppendObservation, Append1
<1>2. Ordinary(x)
  BY DEF Ordinary, Event, ResultID
<1> HIDE DEF x
<1>3. Grows(evidence, evidence') /\ OriginsOnRecord(evidence') /\ VerdictsOnRecord(evidence')
  BY <1>1, <1>2, OrdinaryAppend
<1> QED  BY <1>1, <1>3, ReturnTrials

\* What an execution left can be decided on.
LEMMA HandedDecides ==
    ASSUME IsLog(evidence), NEW r, HandedOut(evidence, r)
    PROVE  Decided(evidence, r.arm, Len(evidence))
<1>1. PICK s \in DOMAIN evidence, t \in DOMAIN evidence : Executed(evidence, r, s, t)
  BY DEF HandedOut
<1>2. /\ t \in DOMAIN evidence /\ evidence[t].id = ResultID(r.arm) /\ s < t
      /\ s \in Int /\ t \in Int /\ t <= Len(evidence) /\ DOMAIN evidence \subseteq Int
      /\ DOMAIN evidence = 1..Len(evidence) /\ Len(evidence) \in Nat
  BY <1>1, LogPositions DEF Executed, Resulted, OfKind
<1>3. CASE r.arm.condition = "baseline"
  <2>1. PICK c \in DOMAIN evidence : c < s /\ evidence[c].id = ContractID(r.arm)
    BY <1>1 DEF Executed, Started
  <2>2. c < t
    BY <1>2, <2>1
  <2> QED  BY <1>2, <1>3, <2>1, <2>2 DEF Decided
<1>4. CASE r.arm.condition # "baseline"
  <2>1. Found(evidence, r) /\ Injected(evidence, r) /\ Reported(evidence, r, t)
    BY <1>1, <1>4 DEF HandedOut, Supplied, Executed
  <2>2. PICK c \in DOMAIN evidence : c < r.retrieval /\ evidence[c].id = ContractID(r.arm)
    BY <2>1 DEF Found
  <2>3. r.retrieval \in DOMAIN evidence /\ r.injection \in DOMAIN evidence /\ r.adoption \in DOMAIN evidence
    BY <2>1 DEF Found, Injected, Reported, OfKind
  <2>4. r.retrieval < r.injection /\ t < r.adoption /\ r.injection < s
    BY <1>1, <2>1 DEF Injected, Reported, Executed, Started
  <2>5. c < t /\ c < r.injection /\ r.injection <= t /\ r.adoption <= Len(evidence)
    BY <1>2, <2>2, <2>3, <2>4
  <2>6. /\ r.adoption \in OfKind(evidence, "adoption") /\ r.injection \in OfKind(evidence, "injection")
        /\ evidence[r.adoption].body.injection = r.injection
        /\ evidence[r.injection].context = ContextOf(r.arm)
    BY <2>1 DEF Reported, Injected
  <2> QED  BY <1>2, <2>2, <2>4, <2>5, <2>6 DEF Decided
<1> QED  BY <1>3, <1>4

\* And so can what a request binds.
LEMMA BindingsDecide ==
    ASSUME IsLog(evidence), NEW arm, NEW r \in Bindings(evidence, arm), Finalizable(evidence, r),
           ~Has(evidence, VerdictID(r.arm))
    PROVE  Decided(evidence, r.arm, Len(evidence))
<1> DEFINE c == At(evidence, ContractID(arm))
           t == At(evidence, ResultID(arm))
           last == IF Has(evidence, VerdictID(arm)) THEN At(evidence, VerdictID(arm)) - 1 ELSE Len(evidence)
           retrievals == Exposures(evidence, arm, t, "retrieval")
           injections == Exposures(evidence, arm, t, "injection")
           adoptions == {i \in t + 1..last :
                            /\ evidence[i].kind = "adoption" /\ evidence[i].context = ContextOf(arm)
                            /\ evidence[i].body.injection \in injections}
<1>0. IF arm.condition = "baseline" THEN r = Request(arm)
      ELSE r.arm = arm /\ \E z : z \in adoptions
  <2>1. Bindings(evidence, arm) =
          IF arm.condition = "baseline" THEN {Request(arm)}
          ELSE {[arm |-> arm, retrieval |-> x, injection |-> y, adoption |-> z, memory |-> evidence[y].body.memory] :
                   x \in {x \in retrievals : Cardinality(retrievals) = 1},
                   y \in {y \in injections : Cardinality(injections) = 1 /\ evidence[y].body.retrieval \in retrievals},
                   z \in {z \in adoptions : Cardinality(adoptions) = 1}}
    BY DEF Bindings
  <2> HIDE DEF retrievals, injections, adoptions
  <2> QED  BY <2>1
<1>1. r.arm = arm
  BY <1>0 DEF Request
<1>2. /\ c \in DOMAIN evidence /\ t \in DOMAIN evidence /\ c < t
      /\ evidence[c].id = ContractID(arm) /\ evidence[t].id = ResultID(arm)
  BY <1>1 DEF Finalizable, Has, At
<1>3. DOMAIN evidence = 1..Len(evidence) /\ Len(evidence) \in Nat
  BY LogPositions
<1>4. ASSUME arm.condition = "memory"
      PROVE  \E a \in OfKind(evidence, "adoption"), i \in OfKind(evidence, "injection") :
                 /\ t < a /\ a <= Len(evidence) /\ evidence[a].body.injection = i
                 /\ c < i /\ i <= t /\ evidence[i].context = ContextOf(arm)
  <2>1. \E z : z \in adoptions
    BY <1>0, <1>4
  <2>2. PICK a : a \in adoptions
    BY <2>1
  <2> DEFINE i == evidence[a].body.injection
  <2>3. i \in c + 1..t /\ evidence[i].context = ContextOf(arm) /\ evidence[i].kind = "injection"
    BY <2>2 DEF Exposures
  <2>4. a \in t + 1..Len(evidence) /\ evidence[a].kind = "adoption"
    BY <1>1, <2>2
  <2> HIDE DEF c, t, last, adoptions, injections, retrievals
  <2>5. i \in 1..Len(evidence) /\ c < i /\ i <= t /\ a \in 1..Len(evidence) /\ t < a /\ a <= Len(evidence)
    BY <1>2, <1>3, <2>3, <2>4
  <2> QED  BY <1>3, <2>3, <2>4, <2>5 DEF OfKind
<1> HIDE DEF c, t, last, adoptions, injections, retrievals
<1>5. t <= Len(evidence)
  BY <1>2, <1>3
<1> QED  BY <1>1, <1>2, <1>4, <1>5 DEF Decided

\* Finalizing begins.
LEMMA FinalizeTrials ==
    ASSUME TrialInv, Trialing, NEW p \in Procs, NEW r, Finalize(p, r),
           Has(evidence, VerdictID(r.arm)) \/ Decided(evidence, r.arm, Len(evidence))
    PROVE  Trialing'
<1> DEFINE l == IF Has(evidence, VerdictID(r.arm)) THEN "record" ELSE "verdict"
<1>1. /\ pc' = [pc EXCEPT ![p] = l] /\ job' = [job EXCEPT ![p].request = r]
      /\ evidence' = evidence /\ handed' = handed
  BY DEF Finalize, Goto
<1>2. PICK j : job' = [job EXCEPT ![p] = j] /\ j.request = r
  <2>1. PICK j : WithRequest(job, p, r) = WithJob(job, p, j) /\ j.request = r
    <3>1. Mapped(job, Procs) /\ IsJob(job[p])
      BY DoingHere
    <3> QED  BY <3>1, JobAfter
  <2> QED  BY <1>1, <2>1 DEF WithRequest, WithJob
<1>3. CASE Has(evidence, VerdictID(r.arm))
  BY <1>1, <1>2, <1>3, LeavesTrials DEF TrialPlaces, Executing
<1>4. CASE ~Has(evidence, VerdictID(r.arm))
  <2>1. Doing(evidence', "verdict", j)
    BY <1>1, <1>2, <1>4 DEF Doing, Executing
  <2>2. OriginsOnRecord(evidence) /\ VerdictsOnRecord(evidence) /\ Grows(evidence, evidence)
    BY HereIs DEF Trialing
  <2> QED  BY <1>1, <1>2, <1>4, <2>1, <2>2, ProcessDoes
<1> QED  BY <1>3, <1>4

LEMMA FinalizationTrials ==
    ASSUME TrialInv, Trialing, NEW p \in Procs, FinalizeExecution(p) \/ FinalizeRequest(p)
    PROVE  Trialing'
<1>1. IsLog(evidence)
  BY HereIs
<1>2. CASE FinalizeExecution(p)
  <2>1. PICK r \in handed : Finalize(p, r)
    BY <1>2 DEF FinalizeExecution
  <2>2. Decided(evidence, r.arm, Len(evidence))
    BY <1>1, HandedDecides DEF Trialing
  <2> QED  BY <2>1, <2>2, FinalizeTrials
<1>3. CASE FinalizeRequest(p)
  <2>1. PICK arm \in Preregistered(evidence) : \E r \in Bindings(evidence, arm) : Finalize(p, r)
    BY <1>3 DEF FinalizeRequest
  <2>2. PICK r \in Bindings(evidence, arm) : Finalize(p, r)
    BY <2>1
  <2>3. Finalizable(evidence, r)
    BY <2>2 DEF Finalize
  <2>4. Has(evidence, VerdictID(r.arm)) \/ Decided(evidence, r.arm, Len(evidence))
    BY <1>1, <2>3, BindingsDecide
  <2> QED  BY <2>2, <2>4, FinalizeTrials
<1> QED  BY <1>2, <1>3

\* The verdict is on record.
LEMMA AppendVerdictTrials ==
    ASSUME TrialInv, Trialing, NEW p \in Procs, AppendVerdict(p)
    PROVE  Trialing'
<1> DEFINE arm == job[p].request.arm
           x == VerdictEvent(evidence, arm)
<1>1. /\ pc[p] = "verdict" /\ evidence' = Append(evidence, x) /\ handed' = handed
      /\ pc' = [pc EXCEPT ![p] = "record"] /\ job' = job
  BY DEF AppendVerdict, Append1, Goto
<1>2. x.kind = "tool_result" /\ x.id[1] = "verdict" /\ x.body.arm = arm
  BY DEF VerdictEvent, Event, VerdictID, materializeBuiltinVerdict
<1>3. x = VerdictEvent(evidence, arm)
  OBVIOUS
<1> HIDE DEF x
<1>4. /\ Grows(evidence, evidence') /\ Len(evidence') = Len(evidence) + 1 /\ Len(evidence) \in Nat
      /\ \A i \in New(evidence, evidence') : i = Len(evidence) + 1 /\ evidence'[i] = x
  BY <1>1, AppendOne, HereIs, LogPositions
<1>5. OriginsOnRecord(evidence')
  BY <1>2, <1>4, OriginsGrow DEF Trialing
<1>6. Decided(evidence, arm, Len(evidence))
  BY <1>1, DoingHere DEF Doing
<1>7. Decided(evidence', arm, Len(evidence))
  BY <1>4, <1>6, DecisionStays
<1>8. ASSUME loadIndexedRecords(evidence') PROVE x = VerdictEvent(evidence', arm)
  <2>1. Bounded(evidence, arm)
    BY <1>6 DEF Decided, Bounded, Has
  <2>2. At(evidence', ResultID(arm)) = At(evidence, ResultID(arm))
    BY <1>4, <1>8, <2>1, IdsStay DEF Bounded
  <2>3. materializeBuiltinVerdict(evidence', arm) = materializeBuiltinVerdict(evidence, arm)
    BY <1>4, <1>8, <2>1, VerdictStays
  <2> QED  BY <1>3, <2>2, <2>3 DEF VerdictEvent
<1> HIDE DEF arm
<1>9. ASSUME NEW i \in New(evidence, evidence')
      PROVE  /\ Decided(evidence', evidence'[i].body.arm, i - 1)
             /\ loadIndexedRecords(evidence') => evidence'[i] = VerdictEvent(evidence', evidence'[i].body.arm)
  <2>1. i - 1 = Len(evidence) /\ evidence'[i] = x
    BY <1>4
  <2> QED  BY <1>2, <1>7, <1>8, <2>1
<1>10. VerdictsOnRecord(evidence')
  BY <1>4, <1>9, VerdictsGrow DEF Trialing
<1>11. Doing(evidence', "record", job[p])
  BY DoingNothing DEF TrialPlaces, Executing
<1>12. job' = [job EXCEPT ![p] = job[p]]
  BY <1>1, HereIs
<1> QED  BY <1>1, <1>4, <1>5, <1>10, <1>11, <1>12, ProcessDoes

\* The ledger is read again.
LEMMA RecordTrials ==
    ASSUME TrialInv, Trialing, NEW p \in Procs, Record(p)
    PROVE  Trialing'
<1>1. evidence' = evidence /\ handed' = handed
  BY DEF Record
<1>2. CASE Return(p)
  <2>1. OriginsOnRecord(evidence) /\ VerdictsOnRecord(evidence) /\ Grows(evidence, evidence)
    BY HereIs DEF Trialing
  <2> QED  BY <1>1, <1>2, <2>1, ReturnTrials
<1>3. CASE Goto(p, "attempt") /\ job' = job
  <2>1. job' = [job EXCEPT ![p] = job[p]]
    BY <1>3, HereIs
  <2> QED  BY <1>1, <1>3, <2>1, LeavesTrials DEF Goto, TrialPlaces, Executing
<1> QED  BY <1>2, <1>3 DEF Record

\* The attempt is on record.
LEMMA AppendAttemptTrials ==
    ASSUME TrialInv, Trialing, NEW p \in Procs, AppendAttempt(p)
    PROVE  Trialing'
<1> DEFINE r == job[p].request
           x == Event(AttemptID(r), "attempt", ContextOf(r.arm), "evaluation",
                      AttemptParents(evidence, r), "attempt", deriveTaskAttempt(evidence, r))
<1>1. Return(p) /\ handed' = handed /\ evidence' = Append(evidence, x)
  BY DEF AppendAttempt, Append1
<1>2. Ordinary(x)
  BY DEF Ordinary, Event, AttemptID
<1> HIDE DEF x
<1>3. Grows(evidence, evidence') /\ OriginsOnRecord(evidence') /\ VerdictsOnRecord(evidence')
  BY <1>1, <1>2, OrdinaryAppend
<1> QED  BY <1>1, <1>3, ReturnTrials

\* The commands of a trial.
LEMMA TrialNextTrials ==
    ASSUME TrialInv, Trialing, TrialNext
    PROVE  Trialing'
<1>1. CASE \E plan \in bound.plans : PreregisterTrialPlan(plan)
  BY <1>1, PreregisterTrialPlanTrials
<1>2. CASE \E arm \in bound.drafts : PreregisterTaskAttempt(arm)
  BY <1>2, PreregisterTaskAttemptTrials
<1>3. CASE \E context \in ContextsInUse :
               \/ \E x \in bound.events, linked \in BOOLEAN : Work(context, x[1], x[2], linked)
               \/ bound.deliver /\ Deliver(context)
  BY <1>3, ThreadTrials
<1>4. CASE \E i \in OfKind(evidence, "injection"), outcome \in bound.outcomes : ReportAdoption(i, outcome)
  BY <1>4, ThreadTrials
<1>5. ASSUME NEW p \in Procs,
             \/ \E arm \in Arms(evidence) : BeginExecution(p, arm)
             \/ \E memory \in bound.memories : Retrieve(p, memory)
             \/ Inject(p)
             \/ AppendStart(p)
             \/ \E payload \in bound.outputs : Run(p, payload)
             \/ AppendResult(p)
             \/ AppendReceipt(p)
             \/ Adopt(p)
             \/ \E arm \in Preregistered(evidence), payload \in bound.observed : Observe(p, arm, payload)
             \/ AppendObservation(p)
             \/ FinalizeExecution(p)
             \/ FinalizeRequest(p)
             \/ AppendVerdict(p)
             \/ Record(p)
             \/ AppendAttempt(p)
             \/ Abort(p)
      PROVE  Trialing'
  BY <1>5, BeginExecutionTrials, RetrieveTrials, InjectTrials, AppendStartTrials, RunTrials, AppendResultTrials,
     AppendReceiptTrials, AdoptTrials, ObserveTrials, AppendObservationTrials, FinalizationTrials,
     AppendVerdictTrials, RecordTrials, AppendAttemptTrials, AbortTrials
<1> QED  BY <1>1, <1>2, <1>3, <1>4, <1>5 DEF TrialNext

-----------------------------------------------------------------------------
(* The other commands stay out of trials.                                  *)

OffTrials == \A q \in Procs : Kept(q) \/ pc'[q] \notin TrialPlaces
OrdinaryOnly == \A i \in New(evidence, evidence') : Ordinary(evidence'[i])

LEMMA NobodyInTrials ==
    ASSUME pc' = pc, job' = job
    PROVE  OffTrials
BY DEF OffTrials, Kept

LEMMA MovesOff ==
    ASSUME TrialInv, NEW p \in Procs, NEW l, l \notin TrialPlaces, MovesTo(p, l)
    PROVE  OffTrials
<1>1. pc = [q \in Procs |-> pc[q]]
  BY DEF TrialInv, Shapes
<1>2. pc'[p] = l /\ \A q \in Procs \ {p} : pc'[q] = pc[q] /\ job'[q] = job[q]
  BY <1>1 DEF MovesTo
<1> QED  BY <1>2 DEF OffTrials, Kept

LEMMA ReturnsOff ==
    ASSUME TrialInv, NEW p \in Procs, Return(p)
    PROVE  OffTrials
<1>1. job = [q \in Procs |-> job[q]]
  BY HereIs
<1>2. MovesTo(p, "idle")
  BY <1>1 DEF Return, Goto, MovesTo
<1> QED  BY <1>2, MovesOff DEF TrialPlaces, Executing

LEMMA StillOrdinary ==
    ASSUME TrialInv, evidence' = evidence
    PROVE  OrdinaryOnly
BY LogPositions DEF TrialInv, Shapes, New, OrdinaryOnly

LEMMA AddsOrdinary ==
    ASSUME TrialInv, NEW x, evidence' = Append(evidence, x), Ordinary(x)
    PROVE  OrdinaryOnly
BY AppendOne DEF OrdinaryOnly

LEMMA BatchOrdinary ==
    ASSUME TrialInv, NEW b, IsLog(b), evidence' = evidence \o b, \A k \in 1..Len(b) : Ordinary(b[k])
    PROVE  OrdinaryOnly
<1>1. IsLog(evidence) /\ Len(evidence) \in Nat /\ Len(b) \in Nat
  BY LogPositions DEF TrialInv, Shapes
<1>2. Len(evidence') = Len(evidence) + Len(b) /\ \A k \in 1..Len(b) : evidence'[Len(evidence) + k] = b[k]
  BY <1>1, LogsJoin
<1>3. ASSUME NEW i \in New(evidence, evidence') PROVE \E k \in 1..Len(b) : evidence'[i] = b[k]
  <2>1. i - Len(evidence) \in 1..Len(b) /\ i = Len(evidence) + (i - Len(evidence))
    BY <1>1, <1>2 DEF New
  <2> QED  BY <1>2, <2>1
<1> QED  BY <1>3 DEF OrdinaryOnly

\* The snapshots of a freeze, and perhaps the corpus.
LEMMA FreezeOrdinary ==
    ASSUME TrialInv, NEW p \in Procs, NEW cut, Freeze(p, cut)
    PROVE  OrdinaryOnly
<1> DEFINE b == PendingSnapshots(job[p].held)
           e == evidence \o b
           m == CorpusManifest(job[p].held, e)
           x == Event(<<"corpus", m>>, "corpus", <<"journal">>, "legacy", {}, "corpus", m)
           n == Append(b, x)
<1>1. pc[p] = "freeze" /\ evidence' \in {e, Append(e, x)}
  BY DEF Freeze
<1>2. IsLog(b) /\ \A k \in 1..Len(b) : Ordinary(b[k])
  <2>1. IsFreeze(job[p].held)
    BY <1>1, HereIs DEF Knows, Holds
  <2> QED  BY <2>1, PendingIs DEF Ordinary
<1>3. Ordinary(x)
  BY DEF Ordinary, Event
<1> HIDE DEF b, x
<1>4. IsLog(evidence)
  BY HereIs
<1>5. CASE evidence' = e
  BY <1>2, <1>5, BatchOrdinary
<1>6. CASE evidence' = Append(e, x)
  <2>1. IsLog(n) /\ \A k \in 1..Len(n) : Ordinary(n[k])
    <3>1. Grows(b, n) /\ Len(n) = Len(b) + 1 /\ n[Len(b) + 1] = x
      BY <1>2, LogGrows
    <3> QED  BY <1>2, <1>3, <3>1 DEF Grows
  <2>2. evidence' = evidence \o n
    <3> DEFINE T == {evidence[i] : i \in 1..Len(evidence)} \cup {b[i] : i \in 1..Len(b)} \cup {x}
    <3>1. evidence \in Seq(T) /\ b \in Seq(T) /\ x \in T
      BY <1>2, <1>4 DEF IsLog
    <3> HIDE DEF T
    <3> QED  BY <1>6, <3>1
  <2> HIDE DEF n
  <2> QED  BY <2>1, <2>2, BatchOrdinary
<1> QED  BY <1>1, <1>5, <1>6

\* A step of a corpus records nothing of a trial.
LEMMA CorpusOrdinary ==
    ASSUME TrialInv, CorpusNext
    PROVE  OrdinaryOnly
<1>1. ASSUME NEW x \in bound.imports, Import(x[1], x[2], x[3]) PROVE OrdinaryOnly
  BY <1>1, ImportGrows DEF OrdinaryOnly, Ordinary, CommandKinds
<1>2. ASSUME NEW path, RecordMissing(path) PROVE OrdinaryOnly
  <2> DEFINE x == Captured(Fresh("gap"), "gap", "recovery", path, <<0, 0>>, {}, FALSE)
  <2>1. evidence' = Append(evidence, x)
    BY <1>2 DEF RecordMissing, Append1
  <2>2. Ordinary(x)
    BY DEF Ordinary, Captured, Event, Fresh
  <2> HIDE DEF x
  <2> QED  BY <2>1, <2>2, AddsOrdinary
<1>3. ASSUME NEW p \in Procs,
             \/ \E limit \in bound.limits : BeginFreeze(p, limit)
             \/ ReadCards(p)
             \/ PlanSnapshots(p)
             \/ \E rebuild \in BOOLEAN : BeginBuild(p, rebuild)
             \/ ScanLedger(p)
             \/ PublishGeneration(p)
             \/ \E content \in DOMAIN manifests : BeginSeal(p, content)
      PROVE  OrdinaryOnly
  <2>1. evidence' = evidence
    BY <1>3 DEF BeginFreeze, ReadCards, PlanSnapshots, BeginBuild, ScanLedger,
                PublishGeneration, BeginSeal
  <2> QED  BY <2>1, StillOrdinary
<1>4. ASSUME NEW after, WriteJournal(after) PROVE OrdinaryOnly
  <2>1. evidence' = evidence
    BY <1>4 DEF WriteJournal
  <2> QED  BY <2>1, StillOrdinary
<1>5. ASSUME NEW p \in Procs, MarkBuild(p) PROVE OrdinaryOnly
  <2> DEFINE x == Event(<<"generation_attempt", Len(evidence)>>, "generation_attempt", <<"detector">>,
                        "detector", {}, "prefix", Len(evidence))
  <2>1. evidence' = Append(evidence, x)
    BY <1>5 DEF MarkBuild, Append1
  <2>2. Ordinary(x)
    BY DEF Ordinary, Event
  <2> HIDE DEF x
  <2> QED  BY <2>1, <2>2, AddsOrdinary
<1>6. ASSUME NEW p \in Procs, AppendSeal(p) PROVE OrdinaryOnly
  <2> DEFINE x == Event(Fresh("truth"), "truth", <<"truth">>, "human", DOMAIN job[p].held.labels, "truth",
                        job[p].held)
  <2>1. evidence' = Append(evidence, x)
    BY <1>6 DEF AppendSeal, Append1
  <2>2. Ordinary(x)
    BY DEF Ordinary, Event, Fresh
  <2> HIDE DEF x
  <2> QED  BY <2>1, <2>2, AddsOrdinary
<1>7. ASSUME NEW p \in Procs, AuditGeneration(p) PROVE OrdinaryOnly
  <2> DEFINE n == job[p].held.prefix
             x == Event(<<"generation", n>>, "generation", <<"detector">>, "detector", {}, "prefix", n)
  <2>1. evidence' = evidence \/ evidence' = Append(evidence, x)
    BY <1>7 DEF AuditGeneration, Append1
  <2>2. Ordinary(x)
    BY DEF Ordinary, Event
  <2> HIDE DEF x
  <2> QED  BY <2>1, <2>2, AddsOrdinary, StillOrdinary
<1> QED  BY <1>1, <1>2, <1>3, <1>4, <1>5, <1>6, <1>7, FreezeOrdinary DEF CorpusNext

\* And neither does a run.
LEMMA RunOrdinary ==
    ASSUME TrialInv, RunNext
    PROVE  OrdinaryOnly
<1>1. ASSUME NEW population, Promote(population) PROVE OrdinaryOnly
  <2> DEFINE x == Event(Fresh("promotion"), "promotion", <<"memory">>, "promotion", {}, "promotion", population)
  <2>1. evidence' = Append(evidence, x)
    BY <1>1 DEF Promote, Append1
  <2>2. Ordinary(x)
    BY DEF Ordinary, Event, Fresh
  <2> HIDE DEF x
  <2> QED  BY <2>1, <2>2, AddsOrdinary
<1>2. ASSUME NEW case, NEW measure, RecordAttestation(case, measure) PROVE OrdinaryOnly
  <2> DEFINE x == Event(AttestationID(case, measure), "attestation", <<"attestation">>, "evaluation", {},
                        "attestation", [case |-> case, measure |-> measure])
  <2>1. evidence' = evidence \/ evidence' = Append(evidence, x)
    BY <1>2 DEF RecordAttestation, Append1
  <2>2. Ordinary(x)
    BY DEF Ordinary, Event, AttestationID
  <2> HIDE DEF x
  <2> QED  BY <2>1, <2>2, AddsOrdinary, StillOrdinary
<1>3. ASSUME NEW items, Export \/ Reconcile(items) PROVE OrdinaryOnly
  <2>1. evidence' = evidence
    BY <1>3 DEF Export, Reconcile, trialVars
  <2> QED  BY <2>1, StillOrdinary
<1>4. ASSUME NEW p \in Procs, NEW id, NEW content, NEW minimum,
             \/ BeginPrepare(p, id, content)
             \/ PrepareBaseline(p, id, content, minimum)
             \/ DerivePopulation(p)
             \/ \E input \in inputs : BeginRun(p, input)
      PROVE  OrdinaryOnly
  <2>1. evidence' = evidence
    BY <1>4 DEF BeginPrepare, PrepareBaseline, DerivePopulation, BeginRun, trialVars
  <2> QED  BY <2>1, StillOrdinary
<1>5. ASSUME NEW p \in Procs, NEW dies, FinishRun(p, dies) PROVE OrdinaryOnly
  <2> DEFINE input == job[p].held.input
             report == Report(input, job[p].held.issues \cup lockedContinuousLedgerIssues(evidence, input)
                                         \cup AllCaseIssues(evidence, input))
             x == RunEvent(evidence, input, report)
  <2>1. evidence' = evidence \/ evidence' = Append(evidence, x)
    BY <1>5 DEF FinishRun, Append1
  <2>2. Ordinary(x)
    BY DEF Ordinary, RunEvent, Event, RunID
  <2> HIDE DEF x
  <2> QED  BY <2>1, <2>2, AddsOrdinary, StillOrdinary
<1>6. ASSUME \E x \in bound.attestations : RecordAttestation(<<"false_memory", x[1]>>, x[2])
      PROVE  OrdinaryOnly
  BY <1>2, <1>6
<1> QED  BY <1>1, <1>3, <1>4, <1>5, <1>6 DEF RunNext

LEMMA CorpusOff ==
    ASSUME TrialInv, CorpusNext
    PROVE  OffTrials
<1>1. job = [q \in Procs |-> job[q]] /\ pc = [q \in Procs |-> pc[q]]
  BY DEF TrialInv, Shapes
<1>2. ASSUME \/ \E x \in bound.imports : Import(x[1], x[2], x[3])
             \/ \E path \in bound.missing : RecordMissing(path)
             \/ \E after \in bound.writes : WriteJournal(after)
      PROVE  OffTrials
  <2>1. pc' = pc /\ job' = job
    BY <1>2 DEF Import, RecordMissing, WriteJournal
  <2> QED  BY <2>1, NobodyInTrials
<1>3. ASSUME NEW p \in Procs,
             \/ \E limit \in bound.limits : BeginFreeze(p, limit)
             \/ ReadCards(p)
             \/ PlanSnapshots(p)
             \/ \E rebuild \in BOOLEAN : BeginBuild(p, rebuild)
             \/ MarkBuild(p)
             \/ ScanLedger(p)
             \/ PublishGeneration(p)
             \/ \E content \in DOMAIN manifests : BeginSeal(p, content)
      PROVE  OffTrials
  <2>1. ASSUME NEW limit, BeginFreeze(p, limit) PROVE MovesTo(p, "cards")
    BY <1>1, <2>1 DEF BeginFreeze, Goto, MovesTo
  <2>2. ASSUME ReadCards(p) PROVE MovesTo(p, "plan")
    BY <1>1, <2>2 DEF ReadCards, Goto, MovesTo
  <2>3. ASSUME PlanSnapshots(p) PROVE MovesTo(p, "freeze")
    BY <1>1, <2>3 DEF PlanSnapshots, Goto, MovesTo
  <2>4. ASSUME NEW rebuild, BeginBuild(p, rebuild) PROVE MovesTo(p, "mark")
    BY <1>1, <2>4 DEF BeginBuild, Goto, MovesTo
  <2>5. ASSUME MarkBuild(p) PROVE MovesTo(p, "scan")
    BY <1>1, <2>5 DEF MarkBuild, Goto, MovesTo
  <2>6. ASSUME ScanLedger(p) PROVE MovesTo(p, "publish")
    BY <1>1, <2>6 DEF ScanLedger, Goto, MovesTo
  <2>7. ASSUME PublishGeneration(p) PROVE MovesTo(p, "audit")
    BY <1>1, <2>7 DEF PublishGeneration, Goto, MovesTo
  <2>8. ASSUME NEW content, BeginSeal(p, content) PROVE MovesTo(p, "seal")
    BY <1>1, <2>8 DEF BeginSeal, Goto, MovesTo
  <2>9. \E l \in {"cards", "plan", "freeze", "mark", "scan", "publish", "audit", "seal"} : MovesTo(p, l)
    BY <1>3, <2>1, <2>2, <2>3, <2>4, <2>5, <2>6, <2>7, <2>8
  <2> QED  BY <2>9, MovesOff DEF TrialPlaces, Executing
<1>4. ASSUME NEW p \in Procs, AuditGeneration(p) PROVE OffTrials
  <2>1. CASE Return(p)
    BY <2>1, ReturnsOff
  <2>2. CASE ~Return(p)
    <3>1. pc[p] = "audit" /\ Goto(p, job[p].held.then) /\ job' = job
      BY <1>4, <2>2 DEF AuditGeneration
    <3>2. job[p].held.then \in {"idle", "population"}
      BY <3>1, HereIs DEF Knows, Holds, IsBuild
    <3>3. MovesTo(p, job[p].held.then)
      BY <3>1 DEF Goto, MovesTo
    <3> QED  BY <3>2, <3>3, MovesOff DEF TrialPlaces, Executing
  <2> QED  BY <2>1, <2>2
<1>5. ASSUME NEW p \in Procs, NEW cut, AppendSeal(p) \/ Freeze(p, cut) PROVE OffTrials
  <2>1. Return(p)
    BY <1>5 DEF AppendSeal, Freeze
  <2> QED  BY <2>1, ReturnsOff
<1> QED  BY <1>2, <1>3, <1>4, <1>5 DEF CorpusNext

LEMMA RunOff ==
    ASSUME TrialInv, RunNext
    PROVE  OffTrials
<1>1. job = [q \in Procs |-> job[q]] /\ pc = [q \in Procs |-> pc[q]]
  BY DEF TrialInv, Shapes
<1>2. ASSUME \/ \E population \in bound.populations : Promote(population)
             \/ Export
             \/ \E items \in bound.inventories : Reconcile(items)
             \/ \E x \in bound.attestations : RecordAttestation(<<"false_memory", x[1]>>, x[2])
             \/ \E p \in Procs, id \in RunIDs, content \in DOMAIN manifests, minimum \in bound.minimums :
                    PrepareBaseline(p, id, content, minimum)
      PROVE  OffTrials
  <2>1. pc' = pc /\ job' = job
    BY <1>2 DEF Promote, Export, Reconcile, RecordAttestation, PrepareBaseline, trialVars
  <2> QED  BY <2>1, NobodyInTrials
<1>3. ASSUME NEW p \in Procs, NEW id, NEW content, BeginPrepare(p, id, content) PROVE OffTrials
  <2>1. \E l : l \in {"mark", "population"} /\ MovesTo(p, l)
    BY <1>1, <1>3 DEF BeginPrepare, Goto, MovesTo
  <2> QED  BY <2>1, MovesOff DEF TrialPlaces, Executing
<1>4. ASSUME NEW p \in Procs, NEW input \in inputs, BeginRun(p, input) PROVE OffTrials
  <2>1. MovesTo(p, "report")
    BY <1>1, <1>4 DEF BeginRun, Goto, MovesTo
  <2> QED  BY <2>1, MovesOff DEF TrialPlaces, Executing
<1>5. ASSUME NEW p \in Procs, NEW dies, DerivePopulation(p) \/ FinishRun(p, dies) PROVE OffTrials
  <2>1. Return(p)
    BY <1>5 DEF DerivePopulation, FinishRun
  <2> QED  BY <2>1, ReturnsOff
<1> QED  BY <1>2, <1>3, <1>4, <1>5 DEF RunNext

\* No other command hands a request out.
LEMMA OthersHandNothing ==
    ASSUME CorpusNext \/ RunNext
    PROVE  handed' = handed
<1>1. CASE CorpusNext
  BY <1>1 DEF CorpusNext, Import, RecordMissing, WriteJournal, BeginFreeze, ReadCards, PlanSnapshots, Freeze,
              BeginBuild, MarkBuild, ScanLedger, PublishGeneration, AuditGeneration, BeginSeal, AppendSeal
<1>2. CASE RunNext
  BY <1>2 DEF RunNext, Promote, Export, Reconcile, RecordAttestation, BeginPrepare, PrepareBaseline,
              DerivePopulation, BeginRun, FinishRun, trialVars
<1> QED  BY <1>1, <1>2

LEMMA TrialingKeeps ==
    ASSUME TrialInv, Finite, Trialing, [Next]_vars
    PROVE  Trialing'
<1>1. Grows(evidence, evidence')
  BY NextKeeps DEF Keeps
<1>2. CASE TrialNext
  BY <1>2, TrialNextTrials
<1>3. CASE CorpusNext \/ RunNext
  <2>1. handed' = handed /\ OrdinaryOnly /\ OffTrials
    BY <1>3, OthersHandNothing, CorpusOrdinary, RunOrdinary, CorpusOff, RunOff
  <2> QED  BY <1>1, <2>1, QuietTrials DEF OrdinaryOnly, OffTrials
<1>4. CASE UNCHANGED vars
  <2>1. evidence' = evidence /\ pc' = pc /\ job' = job /\ handed' = handed
    BY <1>4 DEF vars, trialVars
  <2>2. OrdinaryOnly /\ OffTrials
    BY <2>1, StillOrdinary, NobodyInTrials
  <2> QED  BY <1>1, <2>1, <2>2, QuietTrials DEF OrdinaryOnly, OffTrials
<1> QED  BY <1>2, <1>3, <1>4 DEF Next

LEMMA TrialingInvariant == Spec => [](TrialInv /\ Finite /\ Trialing)
<1>1. Init => Trialing
  <2> SUFFICES ASSUME Init PROVE Trialing
    OBVIOUS
  <2>1. /\ bound \in Profiles /\ evidence = bound.history /\ handed = {}
        /\ \A p \in Procs : pc[p] = "idle"
    BY DEF Init, TrialInit
  <2>2. OriginsOnRecord(evidence) /\ VerdictsOnRecord(evidence)
    BY <2>1, HistoryAssumption
  <2>3. \A p \in Procs : Doing(evidence, pc[p], job[p])
    BY <2>1, DoingNothing DEF TrialPlaces, Executing
  <2> QED  BY <2>1, <2>2, <2>3 DEF Trialing
<1>2. TrialInv /\ Finite /\ Trialing /\ [Next]_vars => Trialing'
  BY TrialingKeeps
<1> QED  BY <1>1, <1>2, TrialInvariant, PTL DEF Spec

-----------------------------------------------------------------------------
(* What an execution handed out is counted.                                *)

\* The contract of the arm at place c, the start of the execution at x and its
\* result at t.
LaidOut(s, r, c, x, t) ==
    /\ c \in OfKind(s, "contract") /\ s[c].context = ContextOf(r.arm) /\ s[c].parents \subseteq OfKind(s, "plan")
    /\ x \in OfKind(s, "start") /\ s[x].context = ContextOf(r.arm) /\ s[x].parents = {c, r.injection} \ {NoEvent}
    /\ t \in OfKind(s, "tool_result") /\ s[t].context = ContextOf(r.arm) /\ s[t].parents = {x}
    /\ c < x /\ x < t
    /\ Armed(r.arm) /\ IsRequest(r) /\ Supplied(s, r)
    /\ r.arm.condition = "memory" => c < r.retrieval /\ r.injection < x
    /\ r.arm.condition = "memory" => Reported(s, r, t)
    /\ r.arm.condition = "baseline" => r.adoption = NoEvent
    /\ Has(s, ContractID(r.arm)) /\ At(s, ContractID(r.arm)) = c
    /\ Has(s, ResultID(r.arm)) /\ At(s, ResultID(r.arm)) = t

LEMMA HandedIsLaidOut ==
    ASSUME NEW s, IsLog(s), loadIndexedRecords(s), PlansOnRecord(s), OriginsOnRecord(s),
           NEW r, NEW x \in DOMAIN s, NEW y \in DOMAIN s, Executed(s, r, x, y), HandedOut(s, r)
    PROVE  LaidOut(s, r, At(s, ContractID(r.arm)), x, y)
<1> DEFINE c == At(s, ContractID(r.arm))
<1>1. DOMAIN s = 1..Len(s) /\ Len(s) \in Nat
  BY LogPositions
<1>2. Started(s, r, x) /\ Resulted(s, r.arm, x, y, s[y].payload)
  BY DEF Executed
<1>3. PICK k \in DOMAIN s : k < x /\ s[k].id = ContractID(r.arm) /\ s[x].parents = {k, r.injection} \ {NoEvent}
  BY <1>2 DEF Started
<1>4. Has(s, ContractID(r.arm)) /\ c = k
  BY <1>1, <1>3, AtIs
<1>5. Has(s, ResultID(r.arm)) /\ At(s, ResultID(r.arm)) = y
  BY <1>1, <1>2, AtIs DEF Resulted
<1>6. s[k].id = ContractID(s[k].body) /\ s[k].id[1] = "contract" /\ s[k].kind = "contract"
  <2>1. s[k].id[1] = "contract"
    BY <1>3 DEF ContractID
  <2> QED  BY <2>1 DEF PlansOnRecord
<1>7. s[k].body = r.arm
  BY <1>3, <1>6 DEF ContractID
<1>8. s[k].context = ContextOf(r.arm) /\ s[k].parents \subseteq OfKind(s, "plan")
  BY <1>6, <1>7 DEF OriginsOnRecord
<1>9. ASSUME r.arm.condition = "memory" PROVE k < r.retrieval /\ r.injection < x /\ Reported(s, r, y)
  <2>1. Found(s, r) /\ Reported(s, r, y)
    BY <1>9 DEF HandedOut, Supplied, Executed
  <2>2. PICK l \in DOMAIN s : l < r.retrieval /\ s[l].id = ContractID(r.arm)
    BY <2>1 DEF Found
  <2>3. l = k
    BY <1>1, <1>3, <2>2, IndexedMeans
  <2> QED  BY <1>2, <2>1, <2>2, <2>3 DEF Started
<1> HIDE DEF c
<1>10. r.arm.condition = "baseline" => r.adoption = NoEvent
  BY DEF Executed
<1>11. k \in OfKind(s, "contract")
  BY <1>6 DEF OfKind
<1>12. /\ x \in OfKind(s, "start") /\ s[x].context = ContextOf(r.arm)
       /\ y \in OfKind(s, "tool_result") /\ s[y].context = ContextOf(r.arm) /\ s[y].parents = {x} /\ x < y
  BY <1>2 DEF Started, Resulted
<1>13. Armed(r.arm) /\ IsRequest(r) /\ Supplied(s, r)
  BY DEF HandedOut
<1>14. At(s, ContractID(r.arm)) = k
  BY <1>4 DEF c
<1>15. LaidOut(s, r, k, x, y)
  BY <1>3, <1>4, <1>5, <1>8, <1>9, <1>10, <1>11, <1>12, <1>13, <1>14 DEF LaidOut
<1> QED  BY <1>14, <1>15

\* The window holds nothing but the execution.
Undisturbed(s, r, t) ==
    Window(s, r.arm) \subseteq {At(s, ContractID(r.arm)), r.retrieval, r.injection, t} \cup StartsOf(s, r.arm)

LEMMA WindowOfExecution ==
    ASSUME NEW s, IsLog(s), NEW r, NEW c, NEW x, NEW t, LaidOut(s, r, c, x, t), Undisturbed(s, r, t)
    PROVE  /\ Results(s, Window(s, r.arm)) = {t} /\ Users(s, Window(s, r.arm)) = {}
           /\ Complete(s, Window(s, r.arm))
           /\ \A i \in Window(s, r.arm) : s[i].kind = "injection" => i = r.injection
           /\ Exposed(s, r.arm) = IF r.arm.condition = "baseline" THEN {} ELSE {r.retrieval, r.injection}
<1> DEFINE w == Window(s, r.arm)
<1>1. DOMAIN s = 1..Len(s) /\ Len(s) \in Nat
  BY LogPositions
<1>2. /\ c \in 1..Len(s) /\ t \in 1..Len(s) /\ x \in 1..Len(s) /\ c < x /\ x < t
      /\ w = {i \in c..t : s[i].context = ContextOf(r.arm)}
  BY <1>1 DEF LaidOut, OfKind, Window
<1>3. \A i \in w : i \in 1..Len(s)
  BY <1>1, <1>2
<1>4. \A i \in w : i \in {c, r.retrieval, r.injection, t} \cup StartsOf(s, r.arm)
  BY DEF Undisturbed, LaidOut
<1> HIDE DEF w
<1>5. c \in w /\ t \in w
  BY <1>2 DEF LaidOut
<1>6. s[c].kind = "contract" /\ s[t].kind = "tool_result"
  BY DEF LaidOut, OfKind
<1>7. ASSUME NEW i \in StartsOf(s, r.arm) PROVE s[i].kind = "start"
  BY <1>7 DEF StartsOf, OfKind
<1>8. CASE r.arm.condition = "baseline"
  <2>1. r.retrieval = 0 /\ r.injection = 0
    BY <1>8 DEF LaidOut, Supplied, NoEvent
  <2>2. \A i \in w : i = c \/ i = t \/ i \in StartsOf(s, r.arm)
    BY <1>3, <1>4, <2>1
  <2>3. \A i \in w : s[i].kind \in {"contract", "start"} \/ i = t
    BY <1>6, <1>7, <2>2
  <2> QED  BY <1>5, <1>6, <1>8, <2>3 DEF Results, Users, Complete, Exposed, w
<1>9. CASE r.arm.condition = "memory"
  <2>1. /\ r.retrieval \in 1..Len(s) /\ r.injection \in 1..Len(s)
        /\ s[r.retrieval].kind = "retrieval" /\ s[r.injection].kind = "injection"
        /\ s[r.retrieval].context = ContextOf(r.arm) /\ s[r.injection].context = ContextOf(r.arm)
        /\ c < r.retrieval /\ r.retrieval < r.injection /\ r.injection < x
    BY <1>1, <1>9 DEF LaidOut, Supplied, Found, Injected, OfKind
  <2>2. r.retrieval \in w /\ r.injection \in w
    BY <1>2, <2>1
  <2>3. \A i \in w : s[i].kind \in {"contract", "start"} \/ i \in {t, r.retrieval, r.injection}
    BY <1>4, <1>6, <1>7
  <2> QED  BY <1>5, <1>6, <1>9, <2>1, <2>2, <2>3 DEF Results, Users, Complete, Exposed, w
<1> QED  BY <1>8, <1>9 DEF LaidOut, Armed

\* One result is one observation.
LEMMA OneObservation ==
    ASSUME NEW s, NEW t \in Nat
    PROVE  blindOracleObservations(s, {t}) = [k \in 1..1 |-> <<s[t].kind, s[t].payload>>]
<1>1. Cardinality({t}) = 1
  BY FS_Singleton
<1>2. Nth({t}, 1) = t
  <2>1. {j \in {t} : j < t} = {}
    OBVIOUS
  <2>2. Cardinality({j \in {t} : j < t}) = 1 - 1
    BY <2>1, FS_EmptySet
  <2> QED  BY <2>2 DEF Nth
<1>3. \A k \in 1..1 : Nth({t}, k) = t
  BY <1>2
<1> QED  BY <1>1, <1>3 DEF blindOracleObservations

LEMMA OneIsAllowed ==
    ASSUME NEW s, NEW t \in Nat,
           <<s[t].kind, s[t].payload>> \in {o[1] : o \in {o \in AllowedOrders : Len(o) = 1}},
           s[t].payload \in DOMAIN ResultLabels
    PROVE  Judgeable(s, {t}, {})
<1>1. PICK o \in AllowedOrders : Len(o) = 1 /\ o[1] = <<s[t].kind, s[t].payload>>
  OBVIOUS
<1>2. o \in Seq({o[k] : k \in 1..Len(o)})
  BY TrialAssumption
<1>3. o = [k \in 1..1 |-> o[k]]
  <2> DEFINE O == {o[k] : k \in 1..Len(o)}
  <2>1. o \in Seq(O) /\ Len(o) = 1
    BY <1>1, <1>2
  <2> HIDE DEF O
  <2> QED  BY <2>1
<1>4. \A k \in 1..1 : o[k] = <<s[t].kind, s[t].payload>>
  BY <1>1
<1>5. o = [k \in 1..1 |-> <<s[t].kind, s[t].payload>>]
  BY <1>3, <1>4
<1>6. blindOracleObservations(s, {t} \cup {}) \in AllowedOrders
  <2>1. {t} \cup {} = {t}
    OBVIOUS
  <2>2. blindOracleObservations(s, {t}) \in AllowedOrders
    BY <1>1, <1>5, OneObservation
  <2> QED  BY <2>1, <2>2, Zenon
<1> QED  BY <1>6 DEF Judgeable

\* The ancestors of an event are itself and those of its parents.
LEMMA AncestorsAt ==
    ASSUME NEW s, IsLog(s), NEW i \in 1..Len(s)
    PROVE  Ancestors(s)[i] = {i} \cup UNION {Ancestors(s)[q] : q \in s[i].parents \cap 1..i - 1}
<1>1. Len(s) \in Nat
  BY LogPositions
<1> DEFINE f == Ancestors(s)
           n == Len(s)
<1>2. IsUp(s, f, n) /\ n \in Nat
  BY <1>1, AncestorsUp
<1> HIDE DEF f, n
<1>3. \A j \in 1..n : f[j] = {j} \cup UNION {f[q] : q \in s[j].parents \cap 1..j - 1}
  BY <1>2, UpAt
<1> QED  BY <1>3 DEF f, n

\* Where the parents of an event lead to.
LEMMA AncestorsWithin ==
    ASSUME NEW s, IsLog(s), NEW i \in 1..Len(s), NEW S,
           \A q \in s[i].parents \cap 1..i - 1 : Ancestors(s)[q] \subseteq S
    PROVE  Ancestors(s)[i] \subseteq {i} \cup S
BY AncestorsAt

LEMMA AncestorsOwn ==
    ASSUME NEW s, IsLog(s), NEW i \in 1..Len(s)
    PROVE  /\ i \in Ancestors(s)[i]
           /\ \A q \in s[i].parents \cap 1..i - 1 : Ancestors(s)[q] \subseteq Ancestors(s)[i]
BY AncestorsAt

\* The receipts of the memory an execution was given.
Given(r) == IF r.arm.condition = "baseline" THEN {} ELSE {r.retrieval, r.injection}

\* The ancestors of the result: the start, the contract, its plan and the delivery.
LEMMA AncestorsOfExecution ==
    ASSUME NEW s, IsLog(s), OriginsOnRecord(s), NEW r, NEW c, NEW x, NEW t, LaidOut(s, r, c, x, t)
    PROVE  /\ Ancestors(s)[c] \cup Ancestors(s)[t] \subseteq {t, x, c} \cup Given(r) \cup OfKind(s, "plan")
           /\ isCausalDescendant(s, t, c)
           /\ r.arm.condition = "memory" =>
                  isCausalDescendant(s, t, r.injection) /\ isCausalDescendant(s, r.injection, r.retrieval)
<1> DEFINE up == Ancestors(s)
           plans == OfKind(s, "plan")
           given == Given(r)
           S == {c} \cup plans \cup given
<1>1. DOMAIN s = 1..Len(s) /\ Len(s) \in Nat
  BY LogPositions
<1>2. /\ c \in 1..Len(s) /\ t \in 1..Len(s) /\ x \in 1..Len(s) /\ c < x /\ x < t
      /\ s[c].parents \subseteq plans /\ s[x].parents = {c, r.injection} \ {NoEvent} /\ s[t].parents = {x}
  BY <1>1 DEF LaidOut, OfKind
<1>3. ASSUME NEW q \in plans PROVE up[q] \subseteq plans
  <2>1. q \in 1..Len(s) /\ s[q].parents = {}
    BY <1>1 DEF OriginsOnRecord, OfKind
  <2>2. up[q] \subseteq {q} \cup {}
    BY <2>1, AncestorsWithin
  <2> QED  BY <2>2
<1> HIDE DEF plans
<1>4. up[c] \subseteq {c} \cup plans
  BY <1>2, <1>3, AncestorsWithin
<1>5. c \in s[x].parents \cap 1..x - 1
  BY <1>2 DEF NoEvent
<1>6. x \in s[t].parents \cap 1..t - 1
  BY <1>2
<1>7. up[x] \subseteq up[t] /\ up[c] \subseteq up[x] /\ c \in up[c]
  BY <1>2, <1>5, <1>6, AncestorsOwn
<1>8. c \in up[t]
  BY <1>7
<1>9. \A q \in s[x].parents \cap 1..x - 1 : up[q] \subseteq S
  <2>1. CASE r.arm.condition = "baseline"
    <3>1. r.injection = NoEvent
      BY <2>1 DEF LaidOut, Supplied
    <3>2. \A q \in s[x].parents \cap 1..x - 1 : q = c
      BY <1>2, <3>1
    <3> QED  BY <1>4, <3>2
  <2>2. CASE r.arm.condition = "memory"
    <3>1. /\ r.retrieval \in 1..Len(s) /\ r.injection \in 1..Len(s)
          /\ s[r.retrieval].parents = {} /\ s[r.injection].parents = {r.retrieval}
      BY <1>1, <2>2 DEF LaidOut, Supplied, Found, Injected, OfKind
    <3>2. up[r.retrieval] \subseteq {r.retrieval} \cup {}
      BY <3>1, AncestorsWithin
    <3>3. up[r.injection] \subseteq {r.injection} \cup {r.retrieval}
      BY <3>1, <3>2, AncestorsWithin
    <3>4. given = {r.retrieval, r.injection}
      BY <2>2 DEF Given
    <3>5. up[r.injection] \subseteq S
      BY <3>3, <3>4
    <3> QED  BY <1>2, <1>4, <3>5
  <2> QED  BY <2>1, <2>2 DEF LaidOut, Armed
<1> HIDE DEF S
<1>10. up[x] \subseteq {x} \cup S
  <2> HIDE DEF up
  <2>1. \A q \in s[x].parents \cap 1..x - 1 : Ancestors(s)[q] \subseteq S
    BY <1>9 DEF up
  <2>2. Ancestors(s)[x] \subseteq {x} \cup S
    BY <1>2, <2>1, AncestorsWithin
  <2> QED  BY <2>2 DEF up
<1>11. up[t] \subseteq {t} \cup ({x} \cup S)
  BY <1>2, <1>10, AncestorsWithin
<1>12. ASSUME r.arm.condition = "memory" PROVE r.injection \in up[t] /\ r.retrieval \in up[r.injection]
  <2>1. /\ r.retrieval \in 1..Len(s) /\ r.injection \in 1..Len(s)
        /\ s[r.injection].parents = {r.retrieval} /\ r.retrieval < r.injection /\ r.injection < x
    BY <1>1, <1>12 DEF LaidOut, Supplied, Found, Injected, OfKind
  <2>2. r.injection \in s[x].parents \cap 1..x - 1 /\ r.retrieval \in s[r.injection].parents \cap 1..r.injection - 1
    BY <1>2, <2>1 DEF NoEvent
  <2> QED  BY <1>2, <1>7, <2>1, <2>2, AncestorsOwn
<1> QED  BY <1>4, <1>8, <1>11, <1>12 DEF isCausalDescendant, plans, S

\* The parts of an execution with memory, and the report on it.
MemoryReceipts(s, r, c, t) ==
    /\ {r.retrieval, r.injection, r.adoption} \subseteq 1..Len(s)
    /\ c < r.retrieval /\ r.retrieval < r.injection /\ r.injection <= t /\ t < r.adoption
    /\ s[r.retrieval].kind = "retrieval" /\ s[r.injection].kind = "injection"
    /\ s[r.adoption].kind = "adoption"
    /\ \A i \in {r.retrieval, r.injection, r.adoption} : s[i].context = ContextOf(r.arm)
    /\ s[r.retrieval].body.memory = r.memory
    /\ s[r.injection].body = [retrieval |-> r.retrieval, memory |-> r.memory]
    /\ s[r.adoption].body.injection = r.injection
    /\ isCausalDescendant(s, r.adoption, r.injection)
    /\ r.memory # "none"

LEMMA MemoryOfExecution ==
    ASSUME NEW s, IsLog(s), NEW r, NEW c, NEW x, NEW t, LaidOut(s, r, c, x, t), r.arm.condition = "memory"
    PROVE  MemoryReceipts(s, r, c, t)
<1>1. DOMAIN s = 1..Len(s) /\ Len(s) \in Nat
  BY LogPositions
<1>2. Found(s, r) /\ Injected(s, r) /\ Reported(s, r, t) /\ c < r.retrieval /\ r.injection < x /\ x < t
      /\ c \in 1..Len(s) /\ t \in 1..Len(s) /\ x \in 1..Len(s)
  BY <1>1 DEF LaidOut, Supplied, OfKind
<1>3. {r.retrieval, r.injection, r.adoption} \subseteq 1..Len(s)
  BY <1>1, <1>2 DEF Found, Injected, Reported, OfKind
<1>4. r.injection < r.adoption /\ r.injection <= t /\ t < r.adoption /\ r.retrieval < r.injection
  BY <1>2, <1>3 DEF Injected, Reported
<1>5. r.injection \in s[r.adoption].parents \cap 1..r.adoption - 1
  BY <1>2, <1>3, <1>4 DEF Reported
<1>6. r.injection \in Ancestors(s)[r.adoption]
  BY <1>3, <1>5, AncestorsOwn
<1> QED  BY <1>2, <1>3, <1>4, <1>6 DEF MemoryReceipts, isCausalDescendant, Found, Injected, Reported, OfKind

\* Once it is judged, the execution can be derived.
LEMMA ExecutionDerives ==
    ASSUME NEW s, IsLog(s), loadIndexedRecords(s), OriginsOnRecord(s),
           NEW r, NEW c, NEW x, NEW t, LaidOut(s, r, c, x, t), Undisturbed(s, r, t),
           r.memory \in {"none", "fits"},
           NEW v \in 1..Len(s), s[v] = VerdictEvent(s, r.arm), t < v,
           r.arm.condition = "memory" => r.adoption < v
    PROVE  Derivable(s, r)
<1> DEFINE w == Window(s, r.arm)
<1>1. DOMAIN s = 1..Len(s) /\ Len(s) \in Nat
  BY LogPositions
<1>2. /\ c \in 1..Len(s) /\ t \in 1..Len(s) /\ x \in 1..Len(s) /\ c < x /\ x < t
      /\ s[c].kind = "contract" /\ s[x].kind = "start" /\ s[t].kind = "tool_result"
      /\ s[c].context = ContextOf(r.arm) /\ s[t].context = ContextOf(r.arm)
      /\ Has(s, ContractID(r.arm)) /\ At(s, ContractID(r.arm)) = c
      /\ Has(s, ResultID(r.arm)) /\ At(s, ResultID(r.arm)) = t
  BY <1>1 DEF LaidOut, OfKind
<1>3. /\ Results(s, w) = {t} /\ Users(s, w) = {} /\ Complete(s, w)
      /\ Exposed(s, r.arm) = IF r.arm.condition = "baseline" THEN {} ELSE {r.retrieval, r.injection}
  BY WindowOfExecution
<1>4. /\ s[v].id = VerdictID(r.arm) /\ s[v].context = ContextOf(r.arm) /\ s[v].parents = {t}
      /\ s[v].body = materializeBuiltinVerdict(s, r.arm)
  BY <1>2 DEF VerdictEvent, Event
<1>5. Has(s, VerdictID(r.arm)) /\ At(s, VerdictID(r.arm)) = v
  BY <1>4, AtIs
<1>6. /\ s[v].body.arm = r.arm
      /\ DOMAIN s[v].body.judgment.results = Results(s, w)
      /\ DOMAIN s[v].body.judgment.users = Users(s, w)
  <2> DEFINE j == runBuiltinEvidenceScoreOracle(s, Results(s, w), Users(s, w))
  <2>1. s[v].body.arm = r.arm /\ s[v].body.judgment = j
    BY <1>4 DEF materializeBuiltinVerdict
  <2>2. DOMAIN j.results = Results(s, w) /\ DOMAIN j.users = Users(s, w)
    BY DEF runBuiltinEvidenceScoreOracle
  <2> HIDE DEF j
  <2> QED  BY <2>1, <2>2
<1>7. isCausalDescendant(s, v, t)
  <2>1. t \in s[v].parents \cap 1..v - 1
    BY <1>2, <1>4
  <2>2. t \in Ancestors(s)[t] /\ Ancestors(s)[t] \subseteq Ancestors(s)[v]
    BY <1>2, <2>1, AncestorsOwn
  <2> QED  BY <2>2 DEF isCausalDescendant
<1> DEFINE inherited == causalAncestorKinds(s, Results(s, w) \cup Users(s, w) \cup {c}, {"retrieval", "injection"})
<1>8. inherited \subseteq Given(r)
  <2>1. Ancestors(s)[c] \cup Ancestors(s)[t] \subseteq {t, x, c} \cup Given(r) \cup OfKind(s, "plan")
    BY AncestorsOfExecution
  <2>2. \A q \in inherited : q \in Ancestors(s)[c] \cup Ancestors(s)[t] /\ s[q].kind \in {"retrieval", "injection"}
    BY <1>3 DEF causalAncestorKinds
  <2> HIDE DEF inherited
  <2>3. \A q \in OfKind(s, "plan") : s[q].kind = "plan"
    BY DEF OfKind
  <2> QED  BY <1>2, <2>1, <2>2, <2>3
<1> HIDE DEF inherited
<1>9. r.arm.condition \in {"baseline", "memory"} /\ Planned(r.arm) /\ IsRequest(r)
  BY DEF LaidOut, Armed
<1>10. ConditionHolds(s, r, w)
  <2>1. \A i \in Results(s, w) \cup Users(s, w) : i = t
    BY <1>3
  <2>2. inherited = causalAncestorKinds(s, Results(s, w) \cup Users(s, w) \cup {At(s, ContractID(r.arm))},
                                        {"retrieval", "injection"})
    BY <1>2 DEF inherited
  <2>3. CASE r.arm.condition = "baseline"
    <3>1. inherited = {} /\ Exposed(s, r.arm) = {}
      BY <1>3, <1>8, <2>3 DEF Given
    <3>2. \A i \in Results(s, w) \cup Users(s, w) : isCausalDescendant(s, i, At(s, ContractID(r.arm)))
      BY <1>2, <2>1, AncestorsOfExecution
    <3> HIDE DEF w
    <3> QED  BY <2>2, <2>3, <3>1, <3>2 DEF ConditionHolds
  <2>4. CASE r.arm.condition = "memory"
    <3>1. inherited \subseteq {r.retrieval, r.injection} /\ Exposed(s, r.arm) = {r.retrieval, r.injection}
      BY <1>3, <1>8, <2>4 DEF Given
    <3>2. \A i \in Results(s, w) \cup Users(s, w) : isCausalDescendant(s, i, r.injection)
      BY <2>1, <2>4, AncestorsOfExecution
    <3>3. isCausalDescendant(s, r.injection, r.retrieval)
      BY <2>4, AncestorsOfExecution
    <3>4. MemoryReceipts(s, r, c, t)
      BY <2>4, MemoryOfExecution
    <3>5. r.memory = "fits" /\ r.adoption < v
      BY <2>4, <3>4 DEF MemoryReceipts
    <3>6. validateMemoryAttempt(s, r)
      BY <1>2, <1>5, <1>9, <3>3, <3>4, <3>5 DEF validateMemoryAttempt, MemoryReceipts
    <3> HIDE DEF w
    <3> QED  BY <2>2, <2>4, <3>1, <3>2, <3>6 DEF ConditionHolds
  <2> QED  BY <1>9, <2>3, <2>4
<1>11. validateTaskAttemptRequest(r) /\ {r.retrieval, r.injection, r.adoption} \subseteq DOMAIN s \cup {NoEvent}
  <2>1. CASE r.arm.condition = "baseline"
    <3>1. r.retrieval = NoEvent /\ r.injection = NoEvent /\ r.adoption = NoEvent /\ r.memory = "none"
      BY <2>1 DEF LaidOut, Supplied
    <3>2. r = Request(r.arm)
      BY <1>9, <3>1 DEF IsRequest, Request
    <3> QED  BY <2>1, <3>1, <3>2 DEF validateTaskAttemptRequest
  <2>2. CASE r.arm.condition = "memory"
    <3>1. MemoryReceipts(s, r, c, t)
      BY <2>2, MemoryOfExecution
    <3> QED  BY <1>1, <2>2, <3>1 DEF validateTaskAttemptRequest, NoEvent, MemoryReceipts
  <2> QED  BY <1>9, <2>1, <2>2
<1> QED  BY <1>2, <1>3, <1>4, <1>5, <1>6, <1>7, <1>10, <1>11 DEF Derivable

\* A ledger whose commands read it, as the trials leave it.
Replayable(e) == IsLog(e) /\ loadIndexedRecords(e) /\ PlansOnRecord(e) /\ OriginsOnRecord(e)

\* The receipt of the execution is the one its file is checked against.
LEMMA ReceiptOfExecution ==
    ASSUME NEW e, IsLog(e), loadIndexedRecords(e), NEW r, NEW c, NEW x, NEW t,
           LaidOut(e, r, c, x, t), Executed(e, r, x, t)
    PROVE  ValidateTaskExecutionResult(e, r)
<1>1. PICK i \in OfKind(e, "receipt") :
          /\ t < i /\ e[i].by = "supervisor" /\ e[i].context = ContextOf(r.arm) /\ e[i].parents = {x, t}
          /\ IsReceiptOf(e[i].body, r, x, t, e[t].payload)
  BY DEF Executed, Received
<1> DEFINE b == e[i].body
<1>2. /\ b.arm = r.arm /\ b.start = x /\ b.result = t /\ b.payload = e[t].payload
      /\ b.retrieval = r.retrieval /\ b.injection = r.injection /\ b.memory = r.memory
  BY <1>1 DEF IsReceiptOf
<1>3. i \in ReceiptsOf(e, r.arm)
  BY <1>2 DEF ReceiptsOf
<1> HIDE DEF b
<1>4. /\ At(e, ContractID(r.arm)) = c /\ At(e, ResultID(r.arm)) = t /\ c < x /\ x < t
      /\ e[x].parents = {c, r.injection} \ {NoEvent} /\ e[t].parents = {x}
      /\ e[x].context = ContextOf(r.arm) /\ e[t].context = ContextOf(r.arm)
  BY DEF LaidOut
<1>5. /\ e[x].by = "supervisor" /\ e[t].by = "supervisor"
      /\ e[x].body = [arm |-> r.arm, memory |-> r.memory]
  BY DEF Executed, Started, Resulted
<1>6. r.arm.condition = "memory" =>
          /\ r.retrieval < r.injection /\ r.injection < x
          /\ e[r.injection].parents = {r.retrieval} /\ e[r.injection].body.memory = r.memory
  BY DEF LaidOut, Supplied, Injected
<1>7. validatePopulationExecutionReceipt(e, i, r)
  BY <1>1, <1>2, <1>4, <1>5, <1>6 DEF validatePopulationExecutionReceipt, b
<1> QED  BY <1>3, <1>7 DEF ValidateTaskExecutionResult

\* What its verdict is, and after what it came.
LEMMA VerdictOfExecution ==
    ASSUME NEW e, Replayable(e), VerdictsOnRecord(e), NEW r, NEW c, NEW x, NEW t,
           LaidOut(e, r, c, x, t), Undisturbed(e, r, t), Has(e, VerdictID(r.arm)),
           \A i \in OfKind(e, "adoption") : e[i].body.injection = r.injection => i = r.adoption
    PROVE  \E v \in 1..Len(e) :
               /\ v = At(e, VerdictID(r.arm)) /\ e[v] = VerdictEvent(e, r.arm) /\ t < v
               /\ r.arm.condition = "memory" => r.adoption < v
<1>1. IsLog(e) /\ loadIndexedRecords(e) /\ DOMAIN e = 1..Len(e) /\ Len(e) \in Nat
  BY LogPositions DEF Replayable
<1>2. PICK v \in 1..Len(e) : e[v].id = VerdictID(r.arm)
  BY <1>1 DEF Has
<1>3. v = At(e, VerdictID(r.arm))
  BY <1>1, <1>2, AtIs
<1>4. e[v].id[1] = "verdict"
  BY <1>2 DEF VerdictID
<1>5. Decided(e, e[v].body.arm, v - 1) /\ e[v] = VerdictEvent(e, e[v].body.arm)
  BY <1>1, <1>4 DEF VerdictsOnRecord
<1>6. e[v].body.arm = r.arm
  <2> DEFINE a == e[v].body.arm
  <2>1. e[v] = VerdictEvent(e, a)
    BY <1>5
  <2> HIDE DEF a
  <2>2. e[v].id = VerdictID(a)
    BY <2>1 DEF VerdictEvent, Event
  <2> QED  BY <1>2, <2>2 DEF VerdictID, a
<1>7. e[v] = VerdictEvent(e, r.arm) /\ Decided(e, r.arm, v - 1)
  BY <1>5, <1>6
<1>8. PICK k \in DOMAIN e, l \in DOMAIN e :
          /\ k < l /\ l <= v - 1
          /\ e[k].id = ContractID(r.arm) /\ e[l].id = ResultID(r.arm)
          /\ r.arm.condition = "memory" => \E a \in OfKind(e, "adoption"), i \in OfKind(e, "injection") :
                 /\ l < a /\ a <= v - 1 /\ e[a].body.injection = i
                 /\ k < i /\ i <= l /\ e[i].context = ContextOf(r.arm)
  BY <1>7 DEF Decided
<1>9. k = c /\ l = t
  <2>1. At(e, e[k].id) = k /\ At(e, e[l].id) = l
    BY <1>1, AtIs
  <2> QED  BY <1>8, <2>1 DEF LaidOut
<1>10. t < v
  BY <1>1, <1>8, <1>9
<1>11. ASSUME r.arm.condition = "memory" PROVE r.adoption < v
  <2>1. PICK a \in OfKind(e, "adoption"), i \in OfKind(e, "injection") :
            /\ t < a /\ a <= v - 1 /\ e[a].body.injection = i
            /\ c < i /\ i <= t /\ e[i].context = ContextOf(r.arm)
    BY <1>8, <1>9, <1>11
  <2>2. a \in 1..Len(e) /\ i \in 1..Len(e) /\ e[i].kind = "injection"
    BY <1>1 DEF OfKind
  <2>3. i \in Window(e, r.arm)
    BY <1>1, <1>8, <1>9, <2>1, <2>2 DEF Window, LaidOut
  <2>4. i = r.injection
    BY <1>1, <2>2, <2>3, WindowOfExecution
  <2>5. a = r.adoption
    BY <2>1, <2>4
  <2> QED  BY <1>1, <2>1, <2>2, <2>5
<1> QED  BY <1>3, <1>7, <1>10, <1>11

\* Without one, the verdict may be written, and the rest stays.
LEMMA VerdictMayCome ==
    ASSUME NEW e, Replayable(e), NEW r, HandedOut(e, r), NEW x \in DOMAIN e, NEW t \in DOMAIN e,
           Executed(e, r, x, t), LaidOut(e, r, At(e, ContractID(r.arm)), x, t), Undisturbed(e, r, t),
           ~Has(e, VerdictID(r.arm)),
           NEW s, s = Append(e, VerdictEvent(e, r.arm))
    PROVE  /\ Replayable(s) /\ s[Len(s)] = VerdictEvent(s, r.arm) /\ t < Len(s) /\ Len(s) \in 1..Len(s)
           /\ LaidOut(s, r, At(s, ContractID(r.arm)), x, t) /\ Undisturbed(s, r, t)
           /\ r.arm.condition = "memory" => r.adoption < Len(s)
<1> DEFINE y == VerdictEvent(e, r.arm)
<1>1. y.id = VerdictID(r.arm) /\ y.id[1] = "verdict" /\ y.kind = "tool_result"
  BY DEF VerdictEvent, Event, VerdictID
<1>2. s = Append(e, y)
  OBVIOUS
<1> HIDE DEF y
<1>3. IsLog(e) /\ loadIndexedRecords(e) /\ PlansOnRecord(e) /\ OriginsOnRecord(e) /\ DOMAIN e = 1..Len(e)
  BY LogPositions DEF Replayable
<1>4. Grows(e, s) /\ Len(s) = Len(e) + 1 /\ s[Len(e) + 1] = y
  BY <1>2, <1>3, LogGrows
<1>5. \A i \in New(e, s) : i = Len(e) + 1 /\ s[i] = y
  BY <1>4 DEF New, Grows
<1>6. loadIndexedRecords(s)
  <2>1. \A i, j \in 1..Len(e) : e[i].id = e[j].id => i = j
    BY <1>3, IndexedMeans
  <2>2. \A i \in 1..Len(e) : e[i].id # y.id
    BY <1>1, <1>3 DEF Has
  <2>3. \A i \in 1..Len(s) : (i \in 1..Len(e) /\ s[i] = e[i]) \/ (i = Len(e) + 1 /\ s[i] = y)
    BY <1>4, <1>5, OldOrNew
  <2>4. \A i, j \in 1..Len(s) : s[i].id = s[j].id => i = j
    BY <2>1, <2>2, <2>3
  <2> QED  BY <1>4, <2>4, IndexedMeans DEF Grows
<1>7. PlansOnRecord(s)
  BY <1>1, <1>3, <1>4, <1>5, PlansGrow
<1>8. OriginsOnRecord(s)
  BY <1>1, <1>3, <1>4, <1>5, OriginsGrow
<1>9. Replayable(s)
  BY <1>4, <1>6, <1>7, <1>8 DEF Replayable, Grows
<1>10. HandedOut(s, r) /\ Executed(s, r, x, t) /\ x \in DOMAIN s /\ t \in DOMAIN s
  <2>1. HandedOut(s, r)
    BY <1>4, HandedStays
  <2>2. x \in DOMAIN s /\ t \in DOMAIN s /\ s[t] = e[t]
    BY <1>4, SameThere
  <2> QED  BY <1>4, <2>1, <2>2, ExecutionStays DEF Executed
<1>11. LaidOut(s, r, At(s, ContractID(r.arm)), x, t)
  BY <1>9, <1>10, HandedIsLaidOut DEF Replayable
<1>12. Bounded(e, r.arm)
  BY DEF LaidOut, Bounded
<1>13. /\ Window(s, r.arm) = Window(e, r.arm)
       /\ At(s, ContractID(r.arm)) = At(e, ContractID(r.arm)) /\ At(s, ResultID(r.arm)) = At(e, ResultID(r.arm))
  BY <1>4, <1>6, <1>12, WindowStays, IdsStay DEF Bounded
<1>14. StartsOf(e, r.arm) \subseteq StartsOf(s, r.arm)
  BY <1>4, SameThere DEF StartsOf
<1>15. Undisturbed(s, r, t)
  BY <1>13, <1>14 DEF Undisturbed
<1>16. s[Len(s)] = VerdictEvent(s, r.arm)
  <2>1. materializeBuiltinVerdict(s, r.arm) = materializeBuiltinVerdict(e, r.arm)
    BY <1>4, <1>6, <1>12, VerdictStays
  <2> QED  BY <1>4, <1>13, <2>1 DEF VerdictEvent, y
<1>17. t < Len(s) /\ Len(s) \in 1..Len(s)
  BY <1>3, <1>4 DEF Grows
<1>18. r.arm.condition = "memory" => r.adoption < Len(s)
  <2>1. r.arm.condition = "memory" => r.adoption \in 1..Len(e)
    BY <1>3 DEF LaidOut, Reported, OfKind
  <2> QED  BY <1>4, <2>1 DEF Grows
<1> QED  BY <1>9, <1>11, <1>15, <1>16, <1>17, <1>18

\* A request that was handed out is counted, as long as nothing disturbed it.
LEMMA HandedOutCounts ==
    ASSUME NEW e, Replayable(e), VerdictsOnRecord(e), NEW r, HandedOut(e, r),
           Undisturbed(e, r, At(e, ResultID(r.arm))),
           LET t == At(e, ResultID(r.arm))
           IN  /\ <<e[t].kind, e[t].payload>> \in {o[1] : o \in {o \in AllowedOrders : Len(o) = 1}}
               /\ e[t].payload \in DOMAIN ResultLabels,
           r.memory \in {"none", "fits"},
           \A i \in OfKind(e, "adoption") : e[i].body.injection = r.injection => i = r.adoption
    PROVE  /\ ValidateTaskExecutionResult(e, r) /\ Finalizable(e, r)
           /\ Derivable(IF Has(e, VerdictID(r.arm)) THEN e ELSE Append(e, VerdictEvent(e, r.arm)), r)
<1> DEFINE c == At(e, ContractID(r.arm))
           w == Window(e, r.arm)
           s == Append(e, VerdictEvent(e, r.arm))
<1>1. IsLog(e) /\ loadIndexedRecords(e) /\ PlansOnRecord(e) /\ OriginsOnRecord(e) /\ DOMAIN e = 1..Len(e)
      /\ Len(e) \in Nat
  BY LogPositions DEF Replayable
<1>2. PICK x \in DOMAIN e, t \in DOMAIN e : Executed(e, r, x, t)
  BY DEF HandedOut
<1>3. LaidOut(e, r, At(e, ContractID(r.arm)), x, t)
  BY <1>1, <1>2, HandedIsLaidOut
<1>4. At(e, ResultID(r.arm)) = t
  BY <1>3 DEF LaidOut
<1>5. Undisturbed(e, r, t)
  BY <1>4
<1>6. ValidateTaskExecutionResult(e, r)
  BY <1>1, <1>2, <1>3, ReceiptOfExecution
<1>7. Results(e, w) = {t} /\ Users(e, w) = {} /\ Complete(e, w)
  <2>1. IsLog(e) /\ LaidOut(e, r, c, x, t) /\ Undisturbed(e, r, t)
    BY <1>1, <1>3, <1>5
  <2> HIDE DEF c
  <2> QED  BY <2>1, WindowOfExecution
<1>8. Judgeable(e, Results(e, w), Users(e, w))
  <2>1. t \in Nat
    BY <1>1, <1>2
  <2>2. Judgeable(e, {t}, {})
    BY <1>4, <2>1, OneIsAllowed
  <2> HIDE DEF w
  <2> QED  BY <1>7, <2>2
<1>9. /\ Has(e, ContractID(r.arm)) /\ Has(e, ResultID(r.arm))
      /\ At(e, ContractID(r.arm)) < At(e, ResultID(r.arm))
  <2>1. c \in 1..Len(e) /\ x \in 1..Len(e) /\ t \in 1..Len(e) /\ c < x /\ x < t
    BY <1>1, <1>3 DEF LaidOut, OfKind
  <2> QED  BY <1>1, <1>3, <1>4, <2>1 DEF LaidOut
<1>10. CASE Has(e, VerdictID(r.arm))
  <2>1. PICK v \in 1..Len(e) :
            /\ v = At(e, VerdictID(r.arm)) /\ e[v] = VerdictEvent(e, r.arm) /\ t < v
            /\ r.arm.condition = "memory" => r.adoption < v
    BY <1>3, <1>5, <1>10, VerdictOfExecution
  <2>2. e[At(e, VerdictID(r.arm))].body = materializeBuiltinVerdict(e, r.arm)
    BY <2>1 DEF VerdictEvent, Event
  <2>3. Finalizable(e, r)
    BY <1>1, <1>7, <1>8, <1>9, <2>2 DEF Finalizable
  <2>4. Derivable(e, r)
    BY <1>1, <1>3, <1>5, <2>1, ExecutionDerives
  <2> HIDE DEF s
  <2> QED  BY <1>6, <1>10, <2>3, <2>4
<1>11. CASE ~Has(e, VerdictID(r.arm))
  <2>1. Finalizable(e, r)
    BY <1>1, <1>7, <1>8, <1>9, <1>11 DEF Finalizable
  <2>2. s = Append(e, VerdictEvent(e, r.arm))
    OBVIOUS
  <2> HIDE DEF s
  <2>3. /\ Replayable(s) /\ s[Len(s)] = VerdictEvent(s, r.arm) /\ t < Len(s) /\ Len(s) \in 1..Len(s)
        /\ LaidOut(s, r, At(s, ContractID(r.arm)), x, t) /\ Undisturbed(s, r, t)
        /\ r.arm.condition = "memory" => r.adoption < Len(s)
    BY <1>2, <1>3, <1>5, <1>11, <2>2, VerdictMayCome
  <2>4. IsLog(s) /\ loadIndexedRecords(s) /\ OriginsOnRecord(s)
    BY <2>3 DEF Replayable
  <2>5. Derivable(s, r)
    BY <2>3, <2>4, ExecutionDerives
  <2> QED  BY <1>6, <1>11, <2>1, <2>2, <2>5
<1> QED  BY <1>10, <1>11

\* Whatever the other processes do, an execution that completed undisturbed is
\* not lost: its file is accepted (ValidateTaskExecutionResult), the oracle judges it, and the
\* attempt that FinalizeBuiltinTaskAttempt records is derived from the ledger,
\* before the verdict of its arm is written and after it.
THEOREM UndisturbedExecutionsAreCounted == Spec => []UndisturbedExecutionsCount
<1>1. TrialInv /\ Trialing => UndisturbedExecutionsCount
  <2> SUFFICES ASSUME TrialInv, Trialing PROVE UndisturbedExecutionsCount
    OBVIOUS
  <2>1. IsLog(evidence) /\ PlansOnRecord(evidence) /\ OriginsOnRecord(evidence) /\ VerdictsOnRecord(evidence)
        /\ \A r \in handed : HandedOut(evidence, r)
    BY DEF TrialInv, Shapes, Trialing
  <2>2. loadIndexedRecords(evidence) => Replayable(evidence)
    BY <2>1 DEF Replayable
  <2> QED  BY <2>1, <2>2, HandedOutCounts DEF UndisturbedExecutionsCount, Undisturbed
<1> QED  BY <1>1, TrialingInvariant, PTL

-----------------------------------------------------------------------------
(* Evidence that holds whatever comes behind it.                           *)

\* What a case reads of the ledger when its corpus verifies and its attempts replay.
RefSettled(e, r, content, portable) ==
    CASE r[1] = "ledger_event" -> r[2] \in DOMAIN e
      [] r[1] = "corpus_artifact" -> r[2] \in content.artifacts
      [] r[1] = "portable_revision" -> r[2] \in DOMAIN portable
Attempted(e, i) == e[i].kind = "attempt"
BaselineSettled(e, c, content) ==
    /\ \E a \in IndexArtifacts(content) : <<"corpus_artifact", a>> \in c.evidence
    /\ c.measure = [RolloutCounts(content) EXCEPT !.accounted = c.measure.accounted]
CorrectionSettled(e, c) ==
    LET x == c.measure.initial
        y == c.measure.followup
    IN  /\ {x, y} \subseteq Cited(c) /\ x < y
        /\ Attempted(e, x) /\ Attempted(e, y)
        /\ e[x].body.corrections > 0
        /\ ArmOf(e, x).card = c.measure.key /\ ArmOf(e, y).card = c.measure.key
        /\ ArmOf(e, y).condition = "memory"
        /\ c.measure.repeated = (e[y].body.corrections > 0)
CompactionSettled(e, c) == \E i \in Cited(c) : e[i].kind = "compaction"
RetrievalSettled(e, c) ==
    LET i == c.measure.retrieval
    IN  /\ i \in Cited(c) /\ e[i].kind = "retrieval"
        /\ c.measure = RetrievalMeasure(e, i, Cited(c) \cap AdoptionsOf(e, i))
PairSettled(e, c) ==
    LET x == c.measure.first
        y == c.measure.second
    IN  /\ {x, y} \subseteq Cited(c) /\ Attempted(e, x) /\ Attempted(e, y)
        /\ ArmOf(e, x).condition = "baseline" /\ ArmOf(e, y).condition = "memory"
        /\ ArmOf(e, x).card = ArmOf(e, y).card
        /\ c.measure.baseline = TrialMeasure(e, x) /\ c.measure.treatment = TrialMeasure(e, y)
MeasureSettled(e, c, content) ==
    CASE c.category = "capture_coverage" /\ c.measure.unit = "legacy_rollouts" -> BaselineSettled(e, c, content)
      [] c.category = "repeated_correction" -> CorrectionSettled(e, c)
      [] c.category = "compaction_drift" -> CompactionSettled(e, c)
      [] c.category = "retrieval_cost" -> RetrievalSettled(e, c)
      [] c.category = "paired_outcome" -> PairSettled(e, c)
      [] OTHER -> TRUE
CaseSettled(e, c, content, portable) ==
    LET cited == {i \in Cited(c) \cap DOMAIN e : e[i].kind = "attestation"}
        valid == {i \in cited : validateAttestationRecord(e, i, c)}
    IN  {<<"reference", c.id, r>> : r \in {r \in c.evidence : ~RefSettled(e, r, content, portable)}} \cup
        {<<"attestation", c.id, i>> : i \in cited \ valid} \cup
        (IF Cardinality(valid) > 1 \/ (requiresCaseAttestation(c) /\ valid = {})
         THEN {<<"one attestation", c.id>>} ELSE {}) \cup
        (IF MeasureSettled(e, c, content) THEN {} ELSE {<<"measurement", c.id>>})
SettledIssues(e, input) ==
    UNION {CaseSettled(e, c, input.content, input.population.portable) : c \in input.cases}

\* What the evidence of an input may cite.
HasSource(e, r, profile) ==
    \/ r[1] = "ledger_event" /\ r[2] \in DOMAIN e
    \/ r[1] = "corpus_artifact"
    \/ r[1] = "portable_revision" /\ profile = "continuous"
CaseSourced(e, c, profile) == \A r \in c.evidence : HasSource(e, r, profile)
InputSourced(e, input) == \A c \in input.cases : CaseSourced(e, c, input.profile)

\* The records a case cites are there.
LEMMA CitedThere ==
    ASSUME NEW e, NEW c, NEW profile, CaseSourced(e, c, profile)
    PROVE  Cited(c) \subseteq DOMAIN e
<1> SUFFICES ASSUME NEW i \in Cited(c) PROVE i \in DOMAIN e
  OBVIOUS
<1>1. PICK r \in c.evidence : r[1] = "ledger_event" /\ i = r[2]
  BY DEF Cited
<1> QED  BY <1>1 DEF CaseSourced, HasSource

\* The record of an attempt holds.
LEMMA AttemptsHold ==
    ASSUME NEW e, AttemptsReplay(e), loadIndexedRecords(e), NEW i \in DOMAIN e
    PROVE  AttemptHolds(e, i) <=> Attempted(e, i)
BY DEF AttemptHolds, Attempted, AttemptsReplay, OfKind, rerunTaskAttempt

LEMMA MeasureIsSettled ==
    ASSUME NEW e, NEW c, NEW content, Cited(c) \subseteq DOMAIN e, AttemptsReplay(e), loadIndexedRecords(e),
           VerifyCorpus(e, content)
    PROVE  MeasureHolds(e, c, content) <=> MeasureSettled(e, c, content)
<1>1. \A i \in Cited(c) : AttemptHolds(e, i) <=> Attempted(e, i)
  BY AttemptsHold
<1>2. CASE c.category = "capture_coverage" /\ c.measure.unit = "legacy_rollouts"
  <2>1. c.category # "repeated_correction" /\ c.category # "compaction_drift" /\ c.category # "retrieval_cost"
        /\ c.category # "paired_outcome"
    BY <1>2
  <2> QED  BY <1>2, <2>1 DEF MeasureHolds, MeasureSettled, BaselineSettled
<1>3. CASE c.category = "repeated_correction"
  BY <1>1, <1>3 DEF MeasureHolds, MeasureSettled, CorrectionSettled
<1>4. CASE c.category = "compaction_drift"
  BY <1>4 DEF MeasureHolds, MeasureSettled, CompactionSettled
<1>5. CASE c.category = "retrieval_cost"
  BY <1>5 DEF MeasureHolds, MeasureSettled, RetrievalSettled
<1>6. CASE c.category = "paired_outcome"
  BY <1>1, <1>6 DEF MeasureHolds, MeasureSettled, PairSettled
<1>7. CASE /\ ~(c.category = "capture_coverage" /\ c.measure.unit = "legacy_rollouts")
           /\ c.category \notin {"repeated_correction", "compaction_drift", "retrieval_cost", "paired_outcome"}
  BY <1>7 DEF MeasureHolds, MeasureSettled
<1> QED  BY <1>2, <1>3, <1>4, <1>5, <1>6, <1>7

\* The issues of a case are settled once its corpus verifies; which population of
\* memories it is checked against matters only if it cites one.
LEMMA CaseIsSettled ==
    ASSUME NEW e, NEW c, NEW content, NEW portable, NEW q, NEW profile, CaseSourced(e, c, profile),
           AttemptsReplay(e), loadIndexedRecords(e), VerifyCorpus(e, content),
           profile = "continuous" => q = portable
    PROVE  CaseIssues(e, c, content, q) = CaseSettled(e, c, content, portable)
<1>1. MeasureHolds(e, c, content) <=> MeasureSettled(e, c, content)
  BY CitedThere, MeasureIsSettled
<1>2. \A r \in c.evidence : RefHolds(e, r, content, q) <=> RefSettled(e, r, content, portable)
  <2> SUFFICES ASSUME NEW r \in c.evidence
               PROVE  RefHolds(e, r, content, q) <=> RefSettled(e, r, content, portable)
    OBVIOUS
  <2>1. HasSource(e, r, profile)
    BY DEF CaseSourced
  <2>2. CASE r[1] = "ledger_event"
    BY <2>2 DEF RefHolds, RefSettled
  <2>3. CASE r[1] = "corpus_artifact"
    BY <2>3 DEF RefHolds, RefSettled
  <2>4. CASE r[1] = "portable_revision" /\ profile = "continuous"
    BY <2>4 DEF RefHolds, RefSettled
  <2> QED  BY <2>1, <2>2, <2>3, <2>4 DEF HasSource
<1>3. {r \in c.evidence : ~RefHolds(e, r, content, q)} = {r \in c.evidence : ~RefSettled(e, r, content, portable)}
  BY <1>2
<1> QED  BY <1>1, <1>3 DEF CaseIssues, CaseSettled

\* The measurement of a case reads the same in a longer ledger.
LEMMA MeasureSettledStays ==
    ASSUME NEW e, NEW s, Grows(e, s), AdoptionsOnRecord(e), NEW c, NEW content, Cited(c) \subseteq DOMAIN e
    PROVE  MeasureSettled(s, c, content) <=> MeasureSettled(e, c, content)
<1>1. \A i \in Cited(c) : i \in DOMAIN s /\ s[i] = e[i]
  BY SameThere
<1>2. CorrectionSettled(s, c) <=> CorrectionSettled(e, c)
  BY <1>1 DEF CorrectionSettled, Attempted, ArmOf
<1>3. CompactionSettled(s, c) <=> CompactionSettled(e, c)
  BY <1>1 DEF CompactionSettled
<1>4. PairSettled(s, c) <=> PairSettled(e, c)
  BY <1>1 DEF PairSettled, Attempted, ArmOf, TrialMeasure
<1>5. RetrievalSettled(s, c) <=> RetrievalSettled(e, c)
  <2> DEFINE i == c.measure.retrieval
             A == Cited(c) \cap AdoptionsOf(e, i)
  <2>1. Cited(c) \cap AdoptionsOf(s, i) = A
    <3> SUFFICES ASSUME NEW a \in Cited(c)
                 PROVE  a \in AdoptionsOf(s, i) <=> a \in AdoptionsOf(e, i)
      OBVIOUS
    <3>1. a \in DOMAIN e /\ a \in DOMAIN s /\ s[a] = e[a]
      BY <1>1
    <3>2. a \in OfKind(s, "adoption") <=> a \in OfKind(e, "adoption")
      BY <3>1 DEF OfKind
    <3>3. ASSUME a \in OfKind(e, "adoption") PROVE s[s[a].body.injection] = e[e[a].body.injection]
      BY <3>1, <3>3, SameThere DEF AdoptionsOnRecord
    <3> QED  BY <3>2, <3>3 DEF AdoptionsOf
  <2>2. ASSUME i \in Cited(c) PROVE RetrievalMeasure(s, i, A) = RetrievalMeasure(e, i, A)
    <3>1. s[i] = e[i] /\ \A a \in A : s[a] = e[a]
      BY <1>1, <2>2
    <3> HIDE DEF A, i
    <3> QED  BY <3>1 DEF RetrievalMeasure
  <2>3. RetrievalSettled(s, c) <=> i \in Cited(c) /\ s[i].kind = "retrieval" /\ c.measure = RetrievalMeasure(s, i, A)
    BY <2>1 DEF RetrievalSettled
  <2>4. RetrievalSettled(e, c) <=> i \in Cited(c) /\ e[i].kind = "retrieval" /\ c.measure = RetrievalMeasure(e, i, A)
    BY DEF RetrievalSettled
  <2> HIDE DEF A, i
  <2> QED  BY <1>1, <2>2, <2>3, <2>4
<1>6. BaselineSettled(s, c, content) <=> BaselineSettled(e, c, content)
  BY DEF BaselineSettled
<1> QED  BY <1>2, <1>3, <1>4, <1>5, <1>6 DEF MeasureSettled

LEMMA CaseSettledStays ==
    ASSUME NEW e, NEW s, Grows(e, s), AdoptionsOnRecord(e), NEW c, NEW content, NEW portable, NEW profile,
           CaseSourced(e, c, profile)
    PROVE  /\ CaseSourced(s, c, profile)
           /\ CaseSettled(s, c, content, portable) = CaseSettled(e, c, content, portable)
<1>1. Cited(c) \subseteq DOMAIN e /\ \A i \in Cited(c) : i \in DOMAIN s /\ s[i] = e[i]
  BY CitedThere, SameThere
<1>2. MeasureSettled(s, c, content) <=> MeasureSettled(e, c, content)
  BY <1>1, MeasureSettledStays
<1>3. CaseSourced(s, c, profile)
  <2>1. \A i \in DOMAIN e : i \in DOMAIN s
    BY SameThere
  <2> QED  BY <2>1 DEF CaseSourced, HasSource
<1>4. {r \in c.evidence : ~RefSettled(s, r, content, portable)}
       = {r \in c.evidence : ~RefSettled(e, r, content, portable)}
  <2> SUFFICES ASSUME NEW r \in c.evidence
               PROVE  RefSettled(s, r, content, portable) <=> RefSettled(e, r, content, portable)
    OBVIOUS
  <2>1. HasSource(e, r, profile)
    BY DEF CaseSourced
  <2>2. CASE r[1] = "ledger_event"
    <3>1. r[2] \in DOMAIN e /\ r[2] \in DOMAIN s
      BY <2>1, <2>2, SameThere DEF HasSource
    <3> QED  BY <2>2, <3>1 DEF RefSettled
  <2>3. CASE r[1] # "ledger_event"
    BY <2>1, <2>3 DEF RefSettled, HasSource
  <2> QED  BY <2>2, <2>3
<1> DEFINE Attests(t) == {i \in Cited(c) \cap DOMAIN t : t[i].kind = "attestation"}
           Valid(t) == {i \in Attests(t) : validateAttestationRecord(t, i, c)}
<1>5. Attests(s) = Attests(e)
  BY <1>1
<1>6. Valid(s) = Valid(e)
  <2>1. \A i \in Attests(e) : validateAttestationRecord(s, i, c) <=> validateAttestationRecord(e, i, c)
    BY <1>1 DEF validateAttestationRecord
  <2> HIDE DEF Attests
  <2> QED  BY <1>5, <2>1
<1>7. \A t : CaseSettled(t, c, content, portable) =
          {<<"reference", c.id, r>> : r \in {r \in c.evidence : ~RefSettled(t, r, content, portable)}} \cup
          {<<"attestation", c.id, i>> : i \in Attests(t) \ Valid(t)} \cup
          (IF Cardinality(Valid(t)) > 1 \/ (requiresCaseAttestation(c) /\ Valid(t) = {})
           THEN {<<"one attestation", c.id>>} ELSE {}) \cup
          (IF MeasureSettled(t, c, content) THEN {} ELSE {<<"measurement", c.id>>})
  BY DEF CaseSettled
<1> HIDE DEF Attests, Valid
<1> QED  BY <1>2, <1>3, <1>4, <1>5, <1>6, <1>7

\* The issues of all cases of an input, and the records they cite.
LEMMA InputIsSettled ==
    ASSUME NEW e, NEW input, InputSourced(e, input), AttemptsReplay(e), loadIndexedRecords(e),
           VerifyCorpus(e, input.content)
    PROVE  AllCaseIssues(e, input) = SettledIssues(e, input)
<1>1. \A c \in input.cases :
          CaseIssues(e, c, input.content, Portable(input)) = CaseSettled(e, c, input.content, input.population.portable)
  <2>1. input.profile = "continuous" => Portable(input) = input.population.portable
    BY DEF Portable
  <2> QED  BY <2>1, CaseIsSettled DEF InputSourced
<1> QED  BY <1>1 DEF AllCaseIssues, SettledIssues

LEMMA InputSettledStays ==
    ASSUME NEW e, NEW s, Grows(e, s), AdoptionsOnRecord(e), NEW input, InputSourced(e, input)
    PROVE  /\ InputSourced(s, input)
           /\ SettledIssues(s, input) = SettledIssues(e, input)
           /\ RunParents(s, input) = RunParents(e, input)
<1>1. \A c \in input.cases :
          /\ CaseSourced(s, c, input.profile)
          /\ CaseSettled(s, c, input.content, input.population.portable)
                 = CaseSettled(e, c, input.content, input.population.portable)
  BY CaseSettledStays DEF InputSourced
<1>2. \A c \in input.cases : Cited(c) \subseteq DOMAIN e
  BY CitedThere DEF InputSourced
<1>3. UNION {Cited(c) : c \in input.cases} \subseteq DOMAIN e /\ DOMAIN e \subseteq DOMAIN s
  BY <1>2, SameThere
<1>4. RunParents(s, input) = RunParents(e, input)
  <2> DEFINE U == UNION {Cited(c) : c \in input.cases}
  <2>1. RunParents(s, input) = U \cap DOMAIN s /\ RunParents(e, input) = U \cap DOMAIN e
    BY DEF RunParents
  <2>2. U \subseteq DOMAIN e /\ DOMAIN e \subseteq DOMAIN s
    BY <1>3
  <2> HIDE DEF U
  <2> QED  BY <2>1, <2>2
<1> QED  BY <1>1, <1>4 DEF InputSourced, SettledIssues

\* The least of a set of positions is one of them.
LEMMA LeastIn ==
    ASSUME NEW S \in SUBSET Nat, S # {}
    PROVE  Min(S) \in S
<1>1. \E m \in S : \A k \in S : m <= k
  BY LeastNumber
<1> QED  BY <1>1 DEF Min

LEMMA RefsSourced ==
    ASSUME NEW e, NEW events, events \subseteq DOMAIN e, NEW profile
    PROVE  \A r \in LedgerRefs(events) : HasSource(e, r, profile)
BY DEF LedgerRefs, HasSource

\* The cases of a population cite records of its prefix, revisions of the memory
\* population and compactions of a frozen corpus.
LEMMA PopulationSourced ==
    ASSUME NEW e, NEW pre, Len(e) \in Nat, DOMAIN e = 1..Len(e), DOMAIN pre \subseteq DOMAIN e, NEW content,
           manifests[content].anchor \in DOMAIN e, NEW portable, NEW inv,
           NEW c \in PopulationCases(pre, content, portable, inv)
    PROVE  CaseSourced(e, c, "continuous")
<1>1. \A k : OfKind(pre, k) \subseteq DOMAIN e
  BY DEF OfKind
<1>2. DOMAIN e \subseteq Nat
  OBVIOUS
<1>3. Attempts(pre) \subseteq DOMAIN e
  BY <1>1 DEF Attempts
<1>4. ASSUME NEW events, events \subseteq DOMAIN e, c.evidence = LedgerRefs(events)
      PROVE  CaseSourced(e, c, "continuous")
  BY <1>4, RefsSourced DEF CaseSourced
<1>0. \A category, subject, refs, measure : Case(category, subject, refs, measure).evidence = refs
  BY DEF Case
<1>5. CASE c \in CaptureCases(pre, inv)
  <2> DEFINE items == DOMAIN inv.items
             preserved == {i \in UNION {captureItemRecords(pre, x) : x \in items} : pre[i].kind \in {"snapshot", "gap"}}
  <2>1. c.evidence = LedgerRefs(preserved)
    BY <1>5 DEF CaptureCases, Case
  <2>2. \A x : captureItemRecords(pre, x) \subseteq DOMAIN e
    BY DEF captureItemRecords
  <2>3. preserved \subseteq DOMAIN e
    BY <2>2
  <2> HIDE DEF preserved
  <2> QED  BY <1>4, <2>1, <2>3
<1>6. CASE c \in MemoryCases(pre, portable)
  <2>1. \E revision : c.evidence = {<<"portable_revision", revision>>} \cup LedgerRefs(Attested(pre, portable, revision))
    BY <1>6 DEF MemoryCases, Case
  <2>2. PICK revision : c.evidence = {<<"portable_revision", revision>>} \cup LedgerRefs(Attested(pre, portable, revision))
    BY <2>1
  <2>3. Attested(pre, portable, revision) \subseteq DOMAIN e
    BY <1>1 DEF Attested
  <2>4. \A r \in LedgerRefs(Attested(pre, portable, revision)) : HasSource(e, r, "continuous")
    BY <2>3, RefsSourced
  <2>5. HasSource(e, <<"portable_revision", revision>>, "continuous")
    BY DEF HasSource
  <2> QED  BY <2>2, <2>4, <2>5 DEF CaseSourced
<1>7. CASE c \in CorrectionCases(pre)
  <2>1. PICK key \in CorrectedKeys(pre) :
            /\ FollowUps(pre, key) # {}
            /\ c.evidence = LedgerRefs({Min(Corrected(pre, key)), Min(FollowUps(pre, key))})
    <3> DEFINE M(key) == [key |-> key, initial |-> Min(Corrected(pre, key)), followup |-> Min(FollowUps(pre, key)),
                          repeated |-> pre[Min(FollowUps(pre, key))].body.corrections > 0]
    <3>1. CorrectionCases(pre) = {Case("repeated_correction", key,
                                       LedgerRefs({Min(Corrected(pre, key)), Min(FollowUps(pre, key))}), M(key)) :
                     key \in {key \in CorrectedKeys(pre) : FollowUps(pre, key) # {}}}
      BY Zenon DEF CorrectionCases
    <3> HIDE DEF M
    <3>2. PICK key \in CorrectedKeys(pre) :
              /\ FollowUps(pre, key) # {}
              /\ c = Case("repeated_correction", key,
                          LedgerRefs({Min(Corrected(pre, key)), Min(FollowUps(pre, key))}), M(key))
      BY <1>7, <3>1
    <3>3. c.evidence = LedgerRefs({Min(Corrected(pre, key)), Min(FollowUps(pre, key))})
      BY <3>2 DEF Case
    <3> QED  BY <3>2, <3>3
  <2>2. Corrected(pre, key) # {} /\ Corrected(pre, key) \subseteq DOMAIN e /\ FollowUps(pre, key) \subseteq DOMAIN e
    BY <1>3 DEF CorrectedKeys, Corrected, FollowUps
  <2>3. Min(Corrected(pre, key)) \in DOMAIN e /\ Min(FollowUps(pre, key)) \in DOMAIN e
    BY <1>2, <2>1, <2>2, LeastIn
  <2> QED  BY <1>4, <2>1, <2>3
<1>8. CASE c \in CompactionCases(pre, content)
  <2>1. DetectorBound(pre, content)
    BY <1>8 DEF CompactionCases
  <2>2. PICK i \in FrozenCompactions(pre, manifests[content]) : c.evidence = LedgerRefs({i, Pack(pre, content)})
    <3> DEFINE t == Pack(pre, content)
               M(i) == [checkpoint |-> Checkpoint(pre, i), expected |-> pre[t].body.labels[i],
                        observed |-> Continuity[Checkpoint(pre, i)[1]][Checkpoint(pre, i)[2]]]
    <3>1. CompactionCases(pre, content) = {Case("compaction_drift", i, LedgerRefs({i, t}), M(i)) :
                     i \in DOMAIN pre[t].body.labels \cap FrozenCompactions(pre, manifests[content])}
      BY <2>1, Zenon DEF CompactionCases
    <3> HIDE DEF M
    <3>2. PICK i \in FrozenCompactions(pre, manifests[content]) :
              c = Case("compaction_drift", i, LedgerRefs({i, t}), M(i))
      BY <1>8, <3>1
    <3>3. c.evidence = LedgerRefs({i, t})
      BY <3>2 DEF Case
    <3> QED  BY <3>2, <3>3
  <2>3. Truths(pre, content) # {} /\ Truths(pre, content) \subseteq DOMAIN e
    BY <1>1, <2>1 DEF DetectorBound, Truths
  <2>4. Pack(pre, content) \in DOMAIN e
    BY <1>2, <2>3, LeastIn DEF Pack
  <2>5. i \in DOMAIN e
    <3>1. i \in 1..manifests[content].anchor
      BY DEF FrozenCompactions
    <3> QED  BY <3>1
  <2> QED  BY <1>4, <2>2, <2>4, <2>5
<1>9. CASE c \in RetrievalCases(pre)
  <2>1. PICK i \in OfKind(pre, "retrieval") : c.evidence = LedgerRefs({i} \cup AdoptionsOf(pre, i))
    BY <1>0, <1>9 DEF RetrievalCases
  <2>2. {i} \cup AdoptionsOf(pre, i) \subseteq DOMAIN e
    BY <1>1 DEF AdoptionsOf
  <2> QED  BY <1>4, <2>1, <2>2
<1>10. CASE c \in PairCases(pre)
  <2>1. PICK x \in Pairs(pre) : c.evidence = LedgerRefs({x[1], x[2]})
    <3> DEFINE M(x) == [pair |-> <<ArmOf(pre, x[1]).plan, ArmOf(pre, x[1]).card>>, first |-> x[1], second |-> x[2],
                        baseline |-> TrialMeasure(pre, x[1]), treatment |-> TrialMeasure(pre, x[2])]
    <3>1. PairCases(pre) = {Case("paired_outcome", <<ArmOf(pre, x[1]).plan, ArmOf(pre, x[1]).card>>,
                                 LedgerRefs({x[1], x[2]}), M(x)) :
                     x \in {x \in Pairs(pre) : \A y \in Pairs(pre) :
                                ArmOf(pre, y[1]).card = ArmOf(pre, x[1]).card => x[1] <= y[1]}}
      BY Zenon DEF PairCases, PairCase
    <3> HIDE DEF M
    <3>2. PICK x \in Pairs(pre) :
              c = Case("paired_outcome", <<ArmOf(pre, x[1]).plan, ArmOf(pre, x[1]).card>>, LedgerRefs({x[1], x[2]}), M(x))
      BY <1>10, <3>1
    <3>3. c.evidence = LedgerRefs({x[1], x[2]})
      BY <3>2 DEF Case
    <3> QED  BY <3>2, <3>3
  <2>2. {x[1], x[2]} \subseteq DOMAIN e
    BY <1>3 DEF Pairs
  <2> QED  BY <1>4, <2>1, <2>2
<1> QED  BY <1>5, <1>6, <1>7, <1>8, <1>9, <1>10 DEF PopulationCases

\* What the inputs cite is there.
Sourced == \A input \in inputs : InputSourced(evidence, input)

LEMMA SourcedKeeps ==
    ASSUME TrialInv, Finite, AdoptionsOnRecord(evidence), Sourced, [Next]_vars
    PROVE  Sourced'
<1>1. Grows(evidence, evidence')
  BY NextKeeps DEF Keeps
<1>2. \A input \in inputs : InputSourced(evidence', input)
  BY <1>1, InputSettledStays DEF Sourced
<1>3. ASSUME NEW x \in inputs', x \notin inputs PROVE InputSourced(evidence', x)
  <2>1. CASE IsBaseline(x)
    BY <2>1 DEF IsBaseline, InputSourced, CaseSourced, HasSource
  <2>2. ASSUME NEW p \in Procs, DerivePopulation(p) PROVE InputSourced(evidence', x)
    <3> DEFINE o == job[p].held.order
               b == PreparedPopulation(evidence, o.read, o.content, repository, inventory)
               y == Input(o.id, "continuous", o.content, b, b.cases, FixedContinuousLearningThresholds)
               pre == SubSeq(evidence, 1, o.read)
    <3>1. Buildable(evidence, o.read, o.content, repository) /\ x = y /\ evidence' = evidence
      BY <1>3, <2>2 DEF DerivePopulation
    <3>2. y.profile = "continuous" /\ y.cases = b.cases
      BY DEF Input
    <3>3. b.cases = PopulationCases(pre, o.content, NoneActive(repository), inventory)
      BY DEF PreparedPopulation, Population
    <3>4. o.read \in 1..Len(evidence) /\ manifests[o.content].anchor \in DOMAIN evidence
      BY <3>1 DEF Buildable, VerifyCorpus
    <3>5. DOMAIN evidence = 1..Len(evidence) /\ Len(evidence) \in Nat /\ Grows(evidence, evidence)
      BY <1>1, LogPositions DEF Grows
    <3>6. \A i \in DOMAIN pre : i \in 1..o.read
      BY <3>4, <3>5, PrefixStays
    <3>7. DOMAIN pre \subseteq DOMAIN evidence
      BY <3>4, <3>5, <3>6
    <3> HIDE DEF b, y, pre
    <3>8. \A c \in x.cases : CaseSourced(evidence, c, "continuous")
      BY <3>1, <3>2, <3>3, <3>4, <3>5, <3>7, PopulationSourced
    <3> QED  BY <3>1, <3>2, <3>8 DEF InputSourced
  <2> QED  BY <1>3, <2>1, <2>2, NextInputs
<1> QED  BY <1>2, <1>3 DEF Sourced

\* An adoption names a delivery that is on record.
LEMMA AdoptionsKeep ==
    ASSUME TrialInv, Finite, Trialing, AdoptionsOnRecord(evidence), [Next]_vars
    PROVE  AdoptionsOnRecord(evidence')
<1>1. Grows(evidence, evidence')
  BY NextKeeps DEF Keeps
<1>2. ASSUME NEW a \in New(evidence, evidence'), evidence'[a].kind = "adoption"
      PROVE  evidence'[a].body.injection \in DOMAIN evidence
  <2>1. CASE Unadopted
    BY <1>2, <2>1 DEF Unadopted
  <2>2. ASSUME NEW i \in OfKind(evidence, "injection"), NEW outcome, ReportAdoption(i, outcome)
        PROVE  evidence'[a].body.injection \in DOMAIN evidence
    <3> DEFINE x == Event(Fresh("adoption"), "adoption", evidence[i].context, "retrieval",
                          {evidence[i].body.retrieval, i}, "adoption",
                          [injection |-> i, adopted |-> TRUE, outcome |-> outcome])
    <3>1. evidence' = Append(evidence, x)
      BY <2>2 DEF ReportAdoption, Append1
    <3>2. x.body.injection = i
      BY DEF Event
    <3> HIDE DEF x
    <3>3. evidence'[a] = x
      BY <3>1, AppendOne
    <3> QED  BY <3>2, <3>3 DEF OfKind
  <2>3. ASSUME NEW p \in Procs, Adopt(p) PROVE evidence'[a].body.injection \in DOMAIN evidence
    <3> DEFINE r == job[p].request
               x == Event(Fresh("adoption"), "adoption", ContextOf(r.arm), "retrieval",
                          {r.retrieval, r.injection, job[p].result}, "adoption",
                          [injection |-> r.injection, adopted |-> FALSE, outcome |-> "unknown"])
    <3>1. pc[p] = "adopt" /\ evidence' = Append(evidence, x)
      BY <2>3 DEF Adopt, Append1
    <3>2. x.body.injection = r.injection
      BY DEF Event
    <3> HIDE DEF x
    <3>3. evidence'[a] = x
      BY <3>1, AppendOne
    <3>4. Supplied(evidence, r) /\ r.arm.condition = "memory"
      BY <3>1, DoingHere DEF Doing
    <3>5. r.injection \in DOMAIN evidence
      BY <3>4 DEF Supplied, Injected, OfKind
    <3> QED  BY <3>2, <3>3, <3>5
  <2> QED  BY <2>1, <2>2, <2>3, NextSilent
<1>3. ASSUME NEW a \in OfKind(evidence', "adoption") PROVE evidence'[a].body.injection \in DOMAIN evidence'
  <2>1. a \in 1..Len(evidence') /\ evidence'[a].kind = "adoption" /\ DOMAIN evidence \subseteq DOMAIN evidence'
    BY <1>1, SameThere DEF OfKind
  <2>2. CASE a \in 1..Len(evidence) /\ evidence'[a] = evidence[a]
    <3>1. a \in OfKind(evidence, "adoption")
      BY <1>1, <2>1, <2>2 DEF OfKind, Grows
    <3> QED  BY <2>1, <2>2, <3>1 DEF AdoptionsOnRecord
  <2>3. CASE a \in New(evidence, evidence')
    BY <1>2, <2>1, <2>3
  <2> QED  BY <1>1, <2>1, <2>2, <2>3, OldOrNew
<1> QED  BY <1>3 DEF AdoptionsOnRecord

\* A corpus that verifies goes on verifying.
LEMMA CorpusStays ==
    ASSUME Stays, Grows(evidence, evidence'), NEW content, VerifyCorpus(evidence, content)
    PROVE  VerifyCorpus(evidence, content)'
<1>1. /\ content \in DOMAIN manifests /\ validateCorpusManifest(manifests[content]) /\ OnRecord(evidence, content)
      /\ Has(evidence, <<"corpus", manifests[content]>>) /\ manifests[content].anchor \in DOMAIN evidence
  BY DEF VerifyCorpus
<1>2. content \in DOMAIN manifests' /\ manifests'[content] = manifests[content]
  BY <1>1 DEF Stays
<1>3. OnRecord(evidence', content)
  BY <1>1, OnRecordStays
<1>4. Has(evidence', <<"corpus", manifests[content]>>)
  BY <1>1, NamedStays
<1>5. manifests[content].anchor \in DOMAIN evidence'
  BY <1>1, SameThere
<1> QED  BY <1>1, <1>2, <1>3, <1>4, <1>5 DEF VerifyCorpus

\* What a run finds when nothing is stale: the issues of the population, and a
\* difference if it is not the one of the input.
Clean(issues) == issues \cap {<<"stale">>, <<"stale under lock">>, <<"population replay failed">>, <<"corpus">>} = {}
Noted(input, pre) ==
    LET b == input.population
        issues == PopulationIssues(pre, input.content, b.portable, b.inventory)
        cases == PopulationCases(pre, input.content, b.portable, b.inventory)
        wanted == [prefix |-> b.prefix, portable |-> b.portable, inventory |-> b.inventory,
                   issues |-> issues, cases |-> cases]
    IN  IF input.profile # "continuous" THEN {}
        ELSE issues \cup (IF wanted = b /\ cases = input.cases THEN {} ELSE {Differs})
IsBasis(input, x) ==
    \E pre : /\ input.profile = "continuous" => pre = SubSeq(evidence, 1, input.population.prefix)
             /\ x = Noted(input, pre)

\* It stays the same, as the prefix of an input is replayed the same.
LEMMA BasisStays ==
    ASSUME TrialInv, Published, Inputs, Stays, Grows(evidence, evidence'), NEW input \in inputs, NEW x,
           IsBasis(input, x)
    PROVE  IsBasis(input, x)'
<1> DEFINE b == input.population
<1>1. PICK pre : (input.profile = "continuous" => pre = SubSeq(evidence, 1, b.prefix)) /\ x = Noted(input, pre)
  BY DEF IsBasis
<1>2. CASE input.profile = "continuous"
  <2>1. input.content \in DOMAIN manifests /\ b.prefix \in 1..Len(evidence)
    BY <1>2 DEF Inputs, Describes
  <2>2. AuditsPublished(pre)
    BY <1>1, <1>2, <2>1, PrefixPublished
  <2>3. SubSeq(evidence', 1, b.prefix) = pre
    BY <1>1, <1>2, <2>1, PrefixStays
  <2>4. /\ PopulationCases(pre, input.content, b.portable, b.inventory)'
               = PopulationCases(pre, input.content, b.portable, b.inventory)
        /\ PopulationIssues(pre, input.content, b.portable, b.inventory)'
               = PopulationIssues(pre, input.content, b.portable, b.inventory)
    BY <2>1, <2>2, PopulationsStay
  <2>5. Noted(input, pre)' = Noted(input, pre)
    BY <2>4 DEF Noted
  <2> QED  BY <1>1, <2>3, <2>5 DEF IsBasis
<1>3. CASE input.profile # "continuous"
  <2>1. Noted(input, pre)' = x
    BY <1>1, <1>3 DEF Noted
  <2> QED  BY <1>3, <2>1 DEF IsBasis
<1> QED  BY <1>2, <1>3

LEMMA OneBasis ==
    ASSUME NEW input, NEW x, NEW y, IsBasis(input, x), IsBasis(input, y)
    PROVE  x = y
BY DEF IsBasis, Noted

\* An input that is replayed on the ledger it describes shows its basis.
LEMMA ReplayIsBasis ==
    ASSUME NEW input, NEW current,
           input.profile = "continuous" =>
               /\ Buildable(evidence, input.population.prefix, input.content, input.population.portable)
               /\ ~(current /\ Stale(evidence, input))
    PROVE  IsBasis(input, PopulationReplayIssues(evidence, input, current))
<1>1. PICK pre : pre = SubSeq(evidence, 1, input.population.prefix)
  OBVIOUS
<1>2. PopulationReplayIssues(evidence, input, current) = Noted(input, pre)
  BY <1>1 DEF PopulationReplayIssues, Population, Noted, Differs
<1> QED  BY <1>1, <1>2 DEF IsBasis

LEMMA CleanIsBasis ==
    ASSUME NEW input, Clean(OpenIssues(evidence, input, TRUE))
    PROVE  VerifyCorpus(evidence, input.content) /\ IsBasis(input, OpenIssues(evidence, input, TRUE))
<1>1. VerifyCorpus(evidence, input.content)
  BY DEF OpenIssues, Clean
<1>2. Clean(PopulationReplayIssues(evidence, input, TRUE))
  BY DEF OpenIssues, Clean
<1>3. ASSUME input.profile = "continuous"
      PROVE  /\ Buildable(evidence, input.population.prefix, input.content, input.population.portable)
             /\ ~Stale(evidence, input)
  BY <1>2, <1>3 DEF PopulationReplayIssues, Clean
<1>4. IsBasis(input, PopulationReplayIssues(evidence, input, TRUE))
  BY <1>3, ReplayIsBasis
<1>5. OpenIssues(evidence, input, TRUE) = PopulationReplayIssues(evidence, input, TRUE)
  BY <1>1 DEF OpenIssues
<1> QED  BY <1>1, <1>4, <1>5

\* What a run holds under the writer lock is right, unless it says that it is stale.
Prepares(h) ==
    /\ h.input \in inputs /\ validateInput(h.input)
    /\ Clean(h.issues) => VerifyCorpus(evidence, h.input.content) /\ IsBasis(h.input, h.issues)
Preparing == \A p \in Procs : \A h : (pc[p] = "report" /\ h = job[p].held) => Prepares(h)

LEMMA PreparingKeeps ==
    ASSUME TrialInv, Finite, Published, Inputs, inputs \subseteq inputs', Preparing, [Next]_vars
    PROVE  Preparing'
<1>1. Grows(evidence, evidence') /\ Stays
  BY NextKeeps, NextStays DEF Keeps
<1>2. ASSUME NEW h, Prepares(h) PROVE Prepares(h)'
  <2>1. ASSUME Clean(h.issues) PROVE VerifyCorpus(evidence, h.input.content)' /\ IsBasis(h.input, h.issues)'
    BY <1>1, <1>2, <2>1, CorpusStays, BasisStays DEF Prepares
  <2> QED  BY <1>2, <2>1 DEF Prepares, Clean
<1> SUFFICES ASSUME NEW p \in Procs, pc'[p] = "report", NEW h, h = job'[p].held
             PROVE  Prepares(h)
  BY <1>2 DEF Preparing
<1>3. Kept(p) \/ Arrived(p)
  BY NextReached DEF Reached
<1>4. CASE Kept(p)
  BY <1>4 DEF Kept, Preparing
<1>5. ASSUME PublishGeneration(p) PROVE FALSE
  <2>1. pc'[p] = "audit"
    BY <1>5, HereIs DEF PublishGeneration, Goto, TrialInv, Shapes
  <2> QED  BY <2>1
<1>6. ASSUME NEW input \in inputs, BeginRun(p, input) PROVE Prepares(h)
  <2> DEFINE g == [input |-> input, issues |-> OpenIssues(evidence, input, TRUE)]
  <2>1. validateInput(input) /\ job' = [job EXCEPT ![p].held = g]
    BY <1>6 DEF BeginRun
  <2>2. g.input = input /\ g.issues = OpenIssues(evidence, input, TRUE)
    OBVIOUS
  <2> HIDE DEF g
  <2>3. job'[p].held = g
    <3> DEFINE j == [job[p] EXCEPT !.held = g]
    <3>1. job' = [job EXCEPT ![p] = j]
      BY <2>1, HereIs, JobsWith
    <3>2. j.held = g
      <4>1. j = [request |-> job[p].request, start |-> job[p].start, payload |-> job[p].payload,
                 outcome |-> job[p].outcome, result |-> job[p].result, held |-> g]
        BY HereIs, JobFields
      <4> HIDE DEF j
      <4> QED  BY <4>1
    <3>3. job = [q \in Procs |-> job[q]]
      BY HereIs
    <3> HIDE DEF j
    <3> QED  BY <3>1, <3>2, <3>3
  <2>4. Prepares(g)
    BY <2>1, <2>2, CleanIsBasis DEF Prepares
  <2> QED  BY <2>3, <2>4
<1> QED  BY <1>3, <1>4, <1>5, <1>6 DEF Arrived

\* A report on record is on file, and says what the evidence settles.
Files(x) ==
    LET input == x.body.input
        report == x.body.report
    IN  /\ input.id \in DOMAIN reports /\ reports[input.id] = x.body
        /\ validateInput(input)
        /\ x.id = RunID(input, report) /\ x.parents = RunParents(evidence, input)
        /\ Current(report) =>
               /\ VerifyCorpus(evidence, input.content)
               /\ \E y : IsBasis(input, y) /\ report = Report(input, y \cup SettledIssues(evidence, input))
Filed == \A i \in RunEvents(evidence) : \A x : x = evidence[i] => Files(x)

\* The files of a run are written once.
FilesKept == \A id \in DOMAIN reports : id \in DOMAIN reports' /\ reports'[id] = reports[id]

LEMMA NextFiles ==
    ASSUME [Next]_vars
    PROVE  FilesKept
<1>1. ASSUME reports' = reports PROVE FilesKept
  BY <1>1 DEF FilesKept
<1>2. ASSUME NEW p \in Procs, NEW dies, FinishRun(p, dies) PROVE FilesKept
  <2> DEFINE input == job[p].held.input
             report == Report(input, job[p].held.issues \cup lockedContinuousLedgerIssues(evidence, input)
                                         \cup AllCaseIssues(evidence, input))
             content == [input |-> input, report |-> report]
  <2>1. \/ reports' = reports
        \/ /\ writeRunFiles(reports, input.id, content)
           /\ reports' = [x \in DOMAIN reports \cup {input.id} |-> IF x = input.id THEN content ELSE reports[x]]
    BY <1>2 DEF FinishRun
  <2> HIDE DEF content, input
  <2> QED  BY <1>1, <2>1 DEF FilesKept, writeRunFiles
<1>3. UNCHANGED vars => reports' = reports
  BY DEF vars, runVars
<1>4. UNCHANGED runVars => reports' = reports
  BY DEF runVars
<1>5. CASE RunNext
  <2>1. reports' = reports \/ \E p \in Procs, dies \in BOOLEAN : FinishRun(p, dies)
    BY <1>5 DEF RunNext, Promote, Export, Reconcile, RecordAttestation, BeginPrepare, PrepareBaseline,
                DerivePopulation, BeginRun, runVars
  <2> QED  BY <1>1, <1>2, <2>1
<1> QED  BY <1>1, <1>3, <1>4, <1>5 DEF Next

LEMMA FilesStay ==
    ASSUME TrialInv, Published, Inputs, Stays, FilesKept, Grows(evidence, evidence'), AdoptionsOnRecord(evidence),
           NEW x, Files(x), x.body.input \in inputs, InputSourced(evidence, x.body.input)
    PROVE  Files(x)'
<1> DEFINE input == x.body.input
           report == x.body.report
<1>1. input.id \in DOMAIN reports' /\ reports'[input.id] = x.body
  BY DEF Files, FilesKept
<1>2. /\ SettledIssues(evidence', input) = SettledIssues(evidence, input)
      /\ RunParents(evidence', input) = RunParents(evidence, input)
  BY InputSettledStays
<1>3. ASSUME Current(report)
      PROVE  /\ VerifyCorpus(evidence, input.content)'
             /\ \E y : IsBasis(input, y)' /\ report = Report(input, y \cup SettledIssues(evidence', input))
  <2>1. VerifyCorpus(evidence, input.content) /\ input \in inputs
    BY <1>3 DEF Files
  <2>2. PICK y : IsBasis(input, y) /\ report = Report(input, y \cup SettledIssues(evidence, input))
    BY <1>3 DEF Files
  <2> HIDE DEF input, report
  <2>3. IsBasis(input, y)'
    BY <2>1, <2>2, BasisStays
  <2> QED  BY <1>2, <2>1, <2>2, <2>3, CorpusStays
<1>4. validateInput(input) /\ x.id = RunID(input, report) /\ x.parents = RunParents(evidence', input)
  BY <1>2 DEF Files
<1> QED  BY <1>1, <1>3, <1>4 DEF Files

\* A run that did not find itself stale records what the evidence settles.
LEMMA FinishedFiles ==
    ASSUME TrialInv, Published, Inputs, Stays, AdoptionsOnRecord(evidence), Sourced, Measuring, Preparing,
           NEW p \in Procs, NEW dies, FinishRun(p, dies),
           NEW i \in New(evidence, evidence'), Grows(evidence, evidence')
    PROVE  \A x : x = evidence'[i] => Files(x)'
<1> DEFINE h == job[p].held
           input == h.input
           locked == lockedContinuousLedgerIssues(evidence, input)
           report == Report(input, h.issues \cup locked \cup AllCaseIssues(evidence, input))
           content == [input |-> input, report |-> report]
           y == RunEvent(evidence, input, report)
<1>1. evidence' # evidence
  BY DEF New, Grows
<1>2. /\ pc[p] = "report" /\ loadIndexedRecords(evidence) /\ evidence' = Append(evidence, y)
      /\ reports' = [id \in DOMAIN reports \cup {input.id} |-> IF id = input.id THEN content ELSE reports[id]]
  BY <1>1 DEF FinishRun, Append1
<1>3. /\ y.body = content /\ content.input = input /\ content.report = report /\ y.id = RunID(input, report)
      /\ y.parents = RunParents(evidence, input)
  BY DEF RunEvent, Event
<1>4. report.issues = h.issues \cup locked \cup AllCaseIssues(evidence, input)
  BY DEF Report
<1>5. locked # {} => <<"stale under lock">> \in locked
  BY DEF lockedContinuousLedgerIssues
<1>6. input \in inputs /\ Prepares(h)
  BY <1>2 DEF Measuring, Preparing
<1>7. InputSourced(evidence, input)
  BY <1>6 DEF Sourced
<1>8. AttemptsReplay(evidence)
  BY DEF TrialInv
<1>9. ASSUME Current(report)
      PROVE  /\ VerifyCorpus(evidence, input.content)
             /\ IsBasis(input, h.issues) /\ report = Report(input, h.issues \cup SettledIssues(evidence, input))
  <2>1. Clean(h.issues) /\ locked = {}
    BY <1>4, <1>5, <1>9 DEF Current, Clean
  <2>2. VerifyCorpus(evidence, input.content) /\ IsBasis(input, h.issues)
    BY <1>6, <2>1 DEF Prepares
  <2>3. AllCaseIssues(evidence, input) = SettledIssues(evidence, input)
    BY <1>2, <1>7, <1>8, <2>2, InputIsSettled
  <2>4. h.issues \cup locked \cup AllCaseIssues(evidence, input) = h.issues \cup SettledIssues(evidence, input)
    BY <2>1, <2>3
  <2> QED  BY <2>2, <2>4
<1>10. validateInput(input)
  BY <1>6 DEF Prepares
<1> HIDE DEF y, report, content, input
<1>11. evidence'[i] = y
  BY <1>2, AppendOne
<1>12. input.id \in DOMAIN reports' /\ reports'[input.id] = content
  BY <1>2
<1>13. /\ SettledIssues(evidence', input) = SettledIssues(evidence, input)
       /\ RunParents(evidence', input) = RunParents(evidence, input)
  BY <1>7, InputSettledStays
<1>14. ASSUME NEW v, v = input, Current(report)
       PROVE  \E z : IsBasis(v, z)' /\ report = Report(v, z \cup SettledIssues(evidence', v))
  <2>1. PICK z : z = h.issues
    OBVIOUS
  <2>2. IsBasis(v, z) /\ report = Report(v, z \cup SettledIssues(evidence, v))
    BY <1>9, <1>14, <2>1
  <2>3. IsBasis(v, z)'
    BY <1>6, <1>14, <2>2, BasisStays
  <2> QED  BY <1>13, <1>14, <2>2, <2>3
<1> TAKE x
<1> HAVE x = evidence'[i]
<1>15. x = y /\ x.body.input = input /\ x.body.report = report
  BY <1>3, <1>11
<1>16. Current(x.body.report) => VerifyCorpus(evidence, x.body.input.content)
  BY <1>9, <1>15
<1>17. Current(x.body.report) => VerifyCorpus(evidence, x.body.input.content)'
  BY <1>16, CorpusStays
<1> QED  BY <1>3, <1>10, <1>12, <1>13, <1>14, <1>15, <1>17 DEF Files

LEMMA FiledKeeps ==
    ASSUME TrialInv, Finite, Published, Inputs, AdoptionsOnRecord(evidence), Sourced, Measuring, Recorded,
           Preparing, Filed, [Next]_vars
    PROVE  Filed'
<1>1. Grows(evidence, evidence') /\ Stays /\ FilesKept
  BY NextKeeps, NextStays, NextFiles DEF Keeps
<1>2. ASSUME NEW i \in RunEvents(evidence') PROVE \A x : x = evidence'[i] => Files(x)'
  <2>1. i \in 1..Len(evidence') /\ evidence'[i].kind = "evaluation_run" /\ DOMAIN evidence = 1..Len(evidence)
    BY <1>1 DEF RunEvents, OfKind, Grows
  <2>2. CASE i \in 1..Len(evidence) /\ evidence'[i] = evidence[i]
    <3>1. i \in RunEvents(evidence)
      BY <2>1, <2>2 DEF RunEvents, OfKind
    <3> TAKE x
    <3> HAVE x = evidence'[i]
    <3>2. Files(x) /\ Faithful(i, x)
      BY <2>2, <3>1 DEF Filed, Recorded
    <3>3. x.body.input \in inputs /\ InputSourced(evidence, x.body.input)
      BY <3>2 DEF Faithful, Sourced
    <3> QED  BY <1>1, <3>2, <3>3, FilesStay
  <2>3. CASE i \in New(evidence, evidence')
    <3>1. ASSUME NEW p \in Procs, AuditGeneration(p) PROVE FALSE
      <4> DEFINE n == job[p].held.prefix
                 x == Event(<<"generation", n>>, "generation", <<"detector">>, "detector", {}, "prefix", n)
      <4>1. evidence' \in {evidence, Append(evidence, x)}
        BY <3>1 DEF AuditGeneration, Append1
      <4>2. evidence' # evidence
        BY <1>1, <2>3 DEF New, Grows
      <4>3. x.kind = "generation"
        BY DEF Event
      <4> HIDE DEF x
      <4>4. evidence'[i] = x
        BY <2>3, <4>1, <4>2, AppendOne
      <4> QED  BY <2>1, <4>3, <4>4
    <3>2. ~Silent
      BY <2>1, <2>3 DEF Silent
    <3> QED  BY <1>1, <2>3, <3>1, <3>2, FinishedFiles, NextSilent
  <2> QED  BY <1>1, <2>1, <2>2, <2>3, OldOrNew
<1>3. \A i \in RunEvents(evidence)' : \A x : x = evidence'[i] => Files(x)'
  BY <1>2
<1> QED  BY <1>3 DEF Filed

\* A report that is on file like that verifies.
LEMMA FiledVerifies ==
    ASSUME TrialInv, Inputs, Recorded, Sourced, Filed, NEW i \in RunEvents(evidence),
           Current(evidence[i].body.report), loadIndexedRecords(evidence),
           evidence[i].body.input.profile = "continuous" =>
               evidence[i].body.input.population.portable = LocalPopulation(evidence)
    PROVE  VerifyRun(evidence, evidence[i].body.input.id)
<1> DEFINE x == evidence[i]
           input == x.body.input
           report == x.body.report
           b == input.population
<1>1. Files(x) /\ input \in inputs
  BY DEF Filed, Recorded, Faithful
<1>2. /\ input.id \in DOMAIN reports /\ reports[input.id].input = input /\ reports[input.id].report = report
      /\ validateInput(input) /\ x.id = RunID(input, report) /\ x.parents = RunParents(evidence, input)
      /\ VerifyCorpus(evidence, input.content)
      /\ \E y : IsBasis(input, y) /\ report = Report(input, y \cup SettledIssues(evidence, input))
  BY <1>1 DEF Files
<1>3. AllCaseIssues(evidence, input) = SettledIssues(evidence, input)
  BY <1>1, <1>2, InputIsSettled DEF Sourced, TrialInv
<1>4. ASSUME input.profile = "continuous" PROVE Buildable(evidence, b.prefix, input.content, b.portable)
  <2>1. b.prefix \in 1..Len(evidence)
    BY <1>1, <1>4 DEF Inputs, Describes
  <2> QED  BY <1>2, <1>4, <2>1 DEF Buildable
<1>5. IsBasis(input, PopulationReplayIssues(evidence, input, FALSE))
  BY <1>4, ReplayIsBasis
<1>6. IsBasis(input, OpenIssues(evidence, input, FALSE))
  BY <1>2, <1>5 DEF OpenIssues
<1>7. report = replayEvaluationEvidence(evidence, input)
  <2>1. PICK y : IsBasis(input, y) /\ report = Report(input, y \cup SettledIssues(evidence, input))
    BY <1>2
  <2>2. y = OpenIssues(evidence, input, FALSE)
    BY <1>6, <2>1, OneBasis
  <2> QED  BY <1>3, <2>1, <2>2 DEF replayEvaluationEvidence
<1>8. Has(evidence, x.id) /\ At(evidence, x.id) = i
  <2>1. IsLog(evidence) /\ i \in 1..Len(evidence)
    BY LogPositions DEF TrialInv, Shapes, RunEvents, OfKind
  <2> QED  BY <2>1, AtIs
<1> QED  BY <1>2, <1>7, <1>8 DEF VerifyRun

\* What keeps reports verifiable.
Verifying == AdoptionsOnRecord(evidence) /\ Sourced /\ Preparing /\ Filed

\* ReportsKeepVerifying, for every number of processes and whatever the ledger,
\* the journal, the inventory and the detector do after the run: the files of a run
\* id stay what they were, and a report that does not call itself stale is replayed
\* to the same report as long as no id is on record twice and no memory is promoted,
\* as its evidence, its corpus and its attempts read the same in every longer
\* ledger (run.go).
THEOREM CurrentReportsVerify == Spec => []ReportsKeepVerifying
<1>1. Init => Verifying
  <2> SUFFICES ASSUME Init PROVE Verifying
    OBVIOUS
  <2>1. /\ bound \in Profiles /\ evidence = bound.history /\ inputs = {}
        /\ \A p \in Procs : pc[p] = "idle"
    BY DEF Init, TrialInit
  <2>2. RunEvents(evidence) = {}
    BY <2>1, DetectorAssumption DEF RunEvents, OfKind
  <2>3. AdoptionsOnRecord(evidence)
    BY <2>1, HistoryAssumption
  <2> QED  BY <2>1, <2>2, <2>3 DEF Verifying, Sourced, Preparing, Filed
<1>2. TrialInv /\ Finite /\ Trialing /\ Reporting /\ Verifying /\ [Next]_vars => Verifying'
  <2> SUFFICES ASSUME TrialInv, Finite, Trialing, Reporting, Verifying, [Next]_vars PROVE Verifying'
    OBVIOUS
  <2>1. /\ Published /\ Inputs /\ Measuring /\ Recorded /\ inputs \subseteq inputs'
        /\ AdoptionsOnRecord(evidence) /\ Sourced /\ Preparing /\ Filed
    BY InputsKeep DEF Reporting, Verifying
  <2>2. AdoptionsOnRecord(evidence')
    BY <2>1, AdoptionsKeep
  <2>3. Sourced' /\ Preparing' /\ Filed'
    BY <2>1, SourcedKeeps, PreparingKeeps, FiledKeeps
  <2> QED  BY <2>2, <2>3 DEF Verifying
<1>3. TrialInv /\ Reporting /\ Verifying => ReportsKeepVerifying
  <2> SUFFICES ASSUME TrialInv, Reporting, Verifying, NEW i \in RunEvents(evidence)
               PROVE  LET input == evidence[i].body.input
                      IN  /\ reports[input.id] = evidence[i].body
                          /\ ( /\ Current(evidence[i].body.report) /\ loadIndexedRecords(evidence)
                               /\ input.profile = "continuous" =>
                                      input.population.portable = LocalPopulation(evidence) )
                             => VerifyRun(evidence, input.id)
    BY DEF ReportsKeepVerifying
  <2>1. Inputs /\ Recorded /\ Sourced /\ Filed
    BY DEF Reporting, Verifying
  <2>2. reports[evidence[i].body.input.id] = evidence[i].body
    BY <2>1 DEF Filed, Files
  <2> QED  BY <2>1, <2>2, FiledVerifies
<1> QED  BY <1>1, <1>2, <1>3, ReportingInvariant, TrialingInvariant, PTL DEF Spec
=============================================================================
