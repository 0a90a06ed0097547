----------------------- MODULE CaptureSupervisor_proofs -----------------------
(***************************************************************************)
(* Proofs about supervised capture (JsonlImport and CaptureSupervisor), for *)
(* any sources, hooks, configs, styles and bounds.                         *)
(*                                                                         *)
(* What an import appends is a selection of the events that the bytes of   *)
(* the file say, in their order.  The rest is what a run knows of the      *)
(* ledger at each of its places.                                           *)
(***************************************************************************)
EXTENDS CaptureSupervisor, FiniteSetTheorems, SequenceTheorems, WellFoundedInduction, TLAPS

-----------------------------------------------------------------------------
(* Numbers.                                                                *)

\* A set of numbers that is not empty has a least one.
LEMMA LeastNumber ==
    ASSUME NEW S \in SUBSET Nat, S # {}
    PROVE  \E m \in S : \A n \in S : m <= n
<1> DEFINE R == OpToRel(<, Nat)
<1>1. IsWellFoundedOn(R, Nat)
  BY NatLessThanWellFounded
<1>2. R = {ss \in Nat \X Nat : ss[1] < ss[2]}
  BY DEF OpToRel
<1> HIDE DEF R
<1>3. PICK m \in S : \A n \in S : ~(<<n, m>> \in R)
  BY <1>1, WFMin
<1>4. ASSUME NEW n \in S PROVE m <= n
  <2>1. m \in Nat /\ n \in Nat
    OBVIOUS
  <2>2. ~(n < m)
    BY <1>2, <1>3, <2>1
  <2> QED  BY <2>1, <2>2
<1> QED  BY <1>4

\* Of more elements than there are numbers, two have the same one.
LEMMA TwoShare ==
    ASSUME NEW S, IsFiniteSet(S), NEW n \in Nat, n < Cardinality(S), NEW f \in [S -> 1..n]
    PROVE  \E x, y \in S : x # y /\ f[x] = f[y]
<1>1. IsFiniteSet(1..n) /\ Cardinality(1..n) = n
  BY FS_Interval
<1>2. Cardinality(1..n) < Cardinality(S)
  BY <1>1
<1> QED  BY <1>1, <1>2, FS_PigeonHole

\* How many elements of a set are below a number.
Rank(S, i) == Cardinality({j \in S : j < i})

\* Ranks grow with the elements, up to the size of the set.
LEMMA Ranks ==
    ASSUME NEW S \in SUBSET Nat, IsFiniteSet(S)
    PROVE  /\ Cardinality(S) \in Nat
           /\ \A i \in S : Rank(S, i) \in Nat /\ Rank(S, i) < Cardinality(S)
           /\ \A i, j \in S : i < j => Rank(S, i) < Rank(S, j)
<1>1. \A i \in S : i \in Nat
  OBVIOUS
<1>2. Cardinality(S) \in Nat
  BY FS_CardinalityType
<1>3. ASSUME NEW i \in S, NEW T \in SUBSET S, i \in T, \A j \in S : j < i => j \in T
      PROVE  Rank(S, i) \in Nat /\ Rank(S, i) + 1 <= Cardinality(T)
  <2> DEFINE B == {j \in S : j < i}
  <2>1. i \notin B /\ B \subseteq S /\ B \cup {i} \subseteq T
    <3>1. i \in Nat
      BY <1>1
    <3>2. i \notin B
      BY <3>1
    <3>3. \A j \in B : j \in S /\ j \in T
      BY <1>3
    <3> QED  BY <1>3, <3>2, <3>3
  <2>2. Rank(S, i) = Cardinality(B)
    BY DEF Rank
  <2> HIDE DEF B
  <2>3. IsFiniteSet(B) /\ IsFiniteSet(T)
    BY <2>1, FS_Subset
  <2>4. IsFiniteSet(B \cup {i}) /\ Cardinality(B \cup {i}) = Cardinality(B) + 1
    BY <2>1, <2>3, FS_AddElement
  <2>5. Cardinality(B \cup {i}) <= Cardinality(T)
    BY <2>1, <2>3, FS_Subset
  <2>6. Cardinality(B) \in Nat
    BY <2>3, FS_CardinalityType
  <2> QED  BY <2>2, <2>4, <2>5, <2>6
<1>4. ASSUME NEW i \in S PROVE Rank(S, i) \in Nat /\ Rank(S, i) < Cardinality(S)
  <2>1. Rank(S, i) \in Nat /\ Rank(S, i) + 1 <= Cardinality(S)
    BY <1>3
  <2> QED  BY <1>2, <2>1
<1>5. ASSUME NEW i \in S, NEW j \in S, i < j PROVE Rank(S, i) < Rank(S, j)
  <2> DEFINE T == {k \in S : k < j}
  <2>1. T \subseteq S /\ i \in T /\ \A k \in S : k < i => k \in T
    BY <1>1, <1>5
  <2>2. Rank(S, j) = Cardinality(T)
    BY DEF Rank
  <2> HIDE DEF T
  <2>3. Rank(S, i) \in Nat /\ Rank(S, i) + 1 <= Cardinality(T)
    BY <1>3, <2>1
  <2>4. Cardinality(T) \in Nat
    BY <2>1, FS_Subset, FS_CardinalityType
  <2> QED  BY <2>2, <2>3, <2>4
<1> QED  BY <1>2, <1>4, <1>5

\* Nth enumerates a finite set of numbers from below.
LEMMA Enumerates ==
    ASSUME NEW S \in SUBSET Nat, IsFiniteSet(S)
    PROVE  /\ Cardinality(S) \in Nat
           /\ \A k \in 1..Cardinality(S) : Nth(S, k) \in S
           /\ \A j, k \in 1..Cardinality(S) : j < k => Nth(S, j) < Nth(S, k)
           /\ \A i \in S : \E k \in 1..Cardinality(S) : Nth(S, k) = i
<1> DEFINE Missed == {n \in Nat : n < Cardinality(S) /\ ~\E i \in S : Rank(S, i) = n}
<1>1. \A i \in S : i \in Nat
  OBVIOUS
<1>2. /\ Cardinality(S) \in Nat
      /\ \A i \in S : Rank(S, i) \in Nat /\ Rank(S, i) < Cardinality(S)
      /\ \A i, j \in S : i < j => Rank(S, i) < Rank(S, j)
  BY Ranks
<1>3. Missed = {}
  <2> SUFFICES ASSUME Missed # {} PROVE FALSE
    OBVIOUS
  <2>1. PICK n \in Missed : \A k \in Missed : n <= k
    <3>1. Missed \in SUBSET Nat
      OBVIOUS
    <3> HIDE DEF Missed
    <3> QED  BY <3>1, LeastNumber
  <2>2. n \in Nat /\ n < Cardinality(S) /\ \A i \in S : Rank(S, i) # n
    BY <2>1
  <2>3. \A k \in Nat : k < n => \E i \in S : Rank(S, i) = k
    BY <1>2, <2>1, <2>2
  <2> DEFINE High == {i \in S : Rank(S, i) > n}
  <2>4. High # {}
    <3> SUFFICES ASSUME High = {} PROVE FALSE
      OBVIOUS
    <3>1. \A i \in S : Rank(S, i) < n
      BY <1>2, <2>2
    <3> DEFINE f == [i \in S |-> Rank(S, i) + 1]
    <3>2. f \in [S -> 1..n]
      BY <1>2, <2>2, <3>1
    <3>4. PICK x, y \in S : x # y /\ f[x] = f[y]
      <4> HIDE DEF f
      <4> HIDE DEF High, Missed
      <4> QED  BY <2>2, <3>2, TwoShare
    <3> QED  BY <1>1, <1>2, <3>4
  <2>5. PICK m \in High : \A i \in High : m <= i
    BY <2>4, LeastNumber
  <2>6. \A j \in S : j < m => Rank(S, j) < n
    BY <1>1, <1>2, <2>2, <2>5
  <2> DEFINE B == {j \in S : j < m}
             g == [j \in B |-> Rank(S, j) + 1]
  <2>7. B \subseteq S /\ \A j \in B : j < m
    OBVIOUS
  <2>8. Rank(S, m) = Cardinality(B) /\ Rank(S, m) > n /\ m \in S
    BY <2>5 DEF Rank
  <2> HIDE DEF B
  <2>9. IsFiniteSet(B)
    BY <2>7, FS_Subset
  <2>10. g \in [B -> 1..n]
    BY <1>2, <2>2, <2>6, <2>7
  <2>11. n < Cardinality(B)
    BY <2>2, <2>8, <1>2
  <2>13. PICK x, y \in B : x # y /\ g[x] = g[y]
    <3> HIDE DEF g
    <3> QED  BY <2>2, <2>9, <2>10, <2>11, TwoShare
  <2> QED  BY <1>1, <1>2, <2>7, <2>13
<1>4. ASSUME NEW k \in 1..Cardinality(S) PROVE Nth(S, k) \in S /\ Rank(S, Nth(S, k)) = k - 1
  <2>1. k - 1 \in Nat /\ k - 1 < Cardinality(S)
    BY <1>2
  <2>2. \E i \in S : Rank(S, i) = k - 1
    BY <1>3, <2>1
  <2> QED  BY <2>2 DEF Nth, Rank
<1>5. ASSUME NEW i \in S, NEW j \in S, Rank(S, i) = Rank(S, j) PROVE i = j
  BY <1>1, <1>2, <1>5
<1>6. ASSUME NEW j \in 1..Cardinality(S), NEW k \in 1..Cardinality(S), j < k
      PROVE  Nth(S, j) < Nth(S, k)
  <2> DEFINE x == Nth(S, j)
             y == Nth(S, k)
  <2>1. x \in S /\ y \in S /\ Rank(S, x) = j - 1 /\ Rank(S, y) = k - 1
    BY <1>4
  <2> HIDE DEF x, y
  <2>2. x < y
    BY <1>1, <1>2, <1>6, <2>1
  <2> QED  BY <2>2 DEF x, y
<1>7. ASSUME NEW i \in S PROVE \E k \in 1..Cardinality(S) : Nth(S, k) = i
  <2>0. Rank(S, i) \in Nat /\ Rank(S, i) < Cardinality(S) /\ Cardinality(S) \in Nat
    BY <1>2
  <2>1. Rank(S, i) + 1 \in 1..Cardinality(S) /\ (Rank(S, i) + 1) - 1 = Rank(S, i)
    BY <2>0
  <2> QED  BY <1>2, <1>4, <1>5, <2>1
<1> QED  BY <1>2, <1>4, <1>6, <1>7

\* A finite set of numbers that is not empty has a largest one.
LEMMA LargestNumber ==
    ASSUME NEW S \in SUBSET Nat, IsFiniteSet(S), S # {}
    PROVE  Max(S) \in S /\ \A x \in S : x <= Max(S)
<1>1. /\ Cardinality(S) \in Nat
      /\ \A k \in 1..Cardinality(S) : Nth(S, k) \in S
      /\ \A j, k \in 1..Cardinality(S) : j < k => Nth(S, j) < Nth(S, k)
      /\ \A i \in S : \E k \in 1..Cardinality(S) : Nth(S, k) = i
  BY Enumerates
<1>2. Cardinality(S) \in 1..Cardinality(S)
  BY <1>1, FS_EmptySet
<1> DEFINE m == Nth(S, Cardinality(S))
<1>3. m \in S
  BY <1>1, <1>2
<1>4. ASSUME NEW x \in S PROVE m >= x
  <2>1. PICK k \in 1..Cardinality(S) : Nth(S, k) = x
    BY <1>1
  <2>2. k = Cardinality(S) \/ k < Cardinality(S)
    BY <1>1
  <2>3. m \in Nat /\ x \in Nat
    BY <1>3
  <2> QED  BY <1>1, <1>2, <2>1, <2>2, <2>3
<1>5. \E y \in S : \A x \in S : y >= x
  BY <1>3, <1>4
<1>6. Max(S) \in S /\ \A x \in S : Max(S) >= x
  BY <1>5 DEF Max
<1> QED  BY <1>6

LEMMA SmallestNumber ==
    ASSUME NEW S \in SUBSET Nat, S # {}
    PROVE  Min(S) \in S /\ \A x \in S : Min(S) <= x
<1>1. \E y \in S : \A x \in S : y <= x
  BY LeastNumber
<1> QED  BY <1>1 DEF Min

-----------------------------------------------------------------------------
(* Sequences.                                                              *)

IsLog(e) == e \in Seq({e[i] : i \in 1..Len(e)})

\* A function on 1..n is a sequence.
LEMMA ListIsLog ==
    ASSUME NEW n \in Nat, NEW e, DOMAIN e = 1..n, e = [i \in 1..n |-> e[i]]
    PROVE  IsLog(e) /\ Len(e) = n
<1> DEFINE T == {e[i] : i \in 1..n}
<1>1. \A i \in 1..n : e[i] \in T
  OBVIOUS
<1> HIDE DEF T
<1>2. e \in [1..n -> T]
  BY <1>1
<1>3. e \in Seq(T) /\ Len(e) = n
  BY <1>2
<1> QED  BY <1>3 DEF IsLog, T

LEMMA LogLength ==
    ASSUME NEW e, IsLog(e)
    PROVE  Len(e) \in Nat /\ DOMAIN e = 1..Len(e)
BY DEF IsLog

\* What is in a log that a part of a batch was appended to.
LEMMA PartAppended ==
    ASSUME NEW e, IsLog(e), NEW b, IsLog(b), NEW part \in 0..Len(b)
    PROVE  LET new == e \o SubSeq(b, 1, part) IN
           /\ IsLog(new) /\ Len(new) = Len(e) + part
           /\ \A i \in 1..Len(e) : new[i] = e[i]
           /\ \A k \in 1..part : new[Len(e) + k] = b[k]
<1> DEFINE E == {e[i] : i \in 1..Len(e)}
           B == {b[i] : i \in 1..Len(b)}
           T == E \cup B
           s == SubSeq(b, 1, part)
           new == e \o s
<1>1. e \in Seq(E) /\ b \in Seq(B) /\ Len(b) \in Nat /\ Len(e) \in Nat
  BY DEF IsLog
<1>2. e \in Seq(T) /\ b \in Seq(T)
  <2> HIDE DEF E, B
  <2> QED  BY <1>1
<1> HIDE DEF T, E, B
<1>3. s \in Seq(T) /\ Len(s) = part /\ \A k \in 1..part : s[k] = b[k]
  BY <1>1, <1>2
<1> HIDE DEF s
<1>4. /\ new \in Seq(T) /\ Len(new) = Len(e) + part
      /\ \A i \in 1..Len(e) : new[i] = e[i]
      /\ \A k \in 1..part : new[Len(e) + k] = b[k]
  BY <1>1, <1>2, <1>3
<1> HIDE DEF new
<1>5. IsLog(new)
  <2>1. DOMAIN new = 1..Len(new) /\ Len(new) \in Nat /\ new = [i \in 1..Len(new) |-> new[i]]
    BY <1>1, <1>4
  <2> QED  BY <2>1, ListIsLog
<1> QED  BY <1>4, <1>5 DEF new, s

\* Pick takes the chosen elements, in their order.
LEMMA PickTakes ==
    ASSUME NEW s, IsLog(s), NEW P \in SUBSET DOMAIN s
    PROVE  /\ IsLog(Pick(s, P))
           /\ \E f \in [1..Len(Pick(s, P)) -> P] :
                 /\ \A k \in 1..Len(Pick(s, P)) : Pick(s, P)[k] = s[f[k]]
                 /\ \A j, k \in 1..Len(Pick(s, P)) : j < k => f[j] < f[k]
                 /\ \A i \in P : \E k \in 1..Len(Pick(s, P)) : f[k] = i
<1> DEFINE n == Cardinality(P)
           q == Pick(s, P)
           f == [k \in 1..n |-> Nth(P, k)]
<1>1. Len(s) \in Nat /\ DOMAIN s = 1..Len(s)
  BY LogLength
<1>2. P \in SUBSET Nat /\ \A i \in P : i <= Len(s)
  BY <1>1
<1>3. IsFiniteSet(P)
  BY <1>1, <1>2, FS_BoundedSetOfNaturals
<1>4. /\ n \in Nat
      /\ \A k \in 1..n : Nth(P, k) \in P
      /\ \A j, k \in 1..n : j < k => Nth(P, j) < Nth(P, k)
      /\ \A i \in P : \E k \in 1..n : Nth(P, k) = i
  BY <1>2, <1>3, Enumerates
<1>5. q = [k \in 1..n |-> s[Nth(P, k)]]
  BY DEF Pick
<1> HIDE DEF n, q
<1>6. IsLog(q) /\ Len(q) = n
  <2>1. DOMAIN q = 1..n /\ q = [k \in 1..n |-> q[k]]
    BY <1>5
  <2> QED  BY <1>4, <2>1, ListIsLog
<1>7. f \in [1..n -> P] /\ \A k \in 1..n : q[k] = s[f[k]] /\ f[k] = Nth(P, k)
  BY <1>4, <1>5
<1> HIDE DEF f
<1>8. \E g \in [1..Len(q) -> P] : /\ \A k \in 1..Len(q) : q[k] = s[g[k]]
                                  /\ \A j, k \in 1..Len(q) : j < k => g[j] < g[k]
                                  /\ \A i \in P : \E k \in 1..Len(q) : g[k] = i
  BY <1>4, <1>6, <1>7
<1> QED  BY <1>6, <1>8 DEF q

\* A part of the events that a log does not have is appended to it.
Records(e, events, part, new) == new = e \o SubSeq(Unknown(e, events), 1, part)

LEMMA PartRecorded ==
    ASSUME NEW e, IsLog(e), NEW events, IsLog(events), NEW part \in 0..Len(Unknown(e, events)),
           NEW new, Records(e, events, part, new)
    PROVE  /\ IsLog(new)
           /\ ToSet(e) \subseteq ToSet(new) /\ ToSet(new) \subseteq ToSet(e) \cup ToSet(events)
           /\ IsInjective(e) /\ IsInjective(events) => IsInjective(new)
           /\ part = Len(Unknown(e, events)) => ToSet(events) \subseteq ToSet(new)
           /\ IsInjective(events) =>
                 \A i, j \in DOMAIN events :
                    i < j /\ events[j] \in ToSet(new) \ ToSet(e) => events[i] \in ToSet(new)
<1> DEFINE P == {i \in DOMAIN events : events[i] \notin ToSet(e)}
           u == Unknown(e, events)
<1>1. P \subseteq DOMAIN events /\ u = Pick(events, P)
  BY DEF Unknown
<1>2. \A i \in DOMAIN events : i \in P <=> events[i] \notin ToSet(e)
  OBVIOUS
<1>3. Len(e) \in Nat /\ DOMAIN e = 1..Len(e) /\ Len(events) \in Nat /\ DOMAIN events = 1..Len(events)
  BY LogLength
<1> HIDE DEF P, u
<1>4. IsLog(u)
  BY <1>1, PickTakes
<1>5. PICK f \in [1..Len(u) -> P] :
                 /\ \A k \in 1..Len(u) : u[k] = events[f[k]]
                 /\ \A j, k \in 1..Len(u) : j < k => f[j] < f[k]
                 /\ \A i \in P : \E k \in 1..Len(u) : f[k] = i
  BY <1>1, PickTakes
<1>6. part \in 0..Len(u) /\ new = e \o SubSeq(u, 1, part) /\ Len(u) \in Nat
  BY <1>4, LogLength DEF u, Records
<1>7. /\ IsLog(new) /\ Len(new) = Len(e) + part
      /\ \A i \in 1..Len(e) : new[i] = e[i]
      /\ \A k \in 1..part : new[Len(e) + k] = u[k]
  <2> DEFINE w == e \o SubSeq(u, 1, part)
  <2>1. /\ IsLog(w) /\ Len(w) = Len(e) + part
        /\ \A i \in 1..Len(e) : w[i] = e[i]
        /\ \A k \in 1..part : w[Len(e) + k] = u[k]
    BY <1>4, <1>6, PartAppended
  <2>2. new = w
    BY <1>6
  <2> HIDE DEF w
  <2> QED  BY <2>1, <2>2
<1>8. DOMAIN new = 1..(Len(e) + part)
  BY <1>7, LogLength
<1>9. \A x \in DOMAIN new : \/ x \in 1..Len(e) /\ new[x] = e[x]
                            \/ \E k \in 1..part : x = Len(e) + k /\ new[x] = u[k]
  <2> SUFFICES ASSUME NEW x \in DOMAIN new, x \notin 1..Len(e)
               PROVE  \E k \in 1..part : x = Len(e) + k /\ new[x] = u[k]
    BY <1>7
  <2>1. x - Len(e) \in 1..part /\ x = Len(e) + (x - Len(e))
    BY <1>3, <1>6, <1>8
  <2> QED  BY <1>7, <2>1
<1>10. \A k \in 1..part : f[k] \in DOMAIN events /\ u[k] = events[f[k]] /\ u[k] \notin ToSet(e)
  <2> SUFFICES ASSUME NEW k \in 1..part
               PROVE  f[k] \in DOMAIN events /\ u[k] = events[f[k]] /\ u[k] \notin ToSet(e)
    OBVIOUS
  <2>1. k \in 1..Len(u)
    BY <1>6
  <2>2. f[k] \in P
    BY <1>5, <2>1
  <2> QED  BY <1>1, <1>2, <1>5, <2>1, <2>2
<1>11. ToSet(e) \subseteq ToSet(new)
  <2>1. \A i \in 1..Len(e) : i \in DOMAIN new /\ new[i] = e[i]
    BY <1>3, <1>6, <1>7, <1>8
  <2> QED  BY <1>3, <2>1 DEF ToSet
<1>12. ToSet(new) \subseteq ToSet(e) \cup ToSet(events)
  BY <1>3, <1>9, <1>10 DEF ToSet
<1>13. \A k \in 1..part : u[k] \in ToSet(new)
  <2> SUFFICES ASSUME NEW k \in 1..part PROVE u[k] \in ToSet(new)
    OBVIOUS
  <2>1. Len(e) + k \in DOMAIN new
    BY <1>3, <1>6, <1>8
  <2> QED  BY <1>7, <2>1 DEF ToSet
<1>14. ASSUME IsInjective(e), IsInjective(events) PROVE IsInjective(new)
  <2> SUFFICES ASSUME NEW x \in DOMAIN new, NEW y \in DOMAIN new, new[x] = new[y] PROVE x = y
    BY DEF IsInjective
  <2>1. CASE x \in 1..Len(e) /\ new[x] = e[x] /\ y \in 1..Len(e) /\ new[y] = e[y]
    BY <1>3, <1>14, <2>1 DEF IsInjective
  <2>2. ASSUME NEW k \in 1..part, y = Len(e) + k, new[y] = u[k], x \in 1..Len(e), new[x] = e[x]
        PROVE  FALSE
    BY <1>3, <1>10, <2>2 DEF ToSet
  <2>3. ASSUME NEW k \in 1..part, x = Len(e) + k, new[x] = u[k], y \in 1..Len(e), new[y] = e[y]
        PROVE  FALSE
    BY <1>3, <1>10, <2>3 DEF ToSet
  <2>4. ASSUME NEW j \in 1..part, NEW k \in 1..part, x = Len(e) + j, y = Len(e) + k,
               new[x] = u[j], new[y] = u[k]
        PROVE  x = y
    <3>1. f[j] = f[k]
      BY <1>10, <1>14, <2>4 DEF IsInjective
    <3>2. j \in 1..Len(u) /\ k \in 1..Len(u) /\ f[j] \in Nat
      <4>1. j \in 1..Len(u) /\ k \in 1..Len(u)
        BY <1>6
      <4> QED  BY <1>3, <1>10, <4>1
    <3>3. ~(j < k) /\ ~(k < j)
      BY <1>5, <3>1, <3>2
    <3> QED  BY <2>4, <3>3
  <2> QED  BY <1>9, <2>1, <2>2, <2>3, <2>4
<1>15. ASSUME NEW i \in DOMAIN events, events[i] \notin ToSet(e)
       PROVE  \E k \in 1..Len(u) : f[k] = i /\ u[k] = events[i]
  BY <1>2, <1>5, <1>15
<1>16. ASSUME part = Len(u) PROVE ToSet(events) \subseteq ToSet(new)
  <2>1. \A i \in DOMAIN events : events[i] \in ToSet(new)
    BY <1>11, <1>13, <1>15, <1>16
  <2> QED  BY <2>1 DEF ToSet
<1>17. ASSUME IsInjective(events), NEW i \in DOMAIN events, NEW j \in DOMAIN events, i < j,
              events[j] \in ToSet(new) \ ToSet(e), events[i] \notin ToSet(e)
       PROVE  events[i] \in ToSet(new)
  <2>1. PICK k \in 1..Len(u) : f[k] = i /\ u[k] = events[i]
    BY <1>15, <1>17
  <2>2. PICK x \in DOMAIN new : new[x] = events[j]
    BY <1>17 DEF ToSet
  <2>3. x \notin 1..Len(e)
    <3>1. ASSUME x \in 1..Len(e) PROVE FALSE
      <4>1. new[x] \in ToSet(e)
        BY <1>3, <1>7, <3>1 DEF ToSet
      <4> QED  BY <1>17, <2>2, <4>1
    <3> QED  BY <3>1
  <2>4. PICK m \in 1..part : new[x] = u[m]
    BY <1>9, <2>3
  <2>5. f[m] = j
    BY <1>10, <1>17, <2>2, <2>4 DEF IsInjective
  <2>6. m \in 1..Len(u) /\ f[m] \in Nat /\ f[k] \in Nat
    BY <1>3, <1>6, <1>10, <1>17, <2>1, <2>4
  <2>7. ~(m < k) /\ m # k
    BY <1>5, <1>17, <2>1, <2>5, <2>6
  <2>8. k \in 1..part
    BY <1>6, <2>1, <2>4, <2>7
  <2> QED  BY <1>13, <2>1, <2>8
<1> QED  BY <1>7, <1>11, <1>12, <1>14, <1>16, <1>17 DEF u

-----------------------------------------------------------------------------
(* Lines of a file.                                                        *)

\* Where the lines behind an offset start.
StartSet(bytes, from) == {i \in from .. Len(bytes) - 1 : i = from \/ bytes[i] = NL}

\* LineStarts lists them from below.
LEMMA StartsInOrder ==
    ASSUME NEW bytes, IsLog(bytes), NEW from \in Nat
    PROVE  /\ IsLog(LineStarts(bytes, from))
           /\ \A k \in DOMAIN LineStarts(bytes, from) : LineStarts(bytes, from)[k] \in StartSet(bytes, from)
           /\ \A j, k \in DOMAIN LineStarts(bytes, from) :
                 j < k => LineStarts(bytes, from)[j] < LineStarts(bytes, from)[k]
           /\ \A i \in StartSet(bytes, from) :
                 \E k \in DOMAIN LineStarts(bytes, from) : LineStarts(bytes, from)[k] = i
<1> DEFINE S == StartSet(bytes, from)
           q == LineStarts(bytes, from)
<1>1. Len(bytes) \in Nat
  BY LogLength
<1>2. S \in SUBSET Nat /\ \A i \in S : i <= Len(bytes)
  BY <1>1 DEF StartSet
<1>3. q = [k \in 1..Cardinality(S) |-> Nth(S, k)]
  BY DEF LineStarts, StartSet
<1> HIDE DEF S, q
<1>4. IsFiniteSet(S)
  BY <1>1, <1>2, FS_BoundedSetOfNaturals
<1>5. /\ Cardinality(S) \in Nat
      /\ \A k \in 1..Cardinality(S) : Nth(S, k) \in S
      /\ \A j, k \in 1..Cardinality(S) : j < k => Nth(S, j) < Nth(S, k)
      /\ \A i \in S : \E k \in 1..Cardinality(S) : Nth(S, k) = i
  BY <1>2, <1>4, Enumerates
<1>6. DOMAIN q = 1..Cardinality(S) /\ q = [k \in 1..Cardinality(S) |-> q[k]]
  BY <1>3
<1>7. IsLog(q)
  BY <1>5, <1>6, ListIsLog
<1>8. /\ \A k \in DOMAIN q : q[k] \in S
      /\ \A j, k \in DOMAIN q : j < k => q[j] < q[k]
      /\ \A i \in S : \E k \in DOMAIN q : q[k] = i
  BY <1>3, <1>5
<1> QED  BY <1>7, <1>8 DEF S, q

\* A line ends at the first newline behind its start, or with the file.
LEMMA LineEnds ==
    ASSUME NEW bytes, IsLog(bytes), NEW i \in 0 .. Len(bytes) - 1
    PROVE  /\ LineEnd(bytes, i) \in i + 1 .. Len(bytes)
           /\ \A j \in i + 1 .. LineEnd(bytes, i) - 1 : bytes[j] # NL
           /\ bytes[LineEnd(bytes, i)] # NL => \A j \in i + 1 .. Len(bytes) : bytes[j] # NL
<1> DEFINE N == {j \in i + 1 .. Len(bytes) : bytes[j] = NL}
<1>1. Len(bytes) \in Nat /\ i \in Nat
  BY LogLength
<1>2. LineEnd(bytes, i) = IF N = {} THEN Len(bytes) ELSE Min(N)
  BY DEF LineEnd
<1>3. N \in SUBSET Nat /\ N \subseteq i + 1 .. Len(bytes)
  BY <1>1
<1>4. \A j \in i + 1 .. Len(bytes) : j \in N <=> bytes[j] = NL
  OBVIOUS
<1> HIDE DEF N
<1>5. CASE N = {}
  BY <1>1, <1>2, <1>4, <1>5
<1>6. CASE N # {}
  <2>1. Min(N) \in N /\ \A x \in N : Min(N) <= x
    BY <1>3, <1>6, SmallestNumber
  <2>2. LineEnd(bytes, i) = Min(N)
    BY <1>2, <1>6
  <2>3. LineEnd(bytes, i) \in i + 1 .. Len(bytes) /\ bytes[LineEnd(bytes, i)] = NL
    BY <1>3, <1>4, <2>1, <2>2
  <2>4. ASSUME NEW j \in i + 1 .. LineEnd(bytes, i) - 1 PROVE bytes[j] # NL
    <3>1. j \in i + 1 .. Len(bytes) /\ j < LineEnd(bytes, i)
      BY <1>1, <2>3
    <3>2. j \notin N
      BY <1>1, <2>1, <2>2, <2>3, <3>1
    <3> QED  BY <1>4, <3>1, <3>2
  <2> QED  BY <2>3, <2>4
<1> QED  BY <1>5, <1>6

\* A part of a file.
LEMMA Segments ==
    ASSUME NEW bytes, IsLog(bytes), NEW i \in 0 .. Len(bytes), NEW e \in i .. Len(bytes)
    PROVE  /\ Segment(bytes, i, e) = [k \in 1 .. e - i |-> bytes[i + k]]
           /\ IsLog(Segment(bytes, i, e)) /\ Len(Segment(bytes, i, e)) = e - i
<1> DEFINE T == {bytes[j] : j \in 1..Len(bytes)}
           s == Segment(bytes, i, e)
<1>1. Len(bytes) \in Nat /\ i \in Nat /\ e \in Nat /\ bytes \in Seq(T)
  BY LogLength DEF IsLog
<1>2. \A j \in i + 1 .. e : bytes[j] \in T
  BY <1>1
<1>3. s = SubSeq(bytes, i + 1, e)
  BY DEF Segment
<1> HIDE DEF T, s
<1>4. /\ s \in Seq(T)
      /\ Len(s) = IF i + 1 <= e THEN e - (i + 1) + 1 ELSE 0
      /\ \A k \in 1 .. e - (i + 1) + 1 : s[k] = bytes[(i + 1) + k - 1]
  BY <1>1, <1>2, <1>3, SubSeqProperties
<1>5. Len(s) = e - i /\ Len(s) \in Nat
  BY <1>1, <1>4
<1>6. DOMAIN s = 1 .. e - i /\ s = [k \in 1 .. e - i |-> s[k]]
  BY <1>4, <1>5
<1>7. \A k \in 1 .. e - i : s[k] = bytes[i + k]
  BY <1>1, <1>4
<1>8. s = [k \in 1 .. e - i |-> bytes[i + k]]
  BY <1>6, <1>7
<1>9. IsLog(s)
  BY <1>5, <1>6, ListIsLog
<1> QED  BY <1>5, <1>8, <1>9 DEF s

\* What an event of a line says.
LEMMA LineEvents ==
    ASSUME NEW source, NEW bytes, IsLog(bytes), NEW i \in 0 .. Len(bytes) - 1
    PROVE  /\ LineEvent(source, bytes, i).source = source
           /\ LineEvent(source, bytes, i).start = i
           /\ LineEvent(source, bytes, i).end = LineEnd(bytes, i)
           /\ LineEvent(source, bytes, i).kind \in CommittedKinds \cup {"trailing_partial_json"}
           /\ LineEvent(source, bytes, i).kind \in CommittedKinds <=> bytes[LineEnd(bytes, i)] = NL
           /\ Terminated(Segment(bytes, i, LineEnd(bytes, i))) <=> bytes[LineEnd(bytes, i)] = NL
<1> DEFINE e == LineEnd(bytes, i)
           line == Segment(bytes, i, e)
           kind == CASE ~Terminated(line) -> "trailing_partial_json"
                     [] Terminated(line) /\ ~ValidJSON(line) -> "invalid_json_line_terminated"
                     [] OTHER -> "line"
<1>1. LineEvent(source, bytes, i) = [kind |-> kind, source |-> source, start |-> i, end |-> e, bytes |-> line]
  BY DEF LineEvent, Event
<1>2. Len(bytes) \in Nat /\ e \in i + 1 .. Len(bytes)
  BY LogLength, LineEnds
<1>3. line = [k \in 1 .. e - i |-> bytes[i + k]] /\ Len(line) = e - i
  <2>1. i \in 0 .. Len(bytes) /\ e \in i .. Len(bytes)
    BY <1>2
  <2> QED  BY <2>1, Segments
<1>4. Terminated(line) <=> bytes[e] = NL
  BY <1>2, <1>3 DEF Terminated, Last
<1> HIDE DEF e, line
<1>5. kind \in CommittedKinds \cup {"trailing_partial_json"} /\ (kind \in CommittedKinds <=> Terminated(line))
  BY DEF CommittedKinds
<1> HIDE DEF kind
<1> QED  BY <1>1, <1>4, <1>5 DEF e, line

\* One file is the other one with more behind it.
Extends(old, bytes) ==
    /\ IsLog(old) /\ IsLog(bytes) /\ Len(old) <= Len(bytes)
    /\ \A j \in 1 .. Len(old) : bytes[j] = old[j]

\* Lines that are terminated stay what they are when a file grows.
LEMMA LinesStay ==
    ASSUME NEW source, NEW old, NEW bytes, Extends(old, bytes), NEW i \in 0 .. Len(old) - 1,
           \/ old[LineEnd(old, i)] = NL
           \/ LineEnd(bytes, i) <= Len(old) /\ bytes[LineEnd(bytes, i)] = NL
    PROVE  /\ LineEnd(bytes, i) = LineEnd(old, i) /\ old[LineEnd(old, i)] = NL
           /\ LineEvent(source, bytes, i) = LineEvent(source, old, i)
<1>1. /\ IsLog(old) /\ IsLog(bytes) /\ Len(old) \in Nat /\ Len(bytes) \in Nat /\ Len(old) <= Len(bytes)
      /\ \A j \in 1 .. Len(old) : bytes[j] = old[j]
  BY LogLength DEF Extends
<1>2. i \in Nat /\ i \in 0 .. Len(bytes) - 1 /\ i \in 0 .. Len(old) - 1
  BY <1>1
<1> DEFINE a == LineEnd(old, i)
           b == LineEnd(bytes, i)
<1>3. /\ a \in i + 1 .. Len(old) /\ b \in i + 1 .. Len(bytes)
      /\ \A j \in i + 1 .. a - 1 : old[j] # NL
      /\ \A j \in i + 1 .. b - 1 : bytes[j] # NL
      /\ old[a] # NL => \A j \in i + 1 .. Len(old) : old[j] # NL
      /\ bytes[b] # NL => \A j \in i + 1 .. Len(bytes) : bytes[j] # NL
  BY <1>1, <1>2, LineEnds
<1>4. old[a] = NL \/ (b <= Len(old) /\ bytes[b] = NL)
  OBVIOUS
<1>8. LineEvent(source, bytes, i) =
         LET line == Segment(bytes, i, b)
             kind == CASE ~Terminated(line) -> "trailing_partial_json"
                     [] Terminated(line) /\ ~ValidJSON(line) -> "invalid_json_line_terminated"
                     [] OTHER -> "line"
         IN  Event(kind, source, i, b, line)
  BY DEF LineEvent
<1>9. LineEvent(source, old, i) =
         LET line == Segment(old, i, a)
             kind == CASE ~Terminated(line) -> "trailing_partial_json"
                     [] Terminated(line) /\ ~ValidJSON(line) -> "invalid_json_line_terminated"
                     [] OTHER -> "line"
         IN  Event(kind, source, i, a, line)
  BY DEF LineEvent
<1> HIDE DEF a, b
<1>10. a \in Nat /\ b \in Nat /\ a \in 1 .. Len(old) /\ bytes[a] = old[a]
  BY <1>1, <1>2, <1>3
<1>5. ASSUME b <= Len(old), bytes[b] = NL PROVE a = b /\ old[a] = NL
  <2>1. b \in i + 1 .. Len(old) /\ old[b] = NL
    BY <1>1, <1>2, <1>3, <1>5
  <2>2. old[a] = NL
    BY <1>3, <2>1
  <2>3. ~(a < b) /\ ~(b < a)
    <3>1. ASSUME a < b PROVE FALSE
      BY <1>2, <1>3, <1>10, <2>2, <3>1
    <3>2. ASSUME b < a PROVE FALSE
      BY <1>2, <1>3, <1>10, <2>1, <3>2
    <3> QED  BY <3>1, <3>2
  <2> QED  BY <1>10, <2>2, <2>3
<1>6. a = b /\ old[a] = NL
  <2>1. CASE old[a] = NL
    <3>1. a \in i + 1 .. Len(bytes) /\ bytes[a] = NL
      BY <1>1, <1>3, <1>10, <2>1
    <3>2. bytes[b] = NL
      BY <1>3, <3>1
    <3>3. ~(a < b)
      BY <1>2, <1>3, <1>10, <3>1
    <3>4. b <= Len(old)
      BY <1>1, <1>3, <1>10, <3>3
    <3> QED  BY <1>5, <3>2, <3>4
  <2> QED  BY <1>4, <1>5, <2>1
<1>7. Segment(bytes, i, b) = Segment(old, i, a)
  <2>1. /\ Segment(bytes, i, b) = [k \in 1 .. b - i |-> bytes[i + k]]
        /\ Segment(old, i, a) = [k \in 1 .. a - i |-> old[i + k]]
    <3>1. /\ i \in 0 .. Len(bytes) /\ b \in i .. Len(bytes)
          /\ i \in 0 .. Len(old) /\ a \in i .. Len(old)
      BY <1>1, <1>2, <1>3
    <3> QED  BY <1>1, <3>1, Segments
  <2>2. \A k \in 1 .. a - i : i + k \in 1 .. Len(old)
    BY <1>1, <1>2, <1>3
  <2> QED  BY <1>1, <1>6, <2>1, <2>2
<1> QED  BY <1>6, <1>7, <1>8, <1>9 DEF a, b

-----------------------------------------------------------------------------
(* What an import derives from a file.                                     *)

\* Two lists, one behind the other.
LEMMA ListsJoin ==
    ASSUME NEW e, IsLog(e), NEW b, IsLog(b)
    PROVE  /\ IsLog(e \o b) /\ Len(e \o b) = Len(e) + Len(b)
           /\ \A i \in 1..Len(e) : (e \o b)[i] = e[i]
           /\ \A k \in 1..Len(b) : (e \o b)[Len(e) + k] = b[k]
<1> DEFINE E == {e[i] : i \in 1..Len(e)}
           B == {b[i] : i \in 1..Len(b)}
           T == E \cup B
           new == e \o b
<1>1. e \in Seq(E) /\ b \in Seq(B) /\ Len(b) \in Nat /\ Len(e) \in Nat
  BY DEF IsLog
<1>2. e \in Seq(T) /\ b \in Seq(T)
  <2> HIDE DEF E, B
  <2> QED  BY <1>1
<1> HIDE DEF T, E, B
<1>3. /\ new \in Seq(T) /\ Len(new) = Len(e) + Len(b)
      /\ \A i \in 1..Len(e) : new[i] = e[i]
      /\ \A k \in 1..Len(b) : new[Len(e) + k] = b[k]
  BY <1>1, <1>2
<1> HIDE DEF new
<1>4. IsLog(new)
  <2>1. DOMAIN new = 1..Len(new) /\ Len(new) \in Nat /\ new = [i \in 1..Len(new) |-> new[i]]
    BY <1>1, <1>3
  <2> QED  BY <2>1, ListIsLog
<1> QED  BY <1>3, <1>4 DEF new

\* The ends of committed lines and truncations are offsets.
LogTyped(events) ==
    \A e \in ToSet(events) : e.kind \in CommittedKinds \cup {"source_truncated"} => e.end \in Nat

\* The values of a function on finitely many positions, as a set of numbers.
LEMMA LargestValue ==
    ASSUME NEW I, IsFiniteSet(I), NEW f \in [I -> Nat], NEW base \in Nat
    PROVE  LET V == {f[i] : i \in I} \cup {base} IN
           Max(V) \in V /\ \A x \in V : x <= Max(V)
<1> DEFINE V == {f[i] : i \in I}
<1>1. f \in Surjection(I, V)
  BY DEF Surjection
<1>2. V \in SUBSET Nat
  OBVIOUS
<1> HIDE DEF V
<1>3. IsFiniteSet(V)
  BY <1>1, FS_Surjection
<1>4. IsFiniteSet(V \cup {base}) /\ V \cup {base} \in SUBSET Nat /\ V \cup {base} # {}
  BY <1>2, <1>3, FS_AddElement
<1>5. Max(V \cup {base}) \in V \cup {base} /\ \A x \in V \cup {base} : x <= Max(V \cup {base})
  BY <1>4, LargestNumber
<1> QED  BY <1>5 DEF V

LEMMA OffsetIsNumber ==
    ASSUME NEW e, IsLog(e), LogTyped(e), NEW source
    PROVE  CommittedOffset(e, source) \in Nat
<1> DEFINE own(kinds) == {i \in DOMAIN e : e[i].source = source /\ e[i].kind \in kinds}
           reset == Max(own({"source_truncated"}) \cup {0})
           base == IF reset = 0 THEN 0 ELSE e[reset].end
           behind == {j \in own(CommittedKinds) : j > reset}
           f == [i \in behind |-> e[i].end]
<1>1. Len(e) \in Nat /\ DOMAIN e = 1..Len(e)
  BY LogLength
<1>2. \A i \in DOMAIN e : e[i].kind \in CommittedKinds \cup {"source_truncated"} => e[i].end \in Nat
  BY DEF LogTyped, ToSet
<1>3. reset \in own({"source_truncated"}) \cup {0}
  <2> DEFINE S == own({"source_truncated"}) \cup {0}
  <2>1. S \in SUBSET Nat /\ S # {} /\ \A x \in S : x <= Len(e)
    BY <1>1
  <2>2. reset = Max(S)
    OBVIOUS
  <2> HIDE DEF S
  <2>3. IsFiniteSet(S)
    BY <1>1, <2>1, FS_BoundedSetOfNaturals
  <2>4. reset \in S
    <3> HIDE DEF reset
    <3> QED  BY <2>1, <2>2, <2>3, LargestNumber
  <2> QED  BY <2>4 DEF S
<1>4. base \in Nat
  BY <1>1, <1>2, <1>3
<1>5. \A i \in behind : i \in DOMAIN e /\ e[i].end \in Nat
  BY <1>2
<1>6. CommittedOffset(e, source) = Max({e[i].end : i \in behind} \cup {base})
  BY DEF CommittedOffset
<1> HIDE DEF reset, base
<1>7. IsFiniteSet(behind)
  <2>1. behind \in SUBSET Nat /\ \A i \in behind : i <= Len(e)
    BY <1>1
  <2> HIDE DEF behind
  <2> QED  BY <1>1, <2>1, FS_BoundedSetOfNaturals
<1> HIDE DEF behind
<1>8. f \in [behind -> Nat] /\ {e[i].end : i \in behind} = {f[i] : i \in behind}
  BY <1>5
<1> HIDE DEF f
<1>9. {f[i] : i \in behind} \cup {base} \in SUBSET Nat
  BY <1>4, <1>8
<1>10. Max({f[i] : i \in behind} \cup {base}) \in {f[i] : i \in behind} \cup {base}
  BY <1>4, <1>7, <1>8, LargestValue
<1> QED  BY <1>6, <1>8, <1>9, <1>10

FileKinds == {"source_segment", "source_truncated", "trailing_partial_json"} \cup CommittedKinds

\* What an import reads: the file up to the size it was told.
ReadOf(bytes, size) == Segment(bytes, 0, Min({size, Len(bytes)}))
StartOf(offset, size, full) == IF full \/ offset > size THEN 0 ELSE offset

LEMMA ReadIsPrefix ==
    ASSUME NEW bytes, IsLog(bytes), NEW size \in Nat
    PROVE  /\ Extends(ReadOf(bytes, size), bytes)
           /\ size <= Len(bytes) => Len(ReadOf(bytes, size)) = size
           /\ size = Len(bytes) => ReadOf(bytes, size) = bytes
<1> DEFINE m == Min({size, Len(bytes)})
<1>1. Len(bytes) \in Nat /\ DOMAIN bytes = 1..Len(bytes)
  BY LogLength
<1>2. m \in Nat /\ (m = size \/ m = Len(bytes)) /\ m <= size /\ m <= Len(bytes)
  <2> DEFINE S == {size, Len(bytes)}
  <2>1. S \in SUBSET Nat /\ S # {} /\ size \in S /\ Len(bytes) \in S
    BY <1>1
  <2>2. m = Min(S)
    OBVIOUS
  <2> HIDE DEF m
  <2>3. m \in S /\ \A x \in S : m <= x
    <3> HIDE DEF S
    <3> QED  BY <2>1, <2>2, SmallestNumber
  <2> QED  BY <2>1, <2>3
<1> HIDE DEF m
<1>3. 0 \in 0 .. Len(bytes) /\ m \in 0 .. Len(bytes)
  <2>1. Len(bytes) \in Nat
    BY <1>1
  <2>2. m \in Nat /\ m <= Len(bytes)
    BY <1>2
  <2> QED  BY <2>1, <2>2
<1>4. /\ Segment(bytes, 0, m) = [k \in 1 .. m - 0 |-> bytes[0 + k]]
      /\ IsLog(Segment(bytes, 0, m)) /\ Len(Segment(bytes, 0, m)) = m - 0
  BY <1>3, Segments
<1>5. ReadOf(bytes, size) = Segment(bytes, 0, m)
  BY DEF ReadOf, m
<1>6. \A j \in 1 .. m : bytes[j] = Segment(bytes, 0, m)[j]
  BY <1>3, <1>4
<1>7. Extends(ReadOf(bytes, size), bytes)
  BY <1>1, <1>2, <1>4, <1>5, <1>6 DEF Extends
<1>8. ASSUME size = Len(bytes) PROVE ReadOf(bytes, size) = bytes
  <2>1. m = Len(bytes)
    BY <1>2, <1>8
  <2>2. \A k \in 1..Len(bytes) : bytes[0 + k] = bytes[k]
    BY <1>1
  <2>3. Segment(bytes, 0, m) = [k \in 1..Len(bytes) |-> bytes[k]]
    BY <1>1, <1>4, <2>1, <2>2
  <2>4. bytes = [k \in 1..Len(bytes) |-> bytes[k]]
    BY <1>1 DEF IsLog
  <2> QED  BY <1>5, <2>3, <2>4
<1>9. size <= Len(bytes) => Len(ReadOf(bytes, size)) = size
  BY <1>1, <1>2, <1>4, <1>5
<1> QED  BY <1>7, <1>8, <1>9

\* The events of a file: a truncation, if there is one, the segment and its lines.
LEMMA FileEventsAre ==
    ASSUME NEW e, NEW source, NEW size \in Nat, NEW bytes, IsLog(bytes), NEW full,
           CommittedOffset(e, source) \in Nat
    PROVE  LET events == FileEvents(e, source, size, bytes, full)
               read == ReadOf(bytes, size)
               start == StartOf(CommittedOffset(e, source), size, full)
               line(i) == LineEvent(source, read, i)
           IN  /\ IsLog(events) /\ IsInjective(events)
               /\ \A x \in ToSet(events) : x.source = source /\ x.kind \in FileKinds /\ x.end \in Nat
               /\ CommittedOffset(e, source) <= size => \A x \in ToSet(events) : x.kind # "source_truncated"
               /\ \A k \in DOMAIN events : events[k].kind \in CommittedKinds =>
                     events[k].start \in StartSet(read, start) /\ events[k] = line(events[k].start)
               /\ start # size => \A i \in StartSet(read, start) : line(i) \in ToSet(events)
               /\ \A k \in DOMAIN events : events[k].kind \in CommittedKinds =>
                     \A i \in StartSet(read, start) : i < events[k].start =>
                        \E j \in DOMAIN events : j < k /\ events[j] = line(i)
<1> DEFINE events == FileEvents(e, source, size, bytes, full)
           read == ReadOf(bytes, size)
           c == CommittedOffset(e, source)
           start == StartOf(c, size, full)
           line(i) == LineEvent(source, read, i)
           cut == Event("source_truncated", source, c, size, <<>>)
           truncation == IF c > size THEN <<cut>> ELSE <<>>
           segment == Event("source_segment", source, start, Max({start, Len(read)}),
                            Segment(read, start, Len(read)))
           starts == LineStarts(read, start)
           lines == [k \in DOMAIN starts |-> line(starts[k])]
           head == truncation \o <<segment>>
<1>1. events = IF start = size THEN truncation ELSE truncation \o <<segment>> \o lines
  BY DEF FileEvents, ReadOf, StartOf
<1>2. c \in Nat /\ start \in Nat
  BY DEF StartOf
<1>3. IsLog(read) /\ Len(read) \in Nat
  BY ReadIsPrefix, LogLength DEF Extends
<1>4. cut.kind = "source_truncated" /\ cut.source = source /\ cut.end = size
  BY DEF Event
<1>5. segment.kind = "source_segment" /\ segment.source = source /\ segment.end \in Nat
  <2> DEFINE last == Max({start, Len(read)})
  <2>1. last \in Nat
    <3> DEFINE S == {start, Len(read)}
    <3>1. S \in SUBSET Nat /\ S # {}
      BY <1>2, <1>3
    <3>2. IsFiniteSet(S)
      <4>1. IsFiniteSet({start} \cup {Len(read)})
        BY FS_Singleton, FS_AddElement
      <4>2. S = {start} \cup {Len(read)}
        OBVIOUS
      <4> QED  BY <4>1, <4>2
    <3>3. last = Max(S)
      OBVIOUS
    <3> HIDE DEF S, last
    <3>4. last \in S
      BY <3>1, <3>2, <3>3, LargestNumber
    <3> QED  BY <3>1, <3>4
  <2>2. segment.end = last
    BY DEF Event
  <2> QED  BY <2>1, <2>2 DEF Event
<1>6. /\ IsLog(starts)
      /\ \A k \in DOMAIN starts : starts[k] \in StartSet(read, start)
      /\ \A j, k \in DOMAIN starts : j < k => starts[j] < starts[k]
      /\ \A i \in StartSet(read, start) : \E k \in DOMAIN starts : starts[k] = i
  BY <1>2, <1>3, StartsInOrder
<1>7. \A i \in StartSet(read, start) : i \in 0 .. Len(read) - 1 /\ i \in Nat
  BY <1>2, <1>3 DEF StartSet
<1>8. \A i \in StartSet(read, start) :
         /\ line(i).source = source /\ line(i).start = i /\ line(i).end \in Nat
         /\ line(i).kind \in CommittedKinds \cup {"trailing_partial_json"}
  <2> SUFFICES ASSUME NEW i \in StartSet(read, start)
               PROVE  /\ line(i).source = source /\ line(i).start = i /\ line(i).end \in Nat
                      /\ line(i).kind \in CommittedKinds \cup {"trailing_partial_json"}
    OBVIOUS
  <2>1. i \in 0 .. Len(read) - 1 /\ i \in Nat
    BY <1>7
  <2>2. LineEnd(read, i) \in Nat
    <3>1. LineEnd(read, i) \in i + 1 .. Len(read)
      BY <1>3, <2>1, LineEnds
    <3> QED  BY <1>3, <2>1, <3>1
  <2> QED  BY <1>3, <2>1, <2>2, LineEvents
<1> HIDE DEF read, start, cut, segment, starts, c
<1>9. Len(starts) \in Nat /\ DOMAIN starts = 1..Len(starts)
  BY <1>6, LogLength
<1>10. IsLog(lines) /\ Len(lines) = Len(starts) /\ \A k \in DOMAIN starts : lines[k] = line(starts[k])
  <2>1. DOMAIN lines = 1..Len(starts) /\ lines = [k \in 1..Len(starts) |-> lines[k]]
    BY <1>9
  <2> HIDE DEF lines
  <2>2. IsLog(lines) /\ Len(lines) = Len(starts)
    BY <1>9, <2>1, ListIsLog
  <2> QED  BY <2>2 DEF lines
<1>11. /\ IsLog(truncation) /\ IsLog(<<segment>>) /\ Len(<<segment>>) = 1
       /\ c > size => Len(truncation) = 1 /\ truncation[1] = cut
       /\ c <= size => Len(truncation) = 0
  <2>1. IsLog(<<segment>>) /\ Len(<<segment>>) = 1
    BY DEF IsLog
  <2>2. CASE c > size
    <3>1. truncation = <<cut>>
      BY <2>2
    <3> QED  BY <1>2, <2>1, <2>2, <3>1 DEF IsLog
  <2>3. CASE ~(c > size)
    <3>1. truncation = <<>>
      BY <2>3
    <3> QED  BY <1>2, <2>1, <2>3, <3>1 DEF IsLog
  <2> QED  BY <2>2, <2>3
<1> HIDE DEF truncation, lines
<1>12. /\ IsLog(head) /\ Len(head) = Len(truncation) + 1 /\ head[Len(head)] = segment
       /\ \A i \in 1..Len(truncation) : head[i] = truncation[i]
  <2>1. /\ IsLog(truncation \o <<segment>>) /\ Len(truncation \o <<segment>>) = Len(truncation) + Len(<<segment>>)
        /\ \A i \in 1..Len(truncation) : (truncation \o <<segment>>)[i] = truncation[i]
        /\ \A k \in 1..Len(<<segment>>) : (truncation \o <<segment>>)[Len(truncation) + k] = <<segment>>[k]
    BY <1>11, ListsJoin
  <2>2. 1 \in 1..Len(<<segment>>) /\ <<segment>>[1] = segment
    BY <1>11
  <2> QED  BY <1>11, <2>1, <2>2
<1> HIDE DEF head
<1>13. /\ IsLog(head \o lines) /\ Len(head \o lines) = Len(head) + Len(lines)
       /\ \A i \in 1..Len(head) : (head \o lines)[i] = head[i]
       /\ \A k \in 1..Len(lines) : (head \o lines)[Len(head) + k] = lines[k]
  <2>1. IsLog(head) /\ IsLog(lines)
    BY <1>10, <1>12
  <2> QED  BY <2>1, ListsJoin
\* The positions of the events.
<1> DEFINE t == Len(truncation)
<1>14. t \in {0, 1} /\ (t = 1 <=> c > size) /\ (t = 1 => truncation[1] = cut)
  <2>1. c > size => t = 1 /\ truncation[1] = cut
    BY <1>11
  <2>2. ~(c > size) => t = 0
    BY <1>2, <1>11
  <2> QED  BY <2>1, <2>2
<1>15. CASE start # size
  <2>1. events = head \o lines
    BY <1>1, <1>15 DEF head
  <2> HIDE DEF events
  <2>2. IsLog(events) /\ Len(events) = t + 1 + Len(starts) /\ DOMAIN events = 1..(t + 1 + Len(starts))
    BY <1>10, <1>12, <1>13, <1>14, <2>1, LogLength
  <2>3. /\ t = 1 => events[1] = cut
        /\ events[t + 1] = segment
        /\ \A k \in DOMAIN starts : events[t + 1 + k] = line(starts[k])
    <3>1. Len(head) = t + 1
      BY <1>12
    <3>2. t = 1 => events[1] = cut
      BY <1>12, <1>13, <1>14, <2>1, <3>1
    <3>3. events[t + 1] = segment
      BY <1>12, <1>13, <1>14, <2>1, <3>1
    <3>4. \A k \in DOMAIN starts : events[t + 1 + k] = line(starts[k])
      BY <1>9, <1>10, <1>13, <2>1, <3>1
    <3> QED  BY <3>2, <3>3, <3>4
  <2>4. \A x \in DOMAIN events : \/ x = 1 /\ t = 1 /\ events[x] = cut
                                 \/ x = t + 1 /\ events[x] = segment
                                 \/ \E k \in DOMAIN starts : x = t + 1 + k /\ events[x] = line(starts[k])
    <3> SUFFICES ASSUME NEW x \in DOMAIN events, ~(x = 1 /\ t = 1), x # t + 1
                 PROVE  \E k \in DOMAIN starts : x = t + 1 + k /\ events[x] = line(starts[k])
      BY <2>3
    <3>0. t \in Nat /\ (t = 0 \/ t = 1) /\ x \in 1..(t + 1 + Len(starts)) /\ x # t + 1 /\ ~(x = 1 /\ t = 1)
      BY <1>14, <2>2
    <3>1. x - (t + 1) \in DOMAIN starts /\ x = t + 1 + (x - (t + 1))
      <4> HIDE DEF t
      <4>1. Len(starts) \in Nat
        BY <1>9
      <4>2. x - (t + 1) \in 1..Len(starts) /\ x = t + 1 + (x - (t + 1))
        BY <3>0, <4>1
      <4> QED  BY <1>9, <4>2
    <3> QED  BY <2>3, <3>1
  <2>5. \A x \in DOMAIN events : /\ events[x].source = source /\ events[x].end \in Nat
                                 /\ events[x].kind \in FileKinds
                                 /\ events[x].kind = "source_truncated" => x = 1 /\ t = 1
                                 /\ events[x].kind = "source_segment" => x = t + 1
                                 /\ events[x].kind \notin {"source_truncated", "source_segment"} =>
                                       \E k \in DOMAIN starts : x = t + 1 + k /\ events[x] = line(starts[k])
    <3> SUFFICES ASSUME NEW x \in DOMAIN events
                 PROVE  /\ events[x].source = source /\ events[x].end \in Nat
                        /\ events[x].kind \in FileKinds
                        /\ events[x].kind = "source_truncated" => x = 1 /\ t = 1
                        /\ events[x].kind = "source_segment" => x = t + 1
                        /\ events[x].kind \notin {"source_truncated", "source_segment"} =>
                              \E k \in DOMAIN starts : x = t + 1 + k /\ events[x] = line(starts[k])
      OBVIOUS
    <3>1. CASE x = 1 /\ t = 1 /\ events[x] = cut
      BY <1>4, <3>1 DEF FileKinds
    <3>2. CASE x = t + 1 /\ events[x] = segment
      BY <1>5, <3>2 DEF FileKinds
    <3>3. ASSUME NEW k \in DOMAIN starts, x = t + 1 + k, events[x] = line(starts[k])
          PROVE  /\ events[x].source = source /\ events[x].end \in Nat
                 /\ events[x].kind \in FileKinds \ {"source_truncated", "source_segment"}
      <4>1. starts[k] \in StartSet(read, start)
        BY <1>6
      <4> QED  BY <1>8, <3>3, <4>1 DEF FileKinds, CommittedKinds
    <3> QED  BY <2>4, <3>1, <3>2, <3>3
  <2>6. IsInjective(events)
    <3> SUFFICES ASSUME NEW x \in DOMAIN events, NEW y \in DOMAIN events, events[x] = events[y] PROVE x = y
      BY DEF IsInjective
    <3>1. CASE events[x].kind \in {"source_truncated", "source_segment"}
      BY <2>5, <3>1
    <3>2. CASE events[x].kind \notin {"source_truncated", "source_segment"}
      <4>1. PICK j \in DOMAIN starts : x = t + 1 + j /\ events[x] = line(starts[j])
        BY <2>5, <3>2
      <4>2. PICK k \in DOMAIN starts : y = t + 1 + k /\ events[y] = line(starts[k])
        BY <2>5, <3>2
      <4>3. starts[j] \in StartSet(read, start) /\ starts[k] \in StartSet(read, start)
        BY <1>6
      <4>4. starts[j] = starts[k] /\ starts[j] \in Nat
        BY <1>7, <1>8, <4>1, <4>2, <4>3
      <4>5. ~(j < k) /\ ~(k < j)
        BY <1>6, <4>4
      <4> QED  BY <1>9, <4>1, <4>2, <4>5
    <3> QED  BY <3>1, <3>2
  <2>7. \A x \in ToSet(events) : x.source = source /\ x.kind \in FileKinds /\ x.end \in Nat
    BY <2>5 DEF ToSet
  <2>8. c <= size => \A x \in ToSet(events) : x.kind # "source_truncated"
    <3>1. c <= size => t # 1
      BY <1>2, <1>14
    <3> QED  BY <2>5, <3>1 DEF ToSet
  <2>9. \A k \in DOMAIN events : events[k].kind \in CommittedKinds =>
           \E j \in DOMAIN starts : k = t + 1 + j /\ events[k] = line(starts[j]) /\ events[k].start = starts[j]
    <3> SUFFICES ASSUME NEW k \in DOMAIN events, events[k].kind \in CommittedKinds
                 PROVE  \E j \in DOMAIN starts : k = t + 1 + j /\ events[k] = line(starts[j]) /\ events[k].start = starts[j]
      OBVIOUS
    <3>1. PICK j \in DOMAIN starts : k = t + 1 + j /\ events[k] = line(starts[j])
      BY <2>5 DEF CommittedKinds
    <3>2. line(starts[j]).start = starts[j]
      BY <1>6, <1>8
    <3> QED  BY <3>1, <3>2
  <2>10. \A k \in DOMAIN events : events[k].kind \in CommittedKinds =>
            events[k].start \in StartSet(read, start) /\ events[k] = line(events[k].start)
    BY <1>6, <2>9
  <2>11. ASSUME NEW i \in StartSet(read, start)
         PROVE  \E j \in DOMAIN starts : starts[j] = i /\ t + 1 + j \in DOMAIN events /\ events[t + 1 + j] = line(i)
    <3>1. PICK j \in DOMAIN starts : starts[j] = i
      BY <1>6
    <3>2. t + 1 + j \in DOMAIN events
      BY <1>9, <1>14, <2>2
    <3> QED  BY <2>3, <3>1, <3>2
  <2>12. \A i \in StartSet(read, start) : line(i) \in ToSet(events)
    BY <2>11 DEF ToSet
  <2>13. ASSUME NEW k \in DOMAIN events, events[k].kind \in CommittedKinds, NEW i \in StartSet(read, start),
                i < events[k].start
         PROVE  \E j \in DOMAIN events : j < k /\ events[j] = line(i)
    <3>1. PICK m \in DOMAIN starts : k = t + 1 + m /\ events[k].start = starts[m]
      BY <2>9, <2>13
    <3>2. PICK j \in DOMAIN starts : starts[j] = i /\ t + 1 + j \in DOMAIN events /\ events[t + 1 + j] = line(i)
      BY <2>11
    <3>3. starts[j] \in Nat /\ starts[m] \in Nat /\ starts[j] < starts[m]
      BY <1>6, <1>7, <2>13, <3>1, <3>2
    <3>4. ~(m < j) /\ m # j
      BY <1>6, <3>3
    <3>5. t + 1 + j < k
      BY <1>9, <1>14, <3>1, <3>4
    <3> QED  BY <3>2, <3>5
  <2> QED  BY <2>2, <2>6, <2>7, <2>8, <2>10, <2>12, <2>13 DEF events, read, start, c
<1>16. CASE start = size
  <2>1. events = truncation
    BY <1>1, <1>16
  <2> HIDE DEF events
  <2>2. /\ IsLog(events) /\ DOMAIN events = 1..t
        /\ \A x \in DOMAIN events : x = 1 /\ t = 1 /\ events[x] = cut
    BY <1>11, <1>14, <2>1, LogLength
  <2>3. IsInjective(events)
    BY <2>2 DEF IsInjective
  <2>4. \A x \in DOMAIN events : /\ events[x].source = source /\ events[x].kind = "source_truncated"
                                 /\ events[x].end \in Nat /\ t = 1
    BY <1>4, <2>2
  <2>5. \A x \in ToSet(events) : x.source = source /\ x.kind \in FileKinds /\ x.end \in Nat
    BY <2>4 DEF ToSet, FileKinds
  <2>6. c <= size => \A x \in ToSet(events) : x.kind # "source_truncated"
    BY <1>2, <1>14, <2>4 DEF ToSet
  <2>7. \A k \in DOMAIN events : events[k].kind \notin CommittedKinds
    BY <2>4 DEF CommittedKinds
  <2> QED  BY <1>16, <2>2, <2>3, <2>5, <2>6, <2>7 DEF events, read, start, c
<1> QED  BY <1>15, <1>16

-----------------------------------------------------------------------------
(* The lines of a file that only grows.                                    *)

\* The ledger has committed lines of this file only, each with all lines before it.
LinesOf(e, source, bytes) ==
    \A x \in ToSet(e) : x.source = source =>
        /\ x.kind # "source_truncated"
        /\ x.kind \in CommittedKinds =>
              /\ x.start \in StartSet(bytes, 0) /\ x = LineEvent(source, bytes, x.start)
              /\ \A i \in StartSet(bytes, 0) : i < x.start => LineEvent(source, bytes, i) \in ToSet(e)

\* A line with another one behind it is terminated.
LEMMA LineBefore ==
    ASSUME NEW bytes, IsLog(bytes), NEW i \in Nat, NEW k \in StartSet(bytes, i), i < k
    PROVE  bytes[LineEnd(bytes, i)] = NL /\ LineEnd(bytes, i) <= k
<1>1. Len(bytes) \in Nat /\ k \in Nat /\ k \in i .. Len(bytes) - 1 /\ bytes[k] = NL
  BY LogLength DEF StartSet
<1>2. i \in 0 .. Len(bytes) - 1 /\ k \in i + 1 .. Len(bytes)
  BY <1>1
<1>3. /\ LineEnd(bytes, i) \in i + 1 .. Len(bytes)
      /\ \A j \in i + 1 .. LineEnd(bytes, i) - 1 : bytes[j] # NL
      /\ bytes[LineEnd(bytes, i)] # NL => \A j \in i + 1 .. Len(bytes) : bytes[j] # NL
  BY <1>2, LineEnds
<1>4. bytes[LineEnd(bytes, i)] = NL
  BY <1>1, <1>2, <1>3
<1>5. ~(k < LineEnd(bytes, i))
  BY <1>1, <1>2, <1>3
<1>6. LineEnd(bytes, i) \in Nat
  BY <1>1, <1>2, <1>3
<1> QED  BY <1>1, <1>4, <1>5, <1>6

\* The committed offset is behind the last of these lines.
LEMMA OffsetOfLines ==
    ASSUME NEW e, IsLog(e), LogTyped(e), NEW source, NEW bytes, IsLog(bytes), LinesOf(e, source, bytes)
    PROVE  LET c == CommittedOffset(e, source) IN
           /\ c \in 0 .. Len(bytes) /\ (c = 0 \/ bytes[c] = NL)
           /\ \A i \in StartSet(bytes, 0) : i < c => LineEvent(source, bytes, i) \in ToSet(e)
           /\ c = 0 \/ \E x \in ToSet(e) : x.source = source /\ x.kind \in CommittedKinds /\ x.end = c
<1> DEFINE own(kinds) == {i \in DOMAIN e : e[i].source = source /\ e[i].kind \in kinds}
           c == CommittedOffset(e, source)
           lines == {j \in own(CommittedKinds) : j > 0}
           f == [i \in lines |-> e[i].end]
<1>1. Len(e) \in Nat /\ DOMAIN e = 1..Len(e) /\ Len(bytes) \in Nat
  BY LogLength
<1>2. own({"source_truncated"}) = {}
  BY DEF LinesOf, ToSet
<1>3. Max({0}) = 0
  <2>0. IsFiniteSet({0})
    BY FS_Singleton
  <2>1. {0} \in SUBSET Nat /\ {0} # {} /\ IsFiniteSet({0})
    BY <2>0
  <2>2. Max({0}) \in {0}
    BY <2>1, LargestNumber
  <2> QED  BY <2>2
<1>4. c = Max({e[i].end : i \in lines} \cup {0})
  <2>1. own({"source_truncated"}) \cup {0} = {0}
    BY <1>2
  <2>2. c = LET reset == Max(own({"source_truncated"}) \cup {0})
                base == IF reset = 0 THEN 0 ELSE e[reset].end
                ends == {e[i].end : i \in {j \in own(CommittedKinds) : j > reset}}
            IN  Max(ends \cup {base})
    BY DEF CommittedOffset
  <2> HIDE DEF c
  <2> QED  BY <1>3, <2>1, <2>2
<1>5. \A i \in lines : i \in DOMAIN e /\ e[i] \in ToSet(e) /\ e[i].end \in Nat
                       /\ e[i].source = source /\ e[i].kind \in CommittedKinds
  BY DEF LogTyped, ToSet
<1>6. IsFiniteSet(lines)
  <2>1. lines \in SUBSET Nat /\ \A i \in lines : i <= Len(e)
    BY <1>1
  <2> HIDE DEF lines
  <2> QED  BY <1>1, <2>1, FS_BoundedSetOfNaturals
<1> HIDE DEF lines, c
<1>7. f \in [lines -> Nat] /\ {e[i].end : i \in lines} = {f[i] : i \in lines}
  BY <1>5
<1>8. c \in {f[i] : i \in lines} \cup {0}
  <2>1. Max({f[i] : i \in lines} \cup {0}) \in {f[i] : i \in lines} \cup {0}
    <3> HIDE DEF f
    <3> QED  BY <1>6, <1>7, LargestValue
  <2> QED  BY <1>4, <1>7, <2>1
<1>9. CASE c = 0
  <2>1. \A i \in StartSet(bytes, 0) : i \in Nat
    BY <1>1 DEF StartSet
  <2> QED  BY <1>1, <1>9, <2>1 DEF c
<1>10. ASSUME NEW k \in lines, c = e[k].end PROVE
           /\ c \in 0 .. Len(bytes) /\ (c = 0 \/ bytes[c] = NL)
           /\ \A i \in StartSet(bytes, 0) : i < c => LineEvent(source, bytes, i) \in ToSet(e)
           /\ c = 0 \/ \E x \in ToSet(e) : x.source = source /\ x.kind \in CommittedKinds /\ x.end = c
  <2>1. PICK x \in ToSet(e) : x = e[k]
    BY <1>5
  <2>2. x.source = source /\ x.kind \in CommittedKinds /\ x.end = c
    BY <1>5, <1>10, <2>1
  <2>3. /\ x.start \in StartSet(bytes, 0) /\ x = LineEvent(source, bytes, x.start)
        /\ \A i \in StartSet(bytes, 0) : i < x.start => LineEvent(source, bytes, i) \in ToSet(e)
    BY <2>2 DEF LinesOf
  <2> DEFINE s == x.start
  <2>4. s \in Nat /\ s \in 0 .. Len(bytes) - 1
    BY <1>1, <2>3 DEF StartSet
  <2>5. c = LineEnd(bytes, s) /\ bytes[c] = NL
    <3>1. x = LineEvent(source, bytes, s)
      BY <2>3
    <3> HIDE DEF s
    <3> QED  BY <2>2, <2>4, <3>1, LineEvents
  <2>6. /\ c \in s + 1 .. Len(bytes)
        /\ \A j \in s + 1 .. c - 1 : bytes[j] # NL
    BY <2>4, <2>5, LineEnds
  <2>7. ASSUME NEW i \in StartSet(bytes, 0), i < c PROVE LineEvent(source, bytes, i) \in ToSet(e)
    <3>1. i \in Nat /\ (i = 0 \/ bytes[i] = NL)
      BY <1>1 DEF StartSet
    <3>2. ~(s < i)
      BY <1>1, <2>4, <2>6, <2>7, <3>1
    <3>3. CASE i < s
      BY <2>3, <3>3
    <3>4. CASE i = s
      BY <2>3, <3>4
    <3> QED  BY <2>4, <3>1, <3>2, <3>3, <3>4
  <2>8. c \in 0 .. Len(bytes)
    BY <1>1, <2>4, <2>6
  <2> QED  BY <2>2, <2>5, <2>7, <2>8
<1> QED  BY <1>5, <1>7, <1>8, <1>9, <1>10 DEF c

\* The lines of a file are lines of the file with more behind it.
LEMMA LinesGrow ==
    ASSUME NEW e, NEW source, NEW old, NEW bytes, Extends(old, bytes), LinesOf(e, source, old)
    PROVE  LinesOf(e, source, bytes)
<1>1. /\ IsLog(old) /\ IsLog(bytes) /\ Len(old) \in Nat /\ Len(bytes) \in Nat /\ Len(old) <= Len(bytes)
      /\ \A j \in 1 .. Len(old) : bytes[j] = old[j]
  BY LogLength DEF Extends
<1>2. \A i \in StartSet(old, 0) : i \in StartSet(bytes, 0) /\ i \in 0 .. Len(old) - 1 /\ i \in Nat
  BY <1>1 DEF StartSet
<1>3. ASSUME NEW k \in StartSet(old, 0), NEW i \in StartSet(bytes, 0), i < k
      PROVE  i \in StartSet(old, 0) /\ LineEvent(source, bytes, i) = LineEvent(source, old, i)
  <2>1. i \in Nat /\ k \in Nat /\ k \in 0 .. Len(old) - 1 /\ (i = 0 \/ bytes[i] = NL)
    BY <1>1, <1>2 DEF StartSet
  <2>2. i \in 0 .. Len(old) - 1 /\ i \in StartSet(old, 0)
    BY <1>1, <1>3, <2>1 DEF StartSet
  <2>3. k \in StartSet(old, i)
    BY <1>1, <1>3, <2>1 DEF StartSet
  <2>4. old[LineEnd(old, i)] = NL
    BY <1>1, <1>3, <2>1, <2>3, LineBefore
  <2> QED  BY <2>2, <2>4, LinesStay
<1>4. ASSUME NEW x \in ToSet(e), x.source = source, x.kind \in CommittedKinds
      PROVE  /\ x.start \in StartSet(bytes, 0) /\ x = LineEvent(source, bytes, x.start)
             /\ \A i \in StartSet(bytes, 0) : i < x.start => LineEvent(source, bytes, i) \in ToSet(e)
  <2>1. /\ x.start \in StartSet(old, 0) /\ x = LineEvent(source, old, x.start)
        /\ \A i \in StartSet(old, 0) : i < x.start => LineEvent(source, old, i) \in ToSet(e)
    BY <1>4 DEF LinesOf
  <2> DEFINE s == x.start
  <2>2. s \in 0 .. Len(old) - 1 /\ s \in StartSet(bytes, 0)
    BY <1>2, <2>1
  <2>3. x = LineEvent(source, old, s)
    BY <2>1
  <2> HIDE DEF s
  <2>4. old[LineEnd(old, s)] = NL
    BY <1>1, <1>4, <2>2, <2>3, LineEvents
  <2>5. LineEvent(source, bytes, s) = LineEvent(source, old, s)
    BY <2>2, <2>4, LinesStay
  <2>6. \A i \in StartSet(bytes, 0) : i < s => LineEvent(source, bytes, i) \in ToSet(e)
    BY <1>3, <2>1 DEF s
  <2> QED  BY <2>2, <2>3, <2>5, <2>6 DEF s
<1> QED  BY <1>4 DEF LinesOf

\* Events of other kinds or sources do not matter.
LEMMA OthersAppended ==
    ASSUME NEW e, NEW new, ToSet(e) \subseteq ToSet(new), NEW source, NEW bytes, LinesOf(e, source, bytes),
           \A x \in ToSet(new) \ ToSet(e) :
              x.source = source => x.kind \notin CommittedKinds \cup {"source_truncated"}
    PROVE  LinesOf(new, source, bytes)
BY DEF LinesOf

LEMMA RecordedStays ==
    ASSUME NEW e, NEW new, ToSet(e) \subseteq ToSet(new), NEW source, NEW bytes, LinesRecorded(e, source, bytes)
    PROVE  LinesRecorded(new, source, bytes)
BY DEF LinesRecorded

\* What an import appends to the lines of a growing file.
LEMMA ImportLines ==
    ASSUME NEW e, IsLog(e), LogTyped(e), NEW source, NEW bytes, IsLog(bytes), LinesOf(e, source, bytes),
           NEW size \in 0 .. Len(bytes), CommittedOffset(e, source) <= size, NEW full,
           NEW part \in 0 .. Len(ImportBatch(e, source, size, bytes, full)),
           NEW new, Records(e, FileEvents(e, source, size, bytes, full), part, new)
    PROVE  /\ LinesOf(new, source, bytes)
           /\ size = Len(bytes) /\ part = Len(ImportBatch(e, source, size, bytes, full)) =>
                 LinesRecorded(new, source, bytes)
<1> DEFINE events == FileEvents(e, source, size, bytes, full)
           read == ReadOf(bytes, size)
           c == CommittedOffset(e, source)
           start == StartOf(c, size, full)
           line(i) == LineEvent(source, read, i)
<1>1. /\ c \in 0 .. Len(bytes) /\ (c = 0 \/ bytes[c] = NL)
      /\ \A i \in StartSet(bytes, 0) : i < c => LineEvent(source, bytes, i) \in ToSet(e)
  BY OffsetOfLines
<1>2. Len(bytes) \in Nat /\ size \in Nat /\ c \in Nat /\ c <= size
  BY <1>1, LogLength
<1>3. /\ IsLog(events) /\ IsInjective(events)
      /\ \A x \in ToSet(events) : x.source = source /\ x.kind \in FileKinds /\ x.end \in Nat
      /\ c <= size => \A x \in ToSet(events) : x.kind # "source_truncated"
      /\ \A k \in DOMAIN events : events[k].kind \in CommittedKinds =>
            events[k].start \in StartSet(read, start) /\ events[k] = line(events[k].start)
      /\ start # size => \A i \in StartSet(read, start) : line(i) \in ToSet(events)
      /\ \A k \in DOMAIN events : events[k].kind \in CommittedKinds =>
            \A i \in StartSet(read, start) : i < events[k].start =>
               \E j \in DOMAIN events : j < k /\ events[j] = line(i)
  BY <1>2, FileEventsAre
<1>4. Extends(read, bytes) /\ Len(read) = size /\ (size = Len(bytes) => read = bytes)
  BY <1>2, ReadIsPrefix
<1>5. /\ IsLog(read) /\ Len(read) \in Nat /\ Len(read) <= Len(bytes)
      /\ \A j \in 1 .. Len(read) : bytes[j] = read[j]
  BY <1>2, <1>4 DEF Extends
<1>6. (start = 0 \/ start = c) /\ start \in Nat /\ start <= c
  BY <1>2 DEF StartOf
<1>7. part \in 0 .. Len(Unknown(e, events)) /\ Records(e, events, part, new)
      /\ Unknown(e, events) = ImportBatch(e, source, size, bytes, full)
  BY DEF ImportBatch
<1> HIDE DEF events, read, c, start
<1>8. /\ ToSet(e) \subseteq ToSet(new) /\ ToSet(new) \subseteq ToSet(e) \cup ToSet(events)
      /\ part = Len(Unknown(e, events)) => ToSet(events) \subseteq ToSet(new)
      /\ \A i, j \in DOMAIN events :
            i < j /\ events[j] \in ToSet(new) \ ToSet(e) => events[i] \in ToSet(new)
  BY <1>3, <1>7, PartRecorded
<1>9. ASSUME NEW i \in StartSet(read, start), read[LineEnd(read, i)] = NL
      PROVE  i \in StartSet(bytes, 0) /\ LineEvent(source, bytes, i) = line(i)
  <2>1. i \in start .. Len(read) - 1 /\ (i = start \/ read[i] = NL)
    BY DEF StartSet
  <2>2. i \in 0 .. Len(read) - 1 /\ i \in 0 .. Len(bytes) - 1 /\ i \in Nat
    BY <1>2, <1>5, <1>6, <2>1
  <2>3. i = 0 \/ bytes[i] = NL
    BY <1>1, <1>5, <1>6, <2>1, <2>2
  <2>4. i \in StartSet(bytes, 0)
    BY <2>2, <2>3 DEF StartSet
  <2> QED  BY <1>4, <1>9, <2>2, <2>4, LinesStay
<1>10. ASSUME NEW k \in StartSet(read, start), NEW i \in StartSet(bytes, 0), i < k, ~(i < start)
       PROVE  i \in StartSet(read, start) /\ read[LineEnd(read, i)] = NL
  <2>1. k \in start .. Len(read) - 1 /\ (k = start \/ read[k] = NL) /\ k \in Nat
    BY <1>5, <1>6 DEF StartSet
  <2>2. i \in 0 .. Len(bytes) - 1 /\ i \in Nat /\ (i = 0 \/ bytes[i] = NL)
    BY <1>2 DEF StartSet
  <2>3. i \in start .. Len(read) - 1 /\ (i = start \/ read[i] = NL)
    BY <1>2, <1>5, <1>6, <1>10, <2>1, <2>2
  <2>4. i \in StartSet(read, start)
    BY <2>3 DEF StartSet
  <2>5. k \in i .. Len(read) - 1 /\ read[k] = NL
    BY <1>5, <1>6, <1>10, <2>1, <2>2
  <2>6. k \in StartSet(read, i)
    BY <2>5 DEF StartSet
  <2> QED  BY <1>5, <1>10, <2>2, <2>4, <2>6, LineBefore
<1>11. ASSUME NEW x \in ToSet(new) \ ToSet(e)
       PROVE  /\ x.kind # "source_truncated"
              /\ x.kind \in CommittedKinds =>
                    /\ x.start \in StartSet(bytes, 0) /\ x = LineEvent(source, bytes, x.start)
                    /\ \A i \in StartSet(bytes, 0) : i < x.start => LineEvent(source, bytes, i) \in ToSet(new)
  <2>1. PICK k \in DOMAIN events : x = events[k]
    BY <1>8, <1>11 DEF ToSet
  <2>2. x.kind # "source_truncated"
    BY <1>2, <1>3, <2>1 DEF ToSet
  <2>3. ASSUME x.kind \in CommittedKinds
        PROVE  /\ x.start \in StartSet(bytes, 0) /\ x = LineEvent(source, bytes, x.start)
               /\ \A i \in StartSet(bytes, 0) : i < x.start => LineEvent(source, bytes, i) \in ToSet(new)
    <3> DEFINE s == x.start
    <3>1. s \in StartSet(read, start) /\ x = line(s)
      BY <1>3, <2>1, <2>3
    <3>9. \A i \in StartSet(read, start) : i < s => \E j \in DOMAIN events : j < k /\ events[j] = line(i)
      BY <1>3, <2>1, <2>3
    <3> HIDE DEF s
    <3>2. s \in 0 .. Len(read) - 1
      BY <1>5, <1>6, <3>1 DEF StartSet
    <3>3. read[LineEnd(read, s)] = NL
      BY <1>5, <2>3, <3>1, <3>2, LineEvents
    <3>4. s \in StartSet(bytes, 0) /\ LineEvent(source, bytes, s) = line(s)
      BY <1>9, <3>1, <3>3
    <3>5. ASSUME NEW i \in StartSet(bytes, 0), i < s PROVE LineEvent(source, bytes, i) \in ToSet(new)
      <4>1. CASE i < start
        <5>1. i < c
          <6>1. i \in Nat
            BY <1>2 DEF StartSet
          <6> QED  BY <1>2, <1>6, <4>1, <6>1
        <5> QED  BY <1>1, <1>8, <5>1
      <4>2. CASE ~(i < start)
        <5>1. i \in StartSet(read, start) /\ read[LineEnd(read, i)] = NL
          BY <1>10, <3>1, <3>5, <4>2
        <5>2. LineEvent(source, bytes, i) = line(i)
          BY <1>9, <5>1
        <5>3. PICK j \in DOMAIN events : j < k /\ events[j] = line(i)
          BY <3>5, <3>9, <5>1
        <5>4. events[j] \in ToSet(new)
          BY <1>8, <1>11, <2>1, <5>3
        <5> QED  BY <5>2, <5>3, <5>4
      <4> QED  BY <4>1, <4>2
    <3> QED  BY <3>1, <3>4, <3>5 DEF s
  <2> QED  BY <2>2, <2>3
<1>12. LinesOf(new, source, bytes)
  <2> SUFFICES ASSUME NEW x \in ToSet(new), x.source = source
               PROVE  /\ x.kind # "source_truncated"
                      /\ x.kind \in CommittedKinds =>
                            /\ x.start \in StartSet(bytes, 0) /\ x = LineEvent(source, bytes, x.start)
                            /\ \A i \in StartSet(bytes, 0) :
                                  i < x.start => LineEvent(source, bytes, i) \in ToSet(new)
    BY DEF LinesOf
  <2>1. CASE x \in ToSet(e)
    BY <1>8, <2>1 DEF LinesOf
  <2> QED  BY <1>11, <2>1
<1>13. ASSUME size = Len(bytes), part = Len(Unknown(e, events)) PROVE LinesRecorded(new, source, bytes)
  <2> DEFINE starts == LineStarts(bytes, 0)
  <2>1. \A k \in DOMAIN starts : starts[k] \in StartSet(bytes, 0)
    BY StartsInOrder
  <2>2. ASSUME NEW i \in StartSet(bytes, 0), Terminated(Segment(bytes, i, LineEnd(bytes, i)))
        PROVE  LineEvent(source, bytes, i) \in ToSet(new)
    <3>1. i \in 0 .. Len(bytes) - 1 /\ i \in Nat /\ (i = 0 \/ bytes[i] = NL)
      BY <1>2 DEF StartSet
    <3>2. CASE i < start
      <4>1. i < c
        BY <1>2, <1>6, <3>1, <3>2
      <4> QED  BY <1>1, <1>8, <4>1
    <3>3. CASE ~(i < start)
      <4>1. read = bytes
        BY <1>4, <1>13
      <4>2. i \in start .. Len(read) - 1 /\ (i = start \/ read[i] = NL)
        BY <1>6, <3>1, <3>3, <4>1
      <4>3. i \in StartSet(read, start)
        BY <4>2 DEF StartSet
      <4>4. start # size
        BY <1>2, <1>6, <1>13, <3>1, <3>3
      <4>5. line(i) \in ToSet(events)
        BY <1>3, <4>3, <4>4
      <4> QED  BY <1>8, <1>13, <4>1, <4>5
    <3> QED  BY <3>2, <3>3
  <2> HIDE DEF starts
  <2>3. \A k \in DOMAIN starts : \/ ~Terminated(Segment(bytes, starts[k], LineEnd(bytes, starts[k])))
                                 \/ LineEvent(source, bytes, starts[k]) \in ToSet(new)
    BY <2>1, <2>2
  <2> QED  BY <2>3 DEF LinesRecorded, starts
<1> QED  BY <1>7, <1>12, <1>13

-----------------------------------------------------------------------------
(* Events of hooks.                                                        *)

HookEvent(h) == Event("line", "spool", 0, 2, <<h, NL>>)

\* A finite set as a sequence.
LEMMA SetInSequence ==
    ASSUME NEW S, IsFiniteSet(S)
    PROVE  /\ IsLog(SetToSeq(S)) /\ IsInjective(SetToSeq(S))
           /\ \A i \in DOMAIN SetToSeq(S) : SetToSeq(S)[i] \in S
           /\ \A x \in S : \E i \in DOMAIN SetToSeq(S) : SetToSeq(S)[i] = x
<1> DEFINE n == Cardinality(S)
           q == SetToSeq(S)
<1>1. n \in Nat /\ ExistsBijection(1..n, S)
  BY FS_CardinalityType
<1>2. \E f \in [1..n -> S] : IsInjective(f)
  BY <1>1 DEF ExistsBijection, Bijection, Injection
<1>3. q = CHOOSE f \in [1..n -> S] : IsInjective(f)
  BY DEF SetToSeq
<1> HIDE DEF n, q
<1>4. q \in [1..n -> S] /\ IsInjective(q)
  BY <1>2, <1>3
<1>5. IsLog(q)
  <2>1. DOMAIN q = 1..n /\ q = [i \in 1..n |-> q[i]]
    BY <1>4
  <2> QED  BY <1>1, <2>1, ListIsLog
<1>6. q \in Surjection(1..n, S)
  <2>1. q \in Injection(1..n, S)
    BY <1>4 DEF Injection
  <2>2. Cardinality(1..n) = n
    BY <1>1, FS_Interval
  <2>3. Cardinality(1..n) = Cardinality(S)
    BY <2>2 DEF n
  <2> QED  BY <2>1, <2>3, FS_Injection
<1>7. /\ \A i \in DOMAIN q : q[i] \in S
      /\ \A x \in S : \E i \in DOMAIN q : q[i] = x
  BY <1>4, <1>6 DEF Surjection
<1> QED  BY <1>4, <1>5, <1>7 DEF q

LEMMA HookEventsAre ==
    /\ IsLog(hookEvents) /\ IsInjective(hookEvents)
    /\ \A x \in ToSet(hookEvents) : x.source = "spool" /\ x.kind = "line" /\ x.end = 2
    /\ \A h \in Hooks : Spooled(h) => HookEvent(h) \in ToSet(hookEvents)
<1> DEFINE S == {h \in Hooks : Spooled(h)}
           q == SetToSeq(S)
           events == [i \in DOMAIN q |-> HookEvent(q[i])]
<1>1. hookEvents = events
  BY DEF hookEvents, HookEvent
<1>2. IsFiniteSet(S)
  BY CaptureAssumption, FS_Subset
<1>3. /\ IsLog(q) /\ IsInjective(q)
      /\ \A x \in S : \E i \in DOMAIN q : q[i] = x
  BY <1>2, SetInSequence
<1>4. \A h \in Hooks : Spooled(h) => h \in S
  OBVIOUS
<1> HIDE DEF S, q
<1>5. Len(q) \in Nat /\ DOMAIN q = 1..Len(q)
  BY <1>3, LogLength
<1>6. IsLog(events)
  <2>1. DOMAIN events = 1..Len(q) /\ events = [i \in 1..Len(q) |-> events[i]]
    BY <1>5
  <2> QED  BY <1>5, <2>1, ListIsLog
<1>7. \A a, b : HookEvent(a) = HookEvent(b) => a = b
  <2> SUFFICES ASSUME NEW a, NEW b, HookEvent(a) = HookEvent(b) PROVE a = b
    OBVIOUS
  <2>1. HookEvent(a).bytes = <<a, NL>> /\ HookEvent(b).bytes = <<b, NL>>
    BY DEF HookEvent, Event
  <2>2. <<a, NL>> = <<b, NL>>
    BY <2>1
  <2> QED  BY <2>2
<1>8. IsInjective(events)
  BY <1>3, <1>7 DEF IsInjective
<1>9. \A h : HookEvent(h).source = "spool" /\ HookEvent(h).kind = "line" /\ HookEvent(h).end = 2
  BY DEF HookEvent, Event
<1>10. \A x \in ToSet(events) : x.source = "spool" /\ x.kind = "line" /\ x.end = 2
  BY <1>9 DEF ToSet
<1>11. \A h \in Hooks : Spooled(h) => HookEvent(h) \in ToSet(events)
  BY <1>3, <1>4 DEF ToSet
<1> QED  BY <1>1, <1>6, <1>8, <1>10, <1>11

LEMMA FilesAreLogs ==
    ASSUME NEW bytes \in Bytes
    PROVE  IsLog(bytes)
BY DEF Bytes, IsLog

-----------------------------------------------------------------------------
(* The invariant.                                                          *)

OwedKinds == {"source_inventory", "hook_spool_import", "transcript_import"}
AtSource == {"pre_gaps", "spool", "import", "import_gaps", "post", "post_gaps", "result"}
Imported == {"import_gaps", "post", "post_gaps", "result"}

HooksRecorded == \A h \in due : HookEvent(h) \in ToSet(log)
Preserved(source, bytes) == bytes \in blobs /\ (~MayReplace => LinesRecorded(log, source, bytes))
Reported(source, inventory) == ToSet(missingGapEvents(source, inventory)) \subseteq ToSet(log)
Content(source) == IF files[source] = Missing THEN <<>> ELSE files[source]

\* The ledger has each event once; of a file that only grows it has whole lines,
\* from the first one on.
Ledger ==
    /\ IsLog(log) /\ LogTyped(log) /\ IsInjective(log)
    /\ ~MayReplace => \A s \in Sources :
          files[s] # Missing \/ style = "append" => LinesOf(log, s, Content(s))

Disk ==
    /\ style \in Styles /\ files \in [Sources -> {Missing} \cup Bytes]
    /\ DOMAIN spool = Hooks /\ spool = [h \in Hooks |-> spool[h]] /\ faults \in Nat
    /\ due \subseteq {h \in Hooks : spool[h] = "envelope"}

\* Who imports by hand has the writer lock, and read a size behind every line.
Hand ==
    hand # NoHand =>
        /\ writerLock = "hand" /\ hand.source \in Sources /\ hand.size \in Nat
        /\ style = "append" => files[hand.source] # Missing
        /\ ~MayReplace /\ files[hand.source] # Missing =>
              /\ hand.size <= Len(files[hand.source])
              /\ \A x \in ToSet(log) :
                    x.source = hand.source /\ x.kind \in CommittedKinds => x.end <= hand.size

RunFields == {"pc", "ctx", "todo", "force", "pre", "post", "owed", "errors", "gapped"}
IsRun(run) == DOMAIN run = RunFields /\ run = [f \in RunFields |-> run[f]]

\* What a run knows at each of its places.
Working(run) ==
    /\ IsRun(run)
    /\ IsLog(run.owed) /\ IsInjective(run.owed) /\ \A x \in ToSet(run.owed) : x.kind \in OwedKinds
    /\ run.pc = "spool" => run.owed = <<>>
    /\ run.pc = "import" => \A x \in ToSet(run.owed) : x.kind = "hook_spool_import"
    /\ run.pc = "post_gaps" => run.owed = missingGapEvents(Head(run.todo), run.post)
    /\ run.pc \in AtSource => Head(run.todo) \in Sources
    /\ faults = 0 => run.ctx = "live" /\ run.errors \subseteq {"writer_locked", "other"}
    /\ run.pc \in Imported /\ run.errors = {} /\ run.ctx = "live" /\ run.pre.status = "available"
          => Preserved(Head(run.todo), run.pre.item.bytes)
    /\ run.pc \in Imported \cup {"import"} /\ run.errors = {} /\ run.ctx = "live"
       /\ Head(run.todo) = HookSource => HooksRecorded
    /\ run.pc \in {"post_gaps", "result"} /\ run.errors = {} => inventoriesEquivalent(run.pre, run.post)
    /\ run.pc = "result" /\ faults = 0 /\ "writer_locked" \notin run.errors
          => Reported(Head(run.todo), run.post)

StateFields == {"config", "configures", "started", "active", "full", "completed", "lastOutcome",
                "inventories", "results", "last"}
IsState(state) == DOMAIN state = StateFields /\ state = [f \in StateFields |-> state[f]]

\* What the audit says is so.
Concluded(state) ==
    /\ IsState(state)
    /\ DOMAIN state.config \subseteq Sources
    /\ state.results = [s \in Sources |-> state.results[s]]
    /\ \A s \in Sources : state.results[s].outcome = "success" =>
          /\ Preserved(s, state.results[s].inventory.item.bytes)
          /\ s = HookSource => HooksRecorded
    /\ \A s \in Sources :
          /\ state.results[s] # NoResult /\ state.results[s].outcome # "skipped"
          /\ state.results[s].code # "writer_locked" /\ faults = 0
          => Reported(s, state.results[s].inventory)

CaptureInv == Disk /\ Ledger /\ Hand /\ Working(sup) /\ Concluded(audit)

LEMMA InvInit == CaptureInit => CaptureInv
<1> SUFFICES ASSUME CaptureInit PROVE CaptureInv
  OBVIOUS
<1>1. log = <<>> /\ ToSet(log) = {}
  BY DEF CaptureInit, ToSet
<1>2. Disk
  BY CaptureAssumption DEF CaptureInit, Disk
<1>3. Ledger
  <2>1. IsLog(log) /\ IsInjective(log)
    BY <1>1 DEF IsLog, IsInjective
  <2>2. LogTyped(log) /\ \A s \in Sources : LinesOf(log, s, Content(s))
    BY <1>1 DEF LogTyped, LinesOf
  <2> QED  BY <2>1, <2>2 DEF Ledger
<1>4. Hand
  BY DEF CaptureInit, Hand
<1>5. Working(sup)
  <2>1. sup = Idle
    BY DEF CaptureInit
  <2>2. IsLog(<<>>) /\ IsInjective(<<>>) /\ ToSet(<<>>) = {}
    BY DEF IsLog, IsInjective, ToSet
  <2> QED  BY <2>1, <2>2 DEF Working, IsRun, RunFields, Idle, AtSource, Imported
<1>6. Concluded(audit)
  <2>1. audit = newReplayState
    BY DEF CaptureInit
  <2>2. \A s \in Sources : newReplayState.results[s] = NoResult
    BY DEF newReplayState
  <2>3. NoResult.outcome = ""
    BY DEF NoResult
  <2>4. DOMAIN newReplayState.config \subseteq Sources
    BY DEF newReplayState
  <2>5. /\ IsState(newReplayState)
        /\ newReplayState.results = [s \in Sources |-> newReplayState.results[s]]
    BY DEF newReplayState, IsState, StateFields
  <2> QED  BY <2>1, <2>2, <2>3, <2>4, <2>5 DEF Concluded
<1> QED  BY <1>2, <1>3, <1>4, <1>5, <1>6 DEF CaptureInv

-----------------------------------------------------------------------------
(* What stays.                                                             *)

\* What a run or an audit says stays true while nothing is lost.
NothingLost ==
    /\ ToSet(log) \subseteq ToSet(log') /\ blobs \subseteq blobs' /\ due' = due /\ style' = style
    /\ faults' = 0 => faults = 0

LEMMA StaysPreserved ==
    ASSUME NothingLost, NEW source, NEW bytes, Preserved(source, bytes)
    PROVE  Preserved(source, bytes)'
<1>1. LinesRecorded(log, source, bytes) => LinesRecorded(log', source, bytes)
  BY RecordedStays DEF NothingLost
<1> QED  BY <1>1 DEF Preserved, MayReplace, NothingLost

LEMMA StaysWorking ==
    ASSUME NothingLost, NEW run, Working(run)
    PROVE  Working(run)'
<1>1. Preserved(Head(run.todo), run.pre.item.bytes) => Preserved(Head(run.todo), run.pre.item.bytes)'
  BY StaysPreserved
<1>2. HooksRecorded => HooksRecorded'
  BY DEF HooksRecorded, NothingLost
<1>3. Reported(Head(run.todo), run.post) => Reported(Head(run.todo), run.post)'
  BY DEF Reported, NothingLost
<1>4. faults' = 0 => faults = 0
  BY DEF NothingLost
<1> QED  BY <1>1, <1>2, <1>3, <1>4 DEF Working

LEMMA StaysConcluded ==
    ASSUME NothingLost, NEW state, Concluded(state)
    PROVE  Concluded(state)'
<1>1. \A s \in Sources : Preserved(s, state.results[s].inventory.item.bytes)
                            => Preserved(s, state.results[s].inventory.item.bytes)'
  BY StaysPreserved
<1>2. HooksRecorded => HooksRecorded'
  BY DEF HooksRecorded, NothingLost
<1>3. \A s \in Sources : Reported(s, state.results[s].inventory) => Reported(s, state.results[s].inventory)'
  BY DEF Reported, NothingLost
<1>4. faults' = 0 => faults = 0
  BY DEF NothingLost
<1> QED  BY <1>1, <1>2, <1>3, <1>4 DEF Concluded

LEMMA StaysLedger ==
    ASSUME Ledger, log' = log, files' = files, style' = style
    PROVE  Ledger'
BY DEF Ledger, Content, MayReplace

LEMMA StaysHand ==
    ASSUME Hand, log' = log, files' = files, style' = style, writerLock' = writerLock, hand' = hand
    PROVE  Hand'
BY DEF Hand, MayReplace

\* Nothing is at work after a kill or an error.
LEMMA IdleWorks == Working(Idle)
<1>1. IsLog(<<>>) /\ IsInjective(<<>>) /\ ToSet(<<>>) = {}
  BY DEF IsLog, IsInjective, ToSet
<1> QED  BY <1>1 DEF Working, IsRun, RunFields, Idle, AtSource, Imported


\* The run and the audit are what they were.
LEMMA SameSup ==
    ASSUME NothingLost, Working(sup), sup' = sup
    PROVE  Working(sup)'
<1>1. PICK run : run = sup
  OBVIOUS
<1>2. Working(run)'
  BY <1>1, StaysWorking
<1>3. sup' = run
  BY <1>1
<1> QED  BY <1>2, <1>3 DEF Working

LEMMA SameAudit ==
    ASSUME NothingLost, Concluded(audit), audit' = audit
    PROVE  Concluded(audit)'
<1>1. PICK state : state = audit
  OBVIOUS
<1>2. Concluded(state)'
  BY <1>1, StaysConcluded
<1>3. audit' = state
  BY <1>1
<1> QED  BY <1>2, <1>3 DEF Concluded

LEMMA IdleSup ==
    ASSUME sup' = Idle
    PROVE  Working(sup)'
<1>1. Working(Idle)'
  BY IdleWorks, PTL
<1> QED  BY <1>1 DEF Working, IsRun, RunFields, Idle, AtSource, Imported

-----------------------------------------------------------------------------
(* Agents and hooks.                                                       *)

\* A write of an agent that only lets files grow, or only removes them, or may
\* do anything.
LEMMA Written ==
    ASSUME CaptureInv, NEW source \in Sources, NEW bytes \in {Missing} \cup Bytes, Write(source, bytes),
           ~MayReplace => \/ style = "hooks" /\ bytes = Missing
                          \/ style = "append" /\ bytes # Missing /\ Extends(Content(source), bytes)
    PROVE  CaptureInv'
<1> USE DEF CaptureInv
<1>1. NothingLost /\ style' = style /\ log' = log /\ hand' = hand /\ writerLock' = writerLock
  BY DEF Write, NothingLost, evidenceVars
<1>2. /\ files' \in [Sources -> {Missing} \cup Bytes]
      /\ files'[source] = bytes /\ \A s \in Sources \ {source} : files'[s] = files[s]
  BY DEF Write, Disk
<1>3. Disk'
  BY <1>2 DEF Write, Disk
<1>4. MayReplace' = MayReplace
  BY <1>1 DEF MayReplace
<1>5. Ledger'
  <2> SUFFICES ASSUME ~MayReplace, NEW s \in Sources, files'[s] # Missing \/ style = "append"
               PROVE  LinesOf(log, s, Content(s)')
    BY <1>1, <1>4 DEF Ledger
  <2>1. CASE s # source
    BY <1>2, <2>1 DEF Ledger, Content
  <2>2. CASE s = source
    <3>1. style = "append" /\ bytes # Missing /\ Extends(Content(source), bytes)
      BY <1>2, <2>2
    <3>2. Content(s)' = bytes
      BY <1>2, <2>2, <3>1 DEF Content
    <3>3. LinesOf(log, s, Content(s))
      BY <3>1 DEF Ledger
    <3> QED  BY <2>2, <3>1, <3>2, <3>3, LinesGrow
  <2> QED  BY <2>1, <2>2
<1>6. Hand'
  <2> SUFFICES ASSUME hand # NoHand
               PROVE  /\ style = "append" => files'[hand.source] # Missing
                      /\ ~MayReplace /\ files'[hand.source] # Missing =>
                            /\ hand.size <= Len(files'[hand.source])
                            /\ files[hand.source] # Missing
    BY <1>1, <1>4 DEF Hand
  <2>1. CASE hand.source # source
    BY <1>2, <2>1 DEF Hand
  <2>2. CASE hand.source = source
    <3>1. CASE MayReplace
      BY <3>1 DEF MayReplace
    <3>2. CASE style = "hooks" /\ bytes = Missing
      BY <1>2, <2>2, <3>2 DEF Hand
    <3>3. CASE ~MayReplace /\ style = "append" /\ bytes # Missing /\ Extends(Content(source), bytes)
      <4>1. files[source] # Missing /\ hand.size <= Len(files[source]) /\ hand.size \in Nat
        BY <2>2, <3>3 DEF Hand
      <4>2. Content(source) = files[source] /\ IsLog(files[source]) /\ IsLog(bytes)
        BY <3>3, <4>1 DEF Content, Extends
      <4>3. Len(files[source]) \in Nat /\ Len(bytes) \in Nat /\ Len(files[source]) <= Len(bytes)
        BY <3>3, <4>2, LogLength DEF Extends
      <4> QED  BY <1>2, <2>2, <3>3, <4>1, <4>3
    <3> QED  BY <3>1, <3>2, <3>3
  <2> QED  BY <2>1, <2>2
<1>7. sup' = sup /\ audit' = audit
  BY DEF Write
<1> QED  BY <1>1, <1>3, <1>5, <1>6, <1>7, SameSup, SameAudit

LEMMA ShortFiles ==
    <<>> \in Bytes /\ \A b \in Bodies \cup {NL} : <<b>> \in Bytes /\ <<b, NL>> \in Bytes
<1> DEFINE B == Bodies \cup {NL}
<1>1. NL \in B /\ Bytes = Seq(B)
  BY DEF Bytes
<1> HIDE DEF B
<1>2. \A b \in B : <<b>> \in Seq(B) /\ <<b, NL>> \in Seq(B)
  BY <1>1
<1> QED  BY <1>1, <1>2 DEF B

\* What one write adds is a piece of a file.
LEMMA ChunksAreBytes == \A chunk \in Chunks \cup {<<NL>>} : chunk \in Bytes /\ IsLog(chunk)
<1>1. \A b \in Bodies \cup {NL} : <<b>> \in Bytes /\ <<b, NL>> \in Bytes
  BY ShortFiles
<1>2. \A chunk \in Chunks \cup {<<NL>>} : chunk \in Bytes
  BY <1>1 DEF Chunks
<1> QED  BY <1>2, FilesAreLogs

LEMMA AgentSteps ==
    ASSUME CaptureInv, NEW s \in Busy,
           CreateFile(s) \/ AppendBytes(s) \/ RewriteFile(s) \/ TruncateFile(s) \/ DeleteFile(s)
    PROVE  CaptureInv'
<1>1. s \in Sources /\ files[s] \in {Missing} \cup Bytes /\ style \in Styles
  BY CaptureAssumption DEF CaptureInv, Disk
<1>2. \A bytes \in Bytes : bytes # Missing
  BY CaptureAssumption
<1>3. style \in {"append", "replace", "hooks", "any"}
  BY <1>1, CaptureAssumption
<1>4. CASE CreateFile(s)
  <2>1. PICK chunk \in Chunks : Write(s, chunk)
    BY <1>4 DEF CreateFile
  <2>2. chunk \in Bytes /\ IsLog(chunk)
    BY ChunksAreBytes
  <2>3. Extends(Content(s), chunk)
    <3>1. Content(s) = <<>> /\ IsLog(<<>>) /\ Len(<<>>) = 0
      BY <1>4 DEF CreateFile, Content, IsLog
    <3>2. Len(chunk) \in Nat
      BY <2>2, LogLength
    <3> QED  BY <2>2, <3>1, <3>2 DEF Extends
  <2>4. MayAppend
    BY <1>4 DEF CreateFile
  <2> QED  BY <1>1, <1>2, <1>3, <2>1, <2>2, <2>3, <2>4, Written DEF MayAppend, MayReplace
<1>5. CASE AppendBytes(s)
  <2> DEFINE old == files[s]
  <2>1. MayAppend /\ old # Missing
    BY <1>5 DEF AppendBytes
  <2>2. PICK chunk \in Chunks \cup {<<NL>>} : Write(s, old \o chunk)
    BY <1>5 DEF AppendBytes
  <2>3. old \in Bytes /\ IsLog(old) /\ chunk \in Bytes /\ IsLog(chunk)
    BY <1>1, <2>1, ChunksAreBytes, FilesAreLogs
  <2>4. old \o chunk \in Bytes
    BY <2>3 DEF Bytes
  <2>5. Extends(old, old \o chunk)
    <3>1. /\ IsLog(old \o chunk) /\ Len(old \o chunk) = Len(old) + Len(chunk)
          /\ \A j \in 1 .. Len(old) : (old \o chunk)[j] = old[j]
      BY <2>3, ListsJoin
    <3>2. Len(old) \in Nat /\ Len(chunk) \in Nat
      BY <2>3, LogLength
    <3> QED  BY <2>3, <3>1, <3>2 DEF Extends
  <2>6. Content(s) = old
    BY <2>1 DEF Content
  <2> HIDE DEF old
  <2> QED  BY <1>1, <1>2, <1>3, <2>1, <2>2, <2>4, <2>5, <2>6, Written DEF MayAppend, MayReplace
<1>6. CASE RewriteFile(s)
  <2>1. PICK b \in Bodies : Write(s, [files[s] EXCEPT ![1] = b])
    BY <1>6 DEF RewriteFile
  <2>2. MayReplace /\ files[s] \in Bytes
    BY <1>1, <1>6 DEF RewriteFile
  <2>3. [files[s] EXCEPT ![1] = b] \in Bytes
    <3>1. files[s] # <<>> /\ b \in Bodies \cup {NL} /\ files[s] \in Seq(Bodies \cup {NL})
      BY <1>6, <2>2 DEF RewriteFile, Bytes
    <3>2. 1 \in 1 .. Len(files[s])
      BY <3>1, EmptySeq, LenProperties
    <3> QED  BY <3>1, <3>2, ExceptSeq DEF Bytes
  <2> QED  BY <1>1, <2>1, <2>2, <2>3, Written
<1>7. CASE TruncateFile(s)
  <2>1. PICK bytes \in {<<>>} \cup {<<b, NL>> : b \in Bodies}
                       \cup (IF TornTruncation THEN {<<b>> : b \in Bodies} ELSE {}) : Write(s, bytes)
    BY <1>7 DEF TruncateFile
  <2>2. bytes \in Bytes
    BY ShortFiles
  <2> QED  BY <1>1, <1>7, <2>1, <2>2, Written DEF TruncateFile
<1>8. CASE DeleteFile(s)
  BY <1>1, <1>3, <1>8, Written DEF DeleteFile, MayReplace
<1> QED  BY <1>4, <1>5, <1>6, <1>7, <1>8

LEMMA HookSteps ==
    ASSUME CaptureInv, NEW h \in Hooks, HookStep(h) \/ HookFails(h)
    PROVE  CaptureInv'
<1> USE DEF CaptureInv
<1>1. /\ files' = files /\ style' = style /\ log' = log /\ blobs' = blobs /\ due' = due /\ hand' = hand
      /\ writerLock' = writerLock /\ sup' = sup /\ audit' = audit
      /\ faults' \in Nat /\ (faults' = 0 => faults = 0)
      /\ spool[h] # "envelope" /\ \E x : spool' = [spool EXCEPT ![h] = x]
  BY DEF HookStep, HookFails, evidenceVars, Disk
<1>2. PICK x : spool' = [spool EXCEPT ![h] = x]
  BY <1>1
<1>3. Disk'
  <2>1. DOMAIN spool' = Hooks /\ spool' = [g \in Hooks |-> spool'[g]]
    BY <1>2 DEF Disk
  <2>2. \A g \in Hooks : spool[g] = "envelope" => spool'[g] = "envelope"
    BY <1>1, <1>2 DEF Disk
  <2> QED  BY <1>1, <2>1, <2>2 DEF Disk
<1>4. NothingLost
  BY <1>1 DEF NothingLost
<1> QED  BY <1>1, <1>3, <1>4, StaysLedger, StaysHand, SameSup, SameAudit

-----------------------------------------------------------------------------
(* Steps on the audit.                                                     *)

\* What the events of the audit leave of what it says.
LEMMA SameResults ==
    ASSUME NEW state, Concluded(state), NEW new, IsState(new), new.results = state.results,
           DOMAIN new.config \subseteq Sources
    PROVE  Concluded(new)
BY DEF Concluded

LEMMA Configured ==
    ASSUME NEW state, Concluded(state), NEW config, DOMAIN config \subseteq Sources
    PROVE  Concluded(applyConfigure(state, config))
<1> DEFINE new == applyConfigure(state, config)
<1>1. IsState(state)
  BY DEF Concluded
<1>2. IsState(new) /\ new.results = state.results /\ new.config = config
  BY <1>1 DEF IsState, StateFields, applyConfigure
<1> HIDE DEF new
<1>3. Concluded(new)
  BY <1>2, SameResults
<1> QED  BY <1>3 DEF new

LEMMA InventoryApplied ==
    ASSUME NEW state, Concluded(state), NEW source, NEW inventory
    PROVE  Concluded(applyInventory(state, source, inventory))
<1> DEFINE new == applyInventory(state, source, inventory)
<1>1. IsState(state) /\ DOMAIN state.config \subseteq Sources
  BY DEF Concluded
<1>2. IsState(new) /\ new.results = state.results /\ new.config = state.config
  BY <1>1 DEF IsState, StateFields, applyInventory
<1> HIDE DEF new
<1>3. Concluded(new)
  BY <1>1, <1>2, SameResults
<1> QED  BY <1>3 DEF new

LEMMA RunEnded ==
    ASSUME NEW state, Concluded(state), NEW action, NEW outcome
    PROVE  Concluded(applyRunEnded(state, action, outcome))
<1> DEFINE new == applyRunEnded(state, action, outcome)
<1>1. IsState(state) /\ DOMAIN state.config \subseteq Sources
  BY DEF Concluded
<1>2. IsState(new) /\ new.results = state.results /\ new.config = state.config
  BY <1>1 DEF IsState, StateFields, applyRunEnded
<1> HIDE DEF new
<1>3. Concluded(new)
  BY <1>1, <1>2, SameResults
<1> QED  BY <1>3 DEF new

LEMMA ResultApplied ==
    ASSUME NEW state, Concluded(state), NEW source \in Sources, NEW result,
           result.outcome = "success" =>
              /\ Preserved(source, result.inventory.item.bytes)
              /\ source = HookSource => HooksRecorded,
           result.outcome # "skipped" /\ result.code # "writer_locked" /\ faults = 0
              => Reported(source, result.inventory)
    PROVE  Concluded(applyResult(state, source, result))
<1> DEFINE new == applyResult(state, source, result)
<1>1. IsState(state) /\ state.results = [s \in Sources |-> state.results[s]]
  BY DEF Concluded
<1>2. /\ IsState(new) /\ new.config = state.config
      /\ new.results = [state.results EXCEPT ![source] = result]
  BY <1>1 DEF IsState, StateFields, applyResult
<1> HIDE DEF new
<1>3. \A s \in Sources : new.results[s] = IF s = source THEN result ELSE state.results[s]
  BY <1>1, <1>2
<1>4. new.results = [s \in Sources |-> new.results[s]]
  BY <1>1, <1>2
<1>5. DOMAIN new.config \subseteq Sources
  BY <1>2 DEF Concluded
<1>6. Concluded(new)
  BY <1>2, <1>3, <1>4, <1>5 DEF Concluded
<1> QED  BY <1>6 DEF new

\* An event of the audit, or an error.
LEMMA EventAppended ==
    ASSUME CaptureInv, NEW valid, NEW applied, NEW next, appendEvent(valid, applied, next),
           UNCHANGED <<due, sourceVars, evidenceVars, writerLock, hand>>,
           valid => Working(next) /\ Concluded(applied)
    PROVE  CaptureInv'
<1> USE DEF CaptureInv
<1>1. /\ files' = files /\ style' = style /\ log' = log /\ blobs' = blobs /\ due' = due /\ hand' = hand
      /\ writerLock' = writerLock /\ spool' = spool
  BY DEF sourceVars, evidenceVars
<1>2. faults \in Nat /\ (faults' = faults \/ faults' = faults + 1)
  BY DEF appendEvent, Disk
<1>3. NothingLost
  BY <1>1, <1>2 DEF NothingLost
<1>4. Disk'
  BY <1>1, <1>2 DEF Disk
<1>5. CASE valid /\ audit' = applied /\ sup' = next
  <2>1. Working(next)' /\ Concluded(applied)'
    BY <1>3, <1>5, StaysWorking, StaysConcluded
  <2>2. Working(sup)'
    BY <1>5, <2>1 DEF Working
  <2>3. Concluded(audit)'
    BY <1>5, <2>1 DEF Concluded
  <2> QED  BY <1>1, <1>4, <2>2, <2>3, StaysLedger, StaysHand
<1>6. CASE sup' = Idle /\ audit' = audit
  BY <1>1, <1>3, <1>4, <1>6, StaysLedger, StaysHand, IdleSup, SameAudit
<1> QED  BY <1>5, <1>6 DEF appendEvent

LEMMA StepConfigureFile ==
    ASSUME CaptureInv, NEW c \in Configs, ConfigureFile(c)
    PROVE  CaptureInv'
<1>1. Concluded(applyConfigure(audit, c)) /\ Working(Idle)
  BY CaptureAssumption, Configured, IdleWorks DEF CaptureInv
<1>2. appendEvent(TRUE, applyConfigure(audit, c), Idle)
  BY DEF ConfigureFile
<1>3. UNCHANGED <<due, sourceVars, evidenceVars, writerLock, hand>>
  BY DEF ConfigureFile
<1> QED  BY <1>1, <1>2, <1>3, EventAppended

\* A run that is between two sources has everything before it.
LEMMA BetweenSources ==
    ASSUME NEW pc, pc \notin AtSource, NEW ctx, faults = 0 => ctx = "live", NEW todo
    PROVE  Working([Idle EXCEPT !.pc = pc, !.todo = todo, !.ctx = ctx])
<1> DEFINE run == [Idle EXCEPT !.pc = pc, !.todo = todo, !.ctx = ctx]
<1>1. IsLog(<<>>) /\ IsInjective(<<>>) /\ ToSet(<<>>) = {}
  BY DEF IsLog, IsInjective, ToSet
<1>2. IsRun(run) /\ run.pc = pc /\ run.ctx = ctx /\ run.owed = <<>> /\ run.errors = {}
  BY DEF IsRun, RunFields, Idle
<1>3. /\ pc \notin {"spool", "import", "post_gaps", "result"} /\ pc \notin Imported
      /\ pc \notin Imported \cup {"import"}
  BY DEF AtSource, Imported
<1> HIDE DEF run
<1>4. Working(run)
  BY <1>1, <1>2, <1>3 DEF Working
<1> QED  BY <1>4 DEF run

LEMMA NextSourceWorks ==
    ASSUME Working(sup)
    PROVE  Working(NextSource)
<1> DEFINE ctx == IF sup.ctx = "canceled" THEN "canceled" ELSE "live"
           pc == IF Tail(sup.todo) = <<>> THEN "finish" ELSE "source"
<1>1. faults = 0 => ctx = "live"
  BY DEF Working
<1>2. pc \notin AtSource
  BY DEF AtSource
<1>3. NextSource = [Idle EXCEPT !.pc = pc, !.todo = Tail(sup.todo), !.ctx = ctx]
  BY DEF NextSource, Idle
<1> HIDE DEF ctx, pc
<1> QED  BY <1>1, <1>2, <1>3, BetweenSources

LEMMA StepSkipSource ==
    ASSUME CaptureInv, SkipSource
    PROVE  CaptureInv'
<1> DEFINE source == Head(sup.todo)
           result == sourceResult("skipped", "capture_canceled", NoInventory)
<1>1. appendEvent(ValidResult(audit, source, result), applyResult(audit, source, result), NextSource)
  BY DEF SkipSource
<1>2. result.outcome = "skipped"
  BY DEF sourceResult
<1>3. ASSUME ValidResult(audit, source, result) PROVE Concluded(applyResult(audit, source, result))
  <2>1. source \in Sources
    BY <1>3 DEF ValidResult, CaptureInv, Concluded
  <2> HIDE DEF source, result
  <2> QED  BY <1>2, <2>1, ResultApplied DEF CaptureInv
<1>4. Working(NextSource)
  BY NextSourceWorks DEF CaptureInv
<1>5. UNCHANGED <<due, sourceVars, evidenceVars, writerLock, hand>>
  BY DEF SkipSource
<1> HIDE DEF source, result
<1> QED  BY <1>1, <1>3, <1>4, <1>5, EventAppended

LEMMA StepFinishRun ==
    ASSUME CaptureInv, FinishRun
    PROVE  CaptureInv'
<1>1. PICK outcome : appendEvent(ValidFinish(audit, outcome, audit.full),
                                 applyRunEnded(audit, "run_finished", outcome), Idle)
  BY DEF FinishRun
<1>2. Concluded(applyRunEnded(audit, "run_finished", outcome)) /\ Working(Idle)
  BY RunEnded, IdleWorks DEF CaptureInv
<1>3. UNCHANGED <<due, sourceVars, evidenceVars, writerLock, hand>>
  BY DEF FinishRun
<1> QED  BY <1>1, <1>2, <1>3, EventAppended

LEMMA StepRecover ==
    ASSUME CaptureInv, RecoverStep
    PROVE  CaptureInv'
<1>1. UNCHANGED <<due, sourceVars, evidenceVars, writerLock, hand>>
  BY DEF RecoverStep
<1>2. ASSUME NEW source, NEW result, result = recoveryResult(source),
             appendEvent(ValidResult(audit, source, result), applyResult(audit, source, result), sup)
      PROVE  CaptureInv'
  <2>1. result.outcome = "skipped"
    BY <1>2 DEF recoveryResult, sourceResult
  <2>2. ASSUME ValidResult(audit, source, result) PROVE Concluded(applyResult(audit, source, result))
    <3>1. source \in Sources
      BY <2>2 DEF ValidResult, CaptureInv, Concluded
    <3> QED  BY <2>1, <3>1, ResultApplied DEF CaptureInv
  <2>3. Working(sup)
    BY DEF CaptureInv
  <2> QED  BY <1>1, <1>2, <2>2, <2>3, EventAppended
<1>3. CASE appendEvent(audit.active, applyRunEnded(audit, "run_abandoned", "abandoned"), Idle)
  <2>1. Concluded(applyRunEnded(audit, "run_abandoned", "abandoned")) /\ Working(Idle)
    BY RunEnded, IdleWorks DEF CaptureInv
  <2> QED  BY <1>1, <1>3, <2>1, EventAppended
<1> QED  BY <1>2, <1>3 DEF RecoverStep

\* One event, or none.
LEMMA OneEvent ==
    /\ IsLog(<<>>) /\ IsInjective(<<>>) /\ ToSet(<<>>) = {}
    /\ \A x : IsLog(<<x>>) /\ IsInjective(<<x>>) /\ ToSet(<<x>>) = {x}
<1>1. IsLog(<<>>) /\ IsInjective(<<>>) /\ ToSet(<<>>) = {}
  BY DEF IsLog, IsInjective, ToSet
<1>2. ASSUME NEW x PROVE IsLog(<<x>>) /\ IsInjective(<<x>>) /\ ToSet(<<x>>) = {x}
  <2>1. Len(<<x>>) = 1 /\ DOMAIN <<x>> = {1} /\ <<x>>[1] = x
    OBVIOUS
  <2>2. <<x>> \in Seq({x})
    OBVIOUS
  <2>3. {<<x>>[i] : i \in 1 .. Len(<<x>>)} = {x}
    BY <2>1
  <2>4. IsLog(<<x>>)
    BY <2>2, <2>3 DEF IsLog
  <2> QED  BY <2>1, <2>4 DEF IsInjective, ToSet
<1> QED  BY <1>1, <1>2

LEMMA GapsOwed ==
    ASSUME NEW source, NEW inventory
    PROVE  LET owed == missingGapEvents(source, inventory) IN
           IsLog(owed) /\ IsInjective(owed) /\ \A x \in ToSet(owed) : x.kind = "source_inventory"
BY OneEvent DEF missingGapEvents, Event

\* What is owed next.
LEMMA OwingIs ==
    ASSUME NEW run, IsRun(run), NEW pc \in {"pre_gaps", "import_gaps", "post_gaps"}
    PROVE  LET next == Owing(run, pc) IN
           /\ IsRun(next) /\ next.ctx = run.ctx /\ next.todo = run.todo /\ next.pre = run.pre
           /\ next.post = run.post /\ next.owed = run.owed /\ next.errors = run.errors
           /\ next.pc = IF run.owed # <<>> THEN pc
                        ELSE CASE pc = "pre_gaps" -> "spool"
                               [] pc = "import_gaps" -> "post"
                               [] OTHER -> "result"
<1>1. /\ AfterGaps["pre_gaps"] = "spool" /\ AfterGaps["import_gaps"] = "post"
      /\ AfterGaps["post_gaps"] = "result"
  BY DEF AfterGaps
<1> QED  BY <1>1 DEF Owing, IsRun, RunFields

LEMMA StepRecordPreInventory ==
    ASSUME CaptureInv, RecordPreInventory
    PROVE  CaptureInv'
<1>1. PICK source, inventory, force : LET run == [sup EXCEPT !.pre = inventory, !.force = force,
                                                       !.owed = missingGapEvents(source, inventory)] IN
         /\ source = Head(sup.todo)
         /\ appendEvent(ValidInventory(audit, source, inventory),
                        applyInventory(audit, source, inventory), Owing(run, "pre_gaps"))
  BY DEF RecordPreInventory
<1> DEFINE run == [sup EXCEPT !.pre = inventory, !.force = force, !.owed = missingGapEvents(source, inventory)]
           next == Owing(run, "pre_gaps")
<1>2. Working(sup) /\ Concluded(audit) /\ IsRun(sup)
  BY DEF CaptureInv, Working
<1>3. /\ IsRun(run) /\ run.todo = sup.todo /\ run.ctx = sup.ctx /\ run.errors = sup.errors
      /\ run.owed = missingGapEvents(source, inventory)
  BY <1>2 DEF IsRun, RunFields
<1> HIDE DEF run
<1>4. /\ IsRun(next) /\ next.ctx = sup.ctx /\ next.todo = sup.todo /\ next.errors = sup.errors
      /\ next.owed = run.owed
      /\ next.pc = IF run.owed # <<>> THEN "pre_gaps" ELSE "spool"
  BY <1>3, OwingIs
<1> HIDE DEF next
<1>5. ASSUME ValidInventory(audit, source, inventory) PROVE Working(next)
  <2>1. Head(next.todo) \in Sources
    BY <1>1, <1>2, <1>4, <1>5 DEF ValidInventory, Concluded
  <2>2. IsLog(next.owed) /\ IsInjective(next.owed) /\ \A x \in ToSet(next.owed) : x.kind \in OwedKinds
    BY <1>3, <1>4, GapsOwed DEF OwedKinds
  <2>3. faults = 0 => next.ctx = "live" /\ next.errors \subseteq {"writer_locked", "other"}
    BY <1>2, <1>4 DEF Working
  <2>4. next.pc \in {"pre_gaps", "spool"} /\ (next.pc = "spool" => next.owed = <<>>)
    BY <1>4
  <2>5. next.pc \notin Imported /\ next.pc \notin {"import", "post_gaps", "result"}
    BY <2>4 DEF Imported
  <2> QED  BY <1>4, <2>1, <2>2, <2>3, <2>4, <2>5 DEF Working
<1>6. Concluded(applyInventory(audit, source, inventory))
  BY <1>2, InventoryApplied
<1>7. UNCHANGED <<due, sourceVars, evidenceVars, writerLock, hand>>
  BY DEF RecordPreInventory
<1>8. appendEvent(ValidInventory(audit, source, inventory), applyInventory(audit, source, inventory), next)
  BY <1>1 DEF next, run
<1> QED  BY <1>5, <1>6, <1>7, <1>8, EventAppended

LEMMA StepRecordPostInventory ==
    ASSUME CaptureInv, RecordPostInventory
    PROVE  CaptureInv'
<1>1. PICK source, inventory, errors :
         LET run == [sup EXCEPT !.post = inventory, !.errors = errors,
                                !.owed = missingGapEvents(source, inventory)] IN
         /\ source = Head(sup.todo)
         /\ errors = sup.errors \cup (IF ~inventoriesEquivalent(sup.pre, inventory) THEN {"other"} ELSE {})
         /\ appendEvent(ValidInventory(audit, source, inventory),
                        applyInventory(audit, source, inventory), Owing(run, "post_gaps"))
  BY DEF RecordPostInventory
<1> DEFINE run == [sup EXCEPT !.post = inventory, !.errors = errors,
                              !.owed = missingGapEvents(source, inventory)]
           next == Owing(run, "post_gaps")
<1>2. Working(sup) /\ Concluded(audit) /\ IsRun(sup) /\ sup.pc = "post"
  BY DEF CaptureInv, Working, RecordPostInventory
<1>3. /\ IsRun(run) /\ run.todo = sup.todo /\ run.ctx = sup.ctx /\ run.errors = errors
      /\ run.pre = sup.pre /\ run.post = inventory
      /\ run.owed = missingGapEvents(source, inventory)
  BY <1>2 DEF IsRun, RunFields
<1> HIDE DEF run
<1>4. /\ IsRun(next) /\ next.ctx = sup.ctx /\ next.todo = sup.todo /\ next.errors = errors
      /\ next.owed = run.owed /\ next.pre = sup.pre /\ next.post = inventory
      /\ next.pc = IF run.owed # <<>> THEN "post_gaps" ELSE "result"
  BY <1>3, OwingIs
<1> HIDE DEF next
<1>5. Working(next)
  <2>1. Head(next.todo) \in Sources
    BY <1>2, <1>4 DEF Working, AtSource
  <2>2. IsLog(next.owed) /\ IsInjective(next.owed) /\ \A x \in ToSet(next.owed) : x.kind \in OwedKinds
    BY <1>3, <1>4, GapsOwed DEF OwedKinds
  <2>3. faults = 0 => next.ctx = "live" /\ next.errors \subseteq {"writer_locked", "other"}
    BY <1>1, <1>2, <1>4 DEF Working
  <2>4. /\ next.pc \in {"post_gaps", "result"} /\ next.pc \notin {"spool", "import"}
        /\ next.owed = missingGapEvents(Head(next.todo), next.post)
    BY <1>1, <1>3, <1>4
  <2>5. next.errors = {} => sup.errors = {} /\ inventoriesEquivalent(next.pre, next.post)
    BY <1>1, <1>4
  <2>6. /\ next.errors = {} /\ next.ctx = "live" /\ next.pre.status = "available"
              => Preserved(Head(next.todo), next.pre.item.bytes)
        /\ next.errors = {} /\ next.ctx = "live" /\ Head(next.todo) = HookSource => HooksRecorded
    BY <1>2, <1>4, <2>5 DEF Working, Imported
  <2>7. next.pc = "result" => Reported(Head(next.todo), next.post)
    BY <1>3, <1>4, <2>4, OneEvent DEF Reported
  <2> QED  BY <1>4, <2>1, <2>2, <2>3, <2>4, <2>5, <2>6, <2>7 DEF Working
<1>6. Concluded(applyInventory(audit, source, inventory))
  BY <1>2, InventoryApplied
<1>7. UNCHANGED <<due, sourceVars, evidenceVars, writerLock, hand>>
  BY DEF RecordPostInventory
<1>8. appendEvent(ValidInventory(audit, source, inventory), applyInventory(audit, source, inventory), next)
  BY <1>1 DEF next, run
<1> QED  BY <1>5, <1>6, <1>7, <1>8, EventAppended

\* An error of the ledger is what a source is said to have failed by, where no
\* interruption is.
LEMMA LockedFirst ==
    ASSUME NEW errors, "writer_locked" \in errors, errors \subseteq {"writer_locked", "other"}
    PROVE  classifyRunError(errors) = "writer_locked"
<1> DEFINE S == {i \in DOMAIN ErrorCodes : ErrorCodes[i] \in errors}
<1>1. /\ DOMAIN ErrorCodes = {1, 2, 3, 4} /\ ErrorCodes[1] = "canceled" /\ ErrorCodes[2] = "expired"
      /\ ErrorCodes[3] = "writer_locked" /\ ErrorCodes[4] = "other"
  BY DEF ErrorCodes
<1>2. S \subseteq {3, 4} /\ 3 \in S
  BY <1>1
<1> HIDE DEF S
<1>3. Min(S) \in S /\ \A x \in S : Min(S) <= x
  BY <1>2, SmallestNumber
<1>4. Min(S) = 3
  <2>1. Min(S) \in {3, 4} /\ Min(S) <= 3
    BY <1>2, <1>3
  <2> QED  BY <2>1
<1> QED  BY <1>1, <1>4 DEF classifyRunError, S

LEMMA StepFinishSource ==
    ASSUME CaptureInv, FinishSource
    PROVE  CaptureInv'
<1> DEFINE source == Head(sup.todo)
           errors == sup.errors \cup (IF sup.ctx = "live" THEN {} ELSE {sup.ctx})
<1>1. PICK result : result = setSourceOutcome
  OBVIOUS
<1>2. appendEvent(ValidResult(audit, source, result), applyResult(audit, source, result), NextSource)
  BY <1>1 DEF FinishSource
<1>3. Working(sup) /\ Concluded(audit) /\ sup.pc = "result"
  BY DEF CaptureInv, FinishSource
<1>4. source \in Sources
  BY <1>3 DEF Working, AtSource
<1>5. result.inventory = sup.post
  BY <1>1 DEF setSourceOutcome, sourceResult
<1>6. result.outcome = "success" =>
         Preserved(source, result.inventory.item.bytes) /\ (source = HookSource => HooksRecorded)
  <2> SUFFICES ASSUME result.outcome = "success"
               PROVE  Preserved(source, result.inventory.item.bytes) /\ (source = HookSource => HooksRecorded)
    OBVIOUS
  <2>1. errors = {} /\ sup.pre.status = "available"
    BY <1>1 DEF setSourceOutcome, sourceResult
  <2>2. sup.errors = {} /\ sup.ctx = "live"
    BY <2>1
  <2>3. inventoriesEquivalent(sup.pre, sup.post)
    BY <1>3, <2>2 DEF Working
  <2>4. Preserved(source, sup.pre.item.bytes) /\ (source = HookSource => HooksRecorded)
    BY <1>3, <2>1, <2>2 DEF Working, Imported
  <2> QED  BY <1>5, <2>3, <2>4 DEF inventoriesEquivalent
<1>7. result.code # "writer_locked" /\ faults = 0 => Reported(source, result.inventory)
  <2> SUFFICES ASSUME faults = 0, "writer_locked" \in sup.errors
               PROVE  result.code = "writer_locked"
    BY <1>3, <1>5 DEF Working
  <2>1. errors = sup.errors /\ sup.errors \subseteq {"writer_locked", "other"}
    BY <1>3 DEF Working
  <2>2. classifyRunError(errors) = "writer_locked"
    BY <2>1, LockedFirst
  <2>3. errors # {}
    BY <2>1
  <2>4. result = sourceResult("failed", classifyRunError(errors), sup.post)
    BY <1>1, <2>3 DEF setSourceOutcome
  <2> QED  BY <2>2, <2>4 DEF sourceResult
<1> HIDE DEF source
<1>8. Concluded(applyResult(audit, source, result))
  BY <1>3, <1>4, <1>6, <1>7, ResultApplied
<1>9. Working(NextSource)
  BY <1>3, NextSourceWorks
<1>10. UNCHANGED <<due, sourceVars, evidenceVars, writerLock, hand>>
  BY DEF FinishSource
<1> QED  BY <1>2, <1>8, <1>9, <1>10, EventAppended

-----------------------------------------------------------------------------
(* Steps of a run that leave the ledger alone.                             *)

LEMMA StepStartRun ==
    ASSUME CaptureInv, StartRun
    PROVE  CaptureInv'
<1> USE DEF CaptureInv
<1>1. /\ files' = files /\ style' = style /\ log' = log /\ blobs' = blobs /\ spool' = spool
      /\ hand' = hand /\ writerLock' = writerLock
  BY DEF StartRun, sourceVars, evidenceVars
<1>2. PICK full : appendEvent(TRUE, applyRunStarted(audit, full),
                              [Idle EXCEPT !.pc = "source", !.todo = InOrder(DOMAIN audit.config)])
  BY DEF StartRun
<1>3. due' = IF sup' = Idle THEN due ELSE {h \in Hooks : spool[h] = "envelope"}
  BY DEF StartRun
<1>4. faults \in Nat /\ (faults' = faults \/ faults' = faults + 1)
  BY <1>2 DEF appendEvent, Disk
<1>5. Disk'
  BY <1>1, <1>3, <1>4 DEF Disk
<1>6. Ledger' /\ Hand'
  BY <1>1, StaysLedger, StaysHand
<1>7. CASE sup' = Idle /\ audit' = audit
  <2>1. NothingLost
    BY <1>1, <1>3, <1>4, <1>7 DEF NothingLost
  <2> QED  BY <1>5, <1>6, <1>7, <2>1, IdleSup, SameAudit
<1>8. CASE audit' = applyRunStarted(audit, full)
           /\ sup' = [Idle EXCEPT !.pc = "source", !.todo = InOrder(DOMAIN audit.config)]
  <2>1. PICK todo : todo = InOrder(DOMAIN audit.config)
    OBVIOUS
  <2>2. Working(sup)'
    <3>1. /\ IsRun(sup') /\ sup'.pc = "source" /\ sup'.ctx = "live" /\ sup'.owed = <<>>
          /\ sup'.errors = {}
      BY <1>8, <2>1 DEF IsRun, RunFields, Idle
    <3> QED  BY <3>1, OneEvent DEF Working, AtSource, Imported
  <2>3. Concluded(audit)'
    <3>1. IsState(audit) /\ DOMAIN audit.config \subseteq Sources
      BY DEF Concluded
    <3>2. /\ IsState(audit') /\ audit'.config = audit.config
          /\ audit'.results = [s \in Sources |-> NoResult]
      BY <1>8, <3>1 DEF applyRunStarted, IsState, StateFields
    <3>3. NoResult.outcome # "success"
      BY DEF NoResult
    <3> QED  BY <3>1, <3>2, <3>3 DEF Concluded
  <2> QED  BY <1>5, <1>6, <2>2, <2>3
<1> QED  BY <1>2, <1>7, <1>8 DEF appendEvent

\* A step that changes what a run is about to do.
LEMMA RunGoesOn ==
    ASSUME CaptureInv, NEW next, sup' = next, faults' = faults \/ faults' = faults + 1,
           UNCHANGED <<due, sourceVars, evidenceVars, writerLock, audit, hand>>, Working(next)'
    PROVE  CaptureInv'
<1> USE DEF CaptureInv
<1>1. /\ files' = files /\ style' = style /\ log' = log /\ blobs' = blobs /\ due' = due /\ hand' = hand
      /\ writerLock' = writerLock /\ spool' = spool /\ audit' = audit
  BY DEF sourceVars, evidenceVars
<1>2. faults \in Nat /\ faults' \in Nat /\ (faults' = 0 => faults = 0)
  BY DEF Disk
<1>3. NothingLost /\ Disk'
  BY <1>1, <1>2 DEF NothingLost, Disk
<1>4. Working(sup)'
  BY DEF Working
<1> QED  BY <1>1, <1>3, <1>4, StaysLedger, StaysHand, SameAudit

LEMMA StepEndContext ==
    ASSUME CaptureInv, EndContext
    PROVE  CaptureInv'
<1>1. PICK ended \in {"expired", "canceled"} : sup' = [sup EXCEPT !.ctx = ended]
  BY DEF EndContext
<1>2. PICK next : next = [sup EXCEPT !.ctx = ended]
  OBVIOUS
<1>3. Working(sup) /\ IsRun(sup) /\ faults \in Nat /\ faults' = faults + 1
  BY DEF CaptureInv, Working, Disk, EndContext
<1>4. /\ IsRun(next) /\ next.ctx = ended /\ next.pc = sup.pc /\ next.todo = sup.todo /\ next.pre = sup.pre
      /\ next.post = sup.post /\ next.owed = sup.owed /\ next.errors = sup.errors
  BY <1>2, <1>3 DEF IsRun, RunFields
<1>5. faults' # 0 /\ next.ctx # "live"
  BY <1>3, <1>4
<1>6. Working(next)'
  BY <1>3, <1>4, <1>5 DEF Working
<1>7. UNCHANGED <<due, sourceVars, evidenceVars, writerLock, audit, hand>>
  BY DEF EndContext
<1> QED  BY <1>1, <1>2, <1>3, <1>6, <1>7, RunGoesOn

LEMMA StepSkipImport ==
    ASSUME CaptureInv, SkipImport
    PROVE  CaptureInv'
<1>1. PICK next : next = Owing(sup, "import_gaps")
  OBVIOUS
<1>2. Working(sup) /\ IsRun(sup) /\ sup.pc \in {"spool", "import"} /\ sup.ctx # "live"
  BY DEF CaptureInv, Working, SkipImport
<1>3. /\ IsRun(next) /\ next.ctx = sup.ctx /\ next.todo = sup.todo /\ next.pre = sup.pre
      /\ next.post = sup.post /\ next.owed = sup.owed /\ next.errors = sup.errors
      /\ next.pc \in {"import_gaps", "post"}
  BY <1>1, <1>2, OwingIs
<1>4. Head(next.todo) \in Sources
  BY <1>2, <1>3 DEF Working, AtSource
<1>5. Working(next)
  BY <1>2, <1>3, <1>4 DEF Working
<1>6. faults' = faults /\ UNCHANGED <<due, sourceVars, evidenceVars, writerLock, audit, hand>>
  BY DEF SkipImport
<1>7. NothingLost
  BY <1>6 DEF NothingLost, sourceVars, evidenceVars
<1>8. Working(next)'
  BY <1>5, <1>7, StaysWorking
<1>9. sup' = next
  BY <1>1 DEF SkipImport
<1> QED  BY <1>6, <1>8, <1>9, RunGoesOn

LEMMA StepStartRecover ==
    ASSUME CaptureInv, StartRecover
    PROVE  CaptureInv'
<1>1. PICK next : next = [Idle EXCEPT !.pc = "recover"]
  OBVIOUS
<1>2. /\ IsRun(next) /\ next.pc = "recover" /\ next.ctx = "live" /\ next.owed = <<>> /\ next.errors = {}
  BY <1>1 DEF IsRun, RunFields, Idle
<1>3. Working(next)'
  BY <1>2, OneEvent DEF Working, AtSource, Imported
<1>4. faults' = faults /\ sup' = next /\ UNCHANGED <<due, sourceVars, evidenceVars, writerLock, audit, hand>>
  BY <1>1 DEF StartRecover
<1> QED  BY <1>3, <1>4, RunGoesOn

LEMMA StepClearStaleWriterLock ==
    ASSUME CaptureInv, ClearStaleWriterLock
    PROVE  CaptureInv'
<1> USE DEF CaptureInv
<1>1. /\ files' = files /\ style' = style /\ log' = log /\ blobs' = blobs /\ due' = due /\ hand' = hand
      /\ spool' = spool /\ sup' = sup /\ audit' = audit /\ faults' = faults /\ writerLock = "stale"
  BY DEF ClearStaleWriterLock, sourceVars, evidenceVars
<1>2. NothingLost /\ Disk'
  BY <1>1 DEF NothingLost, Disk
<1>3. hand = NoHand
  BY <1>1 DEF Hand
<1>4. Hand'
  BY <1>1, <1>3 DEF Hand
<1> QED  BY <1>1, <1>2, <1>4, StaysLedger, SameSup, SameAudit

-----------------------------------------------------------------------------
(* Steps that append to the ledger.                                        *)

\* Events that are no lines of a source.
LEMMA OtherEventsAppended ==
    ASSUME CaptureInv, NEW events, IsLog(events), IsInjective(events),
           \A x \in ToSet(events) : x.kind \in CommittedKinds \cup {"source_truncated"} =>
              x.source \notin Sources /\ x.end \in Nat,
           NEW part \in 0 .. Len(Unknown(log, events)), Committed(Unknown(log, events), part),
           UNCHANGED <<style, files>>
    PROVE  /\ Ledger' /\ ToSet(log) \subseteq ToSet(log')
           /\ part = Len(Unknown(log, events)) => ToSet(events) \subseteq ToSet(log')
<1>1. Ledger
  BY DEF CaptureInv
<1>2. /\ IsLog(log') /\ ToSet(log) \subseteq ToSet(log')
      /\ ToSet(log') \subseteq ToSet(log) \cup ToSet(events)
      /\ IsInjective(log')
      /\ part = Len(Unknown(log, events)) => ToSet(events) \subseteq ToSet(log')
  <2>1. IsLog(log) /\ IsInjective(log)
    BY <1>1 DEF Ledger
  <2>2. Records(log, events, part, log')
    BY DEF Records, Committed
  <2> QED  BY <2>1, <2>2, PartRecorded
<1>3. LogTyped(log')
  BY <1>1, <1>2 DEF Ledger, LogTyped
<1>4. ASSUME ~MayReplace, NEW s \in Sources, files[s] # Missing \/ style = "append"
      PROVE  LinesOf(log', s, Content(s))
  <2>1. LinesOf(log, s, Content(s))
    BY <1>1, <1>4 DEF Ledger
  <2> QED  BY <1>2, <1>4, <2>1, OthersAppended
<1> QED  BY <1>2, <1>3, <1>4 DEF Ledger, Content, MayReplace

\* What a step of a run leaves that appends to the ledger.
LEMMA RunAppends ==
    ASSUME CaptureInv, NEW next, sup' = next, faults' = faults \/ faults' = faults + 1,
           UNCHANGED <<due, sourceVars, audit, hand>>, writerLock = "none", blobs \subseteq blobs',
           ToSet(log) \subseteq ToSet(log'), Ledger', Working(next)'
    PROVE  CaptureInv'
<1> USE DEF CaptureInv
<1>1. files' = files /\ style' = style /\ due' = due /\ hand' = hand /\ spool' = spool /\ audit' = audit
  BY DEF sourceVars
<1>2. faults \in Nat /\ faults' \in Nat /\ (faults' = 0 => faults = 0)
  BY DEF Disk
<1>3. NothingLost /\ Disk'
  BY <1>1, <1>2 DEF NothingLost, Disk
<1>4. hand = NoHand
  BY DEF Hand
<1>5. Hand'
  BY <1>1, <1>4 DEF Hand
<1>6. Working(sup)'
  BY DEF Working
<1> QED  BY <1>3, <1>5, <1>6, SameAudit

\* A run that has failed at its source claims nothing.
LEMMA FailedWorks ==
    ASSUME NEW next, IsRun(next), next.errors # {}, next.pc \in AtSource \ {"post_gaps"},
           Head(next.todo) \in Sources, IsLog(next.owed), IsInjective(next.owed),
           \A x \in ToSet(next.owed) : x.kind \in OwedKinds,
           next.pc = "spool" => next.owed = <<>>,
           next.pc = "import" => \A x \in ToSet(next.owed) : x.kind = "hook_spool_import",
           faults' = 0 => /\ next.ctx = "live" /\ next.errors \subseteq {"writer_locked", "other"}
                          /\ next.pc = "result" => "writer_locked" \in next.errors
    PROVE  Working(next)'
BY DEF Working

LEMMA StepAppendGaps ==
    ASSUME CaptureInv, AppendGaps
    PROVE  CaptureInv'
<1>1. PICK pc : pc = AfterGaps[sup.pc]
  OBVIOUS
<1>2. /\ Working(sup) /\ IsRun(sup) /\ faults \in Nat
      /\ sup.pc \in {"pre_gaps", "import_gaps", "post_gaps"}
      /\ pc = CASE sup.pc = "pre_gaps" -> "spool" [] sup.pc = "import_gaps" -> "post" [] OTHER -> "result"
  BY <1>1 DEF CaptureInv, Working, Disk, AppendGaps, AfterGaps
<1>3. /\ IsLog(sup.owed) /\ IsInjective(sup.owed) /\ \A x \in ToSet(sup.owed) : x.kind \in OwedKinds
      /\ Head(sup.todo) \in Sources
  BY <1>2 DEF Working, AtSource
<1>4. UNCHANGED <<due, sourceVars, audit, hand>> /\ blobs' = blobs /\ writerLock' = writerLock
      /\ style' = style /\ files' = files
  BY DEF AppendGaps, sourceVars
<1>5. \A x \in ToSet(sup.owed) : x.kind \notin CommittedKinds \cup {"source_truncated"}
  BY <1>3 DEF OwedKinds, CommittedKinds
<1>6. ASSUME NEW code, sup' = [sup EXCEPT !.pc = pc, !.owed = <<>>, !.errors = @ \cup {code}],
             faults' = 0 => faults = 0 /\ sup.ctx = "live" /\ code = "writer_locked"
      PROVE  \E next : sup' = next /\ Working(next)'
  <2>1. PICK next : next = [sup EXCEPT !.pc = pc, !.owed = <<>>, !.errors = @ \cup {code}]
    OBVIOUS
  <2>2. /\ IsRun(next) /\ next.pc = pc /\ next.owed = <<>> /\ next.errors = sup.errors \cup {code}
        /\ next.todo = sup.todo /\ next.ctx = sup.ctx
    BY <1>2, <2>1 DEF IsRun, RunFields
  <2>3. next.pc \in AtSource \ {"post_gaps"} /\ next.pc # "import"
    BY <1>2, <2>2 DEF AtSource
  <2>4. faults' = 0 => /\ next.ctx = "live" /\ next.errors \subseteq {"writer_locked", "other"}
                       /\ "writer_locked" \in next.errors
    BY <1>2, <1>6, <2>2 DEF Working
  <2>5. next.errors # {}
    BY <2>2
  <2>6. Working(next)'
    BY <1>3, <2>2, <2>3, <2>4, <2>5, OneEvent, FailedWorks
  <2>7. sup' = next
    BY <1>6, <2>1
  <2> QED  BY <2>6, <2>7
<1>7. ASSUME NEW code, sup' = [sup EXCEPT !.pc = pc, !.owed = <<>>, !.errors = @ \cup {code}],
             log' = log, faults' = faults, sup.ctx # "live" \/ code = "writer_locked"
      PROVE  CaptureInv'
  <2>1. faults' = 0 => faults = 0 /\ sup.ctx = "live" /\ code = "writer_locked"
    BY <1>2, <1>7 DEF Working
  <2>2. PICK next : sup' = next /\ Working(next)'
    BY <1>6, <1>7, <2>1
  <2>3. UNCHANGED <<due, sourceVars, evidenceVars, writerLock, audit, hand>>
    BY <1>4, <1>7 DEF evidenceVars
  <2> QED  BY <1>7, <2>2, <2>3, RunGoesOn
<1>8. ASSUME writerLock = "none", NEW part \in 0 .. Len(Unknown(log, sup.owed)),
             Committed(Unknown(log, sup.owed), part)
      PROVE  /\ Ledger' /\ ToSet(log) \subseteq ToSet(log')
             /\ part = Len(Unknown(log, sup.owed)) => ToSet(sup.owed) \subseteq ToSet(log')
  BY <1>3, <1>4, <1>5, <1>8, OtherEventsAppended
<1>9. ASSUME writerLock = "none", faults' = faults + 1,
             NEW part \in 0 .. Len(Unknown(log, sup.owed)), Committed(Unknown(log, sup.owed), part),
             sup' = [sup EXCEPT !.pc = pc, !.owed = <<>>, !.errors = @ \cup {"other"}]
      PROVE  CaptureInv'
  <2>1. faults' # 0
    BY <1>2, <1>9
  <2>2. PICK next : sup' = next /\ Working(next)'
    BY <1>6, <1>9, <2>1
  <2> QED  BY <1>4, <1>8, <1>9, <2>2, RunAppends
<1>10. ASSUME writerLock = "none", faults' = faults, NEW gapped,
              Committed(Unknown(log, sup.owed), Len(Unknown(log, sup.owed))),
              sup' = [sup EXCEPT !.pc = pc, !.owed = <<>>, !.gapped = gapped]
       PROVE  CaptureInv'
  <2>1. Len(Unknown(log, sup.owed)) \in 0 .. Len(Unknown(log, sup.owed))
    <3>1. IsLog(Unknown(log, sup.owed))
      BY <1>3, PickTakes DEF Unknown
    <3> QED  BY <3>1, LogLength
  <2>2. Ledger' /\ ToSet(log) \subseteq ToSet(log') /\ ToSet(sup.owed) \subseteq ToSet(log')
    BY <1>8, <1>10, <2>1
  <2>3. PICK next : next = [sup EXCEPT !.pc = pc, !.owed = <<>>, !.gapped = gapped]
    OBVIOUS
  <2>4. /\ IsRun(next) /\ next.pc = pc /\ next.owed = <<>> /\ next.errors = sup.errors
        /\ next.todo = sup.todo /\ next.ctx = sup.ctx /\ next.pre = sup.pre /\ next.post = sup.post
    BY <1>2, <2>3 DEF IsRun, RunFields
  <2>5. next.pc \in AtSource /\ next.pc \notin {"import", "post_gaps"}
    BY <1>2, <2>4 DEF AtSource
  <2>6. next.pc \in Imported => sup.pc \in Imported
    BY <1>2, <2>4 DEF Imported
  <2>7. next.pc = "result" => sup.pc = "post_gaps"
    BY <1>2, <2>4
  <2>8. next.pc = "result" => Reported(Head(next.todo), next.post)'
    BY <1>2, <2>2, <2>4, <2>7 DEF Working, Reported
  <2>9. NothingLost
    BY <1>4, <1>10, <2>2 DEF NothingLost
  <2>10. Preserved(Head(next.todo), next.pre.item.bytes) => Preserved(Head(next.todo), next.pre.item.bytes)'
    BY <2>9, StaysPreserved
  <2>11. HooksRecorded => HooksRecorded'
    BY <2>9 DEF HooksRecorded, NothingLost
  <2>12. Working(next)'
    BY <1>2, <1>3, <1>10, <2>4, <2>5, <2>6, <2>7, <2>8, <2>10, <2>11, OneEvent DEF Working
  <2>13. sup' = next
    BY <1>10, <2>3
  <2> QED  BY <1>4, <1>10, <2>2, <2>12, <2>13, RunAppends
<1>11. /\ sup.ctx # "live" /\ log' = log /\ faults' = faults
       /\ sup' = [sup EXCEPT !.pc = pc, !.owed = <<>>, !.errors = @ \cup {sup.ctx}]
       => CaptureInv'
  BY <1>7
<1>12. /\ log' = log /\ faults' = faults
       /\ sup' = [sup EXCEPT !.pc = pc, !.owed = <<>>, !.errors = @ \cup {"writer_locked"}]
       => CaptureInv'
  BY <1>7
<1> QED  BY <1>1, <1>9, <1>10, <1>11, <1>12 DEF AppendGaps

\* One more event is owed.
LEMMA OneMore ==
    ASSUME NEW e, IsLog(e), IsInjective(e), NEW x, x \notin ToSet(e)
    PROVE  IsLog(Append(e, x)) /\ IsInjective(Append(e, x)) /\ ToSet(Append(e, x)) = ToSet(e) \cup {x}
<1> DEFINE n == Len(e)
           q == Append(e, x)
           f == [i \in 1 .. n + 1 |-> IF i <= n THEN e[i] ELSE x]
<1>1. n \in Nat /\ DOMAIN e = 1 .. n
  BY LogLength
<1>2. e \in Seq({e[i] : i \in 1 .. n} \cup {x})
  <2> DEFINE S == {e[i] : i \in 1 .. n}
  <2>1. e \in Seq(S)
    BY DEF IsLog
  <2> HIDE DEF S
  <2> QED  BY <2>1
<1>3. /\ DOMAIN q = 1 .. n + 1 /\ Len(q) = n + 1
      /\ \A i \in 1 .. n : q[i] = e[i] /\ q[n + 1] = x
      /\ q[n + 1] = x /\ q \in Seq({e[i] : i \in 1 .. n} \cup {x})
  <2> DEFINE S == {e[i] : i \in 1 .. n} \cup {x}
  <2>1. e \in Seq(S) /\ x \in S
    BY <1>2
  <2> HIDE DEF S
  <2> QED  BY <2>1, <1>1, AppendProperties
<1> HIDE DEF q
<1>4. IsLog(q)
  <2>1. {e[i] : i \in 1 .. n} \cup {x} = {q[i] : i \in 1 .. Len(q)}
    BY <1>1, <1>3
  <2> QED  BY <1>3, <2>1 DEF IsLog
<1>5. IsInjective(q)
  <2>1. \A i \in 1 .. n : e[i] # x
    BY <1>1 DEF ToSet
  <2>2. \A i \in DOMAIN q : i \in 1 .. n \/ i = n + 1
    BY <1>1, <1>3
  <2> QED  BY <1>1, <1>3, <2>1, <2>2 DEF IsInjective
<1>6. ToSet(q) = ToSet(e) \cup {x}
  <2>1. 1 .. n + 1 = 1 .. n \cup {n + 1}
    BY <1>1
  <2> QED  BY <1>1, <1>3, <2>1 DEF ToSet
<1> QED  BY <1>4, <1>5, <1>6 DEF q

\* What a failed import owes.
LEMMA FailedIs ==
    ASSUME IsRun(sup), IsLog(sup.owed), IsInjective(sup.owed), NEW operation, NEW code, NEW pc,
           \A x \in ToSet(sup.owed) : x.kind \in OwedKinds /\ x.kind # operation
    PROVE  LET next == failed(operation, code, pc) IN
           /\ IsRun(next) /\ next.pc = pc /\ next.ctx = sup.ctx /\ next.todo = sup.todo
           /\ next.errors = sup.errors \cup {code}
           /\ IsLog(next.owed) /\ IsInjective(next.owed)
           /\ \A x \in ToSet(next.owed) : x \in ToSet(sup.owed) \/ x.kind = operation
<1> DEFINE next == failed(operation, code, pc)
           gap == captureGap(operation, code)
<1>1. /\ IsRun(next) /\ next.pc = pc /\ next.ctx = sup.ctx /\ next.todo = sup.todo
      /\ next.errors = sup.errors \cup {code}
      /\ next.owed = IF Head(sup.todo) = HookSource THEN Append(sup.owed, gap) ELSE sup.owed
  BY DEF failed, IsRun, RunFields
<1>2. gap.kind = operation
  BY DEF captureGap, Event
<1> HIDE DEF next, gap
<1>3. gap \notin ToSet(sup.owed)
  BY <1>2
<1>4. /\ IsLog(Append(sup.owed, gap)) /\ IsInjective(Append(sup.owed, gap))
      /\ ToSet(Append(sup.owed, gap)) = ToSet(sup.owed) \cup {gap}
  BY <1>3, OneMore
<1> QED  BY <1>1, <1>2, <1>4 DEF next

\* Nothing is appended of no events.
LEMMA NothingUnknown ==
    ASSUME NEW e, IsLog(e), NEW part \in 0 .. Len(Unknown(e, <<>>)), NEW new, Records(e, <<>>, part, new)
    PROVE  new = e
<1>1. Unknown(e, <<>>) = <<>>
  <2>1. {i \in DOMAIN <<>> : <<>>[i] \notin ToSet(e)} = {}
    OBVIOUS
  <2>2. Unknown(e, <<>>) = Pick(<<>>, {})
    BY <2>1 DEF Unknown
  <2>3. Cardinality({}) = 0
    BY FS_EmptySet
  <2> QED  BY <2>2, <2>3 DEF Pick
<1>2. part = 0 /\ new = e \o SubSeq(<<>>, 1, 0)
  BY <1>1 DEF Records
<1>3. SubSeq(<<>>, 1, 0) = <<>>
  OBVIOUS
<1> DEFINE S == {e[i] : i \in 1 .. Len(e)}
<1>4. e \in Seq(S)
  BY DEF IsLog
<1> HIDE DEF S
<1> QED  BY <1>2, <1>3, <1>4, ConcatEmptySeq

LEMMA StepImportSpool ==
    ASSUME CaptureInv, ImportSpool
    PROVE  CaptureInv'
<1>1. PICK spooled : spooled = IF Head(sup.todo) = HookSource THEN hookEvents ELSE <<>>
  OBVIOUS
<1>2. /\ Working(sup) /\ IsRun(sup) /\ faults \in Nat /\ sup.pc = "spool" /\ sup.ctx = "live"
      /\ sup.owed = <<>> /\ Head(sup.todo) \in Sources
  BY DEF CaptureInv, Working, Disk, ImportSpool, AtSource
<1>3. /\ IsLog(spooled) /\ IsInjective(spooled)
      /\ \A x \in ToSet(spooled) : x.source \notin Sources /\ x.end \in Nat
  BY <1>1, OneEvent, HookEventsAre, CaptureAssumption
<1>4. UNCHANGED <<due, sourceVars, audit, hand>> /\ blobs' = blobs /\ writerLock' = writerLock
      /\ style' = style /\ files' = files
  BY DEF ImportSpool, sourceVars
<1>5. ASSUME NEW code \in {"writer_locked", "other"}, faults' = 0 => faults = 0,
             sup' = failed("hook_spool_import", code, "import")
      PROVE  \E next : sup' = next /\ Working(next)'
  <2>1. PICK next : next = failed("hook_spool_import", code, "import")
    OBVIOUS
  <2>2. \A x \in ToSet(sup.owed) : x.kind \in OwedKinds /\ x.kind # "hook_spool_import"
    BY <1>2, OneEvent
  <2>3. /\ IsRun(next) /\ next.pc = "import" /\ next.ctx = sup.ctx /\ next.todo = sup.todo
        /\ next.errors = sup.errors \cup {code}
        /\ IsLog(next.owed) /\ IsInjective(next.owed)
        /\ \A x \in ToSet(next.owed) : x.kind = "hook_spool_import"
    BY <1>2, <2>1, <2>2, OneEvent, FailedIs
  <2>4. faults' = 0 => next.ctx = "live" /\ next.errors \subseteq {"writer_locked", "other"}
    <3> SUFFICES ASSUME faults' = 0 PROVE sup.errors \subseteq {"writer_locked", "other"}
      BY <1>2, <2>3
    <3> QED  BY <1>2, <1>5 DEF Working
  <2>5. /\ next.errors # {} /\ next.pc \in AtSource \ {"post_gaps"}
        /\ \A x \in ToSet(next.owed) : x.kind \in OwedKinds
    BY <2>3 DEF AtSource, OwedKinds
  <2>6. Working(next)'
    BY <1>2, <2>3, <2>4, <2>5, FailedWorks
  <2>7. sup' = next
    BY <1>5, <2>1
  <2> QED  BY <2>6, <2>7
<1>6. ASSUME log' = log, faults' = faults, sup' = failed("hook_spool_import", "writer_locked", "import")
      PROVE  CaptureInv'
  <2>1. PICK next : sup' = next /\ Working(next)'
    BY <1>5, <1>6
  <2>2. UNCHANGED <<due, sourceVars, evidenceVars, writerLock, audit, hand>>
    BY <1>4, <1>6 DEF evidenceVars
  <2> QED  BY <1>6, <2>1, <2>2, RunGoesOn
<1>7. \A x \in ToSet(spooled) : x.kind \in CommittedKinds \cup {"source_truncated"} =>
         x.source \notin Sources /\ x.end \in Nat
  BY <1>3
<1>8. ASSUME writerLock = "none", faults' = faults + 1,
             NEW part \in 0 .. Len(Unknown(log, spooled)), Committed(Unknown(log, spooled), part),
             sup' = failed("hook_spool_import", "other", "import")
      PROVE  CaptureInv'
  <2>1. faults' # 0
    BY <1>2, <1>8
  <2>2. PICK next : sup' = next /\ Working(next)'
    BY <1>5, <1>8, <2>1
  <2>3. Ledger' /\ ToSet(log) \subseteq ToSet(log')
    BY <1>3, <1>4, <1>7, <1>8, OtherEventsAppended
  <2> QED  BY <1>4, <1>8, <2>2, <2>3, RunAppends
<1>9. Len(Unknown(log, spooled)) \in 0 .. Len(Unknown(log, spooled)) /\ IsLog(Unknown(log, spooled))
  <2>1. IsLog(Unknown(log, spooled))
    BY <1>3, PickTakes DEF Unknown
  <2> QED  BY <2>1, LogLength
<1>10. ASSUME faults' = faults, sup' = [sup EXCEPT !.pc = "import"], ToSet(log) \subseteq ToSet(log'),
              ToSet(spooled) \subseteq ToSet(log')
       PROVE  \E next : sup' = next /\ Working(next)'
  <2>1. PICK next : next = [sup EXCEPT !.pc = "import"]
    OBVIOUS
  <2>2. /\ IsRun(next) /\ next.pc = "import" /\ next.owed = sup.owed /\ next.errors = sup.errors
        /\ next.todo = sup.todo /\ next.ctx = sup.ctx
    BY <1>2, <2>1 DEF IsRun, RunFields
  <2>3. Head(next.todo) = HookSource => HooksRecorded'
    <3> SUFFICES ASSUME Head(sup.todo) = HookSource, NEW h \in due PROVE HookEvent(h) \in ToSet(log')
      BY <1>4, <2>2 DEF HooksRecorded
    <3>1. h \in Hooks /\ Spooled(h)
      BY DEF CaptureInv, Disk, Spooled
    <3>2. HookEvent(h) \in ToSet(spooled)
      BY <1>1, <3>1, HookEventsAre
    <3> QED  BY <1>10, <3>2
  <2>4. faults' = 0 => next.ctx = "live" /\ next.errors \subseteq {"writer_locked", "other"}
    BY <1>2, <1>10, <2>2 DEF Working
  <2>5. Working(next)'
    BY <1>2, <2>2, <2>3, <2>4, OneEvent DEF Working, Imported
  <2>6. sup' = next
    BY <1>10, <2>1
  <2> QED  BY <2>5, <2>6
<1>11. ASSUME writerLock = "none", faults' = faults, sup' = [sup EXCEPT !.pc = "import"],
              Committed(Unknown(log, spooled), Len(Unknown(log, spooled)))
       PROVE  CaptureInv'
  <2>1. Ledger' /\ ToSet(log) \subseteq ToSet(log') /\ ToSet(spooled) \subseteq ToSet(log')
    BY <1>3, <1>4, <1>7, <1>9, <1>11, OtherEventsAppended
  <2>2. PICK next : sup' = next /\ Working(next)'
    BY <1>10, <1>11, <2>1
  <2> QED  BY <1>4, <1>11, <2>1, <2>2, RunAppends
<1>12. ASSUME spooled = <<>>, faults' = faults, sup' = [sup EXCEPT !.pc = "import"],
              Committed(Unknown(log, spooled), Len(Unknown(log, spooled)))
       PROVE  CaptureInv'
  <2>1. IsLog(log) /\ Records(log, spooled, Len(Unknown(log, spooled)), log')
    BY <1>12 DEF CaptureInv, Ledger, Records, Committed
  <2>2. log' = log
    BY <1>12, <2>1, NothingUnknown
  <2>3. ToSet(log) \subseteq ToSet(log') /\ ToSet(spooled) \subseteq ToSet(log')
    BY <1>12, <2>2, OneEvent
  <2>4. PICK next : sup' = next /\ Working(next)'
    BY <1>10, <1>12, <2>3
  <2>5. UNCHANGED <<due, sourceVars, evidenceVars, writerLock, audit, hand>>
    BY <1>4, <2>2 DEF evidenceVars
  <2> QED  BY <1>12, <2>4, <2>5, RunGoesOn
<1> QED  BY <1>1, <1>6, <1>8, <1>11, <1>12 DEF ImportSpool

-----------------------------------------------------------------------------
(* Imports of files.                                                       *)

\* What an import of a file appends, from any size behind the committed lines.
LEMMA FileAppended ==
    ASSUME CaptureInv, NEW source \in Sources, NEW bytes, bytes = files[source], bytes # Missing,
           NEW size \in Nat, ~MayReplace => size <= Len(bytes) /\ CommittedOffset(log, source) <= size,
           NEW full, NEW part \in 0 .. Len(ImportBatch(log, source, size, bytes, full)),
           Committed(ImportBatch(log, source, size, bytes, full), part), UNCHANGED <<style, files>>
    PROVE  /\ Ledger' /\ ToSet(log) \subseteq ToSet(log')
           /\ ~MayReplace /\ size = Len(bytes) /\ part = Len(ImportBatch(log, source, size, bytes, full))
                 => LinesRecorded(log', source, bytes)
<1>1. Ledger /\ IsLog(log) /\ LogTyped(log) /\ IsInjective(log)
  BY DEF CaptureInv, Ledger
<1>2. bytes \in Bytes /\ IsLog(bytes)
  BY FilesAreLogs DEF CaptureInv, Disk
<1>3. CommittedOffset(log, source) \in Nat
  BY <1>1, OffsetIsNumber
<1>4. PICK events : events = FileEvents(log, source, size, bytes, full)
  OBVIOUS
<1>5. /\ IsLog(events) /\ IsInjective(events)
      /\ \A x \in ToSet(events) : x.source = source /\ x.end \in Nat
  BY <1>2, <1>3, <1>4, FileEventsAre
<1>6. /\ part \in 0 .. Len(Unknown(log, events)) /\ Records(log, events, part, log')
      /\ Unknown(log, events) = ImportBatch(log, source, size, bytes, full)
  BY <1>4 DEF ImportBatch, Committed, Records
<1>7. /\ IsLog(log') /\ ToSet(log) \subseteq ToSet(log')
      /\ ToSet(log') \subseteq ToSet(log) \cup ToSet(events) /\ IsInjective(log')
  BY <1>1, <1>5, <1>6, PartRecorded
<1>8. LogTyped(log')
  BY <1>1, <1>5, <1>7 DEF LogTyped
<1>9. ASSUME ~MayReplace
      PROVE  /\ LinesOf(log', source, bytes)
             /\ size = Len(bytes) /\ part = Len(ImportBatch(log, source, size, bytes, full))
                  => LinesRecorded(log', source, bytes)
  <2>1. LinesOf(log, source, bytes)
    BY <1>1, <1>9 DEF Ledger, Content
  <2>2. Len(bytes) \in Nat /\ size \in 0 .. Len(bytes) /\ CommittedOffset(log, source) <= size
    BY <1>2, <1>9, LogLength
  <2>3. Records(log, FileEvents(log, source, size, bytes, full), part, log')
    BY <1>4, <1>6
  <2> QED  BY <1>1, <1>2, <2>1, <2>2, <2>3, ImportLines
<1>10. ASSUME ~MayReplace, NEW s \in Sources, files[s] # Missing \/ style = "append"
       PROVE  LinesOf(log', s, Content(s))
  <2>1. CASE s = source
    BY <1>9, <1>10, <2>1 DEF Content
  <2>2. CASE s # source
    <3>1. LinesOf(log, s, Content(s))
      BY <1>1, <1>10 DEF Ledger
    <3>2. \A x \in ToSet(log') \ ToSet(log) : x.source # s
      BY <1>5, <1>7, <2>2
    <3> QED  BY <1>7, <3>1, <3>2, OthersAppended
  <2> QED  BY <2>1, <2>2
<1>11. Ledger'
  BY <1>7, <1>8, <1>10 DEF Ledger, Content, MayReplace
<1> QED  BY <1>7, <1>9, <1>11

\* A run reads the whole file.
LEMMA WholeFile ==
    ASSUME CaptureInv, NEW source \in Sources, files[source] # Missing
    PROVE  /\ Len(files[source]) \in Nat
           /\ ~MayReplace => CommittedOffset(log, source) <= Len(files[source])
<1>1. IsLog(files[source]) /\ Len(files[source]) \in Nat
  BY FilesAreLogs, LogLength DEF CaptureInv, Disk
<1>2. ASSUME ~MayReplace PROVE CommittedOffset(log, source) \in 0 .. Len(files[source])
  <2>1. LinesOf(log, source, files[source]) /\ IsLog(log) /\ LogTyped(log)
    BY <1>2 DEF CaptureInv, Ledger, Content
  <2> QED  BY <1>1, <2>1, OffsetOfLines
<1> QED  BY <1>1, <1>2

LEMMA BatchIsLog ==
    ASSUME NEW e, IsLog(e), LogTyped(e), NEW source, NEW size \in Nat, NEW bytes, IsLog(bytes), NEW full
    PROVE  IsLog(ImportBatch(e, source, size, bytes, full))
<1>1. CommittedOffset(e, source) \in Nat
  BY OffsetIsNumber
<1>2. IsLog(FileEvents(e, source, size, bytes, full))
  BY <1>1, FileEventsAre
<1> QED  BY <1>2, PickTakes DEF ImportBatch, Unknown

LEMMA StepImportSource ==
    ASSUME CaptureInv, ImportSource
    PROVE  CaptureInv'
<1>1. PICK source, bytes, full :
         source = Head(sup.todo) /\ bytes = files[source] /\ full = (audit.full \/ sup.force)
  OBVIOUS
<1>2. PICK batch : batch = ImportBatch(log, source, Len(bytes), bytes, full)
  OBVIOUS
<1>3. /\ Working(sup) /\ IsRun(sup) /\ faults \in Nat /\ sup.pc = "import" /\ sup.ctx = "live"
      /\ source \in Sources /\ IsLog(sup.owed) /\ IsInjective(sup.owed)
      /\ \A x \in ToSet(sup.owed) : x.kind = "hook_spool_import"
  BY <1>1 DEF CaptureInv, Working, Disk, ImportSource, AtSource
<1>4. UNCHANGED <<due, sourceVars, audit, hand>> /\ writerLock' = writerLock
      /\ style' = style /\ files' = files
  BY DEF ImportSource, sourceVars
<1>5. ASSUME NEW code \in {"writer_locked", "other"}, faults' = 0 => faults = 0,
             sup' = Owing(failed("transcript_import", code, "import_gaps"), "import_gaps")
      PROVE  \E next : sup' = next /\ Working(next)'
  <2>1. PICK run : run = failed("transcript_import", code, "import_gaps")
    OBVIOUS
  <2>2. \A x \in ToSet(sup.owed) : x.kind \in OwedKinds /\ x.kind # "transcript_import"
    BY <1>3 DEF OwedKinds
  <2>3. /\ IsRun(run) /\ run.ctx = sup.ctx /\ run.todo = sup.todo
        /\ run.errors = sup.errors \cup {code}
        /\ IsLog(run.owed) /\ IsInjective(run.owed)
        /\ \A x \in ToSet(run.owed) : x \in ToSet(sup.owed) \/ x.kind = "transcript_import"
    BY <1>3, <2>1, <2>2, FailedIs
  <2>4. PICK next : next = Owing(run, "import_gaps")
    OBVIOUS
  <2>5. /\ IsRun(next) /\ next.ctx = sup.ctx /\ next.todo = sup.todo /\ next.owed = run.owed
        /\ next.errors = sup.errors \cup {code}
        /\ next.pc \in {"import_gaps", "post"}
    BY <2>3, <2>4, OwingIs
  <2>6. /\ next.errors # {} /\ next.pc \in AtSource \ {"post_gaps"}
        /\ next.pc \notin {"spool", "import", "result"}
        /\ \A x \in ToSet(next.owed) : x.kind \in OwedKinds
    BY <2>2, <2>3, <2>5 DEF AtSource, OwedKinds
  <2>7. faults' = 0 => next.ctx = "live" /\ next.errors \subseteq {"writer_locked", "other"}
    BY <1>3, <1>5, <2>5 DEF Working
  <2>8. Working(next)'
    BY <1>1, <1>3, <2>3, <2>5, <2>6, <2>7, FailedWorks
  <2>9. sup' = next
    BY <1>5, <2>1, <2>4
  <2> QED  BY <2>8, <2>9
\* Nothing is appended: there is no file, the ledger is locked or the file is not the one seen.
<1>6. ASSUME NEW code \in {"writer_locked", "other"}, log' = log, faults' = faults, blobs \subseteq blobs',
             sup' = Owing(failed("transcript_import", code, "import_gaps"), "import_gaps"),
             writerLock = "none" \/ blobs' = blobs
      PROVE  CaptureInv'
  <2>1. PICK next : sup' = next /\ Working(next)'
    BY <1>5, <1>6
  <2>2. CASE blobs' = blobs
    <3>1. UNCHANGED <<due, sourceVars, evidenceVars, writerLock, audit, hand>>
      BY <1>4, <1>6, <2>2 DEF evidenceVars
    <3> QED  BY <1>6, <2>1, <3>1, RunGoesOn
  <2>3. CASE writerLock = "none"
    <3>1. Ledger' /\ ToSet(log) \subseteq ToSet(log')
      BY <1>4, <1>6, StaysLedger DEF CaptureInv
    <3> QED  BY <1>4, <1>6, <2>1, <2>3, <3>1, RunAppends
  <2> QED  BY <1>6, <2>2, <2>3
\* The batch, or a part of it.
<1>7. ASSUME bytes # Missing, NEW part \in 0 .. Len(batch), Committed(batch, part)
      PROVE  /\ Ledger' /\ ToSet(log) \subseteq ToSet(log')
             /\ ~MayReplace /\ part = Len(batch) => LinesRecorded(log', source, bytes)
  <2>1. Len(bytes) \in Nat /\ (~MayReplace => CommittedOffset(log, source) <= Len(bytes))
    BY <1>1, <1>3, <1>7, WholeFile
  <2>2. PICK size : size = Len(bytes)
    OBVIOUS
  <2>3. size \in Nat /\ (~MayReplace => size <= Len(bytes) /\ CommittedOffset(log, source) <= size)
    BY <2>1, <2>2
  <2>4. /\ part \in 0 .. Len(ImportBatch(log, source, size, bytes, full))
        /\ Committed(ImportBatch(log, source, size, bytes, full), part)
    BY <1>2, <1>7, <2>2
  <2>5. /\ Ledger' /\ ToSet(log) \subseteq ToSet(log')
        /\ ~MayReplace /\ size = Len(bytes) /\ part = Len(ImportBatch(log, source, size, bytes, full))
              => LinesRecorded(log', source, bytes)
    BY <1>1, <1>3, <1>4, <1>7, <2>3, <2>4, FileAppended
  <2> QED  BY <1>2, <2>2, <2>5
<1>8. ASSUME bytes # Missing, writerLock = "none", faults' = faults + 1, blobs \subseteq blobs',
             NEW part \in 0 .. Len(batch), Committed(batch, part),
             sup' = Owing(failed("transcript_import", "other", "import_gaps"), "import_gaps")
      PROVE  CaptureInv'
  <2>1. faults' # 0
    BY <1>3, <1>8
  <2>2. PICK next : sup' = next /\ Working(next)'
    BY <1>5, <1>8, <2>1
  <2>3. Ledger' /\ ToSet(log) \subseteq ToSet(log')
    BY <1>7, <1>8
  <2> QED  BY <1>4, <1>8, <2>2, <2>3, RunAppends
<1>9. ASSUME bytes # Missing PROVE Len(batch) \in 0 .. Len(batch)
  <2>1. Len(bytes) \in Nat /\ IsLog(bytes) /\ IsLog(log) /\ LogTyped(log)
    BY <1>1, <1>3, <1>9, WholeFile, FilesAreLogs DEF CaptureInv, Disk, Ledger
  <2>2. IsLog(batch)
    BY <1>2, <2>1, BatchIsLog
  <2> QED  BY <2>2, LogLength
<1>10. ASSUME bytes # Missing, writerLock = "none", Expected(bytes), faults' = faults,
              blobs' = blobs \cup {bytes}, Committed(batch, Len(batch)), NEW gapped,
              sup' = Owing([sup EXCEPT !.gapped = gapped], "import_gaps")
       PROVE  CaptureInv'
  <2>1. Ledger' /\ ToSet(log) \subseteq ToSet(log') /\ (~MayReplace => LinesRecorded(log', source, bytes))
    BY <1>7, <1>9, <1>10
  <2>2. PICK run : run = [sup EXCEPT !.gapped = gapped]
    OBVIOUS
  <2>3. /\ IsRun(run) /\ run.ctx = sup.ctx /\ run.todo = sup.todo /\ run.owed = sup.owed
        /\ run.errors = sup.errors /\ run.pre = sup.pre
    BY <1>3, <2>2 DEF IsRun, RunFields
  <2>4. PICK next : next = Owing(run, "import_gaps")
    OBVIOUS
  <2>5. /\ IsRun(next) /\ next.ctx = sup.ctx /\ next.todo = sup.todo /\ next.owed = sup.owed
        /\ next.errors = sup.errors /\ next.pre = sup.pre
        /\ next.pc \in {"import_gaps", "post"}
    BY <2>3, <2>4, OwingIs
  <2>6. Head(next.todo) = HookSource /\ next.errors = {} => HooksRecorded'
    <3>1. NothingLost
      BY <1>4, <1>10, <2>1 DEF NothingLost, sourceVars
    <3>2. HooksRecorded => HooksRecorded'
      BY <3>1 DEF HooksRecorded, NothingLost
    <3> QED  BY <1>3, <2>5, <3>2 DEF Working
  <2>7. next.pre.status = "available" => Preserved(Head(next.todo), next.pre.item.bytes)'
    <3>1. MayReplace' = MayReplace
      BY <1>4 DEF MayReplace
    <3>2. sup.pre.status = "available" => sup.pre.item.bytes = bytes
      BY <1>10 DEF Expected
    <3> QED  BY <1>1, <1>10, <2>1, <2>5, <3>1, <3>2 DEF Preserved
  <2>8. faults' = 0 => next.ctx = "live" /\ next.errors \subseteq {"writer_locked", "other"}
    BY <1>3, <1>10, <2>5 DEF Working
  <2>9. \A x \in ToSet(next.owed) : x.kind \in OwedKinds
    BY <1>3, <2>5 DEF OwedKinds
  <2>10. Working(next)'
    BY <1>1, <1>3, <2>5, <2>6, <2>7, <2>8, <2>9 DEF Working
  <2>11. sup' = next
    BY <1>10, <2>2, <2>4
  <2> QED  BY <1>4, <1>10, <2>1, <2>10, <2>11, RunAppends
<1>11. CASE bytes = Missing /\ UNCHANGED <<evidenceVars, faults>>
            /\ sup' = Owing(failed("transcript_import", "other", "import_gaps"), "import_gaps")
  BY <1>6, <1>11 DEF evidenceVars
<1>12. CASE UNCHANGED <<evidenceVars, faults>>
            /\ sup' = Owing(failed("transcript_import", "writer_locked", "import_gaps"), "import_gaps")
  BY <1>6, <1>12 DEF evidenceVars
<1>13. CASE writerLock = "none" /\ blobs' = blobs \cup {bytes} /\ UNCHANGED <<log, faults>>
            /\ sup' = Owing(failed("transcript_import", "other", "import_gaps"), "import_gaps")
  BY <1>6, <1>13
<1> QED  BY <1>1, <1>2, <1>8, <1>10, <1>11, <1>12, <1>13 DEF ImportSource

LEMMA StepCrash ==
    ASSUME CaptureInv, Crash
    PROVE  CaptureInv'
<1>1. /\ sup' = Idle /\ faults' = faults + 1 /\ faults \in Nat /\ UNCHANGED <<due, sourceVars, audit, hand>>
      /\ style' = style /\ files' = files
  BY DEF Crash, CaptureInv, Disk, sourceVars
<1>2. Working(Idle)'
  BY OneEvent DEF Working, Idle, IsRun, RunFields, AtSource, Imported
<1>3. CASE UNCHANGED <<evidenceVars, writerLock>>
  <2>1. UNCHANGED <<due, sourceVars, evidenceVars, writerLock, audit, hand>>
    BY <1>1, <1>3
  <2> QED  BY <1>1, <1>2, <2>1, RunGoesOn
<1>4. CASE /\ sup.pc \in DOMAIN AfterGaps /\ writerLock = "none" /\ blobs' = blobs
            /\ \E part \in 0 .. Len(Unknown(log, sup.owed)) : Committed(Unknown(log, sup.owed), part)
  <2>1. IsRun(sup) /\ sup.pc \in {"pre_gaps", "import_gaps", "post_gaps"}
    BY <1>4 DEF CaptureInv, Working, AfterGaps
  <2>2. IsLog(sup.owed) /\ IsInjective(sup.owed) /\ \A x \in ToSet(sup.owed) : x.kind \in OwedKinds
    BY <2>1 DEF CaptureInv, Working, AtSource
  <2>3. \A x \in ToSet(sup.owed) : x.kind \notin CommittedKinds \cup {"source_truncated"}
    BY <2>2 DEF OwedKinds, CommittedKinds
  <2>4. PICK part \in 0 .. Len(Unknown(log, sup.owed)) : Committed(Unknown(log, sup.owed), part)
    BY <1>4
  <2>5. Ledger' /\ ToSet(log) \subseteq ToSet(log')
    BY <1>1, <1>4, <2>2, <2>3, <2>4, OtherEventsAppended
  <2> QED  BY <1>1, <1>2, <1>4, <2>5, RunAppends
<1>5. CASE /\ writerLock = "none" /\ blobs' = blobs
            /\ \E part \in 0 .. Len(Unknown(log, hookEvents)) : Committed(Unknown(log, hookEvents), part)
  <2>1. /\ IsLog(hookEvents) /\ IsInjective(hookEvents)
        /\ \A x \in ToSet(hookEvents) : x.source \notin Sources /\ x.end \in Nat
    BY HookEventsAre, CaptureAssumption
  <2>2. PICK part \in 0 .. Len(Unknown(log, hookEvents)) : Committed(Unknown(log, hookEvents), part)
    BY <1>5
  <2>3. Ledger' /\ ToSet(log) \subseteq ToSet(log')
    BY <1>1, <1>5, <2>1, <2>2, OtherEventsAppended
  <2> QED  BY <1>1, <1>2, <1>5, <2>3, RunAppends
<1>6. CASE /\ sup.pc = "import" /\ writerLock = "none" /\ files[Head(sup.todo)] # Missing
            /\ blobs' = blobs \cup {files[Head(sup.todo)]}
            /\ \E part \in 0 .. Len(ImportBatch(log, Head(sup.todo), Len(files[Head(sup.todo)]),
                                              files[Head(sup.todo)], audit.full \/ sup.force)) :
                  Committed(ImportBatch(log, Head(sup.todo), Len(files[Head(sup.todo)]),
                                        files[Head(sup.todo)], audit.full \/ sup.force), part)
  <2>1. PICK source, bytes, full :
           source = Head(sup.todo) /\ bytes = files[source] /\ full = (audit.full \/ sup.force)
    OBVIOUS
  <2>2. PICK size : size = Len(bytes)
    OBVIOUS
  <2>3. /\ sup.pc = "import" /\ writerLock = "none" /\ bytes # Missing
        /\ blobs \subseteq blobs'
        /\ \E part \in 0 .. Len(ImportBatch(log, source, size, bytes, full)) :
              Committed(ImportBatch(log, source, size, bytes, full), part)
    BY <1>6, <2>1, <2>2
  <2>4. source \in Sources
    BY <2>1, <2>3 DEF CaptureInv, Working, AtSource
  <2>5. size \in Nat /\ (~MayReplace => size <= Len(bytes) /\ CommittedOffset(log, source) <= size)
    BY <2>1, <2>2, <2>3, <2>4, WholeFile
  <2>6. PICK part \in 0 .. Len(ImportBatch(log, source, size, bytes, full)) :
           Committed(ImportBatch(log, source, size, bytes, full), part)
    BY <2>3
  <2>7. Ledger' /\ ToSet(log) \subseteq ToSet(log')
    BY <1>1, <2>1, <2>3, <2>4, <2>5, <2>6, FileAppended
  <2> QED  BY <1>1, <1>2, <2>3, <2>7, RunAppends
<1> QED  BY <1>3, <1>4, <1>5, <1>6 DEF Crash

LEMMA StepStartHandImport ==
    ASSUME CaptureInv, NEW s \in Busy, StartHandImport(s)
    PROVE  CaptureInv'
<1> USE DEF CaptureInv
<1>1. /\ files' = files /\ style' = style /\ log' = log /\ blobs' = blobs /\ due' = due /\ faults' = faults
      /\ spool' = spool /\ sup' = sup /\ audit' = audit
      /\ writerLock' = "hand" /\ hand' = [source |-> s, size |-> Len(files[s])] /\ files[s] # Missing
  BY DEF StartHandImport, sourceVars, evidenceVars
<1>2. NothingLost /\ Disk'
  BY <1>1 DEF NothingLost, Disk
<1>3. s \in Sources /\ IsLog(files[s]) /\ Len(files[s]) \in Nat
  BY <1>1, CaptureAssumption, FilesAreLogs, LogLength DEF Disk
<1>4. ASSUME ~MayReplace, NEW x \in ToSet(log), x.source = s, x.kind \in CommittedKinds
      PROVE  x.end <= Len(files[s])
  <2>1. LinesOf(log, s, files[s])
    BY <1>1, <1>3, <1>4 DEF Ledger, Content
  <2>2. x.start \in StartSet(files[s], 0) /\ x = LineEvent(s, files[s], x.start)
    BY <1>4, <2>1 DEF LinesOf
  <2>3. x.start \in 0 .. Len(files[s]) - 1
    BY <2>2 DEF StartSet
  <2>4. LineEnd(files[s], x.start) \in x.start + 1 .. Len(files[s])
    BY <1>3, <2>3, LineEnds
  <2>5. LineEvent(s, files[s], x.start).end = LineEnd(files[s], x.start)
    BY <1>3, <2>3, LineEvents
  <2>6. x.end = LineEnd(files[s], x.start)
    BY <2>2, <2>5
  <2> QED  BY <1>3, <2>3, <2>4, <2>6
<1>5. hand'.source = s /\ hand'.size = Len(files[s])
  BY <1>1
<1>6. MayReplace' = MayReplace
  BY <1>1 DEF MayReplace
<1>7. Hand'
  BY <1>1, <1>3, <1>4, <1>5, <1>6 DEF Hand
<1> QED  BY <1>1, <1>2, <1>7, StaysLedger, SameSup, SameAudit

LEMMA StepFinishHandImport ==
    ASSUME CaptureInv, FinishHandImport
    PROVE  CaptureInv'
<1>1. PICK source, size : source = hand.source /\ size = hand.size
  OBVIOUS
<1>2. PICK bytes : bytes = files[source]
  OBVIOUS
<1>3. /\ Disk /\ Ledger /\ Working(sup) /\ Concluded(audit)
      /\ source \in Sources /\ size \in Nat
  BY <1>1 DEF CaptureInv, Hand, FinishHandImport
<1>4. /\ files' = files /\ style' = style /\ due' = due /\ faults' = faults /\ spool' = spool
      /\ sup' = sup /\ audit' = audit /\ hand' = NoHand
  BY DEF FinishHandImport, sourceVars
<1>5. Hand'
  BY <1>4 DEF Hand
<1>6. Ledger' /\ ToSet(log) \subseteq ToSet(log') /\ blobs \subseteq blobs'
  <2>1. CASE bytes = Missing
    <3>1. log' = log /\ blobs' = blobs
      BY <1>1, <1>2, <2>1 DEF FinishHandImport, evidenceVars
    <3> QED  BY <1>3, <1>4, <3>1, StaysLedger
  <2>2. CASE bytes # Missing
    <3>1. PICK full, batch : full = FALSE /\ batch = ImportBatch(log, source, size, bytes, full)
      OBVIOUS
    <3>2. Committed(batch, Len(batch)) /\ blobs \subseteq blobs'
      BY <1>1, <1>2, <2>2, <3>1 DEF FinishHandImport
    <3>3. IsLog(log) /\ LogTyped(log) /\ IsLog(bytes)
      BY <1>2, <1>3, <2>2, FilesAreLogs DEF Disk, Ledger
    <3>4. Len(batch) \in 0 .. Len(batch)
      BY <1>3, <3>1, <3>3, BatchIsLog, LogLength
    <3>5. ~MayReplace => size <= Len(bytes) /\ CommittedOffset(log, source) <= size
      <4> SUFFICES ASSUME ~MayReplace
                   PROVE  size <= Len(bytes) /\ CommittedOffset(log, source) <= size
        OBVIOUS
      <4>1. /\ size <= Len(bytes)
            /\ \A x \in ToSet(log) : x.source = source /\ x.kind \in CommittedKinds => x.end <= size
        BY <1>1, <1>2, <2>2 DEF CaptureInv, Hand, FinishHandImport
      <4>2. LinesOf(log, source, bytes)
        BY <1>2, <1>3, <2>2 DEF Ledger, Content
      <4>3. \/ CommittedOffset(log, source) = 0
            \/ \E x \in ToSet(log) : /\ x.source = source /\ x.kind \in CommittedKinds
                                     /\ x.end = CommittedOffset(log, source)
        BY <3>3, <4>2, OffsetOfLines
      <4> QED  BY <1>3, <4>1, <4>3
    <3>6. PICK part : part = Len(batch)
      OBVIOUS
    <3>7. /\ part \in 0 .. Len(ImportBatch(log, source, size, bytes, full))
          /\ Committed(ImportBatch(log, source, size, bytes, full), part)
      BY <3>1, <3>2, <3>4, <3>6
    <3>8. UNCHANGED <<style, files>>
      BY <1>4
    <3>9. Ledger' /\ ToSet(log) \subseteq ToSet(log')
      BY <1>2, <1>3, <2>2, <3>5, <3>7, <3>8, FileAppended
    <3> QED  BY <3>2, <3>9
  <2> QED  BY <2>1, <2>2
<1>7. NothingLost /\ Disk'
  BY <1>3, <1>4, <1>6 DEF NothingLost, Disk
<1> QED  BY <1>3, <1>4, <1>5, <1>6, <1>7, SameSup, SameAudit DEF CaptureInv

-----------------------------------------------------------------------------
(* Every step.                                                             *)

LEMMA InvStep == CaptureInv /\ [CaptureNext]_captureVars => CaptureInv'
<1> SUFFICES ASSUME CaptureInv, [CaptureNext]_captureVars PROVE CaptureInv'
  OBVIOUS
<1>1. ASSUME NEW s \in Busy, \/ CreateFile(s) \/ AppendBytes(s) \/ RewriteFile(s)
                             \/ TruncateFile(s) \/ DeleteFile(s)
      PROVE  CaptureInv'
  BY <1>1, AgentSteps
<1>2. ASSUME NEW s \in Busy, StartHandImport(s) PROVE CaptureInv'
  BY <1>2, StepStartHandImport
<1>3. ASSUME NEW h \in Hooks, HookStep(h) \/ HookFails(h) PROVE CaptureInv'
  BY <1>3, HookSteps
<1>4. ASSUME NEW c \in Configs, ConfigureFile(c) PROVE CaptureInv'
  BY <1>4, StepConfigureFile
<1>5. CASE StartRun  BY <1>5, StepStartRun
<1>6. CASE SkipSource  BY <1>6, StepSkipSource
<1>7. CASE RecordPreInventory  BY <1>7, StepRecordPreInventory
<1>8. CASE AppendGaps  BY <1>8, StepAppendGaps
<1>9. CASE ImportSpool  BY <1>9, StepImportSpool
<1>10. CASE ImportSource  BY <1>10, StepImportSource
<1>11. CASE SkipImport  BY <1>11, StepSkipImport
<1>12. CASE RecordPostInventory  BY <1>12, StepRecordPostInventory
<1>13. CASE FinishSource  BY <1>13, StepFinishSource
<1>14. CASE FinishRun  BY <1>14, StepFinishRun
<1>15. CASE EndContext  BY <1>15, StepEndContext
<1>16. CASE StartRecover  BY <1>16, StepStartRecover
<1>17. CASE RecoverStep  BY <1>17, StepRecover
<1>18. CASE Crash  BY <1>18, StepCrash
<1>19. CASE FinishHandImport  BY <1>19, StepFinishHandImport
<1>20. CASE ClearStaleWriterLock  BY <1>20, StepClearStaleWriterLock
<1>21. CASE UNCHANGED captureVars
  <2>1. /\ files' = files /\ style' = style /\ log' = log /\ blobs' = blobs /\ due' = due /\ hand' = hand
        /\ writerLock' = writerLock /\ spool' = spool /\ faults' = faults /\ sup' = sup /\ audit' = audit
    BY <1>21 DEF captureVars, sourceVars, evidenceVars
  <2>2. NothingLost /\ Disk'
    BY <2>1 DEF NothingLost, CaptureInv, Disk
  <2> QED  BY <2>1, <2>2, StaysLedger, StaysHand, SameSup, SameAudit DEF CaptureInv
<1> QED
  BY <1>1, <1>2, <1>3, <1>4, <1>5, <1>6, <1>7, <1>8, <1>9, <1>10, <1>11, <1>12, <1>13, <1>14, <1>15,
     <1>16, <1>17, <1>18, <1>19, <1>20, <1>21 DEF CaptureNext

\* The inductive invariant: the ledger has each event once and whole beginnings
\* of the files that only grow, a run knows at each of its places what it has
\* preserved, and what the audit says is so (sourceRun, Reconcile, importFile).
THEOREM CaptureInvariant == CaptureSpec => []CaptureInv
<1>1. CaptureInit => CaptureInv
  BY InvInit
<1>2. CaptureInv /\ [CaptureNext]_captureVars => CaptureInv'
  BY InvStep
<1> QED  BY <1>1, <1>2, PTL DEF CaptureSpec

-----------------------------------------------------------------------------
(* What it gives.                                                          *)

\* Whatever was imported by a run, by hand or by a killed process, and however
\* often, no event is in the ledger twice (knownIDs, appended under the writer
\* lock).
THEOREM EvidenceOnce == CaptureSpec => []EvidenceRecordedOnce
<1>1. CaptureInv => EvidenceRecordedOnce
  <2> SUFFICES ASSUME CaptureInv, NEW i \in DOMAIN log, NEW j \in 1 .. i - 1 PROVE log[j] # log[i]
    BY DEF EvidenceRecordedOnce
  <2>1. IsLog(log) /\ IsInjective(log)
    BY DEF CaptureInv, Ledger
  <2>2. Len(log) \in Nat /\ DOMAIN log = 1 .. Len(log)
    BY <2>1, LogLength
  <2>3. i \in DOMAIN log /\ j \in DOMAIN log /\ j # i
    BY <2>2
  <2> QED  BY <2>1, <2>3 DEF IsInjective
<1> QED  BY <1>1, CaptureInvariant, PTL

\* Where files only grow or are removed, a source_succeeded event means that the
\* file the inventories saw is preserved and each of its records is in the
\* ledger, whatever failed, was killed, or was imported by hand
\* (setSourceOutcome).
THEOREM GrowingFilesRecorded == CaptureSpec => [](~MayReplace => SuccessMeansRecorded)
<1>1. CaptureInv => (~MayReplace => SuccessMeansRecorded)
  BY DEF CaptureInv, Concluded, Preserved, SuccessMeansRecorded, Results
<1> QED  BY <1>1, CaptureInvariant, PTL

\* When the status reports the capture as ready, every hook that had returned
\* when the latest run started is in the ledger (statusFromState).
THEOREM ReadyHooksRecorded == CaptureSpec => []ReadyMeansHooksRecorded
<1>1. CaptureInv => ReadyMeansHooksRecorded
  <2> SUFFICES ASSUME CaptureInv, captureReady, HookSource \in DOMAIN audit.config,
                      audit.config[HookSource], NEW h \in due
               PROVE  HookEvent(h) \in ToSet(log)
    BY DEF ReadyMeansHooksRecorded, HookEvent
  <2>1. HookSource \in Sources /\ audit.results[HookSource].outcome = "success"
    BY DEF CaptureInv, Concluded, captureReady
  <2>2. HooksRecorded
    BY <2>1 DEF CaptureInv, Concluded
  <2> QED  BY <2>2 DEF HooksRecorded
<1> QED  BY <1>1, CaptureInvariant, PTL

\* A source whose file was seen before and could not be read now left a gap that
\* says which file, last seen when, and why (appendInventoryGaps).
THEOREM UnavailableReported == CaptureSpec => []UnavailableIsReported
<1>1. CaptureInv => UnavailableIsReported
  BY DEF CaptureInv, Concluded, Reported, UnavailableIsReported, Results
<1> QED  BY <1>1, CaptureInvariant, PTL
=============================================================================
