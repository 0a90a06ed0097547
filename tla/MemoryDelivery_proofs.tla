------------------------ MODULE MemoryDelivery_proofs ------------------------
(***************************************************************************)
(* Proofs about PortableRepository and MemoryDelivery, for any contents,   *)
(* processes, readers, scenarios and bounds.                               *)
(***************************************************************************)
EXTENDS MemoryDelivery, FiniteSetTheorems, SequenceTheorems, WellFoundedInduction, TLAPS

\* What the code knows as one line per memory: a memory has at most one revision
\* of each length.
OneLine(F) == \A r, s \in F : Memory(r) = Memory(s) /\ Len(r) = Len(s) => r = s

Revisions(F) == \A r \in F : IsRevision(r)

-----------------------------------------------------------------------------
\* A set of numbers that is not empty has a least one.
LEMMA LeastNumber ==
    ASSUME NEW S \in SUBSET Nat, S # {}
    PROVE  \E m \in S : \A n \in S : m <= n
<1> DEFINE R == OpToRel(<, Nat)
<1>1. IsWellFoundedOn(R, Nat)
  BY NatLessThanWellFounded
<1>2. R = {ss \in Nat \X Nat : ss[1] < ss[2]}
  BY DEF OpToRel
<1> HIDE DEF R
<1>3. PICK m \in S : \A n \in S : ~(<<n, m>> \in R)
  BY <1>1, WFMin
<1>4. ASSUME NEW n \in S PROVE m <= n
  <2>1. m \in Nat /\ n \in Nat
    OBVIOUS
  <2>2. ~(n < m)
    BY <1>2, <1>3, <2>1
  <2> QED  BY <2>1, <2>2
<1> QED  BY <1>4

\* A revision: its first content names the memory, and its prefixes are the
\* revisions it follows.
LEMMA RevisionFacts ==
    ASSUME NEW r, IsRevision(r)
    PROVE  /\ Len(r) \in Nat \ {0} /\ r \in Seq(Contents \cup {Revoked})
           /\ r[1] \in Contents /\ RankOf[Memory(r)] \in Nat
           /\ \A i \in 1..Len(r) : /\ Len(SubSeq(r, 1, i)) = i
                                   /\ Memory(SubSeq(r, 1, i)) = Memory(r)
                                   /\ IsRevision(SubSeq(r, 1, i))
                                   /\ i > 1 => Parent(SubSeq(r, 1, i)) = SubSeq(r, 1, i - 1)
           /\ SubSeq(r, 1, Len(r)) = r
<1> DEFINE T == Contents \cup {Revoked}
<1>1. Len(r) \in Nat \ {0} /\ r \in Seq(T)
  BY DEF IsRevision
<1>2. \A i \in 1..Len(r) : r[i] \in T /\ (r[i] = Revoked => i > 1 /\ i = Len(r))
  BY <1>1 DEF IsRevision
<1>3. r[1] \in Contents
  BY <1>1, <1>2
<1>4. RankOf[Memory(r)] \in Nat
  BY <1>3, RepositoryAssumption DEF Memory
<1>5. ASSUME NEW i \in 1..Len(r)
      PROVE  /\ Len(SubSeq(r, 1, i)) = i
             /\ Memory(SubSeq(r, 1, i)) = Memory(r)
             /\ IsRevision(SubSeq(r, 1, i))
             /\ i > 1 => Parent(SubSeq(r, 1, i)) = SubSeq(r, 1, i - 1)
  <2> DEFINE q == SubSeq(r, 1, i)
  <2>0. i \in Nat \ {0} /\ i \in Int /\ 1 \in Int
    BY <1>1
  <2>1. \A j \in 1..i : r[j] \in T /\ j \in 1..Len(r)
    BY <1>1, <1>2
  <2>2. q \in Seq(T) /\ Len(q) = i /\ \A j \in 1..i : q[j] = r[j]
    BY <2>0, <2>1, SubSeqProperties
  <2> HIDE DEF q, T
  <2>3. q[1] = r[1]
    BY <2>0, <2>2
  <2>4. IsRevision(q)
    BY <1>1, <1>2, <2>0, <2>1, <2>2 DEF IsRevision, T
  <2>5. i > 1 => Parent(q) = SubSeq(r, 1, i - 1)
    <3> SUFFICES ASSUME i > 1 PROVE Parent(q) = SubSeq(r, 1, i - 1)
      OBVIOUS
    <3>1. SubSeq(q, 1, i - 1) = SubSeq(r, 1, i - 1)
      <4>1. i - 1 \in 1..(i - 1 + 1) /\ 1 \in 1..(i - 1 + 1) /\ i - 1 + 1 = i
        BY <2>0
      <4>2. SubSeq(SubSeq(r, 1, i), 1, i - 1) = SubSeq(r, 1 + 1 - 1, 1 + (i - 1) - 1)
        <5>1. 1 \in 1..Len(r) /\ i \in 1..Len(r) /\ 1 \in 1..(i - 1 + 1) /\ (i - 1) \in 1..(i - 1 + 1)
          BY <1>1, <4>1
        <5> QED  BY <1>1, <5>1, SubSeqOfSubSeq
      <4>3. 1 + 1 - 1 = 1 /\ 1 + (i - 1) - 1 = i - 1
        BY <2>0
      <4> QED  BY <4>2, <4>3 DEF q
    <3> QED  BY <2>2, <3>1 DEF Parent
  <2> QED  BY <2>2, <2>3, <2>4, <2>5 DEF q, Memory
<1>6. SubSeq(r, 1, Len(r)) = r
  BY <1>1, SubSeqFull
<1> QED  BY <1>1, <1>3, <1>4, <1>5, <1>6

\* With a revision, a set that is closed under parents holds its prefixes.
LEMMA PrefixesPresent ==
    ASSUME NEW F, Revisions(F), ParentsPresent(F), NEW r \in F, NEW i \in 1..Len(r)
    PROVE  SubSeq(r, 1, i) \in F
<1>1. IsRevision(r)
  BY DEF Revisions
<1>2. Len(r) \in Nat \ {0} /\ SubSeq(r, 1, Len(r)) = r
  BY <1>1, RevisionFacts
<1> DEFINE Present == {n \in Nat : n <= Len(r) - 1 /\ SubSeq(r, 1, Len(r) - n) \notin F}
<1>3. Present = {}
  <2> SUFFICES ASSUME Present # {} PROVE FALSE
    OBVIOUS
  <2>1. PICK n \in Present : \A k \in Present : n <= k
    BY LeastNumber
  <2>2. n \in Nat /\ n <= Len(r) - 1 /\ SubSeq(r, 1, Len(r) - n) \notin F
    BY <2>1
  <2>3. n # 0
    <3>1. Len(r) - 0 = Len(r)
      BY <1>2
    <3> QED  BY <1>2, <2>2, <3>1
  <2>4. n - 1 \in Nat /\ n - 1 <= Len(r) - 1 /\ n - 1 \notin Present
    BY <1>2, <2>1, <2>2, <2>3
  <2>5. SubSeq(r, 1, Len(r) - (n - 1)) \in F
    BY <2>4
  <2>6. Len(r) - (n - 1) \in 1..Len(r) /\ Len(r) - (n - 1) > 1 /\ Len(r) - (n - 1) - 1 = Len(r) - n
    BY <1>2, <2>2, <2>3
  <2>7. PICK j \in 1..Len(r) : j = Len(r) - (n - 1)
    BY <2>6
  <2>8. Len(SubSeq(r, 1, j)) = j /\ Parent(SubSeq(r, 1, j)) = SubSeq(r, 1, j - 1) /\ j > 1
    <3>1. j > 1
      BY <2>6, <2>7
    <3> QED  BY <1>1, <3>1, RevisionFacts
  <2>9. SubSeq(r, 1, j - 1) \in F
    BY <2>5, <2>7, <2>8 DEF ParentsPresent
  <2> QED  BY <2>2, <2>6, <2>7, <2>9
<1>4. Len(r) - i \in Nat /\ Len(r) - i <= Len(r) - 1 /\ Len(r) - (Len(r) - i) = i
  BY <1>2
<1> QED  BY <1>3, <1>4

\* A set without two different elements has a cardinality of at most one, and the
\* other way round.
LEMMA AtMostOne ==
    ASSUME NEW S
    PROVE  /\ (\A x, y \in S : x = y) => Cardinality(S) <= 1
           /\ IsFiniteSet(S) /\ Cardinality(S) <= 1 => \A x, y \in S : x = y
<1>1. ASSUME \A x, y \in S : x = y PROVE Cardinality(S) <= 1
  <2>1. CASE S = {}
    BY <2>1, FS_EmptySet
  <2>2. CASE S # {}
    <3>1. PICK x \in S : S = {x}
      BY <1>1, <2>2
    <3> QED  BY <3>1, FS_Singleton
  <2> QED  BY <2>1, <2>2
<1>2. ASSUME IsFiniteSet(S), Cardinality(S) <= 1, NEW x \in S, NEW y \in S PROVE x = y
  <2>1. Cardinality(S) \in Nat /\ Cardinality(S) # 0
    BY <1>2, FS_CardinalityType, FS_EmptySet
  <2>2. Cardinality(S) = 1
    BY <1>2, <2>1
  <2> QED  BY <1>2, <2>2, FS_Singleton
<1> QED  BY <1>1, <1>2

\* Repository verification makes every memory one line.
LEMMA UnforkedIsOneLine ==
    ASSUME NEW F, Revisions(F), IsFiniteSet(F), ParentsPresent(F), Unforked(F)
    PROVE  OneLine(F)
<1> DEFINE Twice == {n \in Nat : \E r, s \in F : Memory(r) = Memory(s) /\ Len(r) = n /\ Len(s) = n /\ r # s}
<1>1. Twice = {}
  <2> SUFFICES ASSUME Twice # {} PROVE FALSE
    OBVIOUS
  <2>1. PICK n \in Twice : \A k \in Twice : n <= k
    BY LeastNumber
  <2>2. PICK r, s \in F : n \in Nat /\ Memory(r) = Memory(s) /\ Len(r) = n /\ Len(s) = n /\ r # s
    BY <2>1
  <2>3. IsRevision(r) /\ IsRevision(s)
    BY DEF Revisions
  <2>4. n > 1
    <3>1. n # 1
      BY <2>2 DEF Unforked
    <3>2. n # 0
      BY <2>2, <2>3, RevisionFacts
    <3> QED  BY <2>2, <3>1, <3>2
  <2>5. /\ Parent(r) \in F /\ Parent(s) \in F
        /\ Memory(Parent(r)) = Memory(Parent(s))
        /\ Len(Parent(r)) = n - 1 /\ Len(Parent(s)) = n - 1
    <3>1. Parent(r) \in F /\ Parent(s) \in F
      BY <2>2, <2>4 DEF ParentsPresent
    <3>2. n - 1 \in 1..Len(r) /\ n - 1 \in 1..Len(s)
      BY <2>2, <2>4
    <3> QED  BY <2>2, <2>3, <3>1, <3>2, RevisionFacts DEF Parent
  <2>6. Parent(r) = Parent(s)
    <3>1. n - 1 \notin Twice /\ n - 1 \in Nat
      BY <2>1, <2>2, <2>4
    <3> QED  BY <2>5, <3>1
  <2>7. r \in Children(F, Parent(r)) /\ s \in Children(F, Parent(r))
    BY <2>2, <2>4, <2>6 DEF Children
  <2>8. Cardinality(Children(F, Parent(r))) <= 1
    BY <2>5 DEF Unforked
  <2>9. IsFiniteSet(Children(F, Parent(r)))
    <3>1. Children(F, Parent(r)) \in SUBSET F
      BY DEF Children
    <3> QED  BY <3>1, FS_Subset
  <2> QED  BY <2>2, <2>7, <2>8, <2>9, AtMostOne
<1>2. \A r \in F : Len(r) \in Nat
  BY RevisionFacts DEF Revisions
<1> QED  BY <1>1, <1>2 DEF OneLine

\* And one line per memory, closed under parents, is what verification asks for.
LEMMA OneLineIsUnforked ==
    ASSUME NEW F, Revisions(F), ParentsPresent(F), OneLine(F)
    PROVE  Unforked(F)
<1>1. \A r, s \in F : Len(r) = 1 /\ Len(s) = 1 /\ Memory(r) = Memory(s) => r = s
  BY DEF OneLine
<1>2. ASSUME NEW r \in F PROVE Cardinality(Children(F, r)) <= 1
  <2>1. ASSUME NEW x \in Children(F, r) PROVE x \in F /\ Len(x) = Len(r) + 1 /\ Memory(x) = Memory(r)
    <3>1. x \in F /\ Len(x) > 1 /\ Parent(x) = r /\ IsRevision(x)
      BY DEF Children, Revisions
    <3>2. Len(x) \in Nat /\ Len(x) - 1 \in 1..Len(x)
      BY <3>1, RevisionFacts
    <3>3. Len(r) = Len(x) - 1 /\ Memory(r) = Memory(x)
      BY <3>1, <3>2, RevisionFacts DEF Parent
    <3> QED  BY <3>1, <3>2, <3>3
  <2>2. \A x, y \in Children(F, r) : x = y
    BY <2>1 DEF OneLine
  <2> QED  BY <2>2, AtMostOne
<1>3. ASSUME NEW r \in Heads(F), NEW s \in Heads(F), Memory(r) = Memory(s), Len(r) < Len(s) PROVE FALSE
  <2>1. r \in F /\ s \in F /\ IsRevision(r) /\ IsRevision(s)
    BY DEF Heads, Revisions
  <2>2. Len(r) \in Nat \ {0} /\ Len(s) \in Nat
    BY <2>1, RevisionFacts
  <2>3. PICK j : j = Len(r) + 1
    OBVIOUS
  <2>4. Len(r) \in 1..Len(s) /\ j \in 1..Len(s) /\ j > 1 /\ j - 1 = Len(r)
    BY <1>3, <2>2, <2>3
  <2>5. SubSeq(s, 1, Len(r)) \in F /\ SubSeq(s, 1, j) \in F
    BY <2>1, <2>4, PrefixesPresent
  <2>6. SubSeq(s, 1, Len(r)) = r
    <3>1. Len(SubSeq(s, 1, Len(r))) = Len(r) /\ Memory(SubSeq(s, 1, Len(r))) = Memory(r)
      BY <1>3, <2>1, <2>4, RevisionFacts
    <3> QED  BY <2>1, <2>5, <3>1 DEF OneLine
  <2>7. Len(SubSeq(s, 1, j)) = j /\ Parent(SubSeq(s, 1, j)) = r
    <3>1. Len(SubSeq(s, 1, j)) = j /\ Parent(SubSeq(s, 1, j)) = SubSeq(s, 1, j - 1)
      BY <2>1, <2>4, RevisionFacts
    <3>2. SubSeq(s, 1, j - 1) = SubSeq(s, 1, Len(r))
      BY <2>4
    <3> QED  BY <2>6, <3>1, <3>2
  <2>8. SubSeq(s, 1, j) \in Children(F, r)
    BY <2>4, <2>5, <2>7 DEF Children
  <2> QED  BY <2>8 DEF Heads
<1>4. \A r, s \in Heads(F) : Memory(r) = Memory(s) => r = s
  <2> TAKE r, s \in Heads(F)
  <2> HAVE Memory(r) = Memory(s)
  <2>1. r \in F /\ s \in F /\ Len(r) \in Nat /\ Len(s) \in Nat
    BY RevisionFacts DEF Heads, Revisions
  <2>2. Len(r) = Len(s)
    BY <1>3, <2>1
  <2> QED  BY <2>1, <2>2 DEF OneLine
<1> QED  BY <1>1, <1>2, <1>4 DEF Unforked

\* NextFile takes a revision that comes before all others: the order of Export is
\* total on the lines it writes.
LEMMA NextFileIsFirst ==
    ASSUME NEW todo, todo # {}, Revisions(todo), OneLine(todo)
    PROVE  /\ NextFile(todo) \in todo
           /\ \A s \in todo \ {NextFile(todo)} : Before(NextFile(todo), s)
<1>1. \A r \in todo : Len(r) \in Nat /\ RankOf[Memory(r)] \in Nat /\ r[1] \in Contents
  BY RevisionFacts DEF Revisions
<1> DEFINE Ranks == {RankOf[Memory(r)] : r \in todo}
<1>2. PICK m \in Ranks : \A n \in Ranks : m <= n
  <2>1. Ranks \in SUBSET Nat /\ Ranks # {}
    BY <1>1
  <2> QED  BY <2>1, LeastNumber
<1> DEFINE Lengths == {n \in Nat : \E r \in todo : Len(r) = n /\ RankOf[Memory(r)] = m}
<1>3. PICK n \in Lengths : \A k \in Lengths : n <= k
  <2>1. Lengths \in SUBSET Nat /\ Lengths # {}
    BY <1>1, <1>2
  <2> HIDE DEF Lengths
  <2> QED  BY <2>1, LeastNumber
<1>4. PICK r \in todo : Len(r) = n /\ RankOf[Memory(r)] = m
  BY <1>3
<1>5. \A s \in todo \ {r} : Before(r, s)
  <2> TAKE s \in todo \ {r}
  <2>1. m <= RankOf[Memory(s)] /\ m \in Nat /\ RankOf[Memory(s)] \in Nat
    BY <1>1, <1>2
  <2>2. CASE RankOf[Memory(s)] = m
    <3>1. Memory(r) = Memory(s)
      BY <1>1, <1>4, <2>2, RepositoryAssumption DEF Memory
    <3>2. n <= Len(s) /\ Len(s) # n /\ Len(s) \in Nat /\ n \in Nat
      BY <1>1, <1>3, <1>4, <2>2, <3>1 DEF OneLine
    <3> QED  BY <1>4, <3>1, <3>2 DEF Before
  <2>3. CASE RankOf[Memory(s)] # m
    BY <1>4, <2>1, <2>3 DEF Before
  <2> QED  BY <2>2, <2>3
<1> QED  BY <1>4, <1>5 DEF NextFile

\* The next file of an export has its parent in the repository.
LEMMA NextFileHasParent ==
    ASSUME NEW F, NEW todo, todo # {}, Revisions(F \cup todo), OneLine(F \cup todo),
           ParentsPresent(F \cup todo), ParentsPresent(F)
    PROVE  ParentsPresent(F \cup {NextFile(todo)})
<1>1. PICK r : r = NextFile(todo)
  OBVIOUS
<1>2. r \in todo /\ \A s \in todo \ {r} : Before(r, s)
  <2>1. Revisions(todo) /\ OneLine(todo)
    BY DEF Revisions, OneLine
  <2> QED  BY <1>1, <2>1, NextFileIsFirst
<1>3. Len(r) > 1 => Parent(r) \in F /\ Active(Parent(r))
  <2> SUFFICES ASSUME Len(r) > 1 PROVE Parent(r) \in F /\ Active(Parent(r))
    OBVIOUS
  <2>1. IsRevision(r) /\ Parent(r) \in F \cup todo /\ Active(Parent(r))
    BY <1>2 DEF Revisions, ParentsPresent
  <2>2. Len(r) \in Nat /\ Len(r) - 1 \in 1..Len(r) /\ RankOf[Memory(r)] \in Nat
    BY <2>1, RevisionFacts
  <2>3. Len(Parent(r)) = Len(r) - 1 /\ Memory(Parent(r)) = Memory(r)
    BY <2>1, <2>2, RevisionFacts DEF Parent
  <2>4. ~Before(r, Parent(r)) /\ Parent(r) # r
    BY <2>2, <2>3 DEF Before
  <2> QED  BY <1>2, <2>1, <2>4
<1> QED  BY <1>1, <1>3 DEF ParentsPresent

-----------------------------------------------------------------------------
\* The revisions of some histories, as files, are finitely many revisions.
LEMMA ProjectionFacts ==
    ASSUME NEW hs, Revisions(hs), IsFiniteSet(hs)
    PROVE  Revisions(Projections(hs)) /\ IsFiniteSet(Projections(hs))
<1>1. ASSUME NEW h \in hs PROVE Revisions(Projection(h)) /\ IsFiniteSet(Projection(h))
  <2>1. IsRevision(h) /\ Len(h) \in Nat \ {0}
    BY RevisionFacts DEF Revisions
  <2>2. Revisions(Projection(h))
    BY <2>1, RevisionFacts DEF Revisions, Projection
  <2>3. [i \in 1..Len(h) |-> SubSeq(h, 1, i)] \in Surjection(1..Len(h), Projection(h))
    BY DEF Projection, Surjection
  <2>4. IsFiniteSet(1..Len(h))
    BY <2>1, FS_Interval
  <2> QED  BY <2>2, <2>3, <2>4, FS_Surjection
<1>2. IsFiniteSet({Projection(h) : h \in hs})
  <2>1. [h \in hs |-> Projection(h)] \in Surjection(hs, {Projection(h) : h \in hs})
    BY DEF Surjection
  <2> QED  BY <2>1, FS_Surjection
<1>3. IsFiniteSet(Projections(hs))
  BY <1>1, <1>2, FS_UNION DEF Projections
<1> QED  BY <1>1, <1>3 DEF Projections, Revisions

\* Local decisions keep the histories well formed.
LEMMA GrownFacts ==
    ASSUME NEW hs, Revisions(hs), IsFiniteSet(hs), NEW gs \in Grown(hs)
    PROVE  Revisions(gs) /\ IsFiniteSet(gs)
<1>1. ASSUME NEW h \in hs, Active(h), NEW c \in Contents \cup {Revoked}
      PROVE  IsRevision(Append(h, c))
  <2> DEFINE T == Contents \cup {Revoked}
  <2>1. IsRevision(h) /\ Len(h) \in Nat \ {0} /\ h \in Seq(T)
    BY RevisionFacts DEF Revisions
  <2>2. /\ Append(h, c) \in Seq(T) /\ Len(Append(h, c)) = Len(h) + 1
        /\ \A i \in 1..Len(h) : Append(h, c)[i] = h[i]
        /\ Append(h, c)[Len(h) + 1] = c
    BY <2>1, AppendProperties
  <2>3. \A i \in 1..Len(h) : h[i] # Revoked
    BY <1>1, <2>1 DEF IsRevision, Active
  <2> HIDE DEF T
  <2>4. \A i \in 1..Len(Append(h, c)) : Append(h, c)[i] = Revoked => i > 1 /\ i = Len(Append(h, c))
    BY <2>1, <2>2, <2>3
  <2> QED  BY <2>1, <2>2, <2>4 DEF IsRevision, T
<1>2. ASSUME NEW c \in Contents PROVE IsRevision(<<c>>)
  <2>1. <<c>> \in Seq(Contents \cup {Revoked}) /\ Len(<<c>>) = 1 /\ <<c>>[1] = c
    OBVIOUS
  <2> QED  BY <2>1, HistoryAssumption DEF IsRevision
<1>3. ASSUME NEW h \in hs, NEW r, IsRevision(r), gs = (hs \ {h}) \cup {r}
      PROVE  Revisions(gs) /\ IsFiniteSet(gs)
  BY <1>3, FS_AddElement, FS_RemoveElement DEF Revisions
<1>4. CASE gs \in Promoted(hs)
  <2>1. PICK c \in Contents : gs = hs \cup {<<c>>}
    BY <1>4 DEF Promoted, Promotable
  <2> QED  BY <1>2, <2>1, FS_AddElement DEF Revisions
<1>5. CASE gs \in Superseded(hs)
  BY <1>1, <1>3, <1>5 DEF Superseded
<1>6. CASE gs \in Withdrawn(hs)
  BY <1>1, <1>3, <1>6 DEF Withdrawn
<1> QED  BY <1>4, <1>5, <1>6 DEF Grown

\* A consistent set of finitely many revisions is one line per memory.
LEMMA ConsistentLines ==
    ASSUME NEW F, Revisions(F), IsFiniteSet(F), Consistent(F)
    PROVE  ParentsPresent(F) /\ OneLine(F)
BY UnforkedIsOneLine DEF Consistent

-----------------------------------------------------------------------------
Holding == {"planning", "exporting", "selecting", "pinning", "resolving", "delivering"}

\* Who holds the lock: the process that is inside, or one that was killed there.
LockInv ==
    /\ lock \in Procs \cup {NoProc}
    /\ pc \in [Procs -> Holding \cup {"idle", "preflighted", "dead"}]
    /\ \A p \in Procs : pc[p] \in Holding => lock = p
    /\ \A p \in Procs : lock = p => pc[p] \in Holding \/ (pc[p] = "dead" /\ crashes # 0)

\* Temporary files belong to a process that writes, or that was killed writing.
TempsInv ==
    /\ crashes \in Nat /\ failures \in Nat
    /\ job = [p \in Procs |-> job[p]]
    /\ \A p \in temps :
          /\ p \in Procs
          /\ \/ pc[p] \in {"exporting", "pinning"} /\ job[p] # {}
             \/ pc[p] = "dead" /\ crashes # 0

\* The files are lines, together with those an export has yet to write.
FilesInv ==
    /\ Revisions(histories) /\ IsFiniteSet(histories)
    /\ Revisions(files) /\ IsFiniteSet(files) /\ ParentsPresent(files) /\ OneLine(files)
    /\ \A p \in Procs : pc[p] = "exporting" =>
          /\ Revisions(job[p]) /\ IsFiniteSet(job[p])
          /\ Consistent(files \cup job[p])

\* Loadouts pin revisions of the repository.
LoadoutsInv ==
    /\ \A l \in loadouts : Pinned(l, files)
    /\ \A p \in Procs : pc[p] = "pinning" => \A l \in job[p] : Pinned(l, files)

\* Nothing was interrupted, and nobody is in the middle of an export.
Undisturbed == crashes = 0 /\ failures = 0 /\ \A p \in Procs : pc[p] # "exporting"

RepositoryInv ==
    /\ LockInv
    /\ TempsInv
    /\ FilesInv
    /\ LoadoutsInv
    /\ Undisturbed => Consistent(files)
    /\ DeliveredLoadoutStaysCurrent

\* What the invariant is for.
LEMMA RepositoryInvImplies ==
    RepositoryInv => LinesStayWhole /\ UninterruptedWorkVerifies /\ DeliveredLoadoutStaysCurrent
<1> SUFFICES ASSUME RepositoryInv
             PROVE  LinesStayWhole /\ UninterruptedWorkVerifies /\ DeliveredLoadoutStaysCurrent
  OBVIOUS
<1>1. LinesStayWhole
  BY OneLineIsUnforked DEF RepositoryInv, FilesInv, LinesStayWhole
<1>2. UninterruptedWorkVerifies
  <2> SUFFICES ASSUME crashes = 0, failures = 0, lock = NoProc PROVE Verified
    BY DEF UninterruptedWorkVerifies
  <2>1. \A p \in Procs : pc[p] \notin Holding
    BY RepositoryAssumption DEF RepositoryInv, LockInv
  <2>2. temps = {}
    BY <2>1 DEF RepositoryInv, TempsInv, Holding
  <2>3. Consistent(files)
    BY <2>1 DEF RepositoryInv, Undisturbed, Holding
  <2> QED  BY <2>2, <2>3 DEF Verified, RepositoryInv, LoadoutsInv
<1> QED  BY <1>1, <1>2 DEF RepositoryInv

-----------------------------------------------------------------------------
\* A process without a temporary file goes on, takes the lock or leaves, and
\* nothing is written.
LEMMA ProcessMoves ==
    ASSUME RepositoryInv, NEW p \in Procs, NEW label, NEW j, p \notin temps, pc[p] # "dead",
           UNCHANGED <<histories, files, loadouts, temps, crashes, failures>>,
           pc' = [pc EXCEPT ![p] = label], job' = [job EXCEPT ![p] = j],
           \/ label \in Holding /\ lock \in {p, NoProc} /\ lock' = p
           \/ label \in {"idle", "preflighted"} /\ lock = p /\ lock' = NoProc
           \/ label \in {"idle", "preflighted"} /\ pc[p] \notin Holding /\ lock' = lock,
           pc[p] = "exporting" => job[p] = {},
           label = "exporting" => Revisions(j) /\ IsFiniteSet(j) /\ Consistent(files \cup j),
           label = "pinning" => \A l \in j : Pinned(l, files),
           label = "delivering" => \A l \in j : Current(l)
    PROVE  RepositoryInv'
<1>1. LockInv /\ TempsInv /\ FilesInv /\ LoadoutsInv
  BY DEF RepositoryInv
<1>2. \A q \in Procs : IF q = p THEN pc'[q] = label /\ job'[q] = j ELSE pc'[q] = pc[q] /\ job'[q] = job[q]
  BY <1>1 DEF LockInv, TempsInv
<1>3. LockInv'
  <2>1. pc' \in [Procs -> Holding \cup {"idle", "preflighted", "dead"}]
    BY <1>1 DEF LockInv
  <2>2. \A q \in Procs : q # p /\ pc[q] \in Holding => lock = q /\ lock # p /\ lock # NoProc
    BY <1>1, RepositoryAssumption DEF LockInv
  <2>3. \A q \in Procs : pc'[q] \in Holding => lock' = q
    BY <1>1, <1>2, <2>2 DEF LockInv, Holding
  <2>4. \A q \in Procs : lock' = q => pc'[q] \in Holding \/ (pc'[q] = "dead" /\ crashes' # 0)
    BY <1>1, <1>2, RepositoryAssumption DEF LockInv
  <2>5. lock' \in Procs \cup {NoProc}
    BY <1>1 DEF LockInv
  <2> QED  BY <2>1, <2>3, <2>4, <2>5 DEF LockInv
<1>4. TempsInv'
  <2>1. job' = [q \in Procs |-> job'[q]]
    BY <1>1 DEF TempsInv
  <2> QED  BY <1>1, <1>2, <2>1 DEF TempsInv
<1>5. FilesInv'
  BY <1>1, <1>2 DEF FilesInv
<1>6. LoadoutsInv'
  BY <1>1, <1>2 DEF LoadoutsInv
<1>7. Undisturbed' => Consistent(files)'
  <2> SUFFICES ASSUME Undisturbed' PROVE Consistent(files)
    OBVIOUS
  <2>1. CASE pc[p] = "exporting"
    <3>1. Consistent(files \cup {})
      BY <1>1, <2>1 DEF FilesInv
    <3>2. files \cup {} = files
      OBVIOUS
    <3> QED  BY <3>1, <3>2
  <2>2. CASE pc[p] # "exporting"
    BY <1>2, <2>2 DEF Undisturbed, RepositoryInv
  <2> QED  BY <2>1, <2>2
<1>8. DeliveredLoadoutStaysCurrent'
  BY <1>2 DEF DeliveredLoadoutStaysCurrent, Current, RepositoryInv
<1> QED  BY <1>3, <1>4, <1>5, <1>6, <1>7, <1>8 DEF RepositoryInv

\* The steps of a process that write nothing.
LEMMA QuietSteps ==
    ASSUME RepositoryInv, NEW p \in Procs,
           \/ BeginExport(p) \/ LockExport(p) \/ PlanExport(p) \/ FinishWriting(p) \/ LockLoadout(p)
           \/ BuildLoadout(p) \/ LeaseForRun(p) \/ ResolveDelivery(p) \/ FinishRun(p)
    PROVE  RepositoryInv'
<1>1. LockInv /\ TempsInv /\ FilesInv /\ LoadoutsInv
  BY DEF RepositoryInv
<1>2. UNCHANGED <<histories, files, loadouts, temps, crashes, failures>>
  BY DEF BeginExport, LockExport, PlanExport, FinishWriting, LockLoadout, BuildLoadout, LeaseForRun,
         ResolveDelivery, FinishRun, localVars, treeVars, faultVars
<1>3. job' = job => job' = [job EXCEPT ![p] = job[p]]
  BY <1>1 DEF TempsInv
<1>4. pc[p] # "dead" /\ p \notin temps /\ (pc[p] = "exporting" => job[p] = {})
  <2>1. pc[p] # "dead" /\ (pc[p] \in {"exporting", "pinning"} => job[p] = {})
    BY DEF BeginExport, LockExport, PlanExport, FinishWriting, LockLoadout, BuildLoadout, LeaseForRun,
           ResolveDelivery, FinishRun
  <2> QED  BY <1>1, <2>1 DEF TempsInv
<1>5. CASE BeginExport(p)
  BY <1>2, <1>3, <1>4, <1>5, ProcessMoves DEF BeginExport, Goto, Holding
<1>6. CASE LockExport(p)
  <2>1. pc[p] \notin Holding
    BY <1>6 DEF LockExport, Holding
  <2> QED  BY <1>2, <1>3, <1>4, <1>6, <2>1, ProcessMoves DEF LockExport, Goto, AcquireRepositoryLock, Holding
<1>7. CASE PlanExport(p)
  <2>1. pc[p] = "planning" /\ lock = p
    BY <1>1, <1>7 DEF PlanExport, LockInv, Holding
  <2>2. PICK selected \in SUBSET histories :
           \/ /\ Consistent(files \cup Projections(selected))
              /\ job' = [job EXCEPT ![p] = Projections(selected) \ files]
              /\ Goto(p, "exporting")
              /\ UNCHANGED lock
           \/ Leave(p)
    BY <1>7 DEF PlanExport, Plannable
  <2>3. CASE Leave(p)
    BY <1>2, <1>4, <2>1, <2>3, ProcessMoves DEF Leave, Goto
  <2>4. CASE /\ Consistent(files \cup Projections(selected))
             /\ job' = [job EXCEPT ![p] = Projections(selected) \ files]
             /\ Goto(p, "exporting")
             /\ UNCHANGED lock
    <3>1. PICK j : j = Projections(selected) \ files
      OBVIOUS
    <3>2. Revisions(selected) /\ IsFiniteSet(selected)
      BY <1>1, FS_Subset DEF FilesInv, Revisions
    <3>3. Revisions(j) /\ IsFiniteSet(j)
      BY <3>1, <3>2, ProjectionFacts, FS_Difference DEF Revisions
    <3>4. files \cup j = files \cup Projections(selected)
      BY <3>1
    <3>5. Consistent(files \cup j)
      BY <2>4, <3>4
    <3>6. "exporting" \in Holding /\ lock' = p /\ job' = [job EXCEPT ![p] = j]
      BY <2>1, <2>4, <3>1 DEF Holding
    <3> QED  BY <1>2, <1>4, <2>1, <2>4, <3>3, <3>5, <3>6, ProcessMoves DEF Goto
  <2> QED  BY <2>2, <2>3, <2>4
<1>8. CASE FinishWriting(p)
  <2>1. lock = p
    BY <1>1, <1>8 DEF FinishWriting, LockInv, Holding
  <2> QED  BY <1>2, <1>4, <1>8, <2>1, ProcessMoves DEF FinishWriting, Leave, Goto
<1>9. CASE LockLoadout(p)
  BY <1>2, <1>3, <1>4, <1>9, ProcessMoves DEF LockLoadout, AcquireRepositoryLock, Goto, Holding
<1>10. CASE BuildLoadout(p)
  <2>1. lock = p
    BY <1>1, <1>10 DEF BuildLoadout, LockInv, Holding
  <2>2. CASE Leave(p)
    BY <1>2, <1>4, <2>1, <2>2, ProcessMoves DEF Leave, Goto
  <2>3. ASSUME NEW l \in SUBSET ActiveHeads(files), l # {}, job' = [job EXCEPT ![p] = {l}], Goto(p, "pinning"), UNCHANGED lock
        PROVE  RepositoryInv'
    <3>1. Pinned(l, files)
      BY <2>3 DEF Pinned, ActiveHeads, Heads
    <3> QED  BY <1>2, <1>4, <2>1, <2>3, <3>1, ProcessMoves DEF Goto, Holding
  <2> QED  BY <1>10, <2>2, <2>3 DEF BuildLoadout
<1>11. CASE LeaseForRun(p)
  BY <1>2, <1>3, <1>4, <1>11, ProcessMoves DEF LeaseForRun, AcquireRepositoryLock, Goto, Holding
<1>12. CASE ResolveDelivery(p)
  <2>1. lock = p
    BY <1>1, <1>12 DEF ResolveDelivery, LockInv, Holding
  <2>2. CASE Leave(p)
    BY <1>2, <1>4, <2>1, <2>2, ProcessMoves DEF Leave, Goto
  <2>3. ASSUME NEW l, Current(l), job' = [job EXCEPT ![p] = {l}], Goto(p, "delivering"), UNCHANGED lock
        PROVE  RepositoryInv'
    BY <1>2, <1>4, <2>1, <2>3, ProcessMoves DEF Goto, Holding
  <2> QED  BY <1>12, <2>2, <2>3 DEF ResolveDelivery
<1>13. CASE FinishRun(p)
  <2>1. lock = p
    BY <1>1, <1>13 DEF FinishRun, LockInv, Holding
  <2> QED  BY <1>2, <1>4, <1>13, <2>1, ProcessMoves DEF FinishRun, Leave, Goto
<1> QED  BY <1>5, <1>6, <1>7, <1>8, <1>9, <1>10, <1>11, <1>12, <1>13

\* Export publishes one more revision: the parent of each before the revision.
LEMMA RevisionPublished ==
    ASSUME RepositoryInv, NEW p \in Procs, PublishRevision(p)
    PROVE  RepositoryInv'
<1>1. LockInv /\ TempsInv /\ FilesInv /\ LoadoutsInv
  BY DEF RepositoryInv
<1>2. /\ pc[p] = "exporting" /\ p \in temps /\ job[p] # {} /\ lock = p
      /\ UNCHANGED <<histories, loadouts, lock, pc, crashes, failures>> /\ temps' = temps \ {p}
  BY <1>1 DEF PublishRevision, TempsInv, LockInv, Holding, localVars, faultVars
<1>3. PICK todo, r : todo = job[p] /\ r = NextFile(job[p])
  OBVIOUS
<1>4. files' = files \cup {r} /\ job' = [job EXCEPT ![p] = todo \ {r}]
  BY <1>3 DEF PublishRevision
<1>5. \A q \in Procs : pc[q] \in Holding => q = p
  BY <1>1, <1>2 DEF LockInv
<1>6. /\ todo # {} /\ Revisions(todo) /\ IsFiniteSet(todo) /\ Consistent(files \cup todo)
      /\ Revisions(files) /\ IsFiniteSet(files) /\ ParentsPresent(files) /\ OneLine(files)
  BY <1>1, <1>2, <1>3 DEF FilesInv
<1>7. Revisions(files \cup todo) /\ ParentsPresent(files \cup todo) /\ OneLine(files \cup todo)
  <2>1. Revisions(files \cup todo) /\ IsFiniteSet(files \cup todo)
    BY <1>6, FS_Union DEF Revisions
  <2> QED  BY <1>6, <2>1, ConsistentLines
<1>8. r \in todo
  <2>1. OneLine(todo)
    BY <1>7 DEF OneLine
  <2> QED  BY <1>3, <1>6, <2>1, NextFileIsFirst
<1>9. ParentsPresent(files')
  BY <1>3, <1>4, <1>6, <1>7, NextFileHasParent
<1>10. Revisions(files') /\ IsFiniteSet(files') /\ OneLine(files')
  <2>1. files' \subseteq files \cup todo
    BY <1>4, <1>8
  <2> QED  BY <1>4, <1>6, <1>7, <2>1, FS_AddElement DEF Revisions, OneLine
<1>11. job'[p] = todo \ {r} /\ job' = [q \in Procs |-> job'[q]] /\ \A q \in Procs \ {p} : job'[q] = job[q]
  BY <1>1, <1>4 DEF TempsInv
<1>12. LockInv'
  BY <1>1, <1>2 DEF LockInv
<1>13. TempsInv'
  BY <1>1, <1>2, <1>11 DEF TempsInv
<1>14. FilesInv'
  <2>1. files' \cup job'[p] = files \cup todo
    BY <1>4, <1>8, <1>11
  <2>2. Consistent(files' \cup job'[p]) /\ Revisions(job'[p]) /\ IsFiniteSet(job'[p])
    <3>1. job'[p] \in SUBSET todo
      BY <1>11
    <3> QED  BY <1>6, <2>1, <3>1, FS_Subset DEF Revisions
  <2>3. \A q \in Procs : pc'[q] = "exporting" => q = p
    BY <1>2, <1>5 DEF Holding
  <2>4. /\ Revisions(histories') /\ IsFiniteSet(histories')
        /\ Revisions(files') /\ IsFiniteSet(files') /\ ParentsPresent(files') /\ OneLine(files')
    BY <1>1, <1>2, <1>9, <1>10 DEF FilesInv
  <2> QED  BY <2>2, <2>3, <2>4 DEF FilesInv
<1>15. LoadoutsInv'
  BY <1>1, <1>2, <1>4, <1>5 DEF LoadoutsInv, Pinned, Holding
<1>16. ~Undisturbed' /\ DeliveredLoadoutStaysCurrent'
  BY <1>2, <1>5 DEF Undisturbed, DeliveredLoadoutStaysCurrent, Holding
<1> QED  BY <1>12, <1>13, <1>14, <1>15, <1>16 DEF RepositoryInv

\* The other steps of a process that writes, and of one that is killed.
LEMMA WritingSteps ==
    ASSUME RepositoryInv, NEW p \in Procs,
           CreateTemp(p) \/ WriteFails(p) \/ PublishLoadout(p) \/ Die(p) \/ RemoveStaleLock(p)
    PROVE  RepositoryInv'
<1>1. LockInv /\ TempsInv /\ FilesInv /\ LoadoutsInv
  BY DEF RepositoryInv
<1> USE DEF localVars, treeVars, faultVars, Goto
<1>2. CASE CreateTemp(p)
  <2>1. /\ UNCHANGED <<histories, files, loadouts, lock, pc, job, crashes, failures>> /\ temps' = temps \cup {p}
        /\ pc[p] \in {"exporting", "pinning"} /\ job[p] # {}
    BY <1>2 DEF CreateTemp
  <2>2. LockInv' /\ FilesInv' /\ LoadoutsInv'
    BY <1>1, <2>1 DEF LockInv, FilesInv, LoadoutsInv
  <2>3. TempsInv'
    BY <1>1, <2>1 DEF TempsInv
  <2> QED  BY <2>1, <2>2, <2>3 DEF RepositoryInv, Undisturbed, DeliveredLoadoutStaysCurrent, Current
<1>3. CASE WriteFails(p)
  <2>1. /\ UNCHANGED <<histories, files, loadouts, crashes>> /\ temps' = temps \ {p} /\ failures' = failures + 1
        /\ lock' = NoProc /\ pc' = [pc EXCEPT ![p] = "idle"] /\ job' = [job EXCEPT ![p] = {}]
    BY <1>3 DEF WriteFails, Leave
  <2>2. lock = p /\ failures' # 0 /\ failures' \in Nat
    BY <1>1, <1>3, <2>1 DEF WriteFails, TempsInv, LockInv, Holding
  <2>3. \A q \in Procs : IF q = p THEN pc'[q] = "idle" /\ job'[q] = {} ELSE pc'[q] = pc[q] /\ job'[q] = job[q]
    BY <1>1, <2>1 DEF LockInv, TempsInv
  <2>4. LockInv'
    BY <1>1, <2>1, <2>2, <2>3, RepositoryAssumption DEF LockInv, Holding
  <2>5. TempsInv'
    <3>1. job' = [q \in Procs |-> job'[q]]
      BY <1>1, <2>1 DEF TempsInv
    <3> QED  BY <1>1, <2>1, <2>2, <2>3, <3>1 DEF TempsInv
  <2>6. FilesInv' /\ LoadoutsInv'
    BY <1>1, <2>1, <2>3 DEF FilesInv, LoadoutsInv
  <2>7. ~Undisturbed'
    BY <2>2 DEF Undisturbed
  <2>8. DeliveredLoadoutStaysCurrent'
    BY <2>1, <2>3 DEF DeliveredLoadoutStaysCurrent, Current, RepositoryInv
  <2> QED  BY <2>4, <2>5, <2>6, <2>7, <2>8 DEF RepositoryInv
<1>4. CASE PublishLoadout(p)
  <2>1. /\ UNCHANGED <<histories, files, lock, pc, crashes, failures>> /\ temps' = temps \ {p}
        /\ loadouts' = loadouts \cup job[p] /\ job' = [job EXCEPT ![p] = {}] /\ pc[p] = "pinning"
    BY <1>4 DEF PublishLoadout
  <2>2. \A q \in Procs : IF q = p THEN job'[q] = {} ELSE job'[q] = job[q]
    BY <1>1, <2>1 DEF TempsInv
  <2>3. LockInv' /\ FilesInv'
    BY <1>1, <2>1, <2>2 DEF LockInv, FilesInv
  <2>4. TempsInv'
    <3>1. job' = [q \in Procs |-> job'[q]]
      BY <1>1, <2>1 DEF TempsInv
    <3> QED  BY <1>1, <2>1, <2>2, <3>1 DEF TempsInv
  <2>5. LoadoutsInv'
    BY <1>1, <2>1, <2>2 DEF LoadoutsInv
  <2>6. DeliveredLoadoutStaysCurrent'
    BY <2>1, <2>2 DEF DeliveredLoadoutStaysCurrent, Current, RepositoryInv
  <2> QED  BY <2>1, <2>3, <2>4, <2>5, <2>6 DEF RepositoryInv, Undisturbed
<1>5. CASE Die(p)
  <2>1. /\ UNCHANGED <<histories, files, loadouts, temps, lock, failures>> /\ crashes' = crashes + 1
        /\ pc' = [pc EXCEPT ![p] = "dead"] /\ job' = [job EXCEPT ![p] = {}]
    BY <1>5 DEF Die
  <2>2. crashes' # 0 /\ crashes' \in Nat
    BY <1>1, <2>1 DEF TempsInv
  <2>3. \A q \in Procs : IF q = p THEN pc'[q] = "dead" /\ job'[q] = {} ELSE pc'[q] = pc[q] /\ job'[q] = job[q]
    BY <1>1, <2>1 DEF LockInv, TempsInv
  <2>4. LockInv'
    BY <1>1, <2>1, <2>2, <2>3 DEF LockInv, Holding
  <2>5. TempsInv'
    <3>1. job' = [q \in Procs |-> job'[q]]
      BY <1>1, <2>1 DEF TempsInv
    <3> QED  BY <1>1, <2>1, <2>2, <2>3, <3>1 DEF TempsInv
  <2>6. FilesInv' /\ LoadoutsInv'
    BY <1>1, <2>1, <2>3 DEF FilesInv, LoadoutsInv
  <2>7. ~Undisturbed'
    BY <2>2 DEF Undisturbed
  <2>8. DeliveredLoadoutStaysCurrent'
    BY <2>1, <2>3 DEF DeliveredLoadoutStaysCurrent, Current, RepositoryInv
  <2> QED  BY <2>4, <2>5, <2>6, <2>7, <2>8 DEF RepositoryInv
<1>6. CASE RemoveStaleLock(p)
  <2>1. /\ UNCHANGED <<histories, files, loadouts, temps, pc, job, crashes, failures>>
        /\ pc[p] = "dead" /\ lock = p /\ lock' = NoProc
    BY <1>6 DEF RemoveStaleLock
  <2>2. LockInv'
    BY <1>1, <2>1, RepositoryAssumption DEF LockInv, Holding
  <2>3. TempsInv' /\ FilesInv' /\ LoadoutsInv'
    BY <1>1, <2>1 DEF TempsInv, FilesInv, LoadoutsInv
  <2> QED  BY <2>1, <2>2, <2>3 DEF RepositoryInv, Undisturbed, DeliveredLoadoutStaysCurrent, Current
<1> QED  BY <1>2, <1>3, <1>4, <1>5, <1>6

\* Every step of the processes and of the device keeps the invariant.
LEMMA RepositoryNextInv == RepositoryInv /\ [RepositoryNext]_repositoryVars => RepositoryInv'
<1> SUFFICES ASSUME RepositoryInv, [RepositoryNext]_repositoryVars PROVE RepositoryInv'
  OBVIOUS
<1>1. LockInv /\ TempsInv /\ FilesInv /\ LoadoutsInv
  BY DEF RepositoryInv
<1>2. CASE /\ UNCHANGED <<files, loadouts, temps, lock, pc, job, crashes, failures>>
           /\ Revisions(histories') /\ IsFiniteSet(histories')
  <2>1. LockInv' /\ TempsInv' /\ FilesInv' /\ LoadoutsInv'
    BY <1>1, <1>2 DEF LockInv, TempsInv, FilesInv, LoadoutsInv
  <2> QED  BY <1>2, <2>1 DEF RepositoryInv, Undisturbed, DeliveredLoadoutStaysCurrent, Current
<1>3. CASE DecideLocally
  BY <1>1, <1>2, <1>3, GrownFacts DEF DecideLocally, FilesInv, treeVars, faultVars
<1>4. CASE ReviewAgain \/ UNCHANGED repositoryVars
  BY <1>1, <1>2, <1>4 DEF ReviewAgain, FilesInv, treeVars, faultVars, repositoryVars
<1> QED  BY <1>3, <1>4, QuietSteps, RevisionPublished, WritingSteps DEF RepositoryNext

\* An empty repository.
LEMMA RepositoryInitInv == RepositoryInit => RepositoryInv
<1> SUFFICES ASSUME RepositoryInit PROVE RepositoryInv
  OBVIOUS
<1>1. LockInv /\ TempsInv /\ LoadoutsInv
  BY RepositoryAssumption DEF RepositoryInit, LockInv, TempsInv, LoadoutsInv, Holding
<1>2. FilesInv
  BY FS_EmptySet DEF RepositoryInit, FilesInv, Revisions, ParentsPresent, OneLine
<1>3. Consistent({})
  BY DEF Consistent, ParentsPresent, Unforked, Unambiguous, Heads, ActiveHeads
<1> QED  BY <1>1, <1>2, <1>3 DEF RepositoryInit, RepositoryInv, DeliveredLoadoutStaysCurrent

\* A repository into which the histories of a scenario have been exported.
LEMMA DeliveryInitInv == DeliveryInit => RepositoryInv
<1> SUFFICES ASSUME DeliveryInit PROVE RepositoryInv
  OBVIOUS
<1>1. /\ IsFiniteSet(histories) /\ Revisions(histories) /\ Consistent(files)
      /\ \A l \in loadouts : l # {} /\ l \subseteq ActiveHeads(files)
      /\ crashes \in Nat /\ failures \in Nat
  BY ScenarioAssumption, RepositoryAssumption DEF DeliveryInit, Revisions
<1>2. Revisions(files) /\ IsFiniteSet(files)
  BY <1>1, ProjectionFacts DEF DeliveryInit
<1>3. \A p \in Procs : pc[p] \in {"idle", "dead"}
  BY DEF DeliveryInit
<1>4. FilesInv
  BY <1>1, <1>2, <1>3, ConsistentLines DEF FilesInv
<1>5. LockInv /\ TempsInv
  BY <1>1, RepositoryAssumption DEF DeliveryInit, LockInv, TempsInv, Holding
<1>6. LoadoutsInv
  BY <1>1, <1>3 DEF LoadoutsInv, Pinned, ActiveHeads, Heads
<1> QED  BY <1>1, <1>3, <1>4, <1>5, <1>6 DEF RepositoryInv, DeliveredLoadoutStaysCurrent

\* A step of the readers, of the agents or of the repository is one of the
\* repository or leaves it alone.
LEMMA DeliveryRefinesRepository ==
    [DeliveryNext]_<<repositoryVars, deliveryVars>> => [RepositoryNext]_repositoryVars
BY DEF DeliveryNext, Ask, Process, BuildContext, LoadActiveRevisions, AppendRetrieval, AppendInjection,
       AppendReceipt, AppendFails, AppendGap, Vanish, RecordAdoption, Work

\* The invariant, of a repository built from nothing and of one that is searched
\* while exports go on.
THEOREM RepositoryInvariant == (RepositorySpec => []RepositoryInv) /\ (DeliverySpec => []RepositoryInv)
<1>1. RepositorySpec => []RepositoryInv
  BY RepositoryInitInv, RepositoryNextInv, PTL DEF RepositorySpec
<1>2. DeliverySpec => []RepositoryInv
  BY DeliveryInitInv, RepositoryNextInv, DeliveryRefinesRepository, PTL DEF DeliverySpec
<1> QED  BY <1>1, <1>2

\* Whatever is interrupted, killed or fails, every memory in the repository is one
\* unforked line that holds the parent of each revision (export.go, planned).
THEOREM RepositoryLinesStayWhole ==
    (RepositorySpec => []LinesStayWhole) /\ (DeliverySpec => []LinesStayWhole)
<1>1. RepositoryInv => LinesStayWhole
  BY RepositoryInvImplies
<1> QED  BY <1>1, RepositoryInvariant, PTL

\* Without a crash or a failed write the repository verifies whenever its lock is
\* free (Export validates the combined state before it writes).
THEOREM RepositoryVerifies ==
    (RepositorySpec => []UninterruptedWorkVerifies) /\ (DeliverySpec => []UninterruptedWorkVerifies)
<1>1. RepositoryInv => UninterruptedWorkVerifies
  BY RepositoryInvImplies
<1> QED  BY <1>1, RepositoryInvariant, PTL

\* A loadout in delivery pins the exact active heads until the agent has finished
\* (AcquireRepositoryUseLease).
THEOREM RepositoryLoadoutStaysCurrent ==
    (RepositorySpec => []DeliveredLoadoutStaysCurrent) /\ (DeliverySpec => []DeliveredLoadoutStaysCurrent)
<1>1. RepositoryInv => DeliveredLoadoutStaysCurrent
  BY RepositoryInvImplies
<1> QED  BY <1>1, RepositoryInvariant, PTL

-----------------------------------------------------------------------------
\* A fold over a set, as a function on its subsets: pick chooses the element that
\* is applied last.
IsFold(it, S, base, pick, step) ==
    it = [s \in SUBSET S |-> IF s = {} THEN base ELSE step[pick[s]][it[s \ {pick[s]}]]]

\* The sets of a finite set with at most k elements.
UpTo(S, k) == {s \in SUBSET S : Cardinality(s) <= k}

\* A fold over a finite set exists when its step stays in a set.
LEMMA FoldExists ==
    ASSUME NEW S, IsFiniteSet(S), NEW D, NEW base \in D, NEW pick, NEW step \in [S -> [D -> D]],
           \A s \in SUBSET S : s # {} => pick[s] \in s
    PROVE  \E it \in [SUBSET S -> D] : IsFold(it, S, base, pick, step)
<1> DEFINE T(f, s) == IF s = {} THEN base ELSE step[pick[s]][f[s \ {pick[s]}]]
           Exists(k) == \E f \in [UpTo(S, k) -> D] : \A s \in UpTo(S, k) : f[s] = T(f, s)
           Missing == {k \in Nat : ~Exists(k)}
<1>1. ASSUME NEW s \in SUBSET S PROVE IsFiniteSet(s) /\ Cardinality(s) \in Nat /\ (Cardinality(s) = 0 <=> s = {})
  BY FS_Subset, FS_CardinalityType, FS_EmptySet
<1>2. ASSUME NEW s \in SUBSET S, s # {}
      PROVE  /\ pick[s] \in S /\ s \ {pick[s]} \in SUBSET S
             /\ Cardinality(s \ {pick[s]}) = Cardinality(s) - 1
  BY <1>1, <1>2, FS_RemoveElement
<1>3. Missing = {}
  <2> SUFFICES ASSUME Missing # {} PROVE FALSE
    OBVIOUS
  <2>1. PICK k \in Missing : \A j \in Missing : k <= j
    <3>1. Missing \in SUBSET Nat
      OBVIOUS
    <3> HIDE DEF Missing
    <3> QED  BY <3>1, LeastNumber
  <2>2. k \in Nat /\ ~Exists(k)
    BY <2>1
  <2>3. k # 0
    <3> DEFINE f == [s \in UpTo(S, 0) |-> base]
    <3>1. \A s \in UpTo(S, 0) : s = {}
      BY <1>1 DEF UpTo
    <3>2. f \in [UpTo(S, 0) -> D] /\ \A s \in UpTo(S, 0) : f[s] = T(f, s)
      BY <3>1
    <3>3. Exists(0)
      BY <3>2
    <3> HIDE DEF Exists
    <3> QED  BY <2>2, <3>3
  <2>4. Exists(k - 1)
    <3>1. k - 1 \in Nat /\ k - 1 < k
      BY <2>2, <2>3
    <3> HIDE DEF Exists
    <3>2. k - 1 \notin Missing
      BY <2>1, <2>2, <3>1
    <3> QED  BY <3>1, <3>2
  <2>5. PICK f \in [UpTo(S, k - 1) -> D] : \A s \in UpTo(S, k - 1) : f[s] = T(f, s)
    BY <2>4
  <2> DEFINE g == [s \in UpTo(S, k) |-> T(f, s)]
  <2>6. ASSUME NEW s \in UpTo(S, k), s # {}
        PROVE  s \ {pick[s]} \in UpTo(S, k - 1) /\ pick[s] \in S
    BY <1>1, <1>2, <2>2, <2>6 DEF UpTo
  <2>7. ASSUME NEW s \in UpTo(S, k) PROVE T(f, s) \in D
    <3>1. CASE s = {}
      BY <3>1
    <3>2. CASE s # {}
      <4>1. f[s \ {pick[s]}] \in D /\ step[pick[s]] \in [D -> D]
        BY <2>6, <3>2
      <4> QED  BY <3>2, <4>1
    <3> QED  BY <3>1, <3>2
  <2>8. g \in [UpTo(S, k) -> D]
    <3> HIDE DEF T
    <3> QED  BY <2>7
  <2>9. ASSUME NEW s \in UpTo(S, k - 1) PROVE g[s] = f[s]
    <3>1. s \in UpTo(S, k)
      BY <1>1, <2>2 DEF UpTo
    <3> HIDE DEF T
    <3> QED  BY <2>5, <3>1
  <2>10. ASSUME NEW s \in UpTo(S, k) PROVE g[s] = T(g, s)
    <3>1. g[s] = T(f, s)
      OBVIOUS
    <3> HIDE DEF g
    <3>2. CASE s = {}
      BY <3>1, <3>2
    <3>3. CASE s # {}
      <4>1. g[s \ {pick[s]}] = f[s \ {pick[s]}]
        BY <2>6, <2>9, <3>3
      <4> QED  BY <3>1, <3>3, <4>1
    <3> QED  BY <3>2, <3>3
  <2> HIDE DEF g, T
  <2> QED  BY <2>2, <2>8, <2>10
<1>4. Cardinality(S) \in Nat /\ UpTo(S, Cardinality(S)) = SUBSET S
  <2>1. \A s \in SUBSET S : Cardinality(s) <= Cardinality(S)
    BY FS_Subset
  <2> QED  BY <1>1, <2>1 DEF UpTo
<1>5. PICK f \in [SUBSET S -> D] : \A s \in SUBSET S : f[s] = T(f, s)
  <2>1. Exists(Cardinality(S))
    <3> HIDE DEF Exists
    <3> QED  BY <1>3, <1>4
  <2> QED  BY <1>4, <2>1
<1>6. f = [s \in SUBSET S |-> T(f, s)]
  <2> HIDE DEF T
  <2> QED  BY <1>5
<1> QED  BY <1>6 DEF IsFold

\* The greatest of a set of numbers.
LEMMA MaxIn ==
    ASSUME NEW n \in Nat, NEW s \in SUBSET (1..n), s # {}
    PROVE  Max(s) \in s /\ \A x \in s : x <= Max(s)
<1> DEFINE B == {b \in Nat : \A x \in s : x <= b}
<1>1. n \in B /\ B \in SUBSET Nat
  OBVIOUS
<1>2. PICK b \in B : \A c \in B : b <= c
  <2> HIDE DEF B
  <2> QED  BY <1>1, LeastNumber
<1>3. b \in s
  <2> SUFFICES ASSUME b \notin s PROVE FALSE
    OBVIOUS
  <2>1. \A x \in s : x \in Nat /\ x > 0 /\ x <= b /\ x # b
    BY <1>2
  <2>2. b \in Nat /\ b # 0
    <3>1. PICK x : x \in s
      OBVIOUS
    <3> QED  BY <1>2, <2>1, <3>1
  <2>3. b - 1 \in B
    BY <1>2, <2>1, <2>2
  <2> QED  BY <1>2, <2>2, <2>3
<1>4. \A y \in s : b >= y
  BY <1>2
<1>5. PICK x : x = CHOOSE c \in s : \A y \in s : c >= y
  OBVIOUS
<1>6. x \in s /\ \A y \in s : x >= y
  BY <1>3, <1>4, <1>5
<1> QED  BY <1>5, <1>6 DEF Max

\* The places of a list, from the last.
LEMMA LastPlace ==
    ASSUME NEW n \in Nat
    PROVE  /\ \A s \in SUBSET (1..n) : s # {} => [t \in SUBSET (1..n) |-> Max(t)][s] \in s
           /\ \A k \in 1..n : 1..k \in SUBSET (1..n) /\ 1..k # {} /\ Max(1..k) = k /\ (1..k) \ {k} = 1..(k - 1)
           /\ 1..0 = {} /\ IsFiniteSet(1..n)
<1>1. \A s \in SUBSET (1..n) : s # {} => [t \in SUBSET (1..n) |-> Max(t)][s] \in s
  BY MaxIn
<1>2. ASSUME NEW k \in 1..n
      PROVE  1..k \in SUBSET (1..n) /\ 1..k # {} /\ Max(1..k) = k /\ (1..k) \ {k} = 1..(k - 1)
  <2>1. 1..k \in SUBSET (1..n) /\ k \in 1..k
    OBVIOUS
  <2>2. Max(1..k) \in 1..k /\ k <= Max(1..k)
    BY <2>1, MaxIn
  <2> QED  BY <2>1, <2>2
<1>3. 1..0 = {} /\ IsFiniteSet(1..n)
  BY FS_Interval
<1> QED  BY <1>1, <1>2, <1>3
\* What holds at the start and from each place to the next holds at every place.
LEMMA CountTo ==
    ASSUME NEW n \in Nat, NEW D, 0 \in D, \A k \in 1..n : k - 1 \in D => k \in D
    PROVE  0..n \subseteq D
<1> DEFINE Out == {k \in 0..n : k \notin D}
<1> SUFFICES ASSUME Out # {} PROVE FALSE
  OBVIOUS
<1>1. PICK k \in Out : \A j \in Out : k <= j
  <2>1. Out \in SUBSET Nat
    OBVIOUS
  <2> HIDE DEF Out
  <2> QED  BY <2>1, LeastNumber
<1>2. k \in 1..n /\ k - 1 \in 0..n /\ k - 1 < k
  BY <1>1
<1>3. k - 1 \in D
  BY <1>1, <1>2
<1> QED  BY <1>1, <1>2, <1>3

\* A fold over a list of n elements, and its values from place to place.
IsListFold(it, n, base, step) ==
    it = [s \in SUBSET (1..n) |-> IF s = {} THEN base ELSE step[Max(s)][it[s \ {Max(s)}]]]

AreValues(g, n, base, step) == g[0] = base /\ \A k \in 1..n : g[k] = step[k][g[k - 1]]

\* A fold over a list exists when its step stays in a set.
LEMMA ListFoldExists ==
    ASSUME NEW n \in Nat, NEW D, NEW base \in D, NEW step \in [1..n -> [D -> D]]
    PROVE  \E it \in [SUBSET (1..n) -> D] : IsListFold(it, n, base, step)
<1> DEFINE pick == [t \in SUBSET (1..n) |-> Max(t)]
<1>1. PICK S : S = 1..n
  OBVIOUS
<1>2. IsFiniteSet(S) /\ \A s \in SUBSET S : s # {} => pick[s] \in s /\ pick[s] = Max(s)
  BY <1>1, LastPlace
<1> HIDE DEF pick
<1>3. PICK it \in [SUBSET S -> D] : IsFold(it, S, base, pick, step)
  BY <1>1, <1>2, FoldExists
<1>4. it = [s \in SUBSET S |-> IF s = {} THEN base ELSE step[Max(s)][it[s \ {Max(s)}]]]
  BY <1>2, <1>3 DEF IsFold
<1> QED  BY <1>1, <1>4 DEF IsListFold

\* The values of a fold, place by place.
LEMMA ListFoldValues ==
    ASSUME NEW n \in Nat, NEW D, NEW base \in D, NEW f, NEW step \in [1..n -> [D -> D]],
           f[{}] = base,
           \A k \in 1..n : f[1..(k - 1)] \in D => f[1..k] = step[k][f[1..(k - 1)]]
    PROVE  \E g \in [0..n -> D] : g[n] = f[1..n] /\ AreValues(g, n, base, step)
<1> DEFINE Good == {k \in 0..n : f[1..k] \in D}
<1>1. 0 \in Good
  BY LastPlace
<1>2. \A k \in 1..n : k - 1 \in Good => k \in Good
  OBVIOUS
<1> HIDE DEF Good
<1>3. 0..n \subseteq Good
  BY <1>1, <1>2, CountTo
<1>4. \A k \in 0..n : f[1..k] \in D
  BY <1>3 DEF Good
<1> DEFINE g == [k \in 0..n |-> f[1..k]]
<1>5. g \in [0..n -> D] /\ g[0] = base /\ g[n] = f[1..n]
  BY <1>4, LastPlace
<1>6. \A k \in 1..n : g[k] = step[k][g[k - 1]]
  BY <1>4
<1> HIDE DEF g
<1> QED  BY <1>5, <1>6 DEF AreValues

\* What the texts of a list of matches take.
LEMMA UsedFold ==
    ASSUME NEW sel, NEW n \in Nat, DOMAIN sel = 1..n, \A i \in 1..n : sel[i].size \in Sizes
    PROVE  \E g \in [0..n -> Sizes] :
              /\ Used(sel) = g[n] /\ g[0] = ZeroSize
              /\ \A k \in 1..n : g[k] = Plus(g[k - 1], sel[k].size)
<1> DEFINE step == [k \in 1..n |-> [d \in Sizes |-> Plus(d, sel[k].size)]]
           F(h) == [s \in SUBSET (1..n) |-> IF s = {} THEN ZeroSize
                                            ELSE Plus(h[s \ {Max(s)}], sel[Max(s)].size)]
<1>1. step \in [1..n -> [Sizes -> Sizes]] /\ ZeroSize \in Sizes
  BY DEF Plus, Sizes, ZeroSize
<1>2. \A k \in 1..n : \A d \in Sizes : step[k][d] = Plus(d, sel[k].size)
  OBVIOUS
<1> HIDE DEF step
<1>3. PICK it \in [SUBSET (1..n) -> Sizes] : IsListFold(it, n, ZeroSize, step)
  BY <1>1, ListFoldExists
<1>4. it = F(it)
  BY <1>2, <1>3, MaxIn DEF IsListFold
<1>5. PICK f : f = CHOOSE h : h = F(h)
  OBVIOUS
<1>6. f = F(f) /\ Used(sel) = f[1..n]
  BY <1>4, <1>5 DEF Used, FoldLeft, MapThenFoldSet
<1>7. f[{}] = ZeroSize /\ \A k \in 1..n : f[1..k] = Plus(f[1..(k - 1)], sel[k].size)
  <2> DEFINE G == F(f)
  <2>1. G[{}] = ZeroSize /\ \A k \in 1..n : G[1..k] = Plus(f[1..(k - 1)], sel[k].size)
    BY LastPlace
  <2>2. f = G
    BY <1>6
  <2> HIDE DEF G, F
  <2> QED  BY <2>1, <2>2
<1> HIDE DEF F
<1>8. \A k \in 1..n : f[1..(k - 1)] \in Sizes => f[1..k] = step[k][f[1..(k - 1)]]
  BY <1>2, <1>7
<1>9. PICK g \in [0..n -> Sizes] : g[n] = f[1..n] /\ AreValues(g, n, ZeroSize, step)
  BY <1>1, <1>7, <1>8, ListFoldValues
<1>10. g[0] = ZeroSize /\ \A k \in 1..n : g[k] = Plus(g[k - 1], sel[k].size)
  BY <1>2, <1>9 DEF AreValues
<1> QED  BY <1>6, <1>9, <1>10

-----------------------------------------------------------------------------
(* Sorting.                                                                *)

\* A strict total order on a set.
Orders(before, S) ==
    /\ before \subseteq S \X S
    /\ \A x \in S : <<x, x>> \notin before
    /\ \A x, y, z \in S : <<x, y>> \in before /\ <<y, z>> \in before => <<x, z>> \in before
    /\ \A x, y \in S : x = y \/ <<x, y>> \in before \/ <<y, x>> \in before

\* Sorting lists every element once, in order.
LEMMA SortedByLists ==
    ASSUME NEW S, IsFiniteSet(S), NEW before, Orders(before, S)
    PROVE  LET s == SortedBy(S, before)
               n == Cardinality(S)
           IN  /\ n \in Nat /\ s \in [1..n -> S] /\ DOMAIN s = 1..n
               /\ \A x \in S : \E k \in 1..n : s[k] = x
               /\ \A i, j \in 1..n : i < j => <<s[i], s[j]>> \in before
<1> DEFINE n == Cardinality(S)
           Below(x) == {y \in S : <<y, x>> \in before}
           rank == [x \in S |-> Cardinality(Below(x))]
           s == SortedBy(S, before)
<1>1. n \in Nat /\ IsFiniteSet(0..(n - 1)) /\ Cardinality(0..(n - 1)) = n
  <2>1. n \in Nat
    BY FS_CardinalityType
  <2>2. 0 \in Int /\ n - 1 \in Int
    BY <2>1
  <2>3. IsFiniteSet(0..(n - 1)) /\ Cardinality(0..(n - 1)) = IF 0 > n - 1 THEN 0 ELSE n - 1 - 0 + 1
    BY <2>2, FS_Interval
  <2> QED  BY <2>1, <2>3
<1>2. ASSUME NEW x \in S
      PROVE  IsFiniteSet(Below(x)) /\ rank[x] = Cardinality(Below(x)) /\ rank[x] \in 0..(n - 1)
  <2>1. Below(x) \in SUBSET S /\ x \notin Below(x)
    BY DEF Orders
  <2>2. IsFiniteSet(Below(x)) /\ Cardinality(Below(x)) <= n /\ (n = Cardinality(Below(x)) => S = Below(x))
    BY <2>1, FS_Subset
  <2>3. Cardinality(Below(x)) \in Nat
    BY <2>2, FS_CardinalityType
  <2> QED  BY <1>1, <2>1, <2>2, <2>3
<1>3. ASSUME NEW x \in S, NEW y \in S, <<x, y>> \in before PROVE rank[x] < rank[y]
  <2>1. Below(x) \in SUBSET Below(y) /\ x \in Below(y) /\ x \notin Below(x)
    BY <1>3 DEF Orders
  <2>2. Cardinality(Below(x)) <= Cardinality(Below(y)) /\ Cardinality(Below(x)) # Cardinality(Below(y))
    <3>1. PICK X, Y : X = Below(x) /\ Y = Below(y)
      OBVIOUS
    <3>2. IsFiniteSet(Y) /\ X \in SUBSET Y /\ X # Y
      BY <1>2, <2>1, <3>1
    <3>3. Cardinality(X) <= Cardinality(Y) /\ (Cardinality(Y) = Cardinality(X) => Y = X)
      BY <3>2, FS_Subset
    <3> HIDE DEF Below
    <3> QED  BY <3>1, <3>2, <3>3
  <2> HIDE DEF Below, rank, n
  <2>3. rank[x] \in Int /\ rank[y] \in Int
    BY <1>1, <1>2
  <2> QED  BY <1>2, <2>2, <2>3
<1> HIDE DEF rank, Below
<1>4. \A x, y \in S : rank[x] = rank[y] => x = y
  <2> TAKE x, y \in S
  <2> HAVE rank[x] = rank[y]
  <2>1. rank[x] \in Int /\ rank[y] \in Int
    BY <1>1, <1>2
  <2>2. <<x, y>> \notin before /\ <<y, x>> \notin before
    BY <1>3, <2>1
  <2> QED  BY <2>2 DEF Orders
<1>5. ASSUME NEW k \in 1..n PROVE \E x \in S : rank[x] = k - 1
  <2>1. rank \in Injection(S, 0..(n - 1))
    <3>1. rank \in [S -> 0..(n - 1)]
      BY <1>2 DEF rank
    <3> QED  BY <1>4, <3>1 DEF Injection, IsInjective
  <2>2. rank \in Surjection(S, 0..(n - 1))
    BY <1>1, <2>1, FS_Injection
  <2>3. k - 1 \in 0..(n - 1)
    BY <1>1
  <2> QED  BY <2>2, <2>3 DEF Surjection
<1>6. ASSUME NEW k \in 1..n PROVE s[k] \in S /\ rank[s[k]] = k - 1
  <2>1. s[k] = CHOOSE x \in S : Cardinality(Below(x)) = k - 1
    BY DEF SortedBy, Below
  <2>2. PICK x \in S : Cardinality(Below(x)) = k - 1
    BY <1>2, <1>5
  <2> HIDE DEF Below, s
  <2>3. s[k] \in S /\ Cardinality(Below(s[k])) = k - 1
    BY <2>1, <2>2
  <2> QED  BY <1>2, <2>3
<1>7. s = [k \in 1..n |-> s[k]]
  <2> DEFINE at(k) == CHOOSE x \in S : Cardinality({y \in S : <<y, x>> \in before}) = k - 1
  <2>1. s = [k \in 1..n |-> at(k)]
    BY DEF SortedBy
  <2> HIDE DEF at, s
  <2> QED  BY <2>1
<1> HIDE DEF s, Below, n
<1>8. s \in [1..n -> S] /\ DOMAIN s = 1..n
  BY <1>6, <1>7
<1>9. \A x \in S : \E k \in 1..n : s[k] = x
  <2> TAKE x \in S
  <2>1. rank[x] \in 0..(n - 1)
    BY <1>2
  <2>2. rank[x] + 1 \in 1..n /\ (rank[x] + 1) - 1 = rank[x]
    BY <1>1, <2>1
  <2> QED  BY <1>4, <1>6, <2>2
<1>10. \A i, j \in 1..n : i < j => <<s[i], s[j]>> \in before
  <2> TAKE i, j \in 1..n
  <2> HAVE i < j
  <2>1. s[i] \in S /\ s[j] \in S /\ rank[s[i]] = i - 1 /\ rank[s[j]] = j - 1
    BY <1>6
  <2>2. ~(rank[s[j]] < rank[s[i]]) /\ s[i] # s[j]
    BY <1>1, <2>1
  <2> QED  BY <1>3, <2>1, <2>2 DEF Orders
<1> QED  BY <1>1, <1>8, <1>9, <1>10 DEF s, n

-----------------------------------------------------------------------------
(* Scores.                                                                 *)

\* What holds of a fold at the empty set and from each set to the next holds at
\* every subset of a finite set.
LEMMA SetFoldStays ==
    ASSUME NEW S, IsFiniteSet(S), NEW D, NEW f, NEW pick, f[{}] \in D,
           \A s \in SUBSET S : s # {} => pick[s] \in s,
           \A s \in SUBSET S : s # {} /\ f[s \ {pick[s]}] \in D => f[s] \in D
    PROVE  \A s \in SUBSET S : f[s] \in D
<1> DEFINE Out == {k \in Nat : \E s \in SUBSET S : Cardinality(s) = k /\ f[s] \notin D}
<1>1. ASSUME NEW s \in SUBSET S
      PROVE  /\ IsFiniteSet(s) /\ Cardinality(s) \in Nat
             /\ s # {} => Cardinality(s \ {pick[s]}) = Cardinality(s) - 1
  <2>1. IsFiniteSet(s) /\ Cardinality(s) \in Nat
    BY FS_Subset, FS_CardinalityType
  <2>2. s # {} => pick[s] \in s
    OBVIOUS
  <2> QED  BY <2>1, <2>2, FS_RemoveElement
<1>2. Out = {}
  <2> SUFFICES ASSUME Out # {} PROVE FALSE
    OBVIOUS
  <2>1. PICK k \in Out : \A j \in Out : k <= j
    <3>1. Out \in SUBSET Nat
      OBVIOUS
    <3> HIDE DEF Out
    <3> QED  BY <3>1, LeastNumber
  <2>2. PICK s \in SUBSET S : k \in Nat /\ Cardinality(s) = k /\ f[s] \notin D
    BY <2>1
  <2>3. s # {} /\ f[s \ {pick[s]}] \notin D
    BY <2>2
  <2>4. PICK t \in SUBSET S : t = s \ {pick[s]}
    OBVIOUS
  <2>5. Cardinality(t) = k - 1 /\ Cardinality(t) \in Nat /\ f[t] \notin D
    <3>1. Cardinality(t) = Cardinality(s) - 1
      BY <1>1, <2>3, <2>4
    <3> QED  BY <1>1, <2>2, <2>3, <2>4, <3>1
  <2>6. k - 1 \in Out
    BY <2>5
  <2> QED  BY <2>1, <2>2, <2>6
<1> QED  BY <1>1, <1>2

\* The weight of a term is a number.
LEMMA WeightNat ==
    ASSUME NEW R, IsFiniteSet(R), NEW t
    PROVE  Weight(t, R) \in Nat
<1> DEFINE H == {r \in R : t \in TermsOf[Text(r)]}
<1>1. H \in SUBSET R
  OBVIOUS
<1> HIDE DEF H
<1>2. IsFiniteSet(H) /\ Cardinality(H) <= Cardinality(R)
  BY <1>1, FS_Subset
<1>3. Cardinality(H) \in Nat /\ Cardinality(R) \in Nat
  BY <1>2, FS_CardinalityType
<1>4. PICK a, b : a = (Cardinality(R) - Cardinality(H)) * 1000 /\ b = Cardinality(H) + 1
  OBVIOUS
<1>5. a \in Nat /\ b \in Nat \ {0}
  BY <1>2, <1>3, <1>4
<1>6. a \div b \in Nat
  BY <1>5
<1>7. Weight(t, R) = 1000 + (a \div b)
  BY <1>4 DEF Weight, Having, H
<1> QED  BY <1>6, <1>7

\* The lexical score of a finite set of terms is a number.
LEMMA LexicalScoreNat ==
    ASSUME NEW R, IsFiniteSet(R), NEW T, IsFiniteSet(T)
    PROVE  LexicalScore(T, R) \in Nat
<1> DEFINE pick == [s \in SUBSET T |-> CHOOSE x \in s : TRUE]
           step == [x \in T |-> [v \in Nat |-> Weight(x, R) + v]]
           F(h) == [s \in SUBSET T |-> IF s = {} THEN 0
                                      ELSE Weight(CHOOSE x \in s : TRUE, R) + h[s \ {CHOOSE x \in s : TRUE}]]
<1>1. step \in [T -> [Nat -> Nat]]
  BY WeightNat
<1>2. \A s \in SUBSET T : pick[s] = CHOOSE x \in s : TRUE
  OBVIOUS
<1>3. \A s \in SUBSET T : s # {} => pick[s] \in s
  OBVIOUS
<1>4. \A x \in T : \A v \in Nat : step[x][v] = Weight(x, R) + v
  OBVIOUS
<1> HIDE DEF pick, step
<1>5. PICK it \in [SUBSET T -> Nat] : IsFold(it, T, 0, pick, step)
  <2>1. PICK D : D = Nat
    OBVIOUS
  <2>2. 0 \in D /\ step \in [T -> [D -> D]]
    BY <1>1, <2>1
  <2>3. \E it \in [SUBSET T -> D] : IsFold(it, T, 0, pick, step)
    BY <1>3, <2>2, FoldExists
  <2> QED  BY <2>1, <2>3
<1>6. it = F(it)
  <2>1. ASSUME NEW s \in SUBSET T, s # {}
        PROVE  step[pick[s]][it[s \ {pick[s]}]]
                  = Weight(CHOOSE x \in s : TRUE, R) + it[s \ {CHOOSE x \in s : TRUE}]
    <3>1. pick[s] \in T /\ s \ {pick[s]} \in SUBSET T
      BY <1>3, <2>1
    <3>2. step[pick[s]][it[s \ {pick[s]}]] = Weight(pick[s], R) + it[s \ {pick[s]}]
      BY <1>4, <3>1
    <3> QED  BY <1>2, <3>2
  <2> QED  BY <1>5, <2>1 DEF IsFold
<1>7. PICK f : f = CHOOSE h : h = F(h)
  OBVIOUS
<1>8. f = F(f) /\ LexicalScore(T, R) = f[T]
  <2>1. f = F(f)
    <3> HIDE DEF F
    <3> QED  BY <1>6, <1>7
  <2>2. LexicalScore(T, R) = f[T]
    BY <1>7 DEF LexicalScore, MapThenSumSet, MapThenFoldSet
  <2> QED  BY <2>1, <2>2
<1>9. f[{}] = 0 /\ \A s \in SUBSET T : s # {} => f[s] = Weight(pick[s], R) + f[s \ {pick[s]}]
  <2> DEFINE G == F(f)
  <2>1. G[{}] = 0 /\ \A s \in SUBSET T : s # {} => G[s] = Weight(pick[s], R) + f[s \ {pick[s]}]
    BY <1>2
  <2>2. f = G
    BY <1>8
  <2> HIDE DEF G, F
  <2> QED  BY <2>1, <2>2
<1> HIDE DEF F
<1>10. \A s \in SUBSET T : s # {} /\ f[s \ {pick[s]}] \in Nat => f[s] \in Nat
  <2> TAKE s \in SUBSET T
  <2> HAVE s # {} /\ f[s \ {pick[s]}] \in Nat
  <2>1. PICK w, v : w = Weight(pick[s], R) /\ v = f[s \ {pick[s]}]
    OBVIOUS
  <2>2. w \in Nat /\ v \in Nat
    BY <2>1, WeightNat
  <2>3. f[s] = w + v
    BY <1>9, <2>1
  <2> QED  BY <2>2, <2>3
<1>11. f[T] \in Nat
  <2>1. f[{}] \in Nat
    BY <1>9
  <2> QED  BY <1>3, <1>10, <2>1, SetFoldStays
<1> QED  BY <1>8, <1>11

-----------------------------------------------------------------------------
(* Selection.                                                              *)

Sized(M) == \A m \in M : m.size \in Sizes

Exclusions == [scope : Nat, lexical : Nat, limit : Nat, bytes : Nat, tokens : Nat]

Selections(M) ==
    [status : {"completed"}, selected : Seq(M), used : Sizes, active : Nat, applicable : Nat,
     exclusions : Exclusions]

\* The sum of two sizes is one.
LEMMA PlusSize ==
    ASSUME NEW s \in Sizes, NEW t \in Sizes
    PROVE  Plus(s, t) \in Sizes
BY DEF Plus, Sizes

WithinLimits(request) == request.limit \in Nat /\ request.budget \in Sizes

Left(acc) == acc.exclusions.limit + acc.exclusions.bytes + acc.exclusions.tokens

\* One turn of the loop: a match is passed over and counted, or selected.
Turns(acc, m, request, new) ==
    /\ new.active = acc.active /\ new.applicable = acc.applicable
    /\ new.exclusions.scope = acc.exclusions.scope /\ new.exclusions.lexical = acc.exclusions.lexical
    /\ \/ new.selected = acc.selected /\ new.used = acc.used /\ Left(new) = Left(acc) + 1
       \/ /\ new.selected = Append(acc.selected, m) /\ new.used = Plus(acc.used, m.size)
          /\ Len(acc.selected) < request.limit /\ Within(new.used, request)
          /\ Left(new) = Left(acc)

\* A turn of the loop keeps the kind of its result and does one of the two.
LEMMA SelectMatchDoes ==
    ASSUME NEW M, Sized(M), NEW acc \in Selections(M), NEW m \in M, NEW request, WithinLimits(request)
    PROVE  /\ SelectMatch(acc, m, request) \in Selections(M)
           /\ Turns(acc, m, request, SelectMatch(acc, m, request))
<1> DEFINE used == Plus(acc.used, m.size)
           pass(why) == [acc EXCEPT !.exclusions[why] = @ + 1]
           add == [acc EXCEPT !.selected = Append(@, m), !.used = used]
           new == SelectMatch(acc, m, request)
<1>1. acc.used \in Sizes /\ m.size \in Sizes /\ used \in Sizes
  BY PlusSize DEF Selections, Sized
<1> HIDE DEF used
<1>0. request.limit \in Nat /\ request.budget \in Sizes
  BY DEF WithinLimits
<1>2. Len(acc.selected) \in Nat /\ Append(acc.selected, m) \in Seq(M)
  BY DEF Selections
<1>3. ASSUME NEW why \in {"limit", "bytes", "tokens"}, new = pass(why)
      PROVE  /\ new \in Selections(M)
             /\ new.active = acc.active /\ new.applicable = acc.applicable
             /\ new.exclusions.scope = acc.exclusions.scope /\ new.exclusions.lexical = acc.exclusions.lexical
             /\ new.selected = acc.selected /\ new.used = acc.used
             /\ new.exclusions.limit + new.exclusions.bytes + new.exclusions.tokens
                   = acc.exclusions.limit + acc.exclusions.bytes + acc.exclusions.tokens + 1
  <2>1. PICK x, y : x = acc.exclusions /\ y = [x EXCEPT ![why] = @ + 1]
    OBVIOUS
  <2>2. x \in Exclusions
    BY <2>1 DEF Selections
  <2>3. /\ y \in Exclusions /\ y.scope = x.scope /\ y.lexical = x.lexical
        /\ y.limit + y.bytes + y.tokens = x.limit + x.bytes + x.tokens + 1
    <3>1. CASE why = "limit"
      BY <2>1, <2>2, <3>1 DEF Exclusions
    <3>2. CASE why = "bytes"
      BY <2>1, <2>2, <3>2 DEF Exclusions
    <3>3. CASE why = "tokens"
      BY <2>1, <2>2, <3>3 DEF Exclusions
    <3> QED  BY <3>1, <3>2, <3>3
  <2>4. new = [acc EXCEPT !.exclusions = y]
    BY <1>3, <2>1
  <2> HIDE DEF new
  <2>5. new \in Selections(M) /\ new.exclusions = y
    BY <2>3, <2>4 DEF Selections
  <2>6. /\ new.active = acc.active /\ new.applicable = acc.applicable
        /\ new.selected = acc.selected /\ new.used = acc.used
    BY <2>4 DEF Selections
  <2> QED  BY <2>1, <2>3, <2>5, <2>6
<1>4. ASSUME new = add, Len(acc.selected) < request.limit, WithinBytes(used, request), WithinTokens(used, request)
      PROVE  /\ new \in Selections(M)
             /\ new.active = acc.active /\ new.applicable = acc.applicable
             /\ new.exclusions = acc.exclusions
             /\ new.selected = Append(acc.selected, m) /\ new.used = used /\ Within(used, request)
  <2> HIDE DEF new
  <2> QED  BY <1>1, <1>2, <1>4 DEF Selections, Within
<1>5. \/ new = pass("limit")
      \/ new = pass("bytes")
      \/ new = pass("tokens")
      \/ /\ new = add /\ Len(acc.selected) < request.limit
         /\ WithinBytes(used, request) /\ WithinTokens(used, request)
  <2> HIDE DEF pass, add
  <2>1. CASE Len(acc.selected) >= request.limit
    BY <2>1 DEF SelectMatch, pass, used, add
  <2>2. CASE ~(Len(acc.selected) >= request.limit)
    <3>1. Len(acc.selected) < request.limit
      BY <1>0, <1>2, <2>2
    <3>2. new = CASE ~WithinBytes(used, request) -> pass("bytes")
                  [] WithinBytes(used, request) /\ ~WithinTokens(used, request) -> pass("tokens")
                  [] OTHER -> add
      BY <2>2, <3>1 DEF SelectMatch, pass, used, add
    <3> HIDE DEF new
    <3> QED  BY <3>1, <3>2
  <2> QED  BY <2>1, <2>2
<1> HIDE DEF pass, add, new
<1>6. CASE \E why \in {"limit", "bytes", "tokens"} : new = pass(why)
  BY <1>3, <1>6 DEF new, Turns, Left
<1>7. CASE /\ new = add /\ Len(acc.selected) < request.limit
           /\ WithinBytes(used, request) /\ WithinTokens(used, request)
  BY <1>4, <1>7 DEF new, used, Turns, Left
<1> QED  BY <1>5, <1>6, <1>7

\* The selections after each of the matches.
AreSelections(g, n, start, ranked, request) ==
    /\ SelectMatches(start, ranked, request) = g[n] /\ g[0] = start
    /\ \A k \in 1..n : g[k] = SelectMatch(g[k - 1], ranked[k], request)

\* The selecting loop, turn by turn.
LEMMA SelectFold ==
    ASSUME NEW n \in Nat, NEW M, Sized(M), NEW ranked \in [1..n -> M], NEW start \in Selections(M),
           NEW request, WithinLimits(request)
    PROVE  \E g \in [0..n -> Selections(M)] : AreSelections(g, n, start, ranked, request)
<1> DEFINE D == Selections(M)
           step == [k \in 1..n |-> [d \in D |-> SelectMatch(d, ranked[k], request)]]
           F(h) == [s \in SUBSET (1..n) |-> IF s = {} THEN start
                                            ELSE SelectMatch(h[s \ {Max(s)}], ranked[Max(s)], request)]
<1>1. step \in [1..n -> [D -> D]] /\ start \in D
  BY SelectMatchDoes
<1>2. \A k \in 1..n : \A d \in D : step[k][d] = SelectMatch(d, ranked[k], request)
  OBVIOUS
<1> HIDE DEF step, D
<1>3. PICK it \in [SUBSET (1..n) -> D] : IsListFold(it, n, start, step)
  BY <1>1, ListFoldExists
<1>4. it = F(it)
  BY <1>2, <1>3, MaxIn DEF IsListFold
<1>5. PICK f : f = CHOOSE h : h = F(h)
  OBVIOUS
<1>6. f = F(f) /\ SelectMatches(start, ranked, request) = f[1..n]
  BY <1>4, <1>5 DEF SelectMatches, FoldLeft, MapThenFoldSet
<1>7. f[{}] = start /\ \A k \in 1..n : f[1..k] = SelectMatch(f[1..(k - 1)], ranked[k], request)
  <2> DEFINE G == F(f)
  <2>1. G[{}] = start /\ \A k \in 1..n : G[1..k] = SelectMatch(f[1..(k - 1)], ranked[k], request)
    BY LastPlace
  <2>2. f = G
    BY <1>6
  <2> HIDE DEF G, F
  <2> QED  BY <2>1, <2>2
<1> HIDE DEF F
<1>8. \A k \in 1..n : f[1..(k - 1)] \in D => f[1..k] = step[k][f[1..(k - 1)]]
  BY <1>2, <1>7
<1>9. PICK g \in [0..n -> D] : g[n] = f[1..n] /\ AreValues(g, n, start, step)
  BY <1>1, <1>7, <1>8, ListFoldValues
<1>10. g[0] = start /\ \A k \in 1..n : g[k] = SelectMatch(g[k - 1], ranked[k], request)
  BY <1>2, <1>9 DEF AreValues
<1> QED  BY <1>6, <1>9, <1>10 DEF D, AreSelections

\* A selected match adds its size to what is used.
LEMMA UsedAppend ==
    ASSUME NEW M, Sized(M), NEW sel \in Seq(M), NEW m \in M
    PROVE  Used(Append(sel, m)) = Plus(Used(sel), m.size)
<1> DEFINE n == Len(sel)
           s == Append(sel, m)
<1>1. n \in Nat /\ DOMAIN sel = 1..n /\ \A i \in 1..n : sel[i] \in M
  OBVIOUS
<1>2. DOMAIN s = 1..(n + 1) /\ s[n + 1] = m /\ \A i \in 1..n : s[i] = sel[i]
  OBVIOUS
<1> HIDE DEF s, n
<1>3. PICK g \in [0..n -> Sizes] : /\ Used(sel) = g[n] /\ g[0] = ZeroSize
                                   /\ \A k \in 1..n : g[k] = Plus(g[k - 1], sel[k].size)
  BY <1>1, UsedFold DEF Sized
<1>4. PICK h \in [0..(n + 1) -> Sizes] :
         /\ Used(s) = h[n + 1] /\ h[0] = ZeroSize
         /\ \A k \in 1..(n + 1) : h[k] = Plus(h[k - 1], s[k].size)
  <2>1. n + 1 \in Nat /\ \A i \in 1..(n + 1) : s[i].size \in Sizes
    BY <1>1, <1>2 DEF Sized
  <2>2. PICK N : N = n + 1
    OBVIOUS
  <2>3. \E h \in [0..N -> Sizes] :
           /\ Used(s) = h[N] /\ h[0] = ZeroSize
           /\ \A k \in 1..N : h[k] = Plus(h[k - 1], s[k].size)
    BY <1>2, <2>1, <2>2, UsedFold
  <2> QED  BY <2>2, <2>3
<1> DEFINE Same == {k \in 0..n : g[k] = h[k]}
<1>5. 0..n \subseteq Same
  <2>1. 0 \in Same
    BY <1>1, <1>3, <1>4
  <2>2. \A k \in 1..n : k - 1 \in Same => k \in Same
    BY <1>1, <1>2, <1>3, <1>4
  <2> HIDE DEF Same
  <2> QED  BY <1>1, <2>1, <2>2, CountTo
<1>6. h[n] = g[n] /\ h[n + 1] = Plus(h[n], m.size)
  BY <1>1, <1>2, <1>4, <1>5
<1> QED  BY <1>3, <1>4, <1>6 DEF s

\* Nothing is used by nothing.
LEMMA UsedNone == Used(<<>>) = ZeroSize
<1>1. PICK e : e = <<>>
  OBVIOUS
<1>2. DOMAIN e = 1..0 /\ \A i \in 1..0 : e[i].size \in Sizes
  BY <1>1
<1>3. PICK f \in [0..0 -> Sizes] : Used(e) = f[0] /\ f[0] = ZeroSize
  BY <1>2, UsedFold
<1> QED  BY <1>1, <1>3

-----------------------------------------------------------------------------
(* Ranking.                                                                *)

\* Current revisions of different memories.
MemoryHeads(H) ==
    /\ IsFiniteSet(H)
    /\ \A r \in H : r[1] \in Contents /\ Text(r) \in Contents
    /\ \A r, s \in H : Memory(r) = Memory(s) => r = s

Matches(W, request, R) == {Match(r, request, R) : r \in W}
BestFirst(M) == {p \in M \X M : matchPrecedes(p[1], p[2])}

\* A match has a positive score and the size of its text.
LEMMA MatchFacts ==
    ASSUME NEW R, IsFiniteSet(R), NEW r, Text(r) \in Contents, NEW request
    PROVE  LET m == Match(r, request, R) IN
           /\ m.revision = r /\ m.size = SizeOf[Text(r)] /\ m.size \in Sizes
           /\ m.score \in Nat /\ m.score > 0
           /\ m.specificity \in 1..5
<1>1. scopeSpecificity(ScopeOf[Text(r)].kind) \in 1..5
  <2>1. ScopeOf[Text(r)].kind \in {"global", "agent", "repository", "project", "task"}
    BY RetrievalAssumption
  <2> QED  BY <2>1 DEF scopeSpecificity
<1>2. Score(r, request, R) \in Nat /\ Score(r, request, R) > 0
  <2>1. CASE request.memory # "none"
    BY <2>1 DEF Score
  <2>2. CASE request.memory = "none"
    <3>1. PICK l, p, q, b : /\ l = LexicalScore(Matched(r, request), R)
                            /\ p = IF <<request.terms, Text(r)>> \in Phrases THEN 8000 ELSE 0
                            /\ q = scopeSpecificity(ScopeOf[Text(r)].kind)
                            /\ b = BonusOf[Text(r)]
      OBVIOUS
    <3>2. IsFiniteSet(Matched(r, request))
      <4>1. IsFiniteSet(TermsOf[Text(r)])
        BY RetrievalAssumption
      <4>2. Matched(r, request) \in SUBSET TermsOf[Text(r)]
        BY DEF Matched
      <4> QED  BY <4>1, <4>2, FS_Subset
    <3>3. l \in Nat /\ p \in Nat /\ q \in 1..5 /\ b \in Nat
      BY <1>1, <3>1, <3>2, LexicalScoreNat, RetrievalAssumption
    <3>4. Score(r, request, R) = l + p + 250 * q + b
      BY <2>2, <3>1 DEF Score
    <3> QED  BY <3>3, <3>4
  <2> QED  BY <2>1, <2>2
<1>3. SizeOf[Text(r)] \in Sizes
  BY RetrievalAssumption
<1> QED  BY <1>1, <1>2, <1>3 DEF Match

\* The order of the ranking is total on the matches of different memories.
LEMMA MatchesOrdered ==
    ASSUME NEW R, MemoryHeads(R), NEW W \in SUBSET R, NEW request
    PROVE  LET M == Matches(W, request, R) IN
           /\ Sized(M) /\ IsFiniteSet(M) /\ Cardinality(M) = Cardinality(W)
           /\ Orders(BestFirst(M), M)
<1> DEFINE M == Matches(W, request, R)
           f == [r \in W |-> Match(r, request, R)]
<1>1. IsFiniteSet(R) /\ IsFiniteSet(W)
  BY FS_Subset DEF MemoryHeads
<1>2. ASSUME NEW m \in M
      PROVE  /\ m.revision \in W /\ m = Match(m.revision, request, R) /\ m.size \in Sizes
             /\ m.score \in Nat /\ m.specificity \in 1..5
             /\ MemoryOrder[Memory(m.revision)] \in Nat
  <2>1. PICK r \in W : m = Match(r, request, R)
    BY DEF Matches
  <2>2. Text(r) \in Contents /\ r[1] \in Contents
    BY DEF MemoryHeads
  <2>3. m.revision = r /\ m.size \in Sizes /\ m.score \in Nat /\ m.specificity \in 1..5
    BY <1>1, <2>1, <2>2, MatchFacts
  <2>4. MemoryOrder[Memory(r)] \in Nat
    BY <2>2, RetrievalAssumption DEF Memory
  <2> QED  BY <2>1, <2>3, <2>4
<1>3. ASSUME NEW a \in M, NEW b \in M, MemoryOrder[Memory(a.revision)] = MemoryOrder[Memory(b.revision)]
      PROVE  a = b
  <2>1. a.revision \in R /\ b.revision \in R /\ a.revision[1] \in Contents /\ b.revision[1] \in Contents
    BY <1>2 DEF MemoryHeads
  <2>2. Memory(a.revision) = Memory(b.revision)
    BY <1>3, <2>1, RetrievalAssumption DEF Memory
  <2>3. a.revision = b.revision
    BY <2>1, <2>2 DEF MemoryHeads
  <2> QED  BY <1>2, <2>3
<1>4. IsFiniteSet(M) /\ Cardinality(M) = Cardinality(W)
  <2>1. f \in [W -> M] /\ \A m \in M : \E r \in W : f[r] = m
    BY DEF Matches
  <2>2. \A r, s \in W : f[r] = f[s] => r = s
    BY DEF Match
  <2>3. f \in Surjection(W, M) /\ f \in Injection(W, M)
    BY <2>1, <2>2 DEF Surjection, Injection, IsInjective
  <2> QED  BY <1>1, <2>3, FS_Surjection
<1> HIDE DEF M, f
<1>5. Orders(BestFirst(M), M)
  <2>1. \A a, b \in M : <<a, b>> \in BestFirst(M) <=> matchPrecedes(a, b)
    BY DEF BestFirst
  <2>2. BestFirst(M) \subseteq M \X M
    BY DEF BestFirst
  <2>3. \A a \in M : ~matchPrecedes(a, a)
    BY <1>2 DEF matchPrecedes
  <2>4. \A a, b, c \in M : matchPrecedes(a, b) /\ matchPrecedes(b, c) => matchPrecedes(a, c)
    BY <1>2 DEF matchPrecedes
  <2>5. \A a, b \in M : a = b \/ matchPrecedes(a, b) \/ matchPrecedes(b, a)
    BY <1>2, <1>3 DEF matchPrecedes
  <2> QED  BY <2>1, <2>2, <2>3, <2>4, <2>5 DEF Orders
<1>6. Sized(M)
  BY <1>2 DEF Sized
<1> QED  BY <1>4, <1>5, <1>6 DEF M

\* What the loop has done after k of the ranked matches.
Fine(acc, start, ranked, k, request) ==
    /\ acc.active = start.active /\ acc.applicable = start.applicable
    /\ acc.exclusions.scope = start.exclusions.scope
    /\ acc.exclusions.lexical = start.exclusions.lexical
    /\ Len(acc.selected) + Left(acc) = k
    /\ acc.used = Used(acc.selected) /\ Within(acc.used, request) /\ Len(acc.selected) <= request.limit
    /\ \A i \in 1..Len(acc.selected) : \E j \in 1..k : acc.selected[i] = ranked[j]
    /\ \A i, j \in 1..Len(acc.selected) : i < j => matchPrecedes(acc.selected[i], acc.selected[j])

\* What the loop has selected when it ends.
LEMMA SelectionFine ==
    ASSUME NEW n \in Nat, NEW M, Sized(M), NEW ranked \in [1..n -> M], NEW request,
           \A i, j \in 1..n : i < j => matchPrecedes(ranked[i], ranked[j]),
           WithinLimits(request),
           NEW start \in Selections(M), start.selected = <<>>, start.used = ZeroSize,
           start.exclusions.limit = 0, start.exclusions.bytes = 0, start.exclusions.tokens = 0
    PROVE  LET end == SelectMatches(start, ranked, request)
           IN  end \in Selections(M) /\ Fine(end, start, ranked, n, request)
<1>1. PICK g \in [0..n -> Selections(M)] : AreSelections(g, n, start, ranked, request)
  BY SelectFold
<1> DEFINE Good == {k \in 0..n : Fine(g[k], start, ranked, k, request)}
<1>2. 0 \in Good
  <2>2. Within(ZeroSize, request)
    BY DEF Within, WithinBytes, WithinTokens, ZeroSize, Sizes, WithinLimits
  <2>3. Len(start.selected) = 0
    OBVIOUS
  <2>4. Fine(start, start, ranked, 0, request)
    <3>1. Left(start) = 0
      BY DEF Left
    <3>2. 0 <= request.limit /\ Used(start.selected) = ZeroSize
      BY UsedNone DEF WithinLimits
    <3> QED  BY <2>2, <2>3, <3>1, <3>2 DEF Fine
  <2> QED  BY <1>1, <2>4 DEF AreSelections
<1>3. ASSUME NEW k \in 1..n, k - 1 \in Good PROVE k \in Good
  <2>1. PICK acc, new, m : acc = g[k - 1] /\ new = g[k] /\ m = ranked[k]
    OBVIOUS
  <2>2. k - 1 \in 0..n /\ acc \in Selections(M) /\ m \in M /\ new = SelectMatch(acc, m, request)
    BY <1>1, <2>1 DEF AreSelections
  <2>3. Fine(acc, start, ranked, k - 1, request)
    BY <1>3, <2>1
  <2>4. new \in Selections(M) /\ Turns(acc, m, request, new)
    BY <2>2, SelectMatchDoes
  <2>5. PICK x, y : x = Left(acc) /\ y = Left(new)
    OBVIOUS
  <2>6. x \in Nat /\ y \in Nat /\ Len(acc.selected) \in Nat /\ acc.selected \in Seq(M)
    <3>1. ASSUME NEW a \in Selections(M) PROVE Left(a) \in Nat
      <4>1. a.exclusions \in Exclusions
        BY DEF Selections
      <4> QED  BY <4>1 DEF Exclusions, Left
    <3>2. acc.selected \in Seq(M)
      BY <2>2 DEF Selections
    <3> QED  BY <2>2, <2>4, <2>5, <3>1, <3>2
  <2>7. /\ new.active = start.active /\ new.applicable = start.applicable
        /\ new.exclusions.scope = start.exclusions.scope
        /\ new.exclusions.lexical = start.exclusions.lexical
    BY <2>3, <2>4 DEF Fine, Turns
  <2>8. /\ Len(acc.selected) + x = k - 1
        /\ acc.used = Used(acc.selected) /\ Within(acc.used, request) /\ Len(acc.selected) <= request.limit
    BY <2>3, <2>5 DEF Fine
  <2>9. /\ \A i \in 1..Len(acc.selected) : \E j \in 1..(k - 1) : acc.selected[i] = ranked[j]
        /\ \A i, j \in 1..Len(acc.selected) : i < j => matchPrecedes(acc.selected[i], acc.selected[j])
    BY <2>3 DEF Fine
  <2>10. CASE new.selected = acc.selected /\ new.used = acc.used /\ y = x + 1
    <3>1. PICK sel, l : sel = acc.selected /\ l = Len(acc.selected)
      OBVIOUS
    <3>2. new.selected = sel /\ Len(new.selected) = l
      BY <2>10, <3>1, Zenon
    <3>3. l \in Nat /\ l + x = k - 1 /\ k \in Nat
      BY <2>6, <2>8, <3>1
    <3>4. l + y = k
      BY <2>6, <2>10, <3>3
    <3>5. Len(new.selected) + y = k
      BY <3>2, <3>4
    <3>6. \A i \in 1..l : \E j \in 1..(k - 1) : sel[i] = ranked[j]
      BY <2>9, <3>1
    <3>7. \A i \in 1..Len(new.selected) : \E j \in 1..k : new.selected[i] = ranked[j]
      BY <3>2, <3>6
    <3>8. Fine(new, start, ranked, k, request)
      BY <2>5, <2>7, <2>8, <2>9, <2>10, <3>5, <3>7 DEF Fine
    <3> QED  BY <2>1, <3>8
  <2>11. CASE /\ new.selected = Append(acc.selected, m) /\ new.used = Plus(acc.used, m.size)
              /\ Len(acc.selected) < request.limit /\ Within(new.used, request) /\ y = x
    <3>1. PICK l : l = Len(acc.selected)
      OBVIOUS
    <3>2. /\ Len(new.selected) = l + 1 /\ new.selected[l + 1] = m /\ l \in Nat
          /\ \A i \in 1..l : new.selected[i] = acc.selected[i]
      BY <2>2, <2>6, <2>11, <3>1
    <3>3. Len(new.selected) + y = k /\ Len(new.selected) <= request.limit
      BY <2>6, <2>8, <2>11, <3>1, <3>2 DEF WithinLimits
    <3>4. new.used = Used(new.selected)
      BY <2>2, <2>6, <2>8, <2>11, UsedAppend
    <3>5. \A i \in 1..l : \E j \in 1..(k - 1) : new.selected[i] = ranked[j]
      BY <2>9, <3>1, <3>2
    <3>6. \A i \in 1..Len(new.selected) : \E j \in 1..k : new.selected[i] = ranked[j]
      <4> TAKE i \in 1..Len(new.selected)
      <4>1. CASE i = l + 1
        BY <2>1, <3>2, <4>1
      <4>2. CASE i \in 1..l
        BY <3>5, <4>2
      <4> QED  BY <3>2, <4>1, <4>2
    <3>7. \A i, j \in 1..Len(new.selected) : i < j => matchPrecedes(new.selected[i], new.selected[j])
      <4> TAKE i, j \in 1..Len(new.selected)
      <4> HAVE i < j
      <4>1. CASE j \in 1..l
        <5>1. i \in 1..l
          BY <3>2, <4>1
        <5> QED  BY <2>9, <3>1, <3>2, <4>1, <5>1
      <4>2. CASE j = l + 1
        <5>1. i \in 1..l
          BY <3>2, <4>2
        <5>2. PICK q \in 1..(k - 1) : new.selected[i] = ranked[q]
          BY <3>5, <5>1
        <5> QED  BY <2>1, <3>2, <4>2, <5>2
      <4> QED  BY <3>2, <4>1, <4>2
    <3>8. Fine(new, start, ranked, k, request)
      BY <2>5, <2>7, <2>11, <3>3, <3>4, <3>6, <3>7 DEF Fine
    <3> QED  BY <2>1, <3>8
  <2> QED  BY <2>4, <2>5, <2>10, <2>11 DEF Turns
<1> HIDE DEF Good
<1>4. n \in Good
  <2>1. 0..n \subseteq Good
    BY <1>2, <1>3, CountTo
  <2> QED  BY <2>1
<1> QED  BY <1>1, <1>4 DEF Good, AreSelections

\* A result of the ranking verifies.
LEMMA RankedVerifies ==
    ASSUME NEW H, MemoryHeads(H), NEW request, WithinLimits(request),
           NEW receipt, receipt.result = rankRevisions(H, request), receipt.request = request
    PROVE  validateReceipt(receipt) /\ \E M : receipt.result.selected \in Seq(M) /\ Sized(M)
<1> DEFINE A == Applicable(H, request.context)
           W == IF request.memory # "none" THEN {r \in A : Memory(r) = request.memory}
                ELSE {r \in A : Matched(r, request) # {}}
           M == Matches(W, request, A)
           ranked == Ranked(W, request, A)
           n == Cardinality(M)
           lexical == IF request.memory # "none" THEN 0 ELSE Cardinality(A \ W)
           start == [status |-> "completed", selected |-> <<>>, used |-> ZeroSize,
                     active |-> Cardinality(H), applicable |-> Cardinality(A),
                     exclusions |-> [NoExclusions EXCEPT !.scope = Cardinality(H \ A), !.lexical = lexical]]
           result == SelectMatches(start, ranked, request)
<1>1. A \in SUBSET H /\ W \in SUBSET A
  BY DEF Applicable
<1>2. MemoryHeads(A)
  BY <1>1, FS_Subset DEF MemoryHeads
<1>3. rankRevisions(H, request) = result
  BY DEF rankRevisions
<1>4. Sized(M) /\ IsFiniteSet(M) /\ n = Cardinality(W) /\ Orders(BestFirst(M), M)
  <2> HIDE DEF A, W
  <2> QED  BY <1>1, <1>2, MatchesOrdered
<1>5. ranked = SortedBy(M, BestFirst(M))
  BY DEF Ranked, BestFirst, Matches
<1>6. /\ IsFiniteSet(H) /\ IsFiniteSet(A) /\ IsFiniteSet(W)
      /\ Cardinality(H) \in Nat /\ Cardinality(A) \in Nat /\ Cardinality(W) \in Nat
      /\ Cardinality(A) <= Cardinality(H)
      /\ Cardinality(H \ A) \in Nat /\ Cardinality(H \ A) + Cardinality(A) = Cardinality(H)
      /\ Cardinality(A \ W) \in Nat /\ Cardinality(A \ W) + Cardinality(W) = Cardinality(A)
  <2> HIDE DEF A, W
  <2>1. IsFiniteSet(H)
    BY DEF MemoryHeads
  <2>2. IsFiniteSet(A) /\ Cardinality(A) <= Cardinality(H)
    BY <1>1, <2>1, FS_Subset
  <2>3. IsFiniteSet(W)
    BY <1>1, <2>2, FS_Subset
  <2>4. IsFiniteSet(H \ A) /\ Cardinality(H \ A) = Cardinality(H) - Cardinality(H \cap A) /\ H \cap A = A
    BY <1>1, <2>1, FS_Difference
  <2>5. IsFiniteSet(A \ W) /\ Cardinality(A \ W) = Cardinality(A) - Cardinality(A \cap W) /\ A \cap W = W
    BY <1>1, <2>2, FS_Difference
  <2>6. /\ Cardinality(H) \in Nat /\ Cardinality(A) \in Nat /\ Cardinality(W) \in Nat
        /\ Cardinality(H \ A) \in Nat /\ Cardinality(A \ W) \in Nat
    BY <2>1, <2>2, <2>3, <2>4, <2>5, FS_CardinalityType
  <2>7. PICK h, a, w, x, y : /\ h = Cardinality(H) /\ a = Cardinality(A) /\ w = Cardinality(W)
                             /\ x = Cardinality(H \ A) /\ y = Cardinality(A \ W)
    OBVIOUS
  <2>8. h \in Nat /\ a \in Nat /\ w \in Nat /\ x \in Nat /\ y \in Nat /\ a <= h
    BY <2>2, <2>6, <2>7
  <2>9. x = h - a
    BY <2>4, <2>7
  <2>10. y = a - w
    BY <2>5, <2>7
  <2>11. x + a = h /\ y + w = a
    BY <2>8, <2>9, <2>10
  <2> HIDE DEF A, W
  <2> QED  BY <2>1, <2>2, <2>3, <2>6, <2>7, <2>11
<1>7. ASSUME NEW m \in M
      PROVE  /\ m.revision \in A /\ m.size = SizeOf[Text(m.revision)] /\ m.score > 0
             /\ scopeValueApplies(ScopeOf[Text(m.revision)], request.context)
  <2>1. PICK r \in W : m = Match(r, request, A)
    BY DEF Matches
  <2>2. r \in A /\ Text(r) \in Contents /\ scopeValueApplies(ScopeOf[Text(r)], request.context)
    BY <1>1 DEF MemoryHeads, Applicable
  <2> HIDE DEF A, W, M
  <2> QED  BY <1>6, <2>1, <2>2, MatchFacts
<1> HIDE DEF A, W, M
<1>8. /\ n \in Nat /\ ranked \in [1..n -> M]
      /\ \A i, j \in 1..n : i < j => matchPrecedes(ranked[i], ranked[j])
  <2>1. /\ n \in Nat /\ SortedBy(M, BestFirst(M)) \in [1..n -> M]
        /\ \A i, j \in 1..n : i < j => <<SortedBy(M, BestFirst(M))[i], SortedBy(M, BestFirst(M))[j]>> \in BestFirst(M)
    BY <1>4, SortedByLists
  <2>2. \A a, b : <<a, b>> \in BestFirst(M) => matchPrecedes(a, b)
    BY DEF BestFirst
  <2> QED  BY <1>5, <2>1, <2>2
<1> HIDE DEF ranked, n
<1>9. /\ start.selected = <<>> /\ start.used = ZeroSize
      /\ start.active = Cardinality(H) /\ start.applicable = Cardinality(A)
      /\ start.exclusions.scope = Cardinality(H \ A) /\ start.exclusions.lexical = lexical
      /\ start.exclusions.limit = 0 /\ start.exclusions.bytes = 0 /\ start.exclusions.tokens = 0
      /\ start \in Selections(M)
  <2>1. lexical \in Nat
    BY <1>6
  <2> HIDE DEF lexical
  <2>2. PICK x : x = [NoExclusions EXCEPT !.scope = Cardinality(H \ A), !.lexical = lexical]
    OBVIOUS
  <2>3. /\ x \in Exclusions /\ x.scope = Cardinality(H \ A) /\ x.lexical = lexical
        /\ x.limit = 0 /\ x.bytes = 0 /\ x.tokens = 0
    BY <1>6, <2>1, <2>2 DEF NoExclusions, Exclusions
  <2>4. ZeroSize \in Sizes /\ <<>> \in Seq(M)
    BY DEF ZeroSize, Sizes
  <2> QED  BY <1>6, <2>2, <2>3, <2>4 DEF Selections
<1> HIDE DEF start, lexical
<1>10. result \in Selections(M) /\ Fine(result, start, ranked, n, request)
  BY <1>4, <1>8, <1>9, SelectionFine
<1> HIDE DEF result
<1> DEFINE sel == result.selected
<1>11. /\ result.status = "completed" /\ sel \in Seq(M) /\ Len(sel) \in Nat /\ DOMAIN sel = 1..Len(sel)
       /\ \A i \in 1..Len(sel) : sel[i] \in M
  BY <1>10 DEF Selections
<1>12. \A i \in DOMAIN sel :
          /\ scopeValueApplies(ScopeOf[Text(sel[i].revision)], request.context)
          /\ sel[i].size = SizeOf[Text(sel[i].revision)]
          /\ sel[i].score > 0
          /\ i > 1 => matchPrecedes(sel[i - 1], sel[i])
  <2> TAKE i \in DOMAIN sel
  <2>1. i > 1 => matchPrecedes(sel[i - 1], sel[i])
    BY <1>10, <1>11 DEF Fine
  <2> QED  BY <1>7, <1>11, <2>1
<1>13. IsInjective([i \in DOMAIN sel |-> sel[i].revision])
  <2>1. ASSUME NEW i \in DOMAIN sel, NEW j \in DOMAIN sel, sel[i].revision = sel[j].revision, i < j
        PROVE  FALSE
    <3>1. PICK a, b \in M : a = sel[i] /\ b = sel[j]
      BY <1>11
    <3>2. a = b
      BY <2>1, <3>1 DEF M, Matches, Match
    <3>3. matchPrecedes(a, b)
      BY <1>10, <1>11, <2>1, <3>1 DEF Fine
    <3>4. <<a, b>> \in BestFirst(M)
      BY <3>3 DEF BestFirst
    <3> QED  BY <1>4, <3>2, <3>4 DEF Orders
  <2>2. \A i, j \in DOMAIN sel : sel[i].revision = sel[j].revision => i = j
    BY <1>11, <2>1
  <2> HIDE DEF sel
  <2> QED  BY <2>2 DEF IsInjective
<1>14. /\ result.used = Used(sel) /\ Within(result.used, request) /\ Len(sel) <= request.limit
       /\ result.active = Cardinality(H) /\ result.applicable = Cardinality(A)
       /\ result.exclusions.scope = Cardinality(H \ A) /\ result.exclusions.lexical = lexical
       /\ Len(sel) + Left(result) = n
  BY <1>9, <1>10 DEF Fine
<1>15. request.memory = "none" => result.applicable = Len(sel) + Total(result.exclusions)
  <2> SUFFICES ASSUME request.memory = "none" PROVE result.applicable = Len(sel) + Total(result.exclusions)
    OBVIOUS
  <2>1. PICK x : x = result.exclusions
    OBVIOUS
  <2>2. x \in Exclusions
    BY <1>10, <2>1 DEF Selections
  <2>3. Left(result) = x.limit + x.bytes + x.tokens /\ x.lexical = Cardinality(A \ W)
    BY <1>14, <2>1 DEF Left, lexical
  <2>4. Total(x) = x.lexical + (x.limit + x.bytes + x.tokens)
    BY <2>2 DEF Total, Exclusions
  <2>5. n = Cardinality(W)
    BY <1>4 DEF n
  <2>6. PICK a, w, y, l, t : /\ a = Cardinality(A) /\ w = Cardinality(W) /\ y = Cardinality(A \ W)
                             /\ l = Len(sel) /\ t = x.limit + x.bytes + x.tokens
    OBVIOUS
  <2>7. a \in Nat /\ w \in Nat /\ y \in Nat /\ y + w = a
    BY <1>6, <2>6
  <2>8. l \in Nat /\ t \in Nat
    BY <1>11, <2>2, <2>6 DEF Exclusions
  <2>9. l + t = w
    BY <1>14, <2>3, <2>5, <2>6
  <2>10. a = l + (y + t)
    BY <2>7, <2>8, <2>9
  <2>11. result.applicable = a /\ Total(result.exclusions) = y + t
    BY <1>14, <2>1, <2>3, <2>4, <2>6
  <2> QED  BY <2>6, <2>10, <2>11
<1>16. result.applicable <= result.active /\ result.exclusions.scope + result.applicable = result.active
  BY <1>6, <1>14
<1>17. receipt.result = result
  BY <1>3
<1> QED  BY <1>4, <1>11, <1>12, <1>13, <1>14, <1>15, <1>16, <1>17 DEF validateReceipt

\* The result of a search on a repository that does not verify does, too.
LEMMA BlockedVerifies ==
    ASSUME NEW H, IsFiniteSet(H), NEW request, WithinLimits(request),
           NEW receipt, receipt.result = Blocked(H), receipt.request = request
    PROVE  validateReceipt(receipt) /\ \E M : receipt.result.selected \in Seq(M) /\ Sized(M)
<1>1. Cardinality(H) \in Nat
  BY FS_CardinalityType
<1>2. PICK sel : sel = <<>>
  OBVIOUS
<1>3. DOMAIN sel = {} /\ Len(sel) = 0 /\ Used(sel) = ZeroSize /\ sel \in Seq({})
  BY <1>2, UsedNone
<1>4. IsInjective([i \in DOMAIN sel |-> sel[i].revision])
  BY <1>3 DEF IsInjective
<1>5. Within(ZeroSize, request) /\ 0 <= request.limit
  BY DEF Within, WithinBytes, WithinTokens, ZeroSize, Sizes, WithinLimits
<1>6. /\ Blocked(H).status = "blocked" /\ Blocked(H).selected = sel /\ Blocked(H).used = ZeroSize
      /\ Blocked(H).active = Cardinality(H) /\ Blocked(H).applicable = 0
  BY <1>2 DEF Blocked
<1>7. Sized({})
  BY DEF Sized
<1>8. validateReceipt(receipt)
  BY <1>1, <1>3, <1>4, <1>5, <1>6, <1>2 DEF validateReceipt
<1> QED  BY <1>3, <1>6, <1>7, <1>8

-----------------------------------------------------------------------------
(* Rendering and descent.                                                  *)

Contexts(R) == [memories : Seq(R), size : Sizes]

AreContexts(g, n, sel, request) ==
    /\ AddBlocks(sel, request) = g[n] /\ g[0] = Frame
    /\ \A k \in 1..n : g[k] = AddBlock(g[k - 1], sel[k], request)

\* A context holds selected memories only.
LEMMA AddBlocksLists ==
    ASSUME NEW M, Sized(M), NEW sel \in Seq(M), NEW request
    PROVE  /\ AddBlocks(sel, request).memories \in Seq(References(sel))
           /\ Range(AddBlocks(sel, request).memories) \subseteq References(sel)
<1> DEFINE R == References(sel)
           n == Len(sel)
           D == Contexts(R)
           step == [k \in 1..n |-> [d \in D |-> AddBlock(d, sel[k], request)]]
           F(h) == [s \in SUBSET (1..n) |-> IF s = {} THEN Frame
                                            ELSE AddBlock(h[s \ {Max(s)}], sel[Max(s)], request)]
<1>1. n \in Nat /\ DOMAIN sel = 1..n /\ \A k \in 1..n : sel[k].size \in Sizes /\ sel[k].revision \in R
  <2>1. n \in Nat /\ DOMAIN sel = 1..n /\ \A k \in 1..n : sel[k] \in M
    OBVIOUS
  <2> QED  BY <2>1 DEF Sized, References
<1>2. ASSUME NEW k \in 1..n, NEW d \in D PROVE AddBlock(d, sel[k], request) \in D
  <2>1. d \in D /\ d.memories \in Seq(R) /\ d.size \in Sizes
    BY DEF Contexts
  <2>2. Plus(d.size, Plus(sel[k].size, BlockSize)) \in Sizes
    BY <1>1, <2>1, PlusSize, RetrievalAssumption
  <2>3. Append(d.memories, sel[k].revision) \in Seq(R)
    <3>1. sel[k].revision \in R
      BY <1>1
    <3> HIDE DEF R
    <3> QED  BY <2>1, <3>1
  <2> HIDE DEF R, D
  <2>4. CASE Within(Plus(d.size, Plus(sel[k].size, BlockSize)), request)
    BY <2>2, <2>3, <2>4 DEF AddBlock, D, Contexts
  <2>5. CASE ~Within(Plus(d.size, Plus(sel[k].size, BlockSize)), request)
    BY <2>1, <2>5 DEF AddBlock
  <2> QED  BY <2>4, <2>5
<1>3. Frame \in D
  <2>1. <<>> \in Seq(R) /\ FrameSize \in Sizes
    BY RetrievalAssumption
  <2> HIDE DEF R
  <2> QED  BY <2>1 DEF Frame, Contexts
<1>4. step \in [1..n -> [D -> D]] /\ \A k \in 1..n : \A d \in D : step[k][d] = AddBlock(d, sel[k], request)
  <2> HIDE DEF D
  <2> QED  BY <1>2
<1> HIDE DEF step, D, n, R
<1>5. PICK it \in [SUBSET (1..n) -> D] : IsListFold(it, n, Frame, step)
  BY <1>1, <1>3, <1>4, ListFoldExists
<1>6. it = F(it)
  <2>1. \A s \in SUBSET (1..n) : s # {} => Max(s) \in 1..n /\ it[s \ {Max(s)}] \in D
    BY <1>1, MaxIn
  <2> QED  BY <1>4, <1>5, <2>1 DEF IsListFold
<1>7. PICK f : f = CHOOSE h : h = F(h)
  OBVIOUS
<1>8. f = F(f) /\ AddBlocks(sel, request) = f[1..n]
  BY <1>1, <1>6, <1>7 DEF AddBlocks, FoldLeft, MapThenFoldSet
<1>9. f[{}] = Frame /\ \A k \in 1..n : f[1..k] = AddBlock(f[1..(k - 1)], sel[k], request)
  <2> DEFINE G == F(f)
  <2>1. G[{}] = Frame /\ \A k \in 1..n : G[1..k] = AddBlock(f[1..(k - 1)], sel[k], request)
    BY <1>1, LastPlace
  <2>2. f = G
    BY <1>8
  <2> HIDE DEF G, F
  <2> QED  BY <2>1, <2>2
<1> HIDE DEF F
<1>10. \A k \in 1..n : f[1..(k - 1)] \in D => f[1..k] = step[k][f[1..(k - 1)]]
  BY <1>4, <1>9
<1>11. PICK g \in [0..n -> D] : g[n] = f[1..n] /\ AreValues(g, n, Frame, step)
  BY <1>1, <1>3, <1>4, <1>9, <1>10, ListFoldValues
<1>12. AddBlocks(sel, request) \in D
  BY <1>1, <1>8, <1>11
<1>13. AddBlocks(sel, request).memories \in Seq(R)
  BY <1>12 DEF D, Contexts
<1>14. \A c : c \in Seq(R) => Range(c) \subseteq R
  BY DEF Range
<1> QED  BY <1>13, <1>14 DEF R

\* So does what is rendered of a result.
LEMMA RenderLists ==
    ASSUME NEW M, Sized(M), NEW result, result.selected \in Seq(M), NEW request
    PROVE  Range(renderBoundedContext(result, request).memories) \subseteq References(result.selected)
<1>1. CASE Within(FrameSize, request)
  BY <1>1, AddBlocksLists DEF renderBoundedContext
<1>2. CASE ~Within(FrameSize, request)
  <2>1. renderBoundedContext(result, request).memories = <<>>
    BY <1>2 DEF renderBoundedContext, Frame
  <2>2. Range(<<>>) = {}
    BY DEF Range
  <2> QED  BY <2>1, <2>2
<1> QED  BY <1>1, <1>2

\* Every event follows from earlier ones.
CausesEarlier(e) == \A i \in DOMAIN e : e[i].parents \subseteq 1..(i - 1)

AreCauses(g, e, i) ==
    /\ Ancestors(e, i) = g[i] /\ g[0] = {i}
    /\ \A k \in 1..i : g[k] = WithCauses(e, g[k - 1])

\* The ancestors of an event, found turn by turn.
LEMMA AncestorsFold ==
    ASSUME NEW e, NEW n \in Nat, DOMAIN e = 1..n, CausesEarlier(e), NEW i \in 1..n
    PROVE  \E g \in [0..i -> SUBSET (1..i)] : AreCauses(g, e, i)
<1> DEFINE D == SUBSET (1..i)
           list == [k \in 1..i |-> k]
           step == [k \in 1..i |-> [d \in D |-> WithCauses(e, d)]]
           F(h) == [s \in SUBSET (1..i) |-> IF s = {} THEN {i} ELSE WithCauses(e, h[s \ {Max(s)}])]
<1>1. i \in Nat /\ Len(list) = i
  OBVIOUS
<1>2. ASSUME NEW d \in D PROVE WithCauses(e, d) \in D
  <2>1. ASSUME NEW j \in d, NEW q \in e[j].parents, q < j PROVE q \in 1..i
    <3>1. j \in 1..i /\ j \in DOMAIN e
      OBVIOUS
    <3>2. e[j].parents \subseteq 1..(j - 1)
      BY <3>1 DEF CausesEarlier
    <3> QED  BY <3>1, <3>2
  <2>2. \A q \in WithCauses(e, d) : q \in 1..i
    BY <2>1 DEF WithCauses
  <2> QED  BY <2>2
<1>3. {i} \in D
  OBVIOUS
<1>4. step \in [1..i -> [D -> D]] /\ \A k \in 1..i : \A d \in D : step[k][d] = WithCauses(e, d)
  <2> HIDE DEF D
  <2> QED  BY <1>2
<1> HIDE DEF step, D
<1>5. PICK it \in [SUBSET (1..i) -> D] : IsListFold(it, i, {i}, step)
  BY <1>1, <1>3, <1>4, ListFoldExists
<1>6. it = F(it)
  <2>1. \A s \in SUBSET (1..i) : s # {} => Max(s) \in 1..i /\ it[s \ {Max(s)}] \in D
    BY <1>1, MaxIn
  <2> QED  BY <1>4, <1>5, <2>1 DEF IsListFold
<1>7. PICK f : f = CHOOSE h : h = F(h)
  OBVIOUS
<1>8. f = F(f) /\ Ancestors(e, i) = f[1..i]
  BY <1>1, <1>6, <1>7 DEF Ancestors, FoldLeft, MapThenFoldSet
<1>9. f[{}] = {i} /\ \A k \in 1..i : f[1..k] = WithCauses(e, f[1..(k - 1)])
  <2> DEFINE G == F(f)
  <2>1. G[{}] = {i} /\ \A k \in 1..i : G[1..k] = WithCauses(e, f[1..(k - 1)])
    BY <1>1, LastPlace
  <2>2. f = G
    BY <1>8
  <2> HIDE DEF G, F
  <2> QED  BY <2>1, <2>2
<1> HIDE DEF F
<1>10. \A k \in 1..i : f[1..(k - 1)] \in D => f[1..k] = step[k][f[1..(k - 1)]]
  BY <1>4, <1>9
<1>11. PICK g \in [0..i -> D] : g[i] = f[1..i] /\ AreValues(g, i, {i}, step)
  BY <1>1, <1>3, <1>4, <1>9, <1>10, ListFoldValues
<1>12. g[0] = {i} /\ \A k \in 1..i : g[k] = WithCauses(e, g[k - 1])
  BY <1>4, <1>11 DEF AreValues
<1> QED  BY <1>8, <1>11, <1>12 DEF AreCauses, D

\* What was recorded later adds no ancestor.
LEMMA AncestorsStay ==
    ASSUME NEW e, NEW s, NEW n \in Nat, NEW m \in Nat, n <= m, DOMAIN e = 1..n, DOMAIN s = 1..m,
           \A j \in 1..n : s[j] = e[j], CausesEarlier(e), CausesEarlier(s), NEW i \in 1..n
    PROVE  Ancestors(s, i) = Ancestors(e, i)
<1>1. PICK g \in [0..i -> SUBSET (1..i)] : AreCauses(g, e, i)
  BY AncestorsFold
<1>2. PICK h \in [0..i -> SUBSET (1..i)] : AreCauses(h, s, i)
  <2>1. i \in 1..m
    OBVIOUS
  <2> QED  BY <2>1, AncestorsFold
<1> DEFINE Same == {k \in 0..i : g[k] = h[k]}
<1>3. 0 \in Same
  <2>1. 0 \in 0..i
    OBVIOUS
  <2>2. g[0] = h[0]
    BY <1>1, <1>2 DEF AreCauses
  <2> QED  BY <2>1, <2>2
<1>4. ASSUME NEW k \in 1..i, k - 1 \in Same PROVE k \in Same
  <2>1. g[k - 1] = h[k - 1] /\ g[k - 1] \subseteq 1..n /\ k \in 0..i
    BY <1>4
  <2>2. \A d \in SUBSET (1..n) : WithCauses(e, d) = WithCauses(s, d)
    BY DEF WithCauses
  <2>3. g[k] = h[k]
    BY <1>1, <1>2, <2>1, <2>2 DEF AreCauses
  <2> QED  BY <2>1, <2>3
<1> HIDE DEF Same
<1>5. 0..i \subseteq Same
  <2>1. i \in Nat
    OBVIOUS
  <2> QED  BY <1>3, <1>4, <2>1, CountTo
<1>6. g[i] = h[i]
  BY <1>5 DEF Same
<1> QED  BY <1>1, <1>2, <1>6 DEF AreCauses

\* A chain of parents from one event to another.
Chained(e, a, o) ==
    \E n \in 0..(o - a) : \E chain \in [0..n -> a..o] :
       /\ chain[0] = a /\ chain[n] = o
       /\ \A k \in 1..n : chain[k - 1] \in e[chain[k]].parents

\* One link more.
LEMMA ChainGrows ==
    ASSUME NEW e, NEW a \in Nat, NEW j \in Nat, NEW o \in Nat, a < j, j <= o, a \in e[j].parents,
           Chained(e, j, o)
    PROVE  Chained(e, a, o)
<1>1. PICK n \in 0..(o - j) : \E chain \in [0..n -> j..o] :
         /\ chain[0] = j /\ chain[n] = o
         /\ \A k \in 1..n : chain[k - 1] \in e[chain[k]].parents
  BY DEF Chained
<1>2. PICK chain \in [0..n -> j..o] :
         /\ chain[0] = j /\ chain[n] = o
         /\ \A k \in 1..n : chain[k - 1] \in e[chain[k]].parents
  BY <1>1
<1>3. PICK N : N = n + 1
  OBVIOUS
<1>4. n \in Nat /\ N \in 0..(o - a) /\ N - 1 = n /\ N # 0
  BY <1>3
<1> DEFINE longer == [k \in 0..N |-> IF k = 0 THEN a ELSE chain[k - 1]]
<1>5. longer \in [0..N -> a..o]
  <2>1. \A k \in 0..N : longer[k] \in a..o
    <3> TAKE k \in 0..N
    <3>1. CASE k = 0
      BY <3>1
    <3>2. CASE k # 0
      <4>1. k - 1 \in 0..n
        BY <1>3, <1>4, <3>2
      <4>2. chain[k - 1] \in j..o
        BY <4>1
      <4> QED  BY <3>2, <4>2
    <3> QED  BY <3>1, <3>2
  <2> HIDE DEF longer
  <2>2. longer = [k \in 0..N |-> longer[k]]
    BY DEF longer
  <2> QED  BY <2>1, <2>2
<1>6. longer[0] = a /\ longer[N] = o
  BY <1>2, <1>4
<1>7. \A k \in 1..N : longer[k - 1] \in e[longer[k]].parents
  <2> TAKE k \in 1..N
  <2>1. CASE k = 1
    <3>1. longer[k - 1] = a /\ longer[k] = j
      BY <1>2, <1>4, <2>1
    <3> QED  BY <3>1
  <2>2. CASE k # 1
    <3>1. k - 1 \in 1..n /\ k \in 0..N /\ k - 1 \in 0..N /\ k - 1 # 0 /\ k # 0
      BY <1>3, <1>4, <2>2
    <3>2. chain[(k - 1) - 1] \in e[chain[k - 1]].parents
      BY <1>2, <3>1
    <3>3. longer[k - 1] = chain[(k - 1) - 1] /\ longer[k] = chain[k - 1]
      BY <3>1
    <3> QED  BY <3>2, <3>3
  <2> QED  BY <2>1, <2>2
<1> HIDE DEF longer
<1> QED  BY <1>4, <1>5, <1>6, <1>7 DEF Chained

\* From every ancestor of an event a chain of recorded parents leads to it.
LEMMA AncestorsChained ==
    ASSUME NEW e, NEW n \in Nat, DOMAIN e = 1..n, CausesEarlier(e), NEW o \in 1..n,
           NEW a \in Ancestors(e, o)
    PROVE  a \in 1..o /\ Chained(e, a, o)
<1>1. PICK g \in [0..o -> SUBSET (1..o)] : AreCauses(g, e, o)
  BY AncestorsFold
<1> DEFINE Good == {k \in 0..o : \A q \in g[k] : Chained(e, q, o)}
<1>2. 0 \in Good
  <2>1. Chained(e, o, o)
    <3> DEFINE chain == [k \in 0..0 |-> o]
    <3>1. 0 \in 0..(o - o) /\ chain \in [0..0 -> o..o] /\ chain[0] = o /\ 1..0 = {}
      BY LastPlace
    <3> QED  BY <3>1 DEF Chained
  <2>2. g[0] = {o} /\ 0 \in 0..o
    BY <1>1 DEF AreCauses
  <2> QED  BY <2>1, <2>2
<1>3. ASSUME NEW k \in 1..o, k - 1 \in Good PROVE k \in Good
  <2>1. k \in 0..o /\ k - 1 \in 0..o /\ g[k - 1] \subseteq 1..o /\ \A j \in g[k - 1] : Chained(e, j, o)
    BY <1>3
  <2>2. g[k] = WithCauses(e, g[k - 1])
    BY <1>1 DEF AreCauses
  <2>3. ASSUME NEW q \in g[k] PROVE Chained(e, q, o)
    <3>1. CASE q \in g[k - 1]
      BY <2>1, <3>1
    <3>2. CASE q \notin g[k - 1]
      <4>1. PICK j \in g[k - 1] : q \in e[j].parents /\ q < j
        BY <2>2, <3>2 DEF WithCauses
      <4>2. j \in 1..o /\ j \in Nat /\ o \in Nat /\ j <= o /\ Chained(e, j, o)
        BY <2>1, <4>1
      <4>3. q \in Nat
        <5>1. g[k] \subseteq 1..o
          BY <2>1
        <5> QED  BY <5>1
      <4> QED  BY <4>1, <4>2, <4>3, ChainGrows
    <3> QED  BY <3>1, <3>2
  <2> QED  BY <2>1, <2>3
<1> HIDE DEF Good
<1>4. 0..o \subseteq Good
  BY <1>2, <1>3, CountTo
<1>5. a \in g[o] /\ g[o] \subseteq 1..o /\ o \in Good
  BY <1>1, <1>4 DEF AreCauses
<1> QED  BY <1>5 DEF Good

-----------------------------------------------------------------------------
(* Logs.                                                                   *)

IsLog(e) == e \in Seq({e[i] : i \in 1..Len(e)})

\* s is e and what was appended to it.
Grows(e, s) ==
    /\ IsLog(e) /\ IsLog(s)
    /\ Len(e) \in Nat /\ Len(s) \in Nat /\ Len(e) <= Len(s)
    /\ DOMAIN e = 1..Len(e) /\ DOMAIN s = 1..Len(s)
    /\ \A i \in 1..Len(e) : s[i] = e[i]

\* A log has its positions.
LEMMA LogPositions ==
    ASSUME NEW e, IsLog(e)
    PROVE  Len(e) \in Nat /\ DOMAIN e = 1..Len(e) /\ Grows(e, e)
BY DEF IsLog, Grows

\* Two logs, one behind the other.
LEMMA LogsJoin ==
    ASSUME NEW e, IsLog(e), NEW b, IsLog(b)
    PROVE  /\ Grows(e, e \o b)
           /\ Len(e \o b) = Len(e) + Len(b)
           /\ \A k \in 1..Len(b) : (e \o b)[Len(e) + k] = b[k]
<1> DEFINE T == {e[i] : i \in 1..Len(e)} \cup {b[i] : i \in 1..Len(b)}
           t == e \o b
<1>1. e \in Seq(T) /\ b \in Seq(T)
  <2> DEFINE E == {e[i] : i \in 1..Len(e)}
             B == {b[i] : i \in 1..Len(b)}
  <2>1. e \in Seq(E) /\ b \in Seq(B) /\ T = E \cup B
    BY DEF IsLog
  <2> HIDE DEF E, B, T
  <2> QED  BY <2>1
<1> HIDE DEF T
<1>2. /\ t \in Seq(T) /\ Len(e) \in Nat /\ Len(b) \in Nat /\ Len(t) = Len(e) + Len(b)
      /\ \A i \in 1..Len(e) : t[i] = e[i]
      /\ \A k \in 1..Len(b) : t[Len(e) + k] = b[k]
  BY <1>1
<1> HIDE DEF t
<1> DEFINE U == {t[j] : j \in 1..Len(t)}
<1>3. \A i \in 1..Len(t) : t[i] \in U
  OBVIOUS
<1> HIDE DEF U
<1>4. t \in Seq(U) /\ DOMAIN t = 1..Len(t)
  BY <1>2, <1>3
<1> USE DEF U
<1>5. IsLog(t) /\ Grows(e, t)
  BY <1>2, <1>4, LogPositions DEF Grows, IsLog
<1> QED  BY <1>2, <1>5 DEF t

\* One entry more.
LEMMA LogGrows ==
    ASSUME NEW e, IsLog(e), NEW r
    PROVE  /\ Grows(e, Append(e, r))
           /\ Len(Append(e, r)) = Len(e) + 1
           /\ Append(e, r)[Len(e) + 1] = r
<1> DEFINE b == <<r>>
<1>1. IsLog(b) /\ Len(b) = 1 /\ b[1] = r
  BY DEF IsLog
<1>2. Append(e, r) = e \o b
  <2> DEFINE T == {e[i] : i \in 1..Len(e)} \cup {r}
  <2>1. e \in Seq(T) /\ r \in T
    <3> DEFINE E == {e[i] : i \in 1..Len(e)}
    <3>1. e \in Seq(E) /\ T = E \cup {r}
      BY DEF IsLog
    <3> HIDE DEF E, T
    <3> QED  BY <3>1
  <2> HIDE DEF T
  <2> QED  BY <2>1
<1> HIDE DEF b
<1>3. Grows(e, e \o b) /\ Len(e \o b) = Len(e) + 1 /\ (e \o b)[Len(e) + 1] = b[1]
  BY <1>1, LogsJoin
<1> QED  BY <1>1, <1>2, <1>3

-----------------------------------------------------------------------------
(* The invariant of the deliveries.                                        *)

IsRequest(q) ==
    /\ q = [memory |-> q.memory, terms |-> q.terms, context |-> q.context,
            limit |-> q.limit, budget |-> q.budget]
    /\ WithinLimits(q)

IsCall(c) ==
    c = [at |-> c.at, op |-> c.op, request |-> c.request, result |-> c.result,
         invocation |-> c.invocation, loadout |-> c.loadout, receipts |-> c.receipts,
         memories |-> c.memories]

\* A list of matches of known size.
Listed(sel) == IsLog(sel) /\ \A i \in DOMAIN sel : sel[i].size \in Sizes

ByMemory(l) == {p \in l \X l : MemoryOrder[Memory(p[1])] < MemoryOrder[Memory(p[2])]}

\* A loadout that can be put in the order of memory ids.
Orderly(l) == IsFiniteSet(l) /\ l # {} /\ Orders(ByMemory(l), l)

\* A retrieval of exactly one revision, by its memory id.
Pins(e, r, m, context) ==
    /\ r \in Kinds(e, "retrieval")
    /\ e[r].request.memory = Memory(m) /\ e[r].request.context = context
    /\ References(e[r].result.selected) = {m}

\* The context of a loadout in the making: a receipt for each memory before the
\* next one, and the memories that are left.
LoadoutCall(e, c) ==
    /\ c.at \in {"load", "retrieval", "receipt"} /\ c.invocation = None
    /\ Orderly(c.loadout)
    /\ IsLog(c.receipts) /\ IsLog(c.memories)
    /\ Len(c.receipts) + Len(c.memories) = Cardinality(c.loadout)
    /\ \A k \in 1..Len(c.memories) : c.memories[k] = InOrder(c.loadout)[Len(c.receipts) + k]
    /\ \A k \in 1..Len(c.receipts) :
          Pins(e, c.receipts[k], InOrder(c.loadout)[k], c.request.context)
    /\ c.at # "receipt" => Len(c.memories) > 0 /\ c.request.memory = Memory(c.memories[1])
    /\ c.at = "receipt" => Len(c.memories) = 0

\* A context that has been rendered from a recorded retrieval.
Rendering(e, c) ==
    LET r == c.receipts[1]
        context == renderBoundedContext(c.result, c.request)
    IN  /\ r \in Kinds(e, "retrieval")
        /\ e[r].result = c.result /\ e[r].request = c.request /\ e[r].thread = Thread(c.request)
        /\ context.memories # <<>>
        /\ Range(context.memories) \subseteq References(c.result.selected)

CallInv(e, c) ==
    /\ IsCall(c)
    /\ c.invocation \in {None} \cup DOMAIN e
    /\ c.at = "gap" => c.invocation # None
    /\ c.at # "idle" => IsRequest(c.request) /\ c.op \in {"search", "context", "loadout"}
    /\ c.at = "retrieval" => validateReceipt(c) /\ Listed(c.result.selected)
    /\ c.at = "injection" => Rendering(e, c)
    /\ c.at = "receipt" => c.op = "loadout"
    /\ c.op = "loadout" => LoadoutCall(e, c)

\* The ledger verifies.
EvidenceInv(e) == IsLog(e) /\ CausesEarlier(e) /\ ContextsVerify(e)

DeliveryInv ==
    /\ scenario \in Scenarios
    /\ EvidenceInv(evidence)
    /\ call = [p \in Readers |-> call[p]]
    /\ \A p \in Readers : CallInv(evidence, call[p])

-----------------------------------------------------------------------------
\* What the records of a log say stays as it was recorded.
LEMMA KindsStay ==
    ASSUME NEW e, NEW s, Grows(e, s), NEW i \in DOMAIN e, NEW kind
    PROVE  i \in DOMAIN s /\ s[i] = e[i] /\ (i \in Kinds(s, kind) <=> i \in Kinds(e, kind))
<1>1. i \in 1..Len(e) /\ i \in DOMAIN s /\ s[i] = e[i]
  BY DEF Grows
<1> QED  BY <1>1 DEF Kinds

\* An injection stays the rendering of its retrieval.
LEMMA InjectionStays ==
    ASSUME NEW e, NEW s, Grows(e, s), NEW i \in DOMAIN e, InjectionFits(e, i)
    PROVE  InjectionFits(s, i)
<1>1. s[i] = e[i]
  BY KindsStay
<1>2. PICK r : r = e[i].retrieval
  OBVIOUS
<1>3. r \in Kinds(e, "retrieval")
  BY <1>2 DEF InjectionFits
<1>4. r \in DOMAIN e
  BY <1>3 DEF Kinds
<1>5. s[r] = e[r] /\ r \in Kinds(s, "retrieval")
  BY <1>3, <1>4, KindsStay
<1> QED  BY <1>1, <1>2, <1>5 DEF InjectionFits

\* A result stays one that follows from the delivery.
LEMMA OutcomeStays ==
    ASSUME NEW e, NEW s, Grows(e, s), CausesEarlier(e), CausesEarlier(s),
           NEW q, q.retrieval \in DOMAIN e, NEW o, OutcomeFits(e, q, o)
    PROVE  OutcomeFits(s, q, o)
<1>1. o \in DOMAIN e
  BY DEF OutcomeFits
<1>2. s[o] = e[o] /\ o \in DOMAIN s /\ s[q.retrieval] = e[q.retrieval]
  BY <1>1, KindsStay
<1>3. Ancestors(s, o) = Ancestors(e, o)
  <2>1. PICK n \in Nat, m \in Nat : n = Len(e) /\ m = Len(s)
    BY DEF Grows
  <2>2. /\ n <= m /\ DOMAIN e = 1..n /\ DOMAIN s = 1..m
        /\ \A j \in 1..n : s[j] = e[j]
    BY <2>1 DEF Grows
  <2>3. o \in 1..n
    BY <1>1, <2>2
  <2> QED  BY <2>2, <2>3, AncestorsStay
<1> QED  BY <1>2, <1>3 DEF OutcomeFits, eventDescendsFrom, Delivery

\* An adoption receipt stays supported by what it names.
LEMMA AdoptionStays ==
    ASSUME NEW e, NEW s, Grows(e, s), CausesEarlier(e), CausesEarlier(s),
           NEW i \in DOMAIN e, AdoptionFits(e, i)
    PROVE  AdoptionFits(s, i)
<1>1. PICK a : a = e[i]
  OBVIOUS
<1>2. s[i] = a
  BY <1>1, KindsStay
<1>3. a.retrieval \in Kinds(e, "retrieval") /\ a.retrieval \in DOMAIN e
  BY <1>1 DEF AdoptionFits, Kinds
<1>4. s[a.retrieval] = e[a.retrieval] /\ a.retrieval \in Kinds(s, "retrieval")
  BY <1>3, KindsStay
<1>5. ASSUME a.injection # None
      PROVE  /\ a.injection \in Kinds(e, "injection") /\ a.injection \in Kinds(s, "injection")
             /\ s[a.injection] = e[a.injection]
  <2>1. a.injection \in Kinds(e, "injection") /\ a.injection \in DOMAIN e
    BY <1>1, <1>5 DEF AdoptionFits, Kinds
  <2> QED  BY <2>1, KindsStay
<1>6. Delivered(s, a) = Delivered(e, a)
  BY <1>4, <1>5 DEF Delivered
<1>7. \A o \in a.outcomes : o < i /\ OutcomeFits(s, a, o)
  BY <1>1, <1>3, OutcomeStays DEF AdoptionFits
<1> QED  BY <1>1, <1>2, <1>4, <1>5, <1>6, <1>7 DEF AdoptionFits

\* An exact retrieval stays one.
LEMMA PinsStay ==
    ASSUME NEW e, NEW s, Grows(e, s), NEW r, NEW m, NEW context, Pins(e, r, m, context)
    PROVE  Pins(s, r, m, context)
<1>1. r \in Kinds(e, "retrieval") /\ r \in DOMAIN e
  BY DEF Pins, Kinds
<1>2. s[r] = e[r] /\ r \in Kinds(s, "retrieval")
  BY <1>1, KindsStay
<1> QED  BY <1>2 DEF Pins

\* A loadout receipt stays supported by its retrievals.
LEMMA ContextReceiptStays ==
    ASSUME NEW e, NEW s, Grows(e, s), NEW i \in DOMAIN e, ContextReceiptFits(e, i)
    PROVE  ContextReceiptFits(s, i)
<1>1. PICK c : c = e[i]
  OBVIOUS
<1>2. s[i] = c
  BY <1>1, KindsStay
<1>3. ASSUME NEW k \in DOMAIN c.retrievals
      PROVE  /\ c.retrievals[k] < i /\ c.retrievals[k] \in Kinds(s, "retrieval")
             /\ s[c.retrievals[k]].request.memory = Memory(c.memories[k])
             /\ s[c.retrievals[k]].request.context = c.request.context
             /\ References(s[c.retrievals[k]].result.selected) = {c.memories[k]}
  <2>1. PICK r : r = c.retrievals[k]
    OBVIOUS
  <2>2. /\ r < i /\ r \in Kinds(e, "retrieval") /\ e[r].request.memory = Memory(c.memories[k])
        /\ e[r].request.context = c.request.context
        /\ References(e[r].result.selected) = {c.memories[k]}
    BY <1>1, <2>1 DEF ContextReceiptFits
  <2>3. r \in DOMAIN e
    BY <2>2 DEF Kinds
  <2>4. s[r] = e[r] /\ r \in Kinds(s, "retrieval")
    BY <2>2, <2>3, KindsStay
  <2> QED  BY <2>1, <2>2, <2>4
<1> QED  BY <1>1, <1>2, <1>3 DEF ContextReceiptFits

\* What a reader knows of the ledger stays true when others write to it.
LEMMA CallStays ==
    ASSUME NEW e, NEW s, Grows(e, s), NEW c, CallInv(e, c)
    PROVE  CallInv(s, c)
<1>1. c.invocation \in {None} \cup DOMAIN s
  BY KindsStay DEF CallInv
<1>2. ASSUME c.at = "injection" PROVE Rendering(s, c)
  <2>1. PICK r : r = c.receipts[1]
    OBVIOUS
  <2>2. Rendering(e, c) /\ r \in Kinds(e, "retrieval") /\ r \in DOMAIN e
    BY <1>2, <2>1 DEF CallInv, Rendering, Kinds
  <2>3. s[r] = e[r] /\ r \in Kinds(s, "retrieval")
    BY <2>2, KindsStay
  <2> QED  BY <2>1, <2>2, <2>3 DEF Rendering
<1>3. ASSUME c.op = "loadout" PROVE LoadoutCall(s, c)
  <2>1. LoadoutCall(e, c)
    BY <1>3 DEF CallInv
  <2>2. \A k \in 1..Len(c.receipts) :
          Pins(s, c.receipts[k], InOrder(c.loadout)[k], c.request.context)
    BY <2>1, PinsStay DEF LoadoutCall
  <2> QED  BY <2>1, <2>2 DEF LoadoutCall
<1> QED  BY <1>1, <1>2, <1>3 DEF CallInv

\* The record that is last in a log may be there.
NewFits(s, n) ==
    /\ s[n].parents \subseteq 1..(n - 1)
    /\ s[n].kind = "retrieval" => validateReceipt(s[n])
    /\ s[n].kind = "injection" => InjectionFits(s, n)
    /\ s[n].kind = "adoption" => AdoptionFits(s, n)
    /\ s[n].kind = "loadout_context" => ContextReceiptFits(s, n)

\* A log to which such a record is appended.
LEMMA RecordAppended ==
    ASSUME NEW e, EvidenceInv(e), NEW record, NEW s, s = Append(e, record),
           CausesEarlier(s) => NewFits(s, Len(e) + 1),
           record.parents \subseteq 1..Len(e)
    PROVE  EvidenceInv(s) /\ Grows(e, s)
<1>1. /\ IsLog(s) /\ Grows(e, s) /\ Len(e) \in Nat /\ Len(s) = Len(e) + 1 /\ s[Len(e) + 1] = record
      /\ DOMAIN e = 1..Len(e) /\ DOMAIN s = 1..Len(s)
  BY LogGrows DEF Grows, EvidenceInv
<1>2. PICK n : n = Len(e) + 1
  OBVIOUS
<1>3. n \in Nat /\ n - 1 = Len(e) /\ s[n] = record /\ \A i \in DOMAIN s : i \in DOMAIN e \/ i = n
  BY <1>1, <1>2
<1>4. CausesEarlier(s)
  <2>1. \A i \in DOMAIN e : s[i] = e[i] /\ e[i].parents \subseteq 1..(i - 1)
    BY <1>1, KindsStay DEF EvidenceInv, CausesEarlier
  <2> QED  BY <1>3, <2>1 DEF CausesEarlier
<1>5. NewFits(s, n) /\ CausesEarlier(e)
  BY <1>2, <1>4 DEF EvidenceInv
<1>6. ASSUME NEW kind, NEW i \in Kinds(s, kind)
      PROVE  \/ i \in Kinds(e, kind) /\ i \in DOMAIN e /\ s[i] = e[i]
             \/ i = n /\ s[n].kind = kind
  BY <1>1, <1>3, <1>6, KindsStay DEF Kinds
<1>7. ContextsVerify(e) /\ Verify(e)
  BY DEF EvidenceInv, ContextsVerify
<1>8. \A i \in Kinds(s, "retrieval") : validateReceipt(s[i])
  BY <1>5, <1>6, <1>7 DEF Verify, NewFits
<1>9. \A i \in Kinds(s, "injection") : InjectionFits(s, i)
  BY <1>1, <1>5, <1>6, <1>7, InjectionStays DEF Verify, NewFits
<1>10. \A i \in Kinds(s, "adoption") : AdoptionFits(s, i)
  BY <1>1, <1>4, <1>5, <1>6, <1>7, AdoptionStays DEF Verify, NewFits
<1>11. \A i \in Kinds(s, "loadout_context") : ContextReceiptFits(s, i)
  BY <1>1, <1>5, <1>6, <1>7, ContextReceiptStays DEF ContextsVerify, NewFits
<1> QED  BY <1>1, <1>4, <1>8, <1>9, <1>10, <1>11 DEF EvidenceInv, ContextsVerify, Verify

-----------------------------------------------------------------------------
(* Lists.                                                                  *)

\* A list without its first element.
LEMMA TailLog ==
    ASSUME NEW l, IsLog(l), Len(l) > 0
    PROVE  /\ Head(l) = l[1] /\ IsLog(Tail(l)) /\ Len(Tail(l)) = Len(l) - 1
           /\ \A k \in 1..(Len(l) - 1) : Tail(l)[k] = l[k + 1]
           /\ (Tail(l) = <<>> <=> Len(l) = 1)
<1> DEFINE T == {l[i] : i \in 1..Len(l)}
<1>1. l \in Seq(T) /\ Len(l) \in Nat
  BY DEF IsLog
<1> HIDE DEF T
<1>2. PICK t : t = Tail(l)
  OBVIOUS
<1>3. /\ Head(l) = l[1] /\ t \in Seq(T) /\ Len(t) = Len(l) - 1
      /\ \A k \in 1..Len(t) : t[k] = l[k + 1]
  BY <1>1, <1>2
<1>4. t = <<>> <=> Len(t) = 0
  BY <1>3
<1>5. IsLog(t)
  <2> DEFINE U == {t[i] : i \in 1..Len(t)}
  <2>1. \A i \in 1..Len(t) : t[i] \in U
    OBVIOUS
  <2> HIDE DEF U
  <2>2. t \in Seq(U)
    BY <1>3, <2>1
  <2> QED  BY <2>2 DEF U, IsLog
<1> QED  BY <1>1, <1>2, <1>3, <1>4, <1>5

\* The empty list.
LEMMA NoLog == IsLog(<<>>) /\ Len(<<>>) = 0
BY DEF IsLog

\* A loadout in the order of memory ids: every revision once.
LEMMA InOrderLists ==
    ASSUME NEW l, Orderly(l)
    PROVE  /\ IsLog(InOrder(l)) /\ Len(InOrder(l)) = Cardinality(l) /\ Cardinality(l) \in Nat
           /\ Cardinality(l) > 0 /\ Range(InOrder(l)) = l
           /\ \A k \in 1..Cardinality(l) : InOrder(l)[k] \in l
<1>1. PICK s : s = SortedBy(l, ByMemory(l))
  OBVIOUS
<1>2. PICK n : n = Cardinality(l)
  OBVIOUS
<1>3. /\ n \in Nat /\ s \in [1..n -> l] /\ DOMAIN s = 1..n
      /\ \A x \in l : \E k \in 1..n : s[k] = x
  BY <1>1, <1>2, SortedByLists DEF Orderly
<1>4. s \in Seq(l) /\ Len(s) = n
  BY <1>3
<1>5. Range(s) = l
  <2>1. \A x \in l : \E k \in DOMAIN s : s[k] = x
    BY <1>3
  <2>2. \A k \in DOMAIN s : s[k] \in l
    BY <1>3
  <2> QED  BY <2>1, <2>2 DEF Range
<1>6. n > 0
  <2>1. PICK x : x \in l
    BY DEF Orderly
  <2> QED  BY <1>3, <2>1
<1>7. IsLog(s)
  <2> DEFINE U == {s[i] : i \in 1..Len(s)}
  <2>1. \A i \in 1..Len(s) : s[i] \in U
    OBVIOUS
  <2> HIDE DEF U
  <2>2. s \in Seq(U)
    BY <1>4, <2>1
  <2> QED  BY <2>2 DEF U, IsLog
<1>8. InOrder(l) = s
  BY <1>1 DEF InOrder, ByMemory
<1> QED  BY <1>2, <1>3, <1>4, <1>5, <1>6, <1>7, <1>8

\* The current memories of a repository.
LEMMA CurrentMemories ==
    ASSUME RepositoryInv
    PROVE  /\ IsFiniteSet(ActiveHeads(files))
           /\ Verified => MemoryHeads(ActiveHeads(files))
           /\ \A l \in loadouts : Verified /\ Current(l) => Orderly(l)
<1> DEFINE H == ActiveHeads(files)
<1>1. Revisions(files) /\ IsFiniteSet(files)
  BY DEF RepositoryInv, FilesInv
<1>2. H \in SUBSET files /\ H \in SUBSET Heads(files) /\ \A r \in H : Active(r)
  BY DEF ActiveHeads, Heads
<1>3. IsFiniteSet(H)
  BY <1>1, <1>2, FS_Subset
<1>4. ASSUME NEW r \in H PROVE r[1] \in Contents /\ Text(r) \in Contents
  <2>1. IsRevision(r) /\ r \in Seq(Contents \cup {Revoked}) /\ Len(r) \in Nat \ {0} /\ r[1] \in Contents
    BY <1>1, <1>2, RevisionFacts DEF Revisions
  <2>2. r[Len(r)] \in Contents \cup {Revoked} /\ r[Len(r)] # Revoked
    BY <1>2, <2>1 DEF Active
  <2> QED  BY <2>1, <2>2 DEF Text
<1>5. ASSUME Verified PROVE \A r, s \in H : Memory(r) = Memory(s) => r = s
  BY <1>2, <1>5 DEF Verified, Consistent, Unforked
<1>6. ASSUME NEW l \in loadouts, Verified, Current(l) PROVE Orderly(l)
  <2>1. l # {} /\ l \in SUBSET H
    BY <1>6 DEF Verified, Pinned, Current
  <2>2. IsFiniteSet(l)
    BY <1>3, <2>1, FS_Subset
  <2> DEFINE pos == [r \in l |-> MemoryOrder[Memory(r)]]
  <2>3. ASSUME NEW r \in l, NEW s \in l PROVE pos[r] \in Nat /\ (pos[r] = pos[s] => r = s)
    <3>1. r[1] \in Contents /\ s[1] \in Contents
      BY <1>4, <2>1
    <3>2. /\ MemoryOrder[Memory(r)] \in Nat
          /\ (MemoryOrder[Memory(r)] = MemoryOrder[Memory(s)] => Memory(r) = Memory(s))
      BY <3>1, RetrievalAssumption DEF Memory
    <3>3. Memory(r) = Memory(s) => r = s
      BY <1>5, <1>6, <2>1
    <3> QED  BY <3>2, <3>3
  <2>4. \A x, y : <<x, y>> \in ByMemory(l) <=> x \in l /\ y \in l /\ pos[x] < pos[y]
    BY DEF ByMemory
  <2>5. ByMemory(l) \subseteq l \X l
    BY DEF ByMemory
  <2> HIDE DEF pos
  <2>6. Orders(ByMemory(l), l)
    <3>1. \A x \in l : <<x, x>> \notin ByMemory(l)
      BY <2>3, <2>4
    <3>2. \A x, y, z \in l : <<x, y>> \in ByMemory(l) /\ <<y, z>> \in ByMemory(l) => <<x, z>> \in ByMemory(l)
      BY <2>3, <2>4
    <3>3. \A x, y \in l : x = y \/ <<x, y>> \in ByMemory(l) \/ <<y, x>> \in ByMemory(l)
      <4> TAKE x, y \in l
      <4>1. PICK a, b : a = pos[x] /\ b = pos[y]
        OBVIOUS
      <4>2. a \in Nat /\ b \in Nat /\ (a = b => x = y)
        BY <2>3, <4>1
      <4>3. a = b \/ a < b \/ b < a
        BY <4>2
      <4> QED  BY <2>4, <4>1, <4>2, <4>3
    <3> QED  BY <2>5, <3>1, <3>2, <3>3 DEF Orders
  <2> QED  BY <2>1, <2>2, <2>6 DEF Orderly
<1> QED  BY <1>3, <1>4, <1>5, <1>6 DEF MemoryHeads

\* Matches of known size are a list.
LEMMA ListedMatches ==
    ASSUME NEW sel
    PROVE  (\E M : sel \in Seq(M) /\ Sized(M)) <=> Listed(sel)
<1>1. ASSUME NEW M, sel \in Seq(M), Sized(M) PROVE Listed(sel)
  <2>1. \A i \in 1..Len(sel) : sel[i] \in M
    BY <1>1
  <2>2. Len(sel) \in Nat /\ DOMAIN sel = 1..Len(sel)
    BY <1>1
  <2> DEFINE U == {sel[i] : i \in 1..Len(sel)}
  <2>3. \A i \in 1..Len(sel) : sel[i] \in U
    OBVIOUS
  <2> HIDE DEF U
  <2>4. sel \in Seq(U)
    BY <1>1, <2>3
  <2> QED  BY <1>1, <2>1, <2>2, <2>4 DEF U, IsLog, Listed, Sized
<1>2. ASSUME Listed(sel) PROVE \E M : sel \in Seq(M) /\ Sized(M)
  <2> DEFINE U == {sel[i] : i \in 1..Len(sel)}
  <2>1. sel \in Seq(U)
    BY <1>2 DEF Listed, IsLog
  <2>2. DOMAIN sel = 1..Len(sel)
    <3> HIDE DEF U
    <3> QED  BY <2>1
  <2>3. Sized(U)
    BY <1>2, <2>2 DEF Listed, Sized
  <2> HIDE DEF U
  <2> QED  BY <2>1, <2>3
<1> QED  BY <1>1, <1>2

-----------------------------------------------------------------------------
(* The steps of the readers and of the agents.                             *)

\* Nothing is being done.
LEMMA NoCallInv == ASSUME NEW e PROVE CallInv(e, NoCall)
BY DEF CallInv, NoCall, IsCall, None

\* The invariant after a step that appends at most one record and moves one reader.
LEMMA ReaderMoved ==
    ASSUME DeliveryInv, NEW p \in Readers, scenario' = scenario,
           EvidenceInv(evidence'), Grows(evidence, evidence'),
           NEW c, CallInv(evidence', c), Becomes(p, c)
    PROVE  DeliveryInv'
<1>1. call' = [q \in Readers |-> call'[q]] /\ call'[p] = c /\ \A q \in Readers \ {p} : call'[q] = call[q]
  <2>1. call = [q \in Readers |-> call[q]] /\ call' = [call EXCEPT ![p] = c]
    BY DEF DeliveryInv, Becomes
  <2> QED  BY <2>1
<1>2. \A q \in Readers : CallInv(evidence', call'[q])
  BY <1>1, CallStays DEF DeliveryInv
<1> QED  BY <1>1, <1>2 DEF DeliveryInv

\* A ledger that is not written to.
LEMMA EvidenceStays == DeliveryInv => EvidenceInv(evidence) /\ Grows(evidence, evidence)
BY LogPositions DEF DeliveryInv, EvidenceInv

\* The requests of a scenario are within the limits.
LEMMA RequestFacts ==
    ASSUME DeliveryInv, NEW q \in scenario.requests
    PROVE  IsRequest(q)
<1>1. Requests(scenario.requests)
  BY ScenarioAssumption DEF DeliveryInv
<1>2. /\ q = [memory |-> "none", terms |-> q.terms, context |-> q.context, limit |-> q.limit, budget |-> q.budget]
      /\ q.limit \in Nat \ {0} /\ q.budget \in Sizes
  BY <1>1 DEF Requests
<1>3. q.memory = "none" /\ q.limit \in Nat /\ q.budget \in Sizes
  BY <1>2
<1> QED  BY <1>2, <1>3 DEF IsRequest, WithinLimits

\* A search begins.
LEMMA AskInv ==
    ASSUME DeliveryInv, NEW p \in Readers, NEW q \in scenario.requests, NEW op \in {"search", "context"}, Ask(p, op, q)
    PROVE  DeliveryInv'
<1>1. PICK c : c = [NoCall EXCEPT !.at = "load", !.op = op, !.request = q]
  OBVIOUS
<1>2. c = [at |-> "load", op |-> op, request |-> q, result |-> None, invocation |-> None,
           loadout |-> {}, receipts |-> <<>>, memories |-> <<>>]
  BY <1>1 DEF NoCall
<1>3. CallInv(evidence, c)
  BY <1>2, RequestFacts DEF CallInv, IsCall, None
<1>4. Becomes(p, c) /\ evidence' = evidence /\ scenario' = scenario
  BY <1>1 DEF Ask
<1> QED  BY <1>3, <1>4, EvidenceStays, ReaderMoved

\* A record that only follows from earlier ones.
LEMMA PlainRecord ==
    ASSUME DeliveryInv, NEW kind, kind \notin {"retrieval", "injection", "adoption", "loadout_context"},
           NEW thread, NEW parents, parents \subseteq 1..Len(evidence),
           evidence' = Append(evidence, AgentEvent(kind, thread, parents))
    PROVE  EvidenceInv(evidence') /\ Grows(evidence, evidence') /\ Len(evidence') = Len(evidence) + 1
           /\ Len(evidence) \in Nat /\ DOMAIN evidence' = 1..(Len(evidence) + 1)
<1>1. EvidenceInv(evidence) /\ IsLog(evidence)
  BY DEF DeliveryInv, EvidenceInv
<1>2. PICK n, record : n = Len(evidence) + 1 /\ record = AgentEvent(kind, thread, parents)
  OBVIOUS
<1>3. /\ Len(evidence) \in Nat /\ Len(evidence') = n /\ evidence'[n] = record /\ DOMAIN evidence' = 1..n
      /\ n - 1 = Len(evidence)
  <2>1. /\ Grows(evidence, Append(evidence, record)) /\ Len(Append(evidence, record)) = Len(evidence) + 1
        /\ Append(evidence, record)[Len(evidence) + 1] = record
    BY <1>1, LogGrows
  <2>2. evidence' = Append(evidence, record)
    BY <1>2
  <2>3. Grows(evidence, evidence') /\ Len(evidence') = n /\ evidence'[n] = record
    BY <1>2, <2>1, <2>2
  <2>4. Len(evidence) \in Nat /\ DOMAIN evidence' = 1..n
    BY <2>3 DEF Grows
  <2> QED  BY <1>2, <2>3, <2>4
<1>4. record.kind = kind /\ record.parents = parents
  BY <1>2 DEF AgentEvent
<1>5. NewFits(evidence', n)
  BY <1>3, <1>4 DEF NewFits
<1> QED  BY <1>1, <1>2, <1>3, <1>4, <1>5, RecordAppended

\* The hook records its invocation and begins.
LEMMA ProcessInv ==
    ASSUME DeliveryInv, NEW p \in Readers, NEW q \in scenario.requests, Process(p, q)
    PROVE  DeliveryInv'
<1>1. PICK c, n : /\ n = Len(evidence) + 1
                  /\ c = [NoCall EXCEPT !.at = "load", !.op = "context", !.request = q, !.invocation = n]
  OBVIOUS
<1>2. c = [at |-> "load", op |-> "context", request |-> q, result |-> None, invocation |-> n,
           loadout |-> {}, receipts |-> <<>>, memories |-> <<>>]
  BY <1>1 DEF NoCall
<1>3. /\ evidence' = Append(evidence, AgentEvent("hook_input", Thread(q), {}))
      /\ Becomes(p, c) /\ scenario' = scenario
  BY <1>1 DEF Process, Appends, LastRecord
<1>4. /\ EvidenceInv(evidence') /\ Grows(evidence, evidence')
      /\ DOMAIN evidence' = 1..(Len(evidence) + 1) /\ Len(evidence) \in Nat
  <2>1. {} \subseteq 1..Len(evidence)
    OBVIOUS
  <2> QED  BY <1>3, <2>1, PlainRecord
<1>5. n \in DOMAIN evidence'
  BY <1>1, <1>4
<1>6. CallInv(evidence', c)
  BY <1>2, <1>5, RequestFacts DEF CallInv, IsCall
<1> QED  BY <1>3, <1>4, <1>6, ReaderMoved

\* The memories are read and ranked, in whatever state the repository is.
LEMMA LoadActiveRevisionsInv ==
    ASSUME DeliveryInv, RepositoryInv, NEW p \in Readers, LoadActiveRevisions(p)
    PROVE  DeliveryInv'
<1>1. PICK d, H : d = call[p] /\ H = ActiveHeads(files)
  OBVIOUS
<1>2. PICK res : res = IF Verified THEN rankRevisions(H, d.request) ELSE Blocked(H)
  OBVIOUS
<1>3. PICK c : c = [d EXCEPT !.at = "retrieval", !.result = res]
  OBVIOUS
<1>4. CallInv(evidence, d) /\ d.at = "load" /\ IsRequest(d.request)
  BY <1>1 DEF DeliveryInv, LoadActiveRevisions, CallInv
<1>5. c = [at |-> "retrieval", op |-> d.op, request |-> d.request, result |-> res,
           invocation |-> d.invocation, loadout |-> d.loadout, receipts |-> d.receipts,
           memories |-> d.memories]
  <2>1. IsCall(d)
    BY <1>4 DEF CallInv
  <2> QED  BY <1>3, <2>1 DEF IsCall
<1>6. c.result = res /\ c.request = d.request /\ WithinLimits(d.request)
  BY <1>4, <1>5 DEF IsRequest
<1>7. validateReceipt(c) /\ \E M : c.result.selected \in Seq(M) /\ Sized(M)
  <2>1. CASE Verified
    <3>1. MemoryHeads(H) /\ c.result = rankRevisions(H, d.request)
      BY <1>1, <1>2, <1>6, <2>1, CurrentMemories
    <3> QED  BY <1>6, <3>1, RankedVerifies
  <2>2. CASE ~Verified
    <3>1. IsFiniteSet(H) /\ c.result = Blocked(H)
      BY <1>1, <1>2, <1>6, <2>2, CurrentMemories
    <3> QED  BY <1>6, <3>1, BlockedVerifies
  <2> QED  BY <2>1, <2>2
<1>8. Listed(c.result.selected)
  BY <1>7, ListedMatches
<1>9. c.op = "loadout" => LoadoutCall(evidence, c)
  <2> SUFFICES ASSUME d.op = "loadout" PROVE LoadoutCall(evidence, c)
    BY <1>5
  <2>1. LoadoutCall(evidence, d)
    BY <1>4 DEF CallInv
  <2> QED  BY <1>4, <1>5, <2>1 DEF LoadoutCall
<1>10. CallInv(evidence, c)
  <2>1. /\ IsCall(c) /\ c.invocation \in {None} \cup DOMAIN evidence /\ c.at = "retrieval" /\ IsRequest(c.request)
        /\ c.op \in {"search", "context", "loadout"}
    BY <1>4, <1>5 DEF CallInv, IsCall
  <2> QED  BY <1>7, <1>8, <1>9, <2>1 DEF CallInv
<1>11. Becomes(p, c) /\ evidence' = evidence /\ scenario' = scenario
  BY <1>1, <1>2, <1>3 DEF LoadActiveRevisions
<1> QED  BY <1>10, <1>11, EvidenceStays, ReaderMoved

\* A call ends in an error.
LEMMA FailsInv ==
    ASSUME DeliveryInv, NEW p \in Readers, call[p].at # "idle", Fails(p), scenario' = scenario,
           EvidenceInv(evidence'), Grows(evidence, evidence')
    PROVE  DeliveryInv'
<1>1. PICK d : d = call[p]
  OBVIOUS
<1>2. CallInv(evidence, d) /\ CallInv(evidence', d)
  BY <1>1, CallStays DEF DeliveryInv
<1>3. CASE d.invocation # None
  <2>1. PICK c : c = [d EXCEPT !.at = "gap"]
    OBVIOUS
  <2>2. c = [at |-> "gap", op |-> d.op, request |-> d.request, result |-> d.result,
             invocation |-> d.invocation, loadout |-> d.loadout, receipts |-> d.receipts,
             memories |-> d.memories]
    BY <1>2, <2>1 DEF CallInv, IsCall
  <2>3. d.op # "loadout"
    BY <1>2, <1>3 DEF CallInv, LoadoutCall
  <2>4. CallInv(evidence', c)
    BY <1>1, <1>2, <1>3, <2>2, <2>3 DEF CallInv, IsCall
  <2>5. Becomes(p, c)
    BY <1>1, <1>3, <2>1 DEF Fails
  <2> QED  BY <2>4, <2>5, ReaderMoved
<1>4. CASE d.invocation = None
  <2>1. Becomes(p, NoCall)
    BY <1>1, <1>4 DEF Fails, Done
  <2> QED  BY <2>1, NoCallInv, ReaderMoved
<1> QED  BY <1>3, <1>4

\* A call ends.
LEMMA DoneInv ==
    ASSUME DeliveryInv, NEW p \in Readers, Done(p), scenario' = scenario,
           EvidenceInv(evidence'), Grows(evidence, evidence')
    PROVE  DeliveryInv'
BY NoCallInv, ReaderMoved DEF Done

\* The verification of a receipt depends on its request and its result only.
LEMMA ReceiptCongruence ==
    ASSUME NEW a, NEW b, a.result = b.result, a.request = b.request, validateReceipt(a)
    PROVE  validateReceipt(b)
BY DEF validateReceipt

\* The receipt of a search is appended, and the call goes on as its result says.
LEMMA AppendRetrievalInv ==
    ASSUME DeliveryInv, NEW p \in Readers, AppendRetrieval(p)
    PROVE  DeliveryInv'
<1>1. PICK d, n, record : d = call[p] /\ n = Len(evidence) + 1 /\ record = RetrievalEvent(d.request, d.result)
  OBVIOUS
<1>2. CallInv(evidence, d) /\ d.at = "retrieval" /\ IsCall(d) /\ IsRequest(d.request)
  BY <1>1 DEF DeliveryInv, AppendRetrieval, CallInv
<1>3. /\ record.kind = "retrieval" /\ record.request = d.request /\ record.result = d.result
      /\ record.thread = Thread(d.request) /\ record.parents = {}
  BY <1>1 DEF RetrievalEvent
<1>4. evidence' = Append(evidence, record) /\ scenario' = scenario /\ AfterRetrieval(p, d)
  BY <1>1 DEF AppendRetrieval, Appends
<1>5. EvidenceInv(evidence) /\ IsLog(evidence)
  BY DEF DeliveryInv, EvidenceInv
<1>6. /\ Grows(evidence, evidence') /\ Len(evidence) \in Nat /\ DOMAIN evidence' = 1..n
      /\ evidence'[n] = record /\ n \in DOMAIN evidence'
  <2>1. Grows(evidence, evidence') /\ Len(evidence') = n /\ evidence'[n] = record
    BY <1>1, <1>4, <1>5, LogGrows
  <2> QED  BY <1>1, <2>1 DEF Grows
<1>7. EvidenceInv(evidence')
  <2>1. validateReceipt(record)
    BY <1>2, <1>3, ReceiptCongruence DEF CallInv
  <2>2. NewFits(evidence', n)
    BY <1>3, <1>6, <2>1 DEF NewFits
  <2> QED  BY <1>1, <1>3, <1>4, <1>5, <2>2, RecordAppended
<1>8. n \in Kinds(evidence', "retrieval")
  BY <1>3, <1>6 DEF Kinds
<1>9. CallInv(evidence', d)
  BY <1>2, <1>6, CallStays
<1>10. CASE d.result.status = "blocked"
  BY <1>1, <1>2, <1>4, <1>6, <1>7, <1>10, FailsInv DEF AfterRetrieval
<1>11. CASE d.result.status # "blocked" /\ Done(p)
  BY <1>4, <1>6, <1>7, <1>11, DoneInv
<1>12. CASE /\ d.op = "context"
            /\ renderBoundedContext(d.result, d.request).memories # <<>>
            /\ Becomes(p, [d EXCEPT !.at = "injection", !.receipts = <<n>>])
  <2>1. PICK c : c = [d EXCEPT !.at = "injection", !.receipts = <<n>>]
    OBVIOUS
  <2>2. c = [at |-> "injection", op |-> d.op, request |-> d.request, result |-> d.result,
             invocation |-> d.invocation, loadout |-> d.loadout, receipts |-> <<n>>,
             memories |-> d.memories]
    BY <1>2, <2>1 DEF IsCall
  <2>3. /\ c.at = "injection" /\ c.op = "context" /\ c.receipts[1] = n /\ c.result = d.result
        /\ c.request = d.request /\ c.invocation = d.invocation /\ IsCall(c)
    BY <1>12, <2>2 DEF IsCall
  <2>4. Range(renderBoundedContext(d.result, d.request).memories) \subseteq References(d.result.selected)
    <3>1. Listed(d.result.selected)
      BY <1>2 DEF CallInv
    <3>2. PICK M : d.result.selected \in Seq(M) /\ Sized(M)
      BY <3>1, ListedMatches
    <3> QED  BY <3>2, RenderLists
  <2>5. Rendering(evidence', c)
    BY <1>3, <1>6, <1>8, <1>12, <2>3, <2>4 DEF Rendering
  <2>6. CallInv(evidence', c)
    BY <1>2, <1>9, <2>3, <2>5 DEF CallInv
  <2> QED  BY <1>4, <1>6, <1>7, <1>12, <2>1, <2>6, ReaderMoved
<1>13. CASE d.op = "loadout" /\ Exact(d) /\ ~Done(p) /\ d.result.status # "blocked"
  <2>1. PICK rest : rest = Tail(d.memories)
    OBVIOUS
  <2>2. PICK at, next : /\ at = (IF rest = <<>> THEN "receipt" ELSE "load")
                        /\ next = (IF rest = <<>> THEN d.request.memory ELSE Memory(Head(rest)))
    OBVIOUS
  <2>3. PICK q : q = IF rest = <<>> THEN d.request ELSE [d.request EXCEPT !.memory = next]
    OBVIOUS
  <2>4. PICK receipts : receipts = Append(d.receipts, n)
    OBVIOUS
  <2>5. PICK c : c = [at |-> at, op |-> d.op, request |-> q, result |-> d.result,
                      invocation |-> d.invocation, loadout |-> d.loadout,
                      receipts |-> receipts, memories |-> rest]
    OBVIOUS
  <2>6. q = [memory |-> next, terms |-> d.request.terms, context |-> d.request.context,
             limit |-> d.request.limit, budget |-> d.request.budget]
    BY <1>2, <2>2, <2>3 DEF IsRequest
  <2>7. Becomes(p, c)
    <3>1. Becomes(p, [d EXCEPT !.receipts = Append(@, n), !.memories = rest, !.at = at,
                               !.request = q])
      BY <1>1, <1>4, <1>13, <2>1, <2>2, <2>3 DEF AfterRetrieval, LastRecord
    <3>2. [d EXCEPT !.receipts = Append(@, n), !.memories = rest, !.at = at,
                    !.request = q] = c
      <4>1. PICK x : x = [d EXCEPT !.receipts = receipts, !.memories = rest, !.at = at, !.request = q]
        OBVIOUS
      <4>2. PICK y : y = [d EXCEPT !.receipts = receipts, !.memories = rest]
        OBVIOUS
      <4>3. y = [at |-> d.at, op |-> d.op, request |-> d.request, result |-> d.result,
                 invocation |-> d.invocation, loadout |-> d.loadout, receipts |-> receipts, memories |-> rest]
        BY <1>2, <4>2 DEF IsCall
      <4>4. x = [y EXCEPT !.at = at, !.request = q]
        BY <4>1, <4>2
      <4>5. x = [at |-> at, op |-> y.op, request |-> q, result |-> y.result, invocation |-> y.invocation,
                 loadout |-> y.loadout, receipts |-> y.receipts, memories |-> y.memories]
        <5>1. y = [at |-> y.at, op |-> y.op, request |-> y.request, result |-> y.result,
                   invocation |-> y.invocation, loadout |-> y.loadout, receipts |-> y.receipts,
                   memories |-> y.memories]
          BY <4>3
        <5> QED  BY <4>4, <5>1
      <4>6. /\ y.op = d.op /\ y.result = d.result /\ y.invocation = d.invocation
            /\ y.loadout = d.loadout /\ y.receipts = receipts /\ y.memories = rest
        BY <4>3
      <4>7. x = c
        BY <2>5, <4>5, <4>6
      <4> QED  BY <2>4, <4>1, <4>7
    <3> QED  BY <3>1, <3>2
  <2>8. IsRequest(q) /\ q.context = d.request.context /\ q.memory = next
    <3>1. WithinLimits(q)
      BY <1>2, <2>6 DEF IsRequest, WithinLimits
    <3> QED  BY <2>6, <3>1 DEF IsRequest
  <2>9. LoadoutCall(evidence', d) /\ LoadoutCall(evidence, d)
    BY <1>2, <1>9, <1>13 DEF CallInv
  <2>10. PICK l, r, m : l = InOrder(d.loadout) /\ r = Len(d.receipts) /\ m = Len(d.memories)
    OBVIOUS
  <2>11. /\ IsLog(d.receipts) /\ IsLog(d.memories) /\ m > 0 /\ r \in Nat /\ m \in Nat
         /\ r + m = Cardinality(d.loadout)
         /\ \A k \in 1..m : d.memories[k] = l[r + k]
         /\ d.request.memory = Memory(d.memories[1])
    <3>1. IsLog(d.receipts) /\ IsLog(d.memories)
      BY <2>9 DEF LoadoutCall
    <3>2. r \in Nat /\ m \in Nat
      BY <2>10, <3>1, LogPositions
    <3> QED  BY <1>2, <2>9, <2>10, <3>1, <3>2 DEF LoadoutCall
  <2>12. /\ Head(d.memories) = d.memories[1] /\ IsLog(rest) /\ Len(rest) = m - 1
         /\ \A k \in 1..(m - 1) : rest[k] = d.memories[k + 1]
         /\ (rest = <<>> <=> m = 1)
    BY <2>1, <2>10, <2>11, TailLog
  <2>13. /\ IsLog(receipts) /\ Len(receipts) = r + 1 /\ receipts[r + 1] = n
         /\ \A k \in 1..r : receipts[k] = d.receipts[k]
    BY <2>10, <2>11, <2>4, LogGrows DEF Grows
  <2>14. \A k \in 1..(m - 1) : rest[k] = l[(r + 1) + k]
    <3> TAKE k \in 1..(m - 1)
    <3>1. k + 1 \in 1..m /\ r + (k + 1) = (r + 1) + k
      BY <2>11
    <3> QED  BY <2>11, <2>12, <3>1
  <2>15. \A k \in 1..(r + 1) : Pins(evidence', receipts[k], l[k], q.context)
    <3> TAKE k \in 1..(r + 1)
    <3>1. CASE k \in 1..r
      <4>1. Pins(evidence', d.receipts[k], l[k], d.request.context)
        BY <2>9, <2>10, <3>1 DEF LoadoutCall
      <4> QED  BY <2>8, <2>13, <3>1, <4>1
    <3>2. CASE k = r + 1
      <4>1. d.memories[1] = l[r + 1]
        BY <2>11
      <4>2. References(d.result.selected) = {d.memories[1]}
        BY <1>13, <2>12 DEF Exact
      <4>3. Pins(evidence', n, l[r + 1], d.request.context)
        BY <1>3, <1>6, <1>8, <2>11, <4>1, <4>2 DEF Pins
      <4> QED  BY <2>8, <2>13, <3>2, <4>3
    <3> QED  BY <2>11, <3>1, <3>2
  <2>16. /\ at = "receipt" => m - 1 = 0
         /\ at # "receipt" => at = "load" /\ m - 1 > 0 /\ next = Memory(rest[1])
    <3>1. CASE m = 1
      BY <2>2, <2>12, <3>1
    <3>2. CASE m # 1
      <4>1. m - 1 \in Nat /\ m - 1 > 0
        BY <2>11, <3>2
      <4>2. Head(rest) = rest[1]
        BY <2>12, <4>1, TailLog
      <4> QED  BY <2>2, <2>12, <3>2, <4>1, <4>2
    <3> QED  BY <3>1, <3>2
  <2>17. at \in {"load", "receipt"}
    BY <2>2
  <2>18. LoadoutCall(evidence', c)
    <3>1. /\ c.at = at /\ c.invocation = d.invocation /\ c.loadout = d.loadout
          /\ c.receipts = receipts /\ c.memories = rest /\ c.request = q
      BY <2>5, <2>4
    <3>2. (r + 1) + (m - 1) = Cardinality(d.loadout)
      BY <2>11
    <3>3. d.invocation = None /\ Orderly(d.loadout)
      BY <2>9 DEF LoadoutCall
    <3>4. Len(receipts) = r + 1 /\ Len(rest) = m - 1
      BY <2>12, <2>13
    <3> QED  BY <2>8, <2>10, <2>12, <2>13, <2>14, <2>15, <2>16, <2>17, <3>1, <3>2, <3>3, <3>4 DEF LoadoutCall
  <2>19. CallInv(evidence', c)
    <3>1. /\ c.at = at /\ c.op = "loadout" /\ c.invocation = d.invocation /\ c.request = q /\ IsCall(c)
      BY <1>13, <2>5 DEF IsCall
    <3> QED  BY <1>9, <2>8, <2>17, <2>18, <3>1 DEF CallInv
  <2> QED  BY <1>4, <1>6, <1>7, <2>7, <2>19, ReaderMoved
<1> QED
  <2>1. d.result.status # "blocked" =>
          \/ Done(p)
          \/ /\ d.op = "context"
             /\ renderBoundedContext(d.result, d.request).memories # <<>>
             /\ Becomes(p, [d EXCEPT !.at = "injection", !.receipts = <<n>>])
          \/ d.op = "loadout" /\ Exact(d)
    <3>1. d.op \in {"search", "context", "loadout"}
      BY <1>2 DEF CallInv
    <3> QED  BY <1>1, <1>4, <3>1 DEF AfterRetrieval, LastRecord
  <2> QED  BY <1>10, <1>11, <1>12, <1>13, <2>1

\* A record at the end of the ledger.
LEMMA LastOf ==
    ASSUME DeliveryInv, NEW record, evidence' = Append(evidence, record)
    PROVE  /\ EvidenceInv(evidence) /\ Grows(evidence, evidence') /\ Len(evidence) \in Nat
           /\ DOMAIN evidence = 1..Len(evidence) /\ DOMAIN evidence' = 1..(Len(evidence) + 1)
           /\ evidence'[Len(evidence) + 1] = record
<1>1. EvidenceInv(evidence) /\ IsLog(evidence)
  BY DEF DeliveryInv, EvidenceInv
<1>2. /\ Grows(evidence, evidence') /\ Len(evidence') = Len(evidence) + 1
      /\ evidence'[Len(evidence) + 1] = record
  BY <1>1, LogGrows
<1> QED  BY <1>1, <1>2 DEF Grows

\* A rendered context is injected.
LEMMA AppendInjectionInv ==
    ASSUME DeliveryInv, NEW p \in Readers, AppendInjection(p)
    PROVE  DeliveryInv'
<1>1. PICK d, n, r, context, record :
         /\ d = call[p] /\ n = Len(evidence) + 1 /\ r = d.receipts[1]
         /\ context = renderBoundedContext(d.result, d.request)
         /\ record = InjectionEvent(r, d.request, context)
  OBVIOUS
<1>2. d.at = "injection" /\ Rendering(evidence, d)
  BY <1>1 DEF DeliveryInv, CallInv, AppendInjection
<1>3. /\ record.kind = "injection" /\ record.retrieval = r /\ record.memories = context.memories
      /\ record.size = context.size /\ record.thread = Thread(d.request) /\ record.parents = {r}
  BY <1>1 DEF InjectionEvent
<1>4. evidence' = Append(evidence, record) /\ scenario' = scenario /\ Done(p)
  BY <1>1 DEF AppendInjection, Appends
<1>5. /\ EvidenceInv(evidence) /\ Grows(evidence, evidence') /\ Len(evidence) \in Nat
      /\ DOMAIN evidence = 1..Len(evidence) /\ evidence'[n] = record
  BY <1>1, <1>4, LastOf
<1>6. r \in Kinds(evidence, "retrieval") /\ r \in 1..Len(evidence) /\ r < n /\ r \in 1..(n - 1)
  BY <1>1, <1>2, <1>5 DEF Rendering, Kinds
<1>7. evidence'[r] = evidence[r] /\ r \in Kinds(evidence', "retrieval")
  BY <1>5, <1>6, KindsStay
<1>8. /\ evidence[r].result = d.result /\ evidence[r].request = d.request
      /\ evidence[r].thread = Thread(d.request) /\ context.memories # <<>>
      /\ Range(context.memories) \subseteq References(d.result.selected)
  BY <1>1, <1>2 DEF Rendering
<1>9. InjectionFits(evidence', n)
  BY <1>1, <1>3, <1>5, <1>6, <1>7, <1>8 DEF InjectionFits
<1>10. NewFits(evidence', n)
  BY <1>3, <1>5, <1>6, <1>9 DEF NewFits
<1>11. EvidenceInv(evidence')
  BY <1>1, <1>3, <1>4, <1>5, <1>6, <1>10, RecordAppended
<1> QED  BY <1>4, <1>5, <1>11, DoneInv

\* The receipt of a loadout context is appended, if the context fits.
LEMMA AppendReceiptInv ==
    ASSUME DeliveryInv, NEW p \in Readers, AppendReceipt(p)
    PROVE  DeliveryInv'
<1>1. PICK d, n, l, record :
         /\ d = call[p] /\ n = Len(evidence) + 1 /\ l = InOrder(d.loadout)
         /\ record = ContextEvent(d.loadout, d.request, d.receipts, l)
  OBVIOUS
<1>2. scenario' = scenario /\ Done(p) /\ (evidence' = Append(evidence, record) \/ UNCHANGED evidence)
  BY <1>1 DEF AppendReceipt, Appends
<1>3. CASE UNCHANGED evidence
  <2>1. EvidenceInv(evidence') /\ Grows(evidence, evidence')
    BY <1>3, EvidenceStays
  <2> QED  BY <1>2, <2>1, DoneInv
<1>4. CASE evidence' = Append(evidence, record)
  <2>1. d.at = "receipt" /\ d.op = "loadout" /\ LoadoutCall(evidence, d)
    BY <1>1 DEF DeliveryInv, CallInv, AppendReceipt
  <2>2. PICK rs : rs = d.receipts
    OBVIOUS
  <2>3. PICK ps : ps = {rs[i] : i \in DOMAIN rs}
    OBVIOUS
  <2>4. /\ record.kind = "loadout_context" /\ record.loadout = d.loadout /\ record.request = d.request
        /\ record.retrievals = rs /\ record.memories = l /\ record.parents = ps
    BY <1>1, <2>2, <2>3 DEF ContextEvent
  <2>5. /\ EvidenceInv(evidence) /\ Grows(evidence, evidence') /\ Len(evidence) \in Nat
        /\ DOMAIN evidence = 1..Len(evidence) /\ evidence'[n] = record
    BY <1>1, <1>4, LastOf
  <2>6. IsLog(rs) /\ Len(d.memories) = 0 /\ Orderly(d.loadout) /\ Len(rs) + Len(d.memories) = Cardinality(d.loadout)
    BY <2>1, <2>2 DEF LoadoutCall
  <2>7. Len(rs) \in Nat /\ DOMAIN rs = 1..Len(rs) /\ Len(rs) = Cardinality(d.loadout)
    BY <2>6, LogPositions
  <2>8. Range(l) = d.loadout
    BY <1>1, <2>6, InOrderLists
  <2>9. ps = Range(rs)
    BY <2>3 DEF Range
  <2>10. ASSUME NEW k \in DOMAIN rs
         PROVE  /\ rs[k] \in Kinds(evidence', "retrieval") /\ rs[k] < n /\ rs[k] \in 1..(n - 1)
                /\ evidence'[rs[k]].request.memory = Memory(l[k])
                /\ evidence'[rs[k]].request.context = d.request.context
                /\ References(evidence'[rs[k]].result.selected) = {l[k]}
    <3>1. Pins(evidence, rs[k], l[k], d.request.context)
      BY <1>1, <2>1, <2>2, <2>7 DEF LoadoutCall
    <3>2. rs[k] \in DOMAIN evidence
      BY <3>1 DEF Pins, Kinds
    <3>3. rs[k] < n /\ rs[k] \in 1..(n - 1)
      BY <1>1, <2>5, <3>2
    <3>4. Pins(evidence', rs[k], l[k], d.request.context)
      BY <2>5, <3>1, PinsStay
    <3> QED  BY <3>3, <3>4 DEF Pins
  <2>11. ContextReceiptFits(evidence', n)
    BY <2>4, <2>5, <2>7, <2>8, <2>9, <2>10 DEF ContextReceiptFits
  <2>12. ps \subseteq 1..(n - 1) /\ n - 1 = Len(evidence)
    BY <1>1, <2>3, <2>5, <2>10
  <2>13. NewFits(evidence', n)
    BY <2>4, <2>5, <2>11, <2>12 DEF NewFits
  <2>14. EvidenceInv(evidence')
    BY <1>1, <1>4, <2>4, <2>5, <2>12, <2>13, RecordAppended
  <2> QED  BY <1>2, <2>5, <2>14, DoneInv
<1> QED  BY <1>2, <1>3, <1>4

\* The hook records that it has failed.
LEMMA AppendGapInv ==
    ASSUME DeliveryInv, NEW p \in Readers, AppendGap(p)
    PROVE  DeliveryInv'
<1>1. PICK d : d = call[p]
  OBVIOUS
<1>2. /\ scenario' = scenario /\ Done(p)
      /\ \/ evidence' = Append(evidence, AgentEvent("gap", Thread(d.request), {d.invocation}))
         \/ UNCHANGED evidence
  BY <1>1 DEF AppendGap, Appends
<1>3. CASE UNCHANGED evidence
  <2>1. EvidenceInv(evidence') /\ Grows(evidence, evidence')
    BY <1>3, EvidenceStays
  <2> QED  BY <1>2, <2>1, DoneInv
<1>4. CASE evidence' = Append(evidence, AgentEvent("gap", Thread(d.request), {d.invocation}))
  <2>1. d.invocation \in DOMAIN evidence
    BY <1>1 DEF DeliveryInv, CallInv, AppendGap
  <2>2. {d.invocation} \subseteq 1..Len(evidence)
    BY <1>4, <2>1, LastOf
  <2>3. EvidenceInv(evidence') /\ Grows(evidence, evidence')
    BY <1>4, <2>2, PlainRecord
  <2> QED  BY <1>2, <2>3, DoneInv
<1> QED  BY <1>2, <1>3, <1>4

\* The context of a loadout of current heads is begun.
LEMMA BuildContextInv ==
    ASSUME DeliveryInv, RepositoryInv, NEW p \in Readers, NEW loadout \in loadouts,
           NEW request \in scenario.requests, BuildContext(p, loadout, request)
    PROVE  DeliveryInv'
<1>1. PICK l, q, c :
         /\ l = InOrder(loadout)
         /\ q = [request EXCEPT !.limit = 1, !.memory = Memory(Head(l))]
         /\ c = [NoCall EXCEPT !.at = "load", !.op = "loadout", !.loadout = loadout,
                               !.request = q, !.memories = l]
  OBVIOUS
<1>2. Becomes(p, c) /\ evidence' = evidence /\ scenario' = scenario
  BY <1>1 DEF BuildContext
<1>3. Orderly(loadout)
  BY CurrentMemories DEF BuildContext
<1>4. IsRequest(request)
  BY RequestFacts
<1>5. /\ IsLog(l) /\ Len(l) = Cardinality(loadout) /\ Len(l) \in Nat /\ Len(l) > 0
  BY <1>1, <1>3, InOrderLists
<1>6. Head(l) = l[1]
  BY <1>5, TailLog
<1>7. q = [memory |-> Memory(l[1]), terms |-> request.terms, context |-> request.context,
           limit |-> 1, budget |-> request.budget]
  BY <1>1, <1>4, <1>6 DEF IsRequest
<1>8. IsRequest(q) /\ q.memory = Memory(l[1])
  <2>1. q.limit = 1 /\ q.budget = request.budget /\ request.budget \in Sizes
    BY <1>4, <1>7 DEF IsRequest, WithinLimits
  <2> QED  BY <1>7, <2>1 DEF IsRequest, WithinLimits
<1>9. c = [at |-> "load", op |-> "loadout", request |-> q, result |-> None,
           invocation |-> None, loadout |-> loadout, receipts |-> <<>>, memories |-> l]
  BY <1>1 DEF NoCall
<1>10. PICK none : none = <<>>
  OBVIOUS
<1>11. IsLog(none) /\ Len(none) = 0
  BY <1>10, NoLog
<1>12. /\ c.at = "load" /\ c.op = "loadout" /\ c.request = q /\ c.invocation = None
       /\ c.loadout = loadout /\ c.receipts = none /\ c.memories = l /\ IsCall(c)
  BY <1>9, <1>10 DEF IsCall
<1>13. LoadoutCall(evidence, c)
  <2>1. \A k \in 1..Len(l) : l[k] = InOrder(loadout)[0 + k]
    <3> TAKE k \in 1..Len(l)
    <3>1. 0 + k = k
      BY <1>5
    <3> QED  BY <1>1, <3>1
  <2>2. 1..0 = {} /\ 0 + Len(l) = Cardinality(loadout)
    BY <1>5
  <2> QED  BY <1>3, <1>5, <1>8, <1>11, <1>12, <2>1, <2>2 DEF LoadoutCall
<1>14. CallInv(evidence, c)
  BY <1>8, <1>12, <1>13 DEF CallInv
<1> QED  BY <1>2, <1>14, EvidenceStays, ReaderMoved

\* What an adoption request says is true when it is recorded.
LEMMA RecordAdoptionInv ==
    ASSUME DeliveryInv, NEW q \in AdoptionRequests, NEW thread, RecordAdoption(q, thread)
    PROVE  DeliveryInv'
<1>1. PICK n, t, ps, record :
         /\ n = Len(evidence) + 1 /\ t = evidence[q.retrieval].thread
         /\ ps = ({q.retrieval, q.injection} \cup q.outcomes) \ {None}
         /\ record = AdoptionEvent(q, t)
  OBVIOUS
<1>2. Adoptable(evidence, q, thread) /\ evidence' = Append(evidence, record) /\ call' = call /\ scenario' = scenario
  BY <1>1 DEF RecordAdoption, Appends
<1>3. /\ record.kind = "adoption" /\ record.retrieval = q.retrieval /\ record.injection = q.injection
      /\ record.items = q.items /\ record.outcomes = q.outcomes /\ record.thread = t
      /\ record.parents = ps
  BY <1>1 DEF AdoptionEvent
<1>4. /\ EvidenceInv(evidence) /\ Grows(evidence, evidence') /\ Len(evidence) \in Nat
      /\ DOMAIN evidence = 1..Len(evidence) /\ evidence'[n] = record /\ n - 1 = Len(evidence)
  BY <1>1, <1>2, LastOf
<1>5. /\ q.retrieval \in Kinds(evidence, "retrieval")
      /\ q.injection \in Kinds(evidence, "injection") \cup {None}
  BY DEF AdoptionRequests
<1>6. /\ q.retrieval \in Kinds(evidence', "retrieval") /\ evidence'[q.retrieval] = evidence[q.retrieval]
      /\ q.retrieval < n /\ q.retrieval \in 1..(n - 1) /\ q.retrieval \in DOMAIN evidence
  <2>1. q.retrieval \in DOMAIN evidence
    BY <1>5 DEF Kinds
  <2> QED  BY <1>1, <1>4, <1>5, <2>1, KindsStay
<1>7. ASSUME q.injection # None
      PROVE  /\ q.injection \in Kinds(evidence', "injection") /\ q.injection < n
             /\ evidence'[q.injection] = evidence[q.injection] /\ q.injection \in 1..(n - 1)
             /\ evidence[q.injection].retrieval = q.retrieval
  <2>1. q.injection \in DOMAIN evidence /\ q.injection \in Kinds(evidence, "injection")
    BY <1>5, <1>7 DEF Kinds
  <2>2. evidence[q.injection].retrieval = q.retrieval
    BY <1>2, <1>7 DEF Adoptable
  <2> QED  BY <1>1, <1>4, <2>1, <2>2, KindsStay
<1>8. validateAdoptionRequest(record)
  <2>1. validateAdoptionRequest(q)
    BY <1>2 DEF Adoptable
  <2> QED  BY <1>3, <2>1 DEF validateAdoptionRequest
<1>9. {item.revision : item \in record.items} \subseteq Delivered(evidence', record)
  <2>1. {item.revision : item \in q.items} \subseteq Delivered(evidence, q)
    BY <1>2 DEF Adoptable
  <2>2. Delivered(evidence', record) = Delivered(evidence, q)
    BY <1>3, <1>6, <1>7 DEF Delivered
  <2> QED  BY <1>3, <2>1, <2>2
<1>10. ASSUME NEW o \in q.outcomes
       PROVE  o \in 1..(n - 1) /\ o < n /\ OutcomeFits(evidence, q, o)
  <2>1. OutcomeFits(evidence, q, o)
    BY <1>2 DEF Adoptable
  <2>2. o \in DOMAIN evidence
    BY <2>1 DEF OutcomeFits
  <2> QED  BY <1>1, <1>4, <2>1, <2>2
<1>11. ps \subseteq 1..(n - 1)
  BY <1>1, <1>6, <1>7, <1>10
<1>12. ASSUME CausesEarlier(evidence') PROVE NewFits(evidence', n)
  <2>1. \A o \in record.outcomes : o < n /\ OutcomeFits(evidence', record, o)
    <3> TAKE o \in record.outcomes
    <3>1. o < n /\ OutcomeFits(evidence, q, o)
      BY <1>3, <1>10
    <3>2. OutcomeFits(evidence', q, o)
      BY <1>4, <1>6, <1>12, <3>1, OutcomeStays DEF EvidenceInv
    <3>3. Delivery(record) = Delivery(q)
      BY <1>3 DEF Delivery
    <3>4. OutcomeFits(evidence', record, o)
      BY <1>3, <3>2, <3>3 DEF OutcomeFits
    <3> QED  BY <3>1, <3>4
  <2>2. AdoptionFits(evidence', n)
    <3>1. record.thread = evidence'[record.retrieval].thread
      BY <1>1, <1>3, <1>6
    <3> QED  BY <1>1, <1>3, <1>4, <1>6, <1>7, <1>8, <1>9, <2>1, <3>1 DEF AdoptionFits
  <2> QED  BY <1>3, <1>4, <1>11, <2>2 DEF NewFits
<1>13. EvidenceInv(evidence')
  BY <1>1, <1>2, <1>3, <1>4, <1>11, <1>12, RecordAppended
<1>14. \A p \in Readers : CallInv(evidence', call[p])
  BY <1>4, CallStays DEF DeliveryInv
<1> QED  BY <1>2, <1>13, <1>14 DEF DeliveryInv

\* An agent works.
LEMMA WorkInv ==
    ASSUME DeliveryInv, NEW kind \in scenario.work, NEW thread,
           NEW parents \in {{}} \cup {{i} : i \in DOMAIN evidence}, Work(kind, thread, parents)
    PROVE  DeliveryInv'
<1>1. /\ evidence' = Append(evidence, AgentEvent(kind, thread, parents))
      /\ call' = call /\ scenario' = scenario
  BY DEF Work, Appends
<1>2. kind \notin {"retrieval", "injection", "adoption", "loadout_context"}
  <2>1. kind \in {"tool_result", "file_change", "incomplete_result", "message"}
    BY ScenarioAssumption DEF DeliveryInv
  <2> QED  BY <2>1
<1>3. parents \subseteq 1..Len(evidence)
  <2>1. DOMAIN evidence = 1..Len(evidence)
    BY <1>1, LastOf
  <2> QED  BY <2>1
<1>4. EvidenceInv(evidence') /\ Grows(evidence, evidence')
  BY <1>1, <1>2, <1>3, PlainRecord
<1>5. \A p \in Readers : CallInv(evidence', call[p])
  BY <1>4, CallStays DEF DeliveryInv
<1> QED  BY <1>1, <1>4, <1>5 DEF DeliveryInv

\* A step of the repository does not touch the ledger.
LEMMA QuietLedger ==
    ASSUME DeliveryInv, UNCHANGED deliveryVars
    PROVE  DeliveryInv'
BY DEF DeliveryInv, deliveryVars

\* Every step keeps the invariant of the deliveries.
LEMMA DeliveryNextInv ==
    DeliveryInv /\ RepositoryInv /\ [DeliveryNext]_<<repositoryVars, deliveryVars>> => DeliveryInv'
<1> SUFFICES ASSUME DeliveryInv, RepositoryInv, [DeliveryNext]_<<repositoryVars, deliveryVars>>
             PROVE  DeliveryInv'
  OBVIOUS
<1>1. scenario.readers \subseteq Readers
  BY ScenarioAssumption DEF DeliveryInv
<1>2. ASSUME NEW p \in scenario.readers, NEW request \in scenario.requests,
             \/ \E op \in {"search", "context"} : Ask(p, op, request)
             \/ Process(p, request)
             \/ \E l \in loadouts : BuildContext(p, l, request)
      PROVE  DeliveryInv'
  BY <1>1, <1>2, AskInv, ProcessInv, BuildContextInv
<1>3. ASSUME NEW p \in scenario.readers,
             \/ LoadActiveRevisions(p)
             \/ AppendRetrieval(p) \/ AppendInjection(p) \/ AppendReceipt(p) \/ AppendGap(p)
      PROVE  DeliveryInv'
  BY <1>1, <1>3, LoadActiveRevisionsInv, AppendRetrievalInv, AppendInjectionInv, AppendReceiptInv, AppendGapInv
<1>4. ASSUME NEW p \in scenario.readers, AppendFails(p) \/ Vanish(p)
      PROVE  DeliveryInv'
  <2>1. EvidenceInv(evidence') /\ Grows(evidence, evidence') /\ scenario' = scenario
    BY <1>4, EvidenceStays DEF AppendFails, Vanish
  <2>2. p \in Readers
    BY <1>1
  <2>3. CASE AppendFails(p)
    <3>1. call[p].at # "idle" /\ Fails(p)
      BY <2>3 DEF AppendFails
    <3> QED  BY <2>1, <2>2, <3>1, FailsInv
  <2>4. CASE Vanish(p)
    BY <2>1, <2>2, <2>4, DoneInv DEF Vanish
  <2> QED  BY <1>4, <2>3, <2>4
<1>5. ASSUME NEW q \in AdoptionRequests, NEW thread, RecordAdoption(q, thread)
      PROVE  DeliveryInv'
  BY <1>5, RecordAdoptionInv
<1>6. ASSUME NEW kind \in scenario.work, NEW thread,
             NEW parents \in {{}} \cup {{i} : i \in DOMAIN evidence}, Work(kind, thread, parents)
      PROVE  DeliveryInv'
  BY <1>6, WorkInv
<1>7. CASE UNCHANGED deliveryVars
  BY <1>7, QuietLedger
<1> QED  BY <1>2, <1>3, <1>4, <1>5, <1>6, <1>7 DEF DeliveryNext

\* Nothing has been delivered yet.
LEMMA DeliveriesInit == DeliveryInit => DeliveryInv
<1> SUFFICES ASSUME DeliveryInit PROVE DeliveryInv
  OBVIOUS
<1>1. PICK e : e = <<>>
  OBVIOUS
<1>2. evidence = e /\ DOMAIN e = {} /\ IsLog(e) /\ scenario \in Scenarios
      /\ call = [p \in Readers |-> NoCall]
  BY <1>1, NoLog DEF DeliveryInit
<1>3. EvidenceInv(e)
  BY <1>2 DEF EvidenceInv, CausesEarlier, ContextsVerify, Verify, Kinds
<1> QED  BY <1>2, <1>3, NoCallInv DEF DeliveryInv

\* The invariant of the readers, the hook and the agents.
THEOREM DeliveryInvariant == DeliverySpec => []DeliveryInv
<1>1. DeliverySpec => []RepositoryInv
  BY RepositoryInvariant
<1> QED  BY <1>1, DeliveriesInit, DeliveryNextInv, PTL DEF DeliverySpec

\* Everything that is delivered verifies, and every claim rests on it.
LEMMA DeliveryInvImplies == DeliveryInv => DeliveriesVerify /\ ClaimsRestOnDelivery
<1> SUFFICES ASSUME DeliveryInv PROVE DeliveriesVerify /\ ClaimsRestOnDelivery
  OBVIOUS
<1>1. /\ ContextsVerify(evidence) /\ Verify(evidence) /\ CausesEarlier(evidence)
      /\ Len(evidence) \in Nat /\ DOMAIN evidence = 1..Len(evidence)
  BY LogPositions DEF DeliveryInv, EvidenceInv, ContextsVerify
<1>2. ASSUME NEW a \in Kinds(evidence, "adoption"), NEW item \in Claims(evidence[a].items)
      PROVE  \E i \in Kinds(evidence, "injection") :
             \E o \in Kinds(evidence, "tool_result") \cup Kinds(evidence, "file_change") :
                /\ i < o /\ o < a
                /\ item.revision \in Range(evidence[i].memories)
                /\ evidence[i].thread = evidence[o].thread
                /\ \E n \in 1..(o - i) : \E chain \in [0..n -> i..o] :
                      /\ chain[0] = i /\ chain[n] = o
                      /\ \A k \in 1..n : chain[k - 1] \in evidence[chain[k]].parents
  <2>1. PICK q : q = evidence[a]
    OBVIOUS
  <2>2. AdoptionFits(evidence, a)
    BY <1>1 DEF Verify
  <2>3. item \in q.items /\ q.injection # None /\ q.outcomes # {}
    BY <2>1, <2>2 DEF AdoptionFits, validateAdoptionRequest, Claims
  <2>4. PICK i : i = q.injection
    OBVIOUS
  <2>5. PICK o : o \in q.outcomes
    BY <2>3
  <2>6. /\ i \in Kinds(evidence, "injection") /\ evidence[i].retrieval = q.retrieval
        /\ Delivered(evidence, q) = Range(evidence[i].memories) /\ Delivery(q) = i
        /\ item.revision \in Range(evidence[i].memories)
    BY <2>1, <2>2, <2>3, <2>4 DEF AdoptionFits, Delivered, Delivery
  <2>7. o < a /\ OutcomeFits(evidence, q, o)
    BY <2>1, <2>2, <2>5 DEF AdoptionFits
  <2>8. InjectionFits(evidence, i)
    BY <1>1, <2>6 DEF Verify
  <2>9. evidence[i].thread = evidence[o].thread
    BY <2>6, <2>7, <2>8 DEF OutcomeFits, InjectionFits
  <2>10. /\ o \in 1..Len(evidence) /\ o > i /\ i \in Ancestors(evidence, o)
         /\ evidence[o].kind \in {"tool_result", "file_change"}
    BY <1>1, <2>6, <2>7 DEF OutcomeFits, verifyOutcomeEvidence, eventDescendsFrom
  <2>11. o \in Kinds(evidence, "tool_result") \cup Kinds(evidence, "file_change")
    BY <1>1, <2>10 DEF Kinds
  <2>12. i \in 1..o /\ Chained(evidence, i, o)
    BY <1>1, <2>10, AncestorsChained
  <2>13. PICK n \in 0..(o - i) : \E chain \in [0..n -> i..o] :
            /\ chain[0] = i /\ chain[n] = o
            /\ \A k \in 1..n : chain[k - 1] \in evidence[chain[k]].parents
    BY <2>12 DEF Chained
  <2>14. n \in 1..(o - i)
    BY <2>10, <2>12, <2>13
  <2>15. i < o
    BY <2>10, <2>12
  <2> QED  BY <2>6, <2>7, <2>9, <2>11, <2>13, <2>14, <2>15
<1>3. ClaimsRestOnDelivery
  BY <1>2 DEF ClaimsRestOnDelivery
<1> QED  BY <1>1, <1>3 DEF DeliveriesVerify

\* Everything the readers, the hook and RecordAdoption write is accepted by the
\* verifications of internal/retrieval and internal/loadout.
THEOREM DeliveriesVerified == DeliverySpec => []DeliveriesVerify
BY DeliveryInvariant, DeliveryInvImplies, PTL

\* A claim that a memory helped or harmed rests on a later result of the thread in
\* which it had been injected (validateAdoptionRequest, verifyOutcomeEvidence,
\* eventDescendsFrom).
THEOREM ClaimsRestOnDeliveries == DeliverySpec => []ClaimsRestOnDelivery
BY DeliveryInvariant, DeliveryInvImplies, PTL

-----------------------------------------------------------------------------
(* What has been accounted for.                                            *)

Injected(e, r) == UNION {Range(e[i].memories) : i \in {k \in Kinds(e, "injection") : e[k].retrieval = r}}
Observed(e, r) ==
    UNION {{item.revision : item \in e[a].items} : a \in {k \in Kinds(e, "adoption") : e[k].retrieval = r}}
Expected(e, r) == IF Injected(e, r) = {} THEN References(e[r].result.selected) ELSE Injected(e, r)

\* A retrieval is open while something expected has not been observed.
LEMMA OpenMeans ==
    ASSUME NEW e, NEW r
    PROVE  r \in OpenRetrievals(e) <=> r \in Kinds(e, "retrieval") /\ ~(Expected(e, r) \subseteq Observed(e, r))
BY DEF OpenRetrievals, Expected, Observed, Injected

\* In a ledger that verifies a later one only adds observations, and an injection of a
\* retrieval delivers what an earlier one of it did, or a part of what was selected.
LEMMA ClosedStays ==
    ASSUME NEW e, NEW s, EvidenceInv(e), EvidenceInv(s), Grows(e, s),
           NEW r \in Kinds(e, "retrieval"), r \notin OpenRetrievals(e)
    PROVE  r \notin OpenRetrievals(s)
<1>1. r \in DOMAIN e /\ s[r] = e[r] /\ Expected(e, r) \subseteq Observed(e, r)
  BY KindsStay, OpenMeans DEF Kinds
<1>2. ASSUME NEW i \in DOMAIN e, NEW kind
      PROVE  s[i] = e[i] /\ (i \in Kinds(s, kind) <=> i \in Kinds(e, kind))
  BY KindsStay
<1>3. ASSUME NEW kind, NEW i \in Kinds(e, kind) PROVE i \in DOMAIN e
  BY DEF Kinds
<1>4. Observed(e, r) \subseteq Observed(s, r)
  BY <1>2, <1>3 DEF Observed
<1> DEFINE rendered == renderBoundedContext(s[r].result, s[r].request).memories
<1>5. ASSUME NEW i \in Kinds(s, "injection"), s[i].retrieval = r
      PROVE  s[i].memories = rendered /\ Range(rendered) \subseteq References(s[r].result.selected)
  <2>1. InjectionFits(s, i)
    BY DEF EvidenceInv, ContextsVerify, Verify
  <2> QED  BY <1>5, <2>1 DEF InjectionFits
<1> HIDE DEF rendered
<1>6. Injected(s, r) \subseteq Range(rendered)
  BY <1>5 DEF Injected
<1>7. ASSUME Injected(e, r) # {} PROVE Injected(e, r) = Range(rendered)
  <2>1. PICK i \in Kinds(e, "injection") : e[i].retrieval = r /\ Range(e[i].memories) # {}
    BY <1>7 DEF Injected
  <2>2. Range(rendered) \subseteq Injected(e, r)
    BY <1>2, <1>3, <1>5, <2>1 DEF Injected
  <2>3. Injected(e, r) \subseteq Injected(s, r)
    BY <1>2, <1>3 DEF Injected
  <2> QED  BY <1>6, <2>2, <2>3
<1>8. CASE Injected(e, r) # {}
  <2>1. Injected(s, r) \subseteq Expected(e, r) /\ Injected(s, r) # {}
    <3>1. Injected(e, r) \subseteq Injected(s, r)
      BY <1>2, <1>3 DEF Injected
    <3> QED  BY <1>6, <1>7, <1>8, <3>1 DEF Expected
  <2> QED  BY <1>1, <1>4, <2>1, OpenMeans DEF Expected
<1>9. CASE Injected(e, r) = {}
  <2>1. Injected(s, r) \subseteq References(s[r].result.selected)
    <3>1. CASE Injected(s, r) = {}
      BY <3>1
    <3>2. CASE Injected(s, r) # {}
      <4>1. PICK i \in Kinds(s, "injection") : s[i].retrieval = r
        BY <3>2 DEF Injected
      <4> QED  BY <1>5, <1>6, <4>1
    <3> QED  BY <3>1, <3>2
  <2>2. Expected(s, r) \subseteq Expected(e, r)
    BY <1>1, <1>9, <2>1 DEF Expected
  <2> QED  BY <1>1, <1>4, <2>2, OpenMeans
<1> QED  BY <1>8, <1>9

\* The ledger only grows.
LEMMA EvidenceGrows ==
    DeliveryInv /\ [DeliveryNext]_<<repositoryVars, deliveryVars>> => Grows(evidence, evidence')
<1> SUFFICES ASSUME DeliveryInv, [DeliveryNext]_<<repositoryVars, deliveryVars>>
             PROVE  Grows(evidence, evidence')
  OBVIOUS
<1>1. IsLog(evidence)
  BY DEF DeliveryInv, EvidenceInv
<1>2. ASSUME NEW record, Appends(record) PROVE Grows(evidence, evidence')
  BY <1>1, <1>2, LogGrows DEF Appends
<1>3. CASE UNCHANGED evidence
  BY <1>1, <1>3, LogPositions
<1> QED  BY <1>2, <1>3 DEF DeliveryNext, deliveryVars, Ask, Process, BuildContext, LoadActiveRevisions,
            AppendRetrieval, AppendInjection, AppendReceipt, AppendFails, AppendGap, Vanish, RecordAdoption, Work

\* A retrieval that has been accounted for stays accounted for (open_retrieval_ids).
THEOREM AccountsStayClosed == DeliverySpec => ClosedStaysClosed
<1>1. DeliveryInv /\ DeliveryInv' /\ [DeliveryNext]_<<repositoryVars, deliveryVars>> =>
        [\A r \in Kinds(evidence, "retrieval") \ OpenRetrievals(evidence) :
            r \notin OpenRetrievals(evidence')]_deliveryVars
  BY EvidenceGrows, ClosedStays DEF DeliveryInv
<1> QED  BY <1>1, DeliveryInvariant, PTL DEF DeliverySpec, ClosedStaysClosed
=============================================================================
