--------------------------- MODULE GitSync_proofs ---------------------------
(***************************************************************************)
(* Proofs about GitSync, for any devices, contents and bounds.  They need  *)
(* no fairness; what the devices converge to is left to the model checker. *)
(***************************************************************************)
EXTENDS GitSync, FiniteSetTheorems, TLAPS

Places == {"idle", "preparing", "looking", "initializing", "fetching", "integrating", "pushing",
           "rechecking", "finishing"}

\* What Run and the outside client keep: where the branches point, and what a
\* run has established at each place.
GitTypes ==
    /\ remote \in 0..Len(commits)
    /\ head \in [Devices -> 1..Len(commits)]
    /\ incoming \in [Devices -> 0..Len(commits)]
    /\ pc \in [Devices -> Places]
    /\ synced \in [Devices -> BOOLEAN]
    /\ foreign \in Nat

\* No commit of the history of c drops a file of its parents.
KeepsFiles(c) ==
    \A a \in commits[c].past : \A p \in commits[a].parents : commits[p].tree \subseteq commits[a].tree

\* The commits form a graph that only points back, every history has a root,
\* the past of a commit is closed, and a history that
\* drops nothing holds the files of all its commits at its end.
CommitGraph ==
    /\ commits \in Seq({commits[c] : c \in 1..Len(commits)})
    /\ \A c \in 1..Len(commits) :
          /\ c \in commits[c].past
          /\ commits[c].past \subseteq 1..c
          /\ commits[c].parents \subseteq 1..(c - 1)
          /\ Roots(c) # {}
          /\ \A a \in commits[c].past : commits[a].past \subseteq commits[c].past
          /\ KeepsFiles(c) => \A a \in commits[c].past : commits[a].tree \subseteq commits[c].tree

\* A device fetches what the remote branch has, and integrates only what it has
\* verified.
IncomingVerified ==
    \A d \in Devices :
        /\ pc[d] = "fetching" => remote # 0
        /\ pc[d] = "integrating" => incoming[d] # 0 /\ VerifiedHistory(incoming[d])

\* A run that is about to report success has published, and nobody reports
\* success while a run is under way.
PublishedBeforeSuccess ==
    \A d \in Devices :
        /\ pc[d] # "idle" => ~synced[d]
        /\ pc[d] = "finishing" => remote # 0 /\ IsAncestor(head[d], remote)

GitInv ==
    /\ GitTypes
    /\ CommitGraph
    /\ HistoriesVerify
    /\ IncomingVerified
    /\ PublishedBeforeSuccess
    /\ SuccessMeansPublished

-----------------------------------------------------------------------------
\* A log of anything, and one entry more.
LEMMA LogGrows ==
    ASSUME NEW s, s \in Seq({s[i] : i \in 1..Len(s)}), NEW r
    PROVE  LET t == Append(s, r)
           IN  /\ t \in Seq({t[i] : i \in 1..Len(t)})
               /\ Len(s) \in Nat /\ Len(t) = Len(s) + 1
               /\ \A i \in 1..Len(s) : t[i] = s[i]
               /\ t[Len(s) + 1] = r
<1> DEFINE S == {s[i] : i \in 1..Len(s)}
           T == S \cup {r}
           t == Append(s, r)
<1>1. s \in Seq(T) /\ r \in T
  OBVIOUS
<1> HIDE DEF T
<1>2. /\ t \in Seq(T) /\ Len(s) \in Nat /\ Len(t) = Len(s) + 1
      /\ \A i \in 1..Len(s) : t[i] = s[i]
      /\ t[Len(s) + 1] = r
  BY <1>1
<1>3. \A i \in 1..Len(t) : t[i] \in {t[j] : j \in 1..Len(t)}
  OBVIOUS
<1>4. t \in Seq({t[i] : i \in 1..Len(t)})
  BY <1>2, <1>3
<1> QED  BY <1>2, <1>4

\* Commits are only added.
CommitsGrow ==
    /\ Len(commits) \in Nat /\ Len(commits') \in Nat /\ Len(commits) <= Len(commits')
    /\ \A c \in 1..Len(commits) : commits'[c] = commits[c]

\* What is true of the history of a commit stays true.
LEMMA OldHistory ==
    ASSUME CommitGraph, CommitsGrow, NEW c \in 1..Len(commits)
    PROVE  /\ Roots(c)' = Roots(c)
           /\ VerifiedHistory(c)' = VerifiedHistory(c)
           /\ KeepsFiles(c)' = KeepsFiles(c)
<1>1. c \in Nat /\ commits[c].past \subseteq 1..c
  BY DEF CommitGraph, CommitsGrow
<1>2. \A a \in commits[c].past : a \in 1..Len(commits) /\ commits'[a] = commits[a]
  BY <1>1 DEF CommitsGrow
<1>3. \A a \in commits[c].past : \A p \in commits[a].parents : commits'[p] = commits[p]
  <2>1. ASSUME NEW a \in commits[c].past, NEW p \in commits[a].parents
        PROVE  p \in 1..Len(commits)
    <3>1. commits[a].parents \subseteq 1..(a - 1) /\ a \in 1..Len(commits)
      BY <1>2 DEF CommitGraph
    <3> QED  BY <3>1 DEF CommitsGrow
  <2> QED  BY <2>1 DEF CommitsGrow
<1>4. commits'[c] = commits[c]
  BY DEF CommitsGrow
<1>5. Roots(c)' = Roots(c)
  BY <1>2, <1>4 DEF Roots
<1>6. KeepsFiles(c)' = KeepsFiles(c)
  BY <1>2, <1>3, <1>4 DEF KeepsFiles
<1>7. VerifiedHistory(c)' = VerifiedHistory(c)
  BY <1>2, <1>3, <1>4, <1>5 DEF VerifiedHistory
<1> QED  BY <1>5, <1>6, <1>7

\* A history with one root: its roots are a singleton.
LEMMA OneRoot ==
    ASSUME CommitGraph, NEW c \in 1..Len(commits)
    PROVE  Cardinality(Roots(c)) = 1 <=> \E r : Roots(c) = {r}
<1>1. commits[c].past \subseteq 1..c /\ c \in Int /\ 1 \in Int
  BY DEF CommitGraph
<1>2. IsFiniteSet(1..c)
  BY <1>1, FS_Interval
<1>3. Roots(c) \in SUBSET (1..c)
  BY <1>1 DEF Roots
<1>4. IsFiniteSet(Roots(c))
  BY <1>2, <1>3, FS_Subset
<1> QED  BY <1>4, FS_Singleton

\* The graph after a commit on top of the commits ps.
LEMMA NewCommit ==
    ASSUME CommitGraph, NEW n, n = Len(commits) + 1, NEW ps \in SUBSET (1..Len(commits)), ps # {},
           NEW tree, commits' = Append(commits, Commit(tree, ps, n))
    PROVE  /\ CommitsGrow /\ Len(commits') = n /\ n \in Nat \ {0}
           /\ commits'[n].tree = tree /\ commits'[n].parents = ps
           /\ commits'[n].past = {n} \cup UNION {commits[p].past : p \in ps}
           /\ Roots(n)' = UNION {Roots(p) : p \in ps}
           /\ CommitGraph'
<1>1. /\ commits' \in Seq({commits'[c] : c \in 1..Len(commits')})
      /\ Len(commits) \in Nat /\ Len(commits') = n /\ n \in Nat \ {0}
      /\ \A c \in 1..Len(commits) : commits'[c] = commits[c]
      /\ commits'[n] = Commit(tree, ps, n)
  BY LogGrows DEF CommitGraph
<1>2. CommitsGrow
  BY <1>1 DEF CommitsGrow
<1>3. /\ commits'[n].tree = tree /\ commits'[n].parents = ps
      /\ commits'[n].past = {n} \cup UNION {commits[p].past : p \in ps}
  BY <1>1 DEF Commit
<1>4. \A p \in ps : commits[p].past \subseteq 1..p /\ p \in 1..Len(commits) /\ p \in commits[p].past
  BY DEF CommitGraph
<1>5. \A a \in commits'[n].past : a = n \/ (a \in 1..Len(commits) /\ commits'[a] = commits[a])
  BY <1>1, <1>3, <1>4
<1>6. Roots(n)' = UNION {Roots(p) : p \in ps}
  <2>1. n \notin Roots(n)'
    BY <1>3 DEF Roots
  <2>2. \A a \in commits'[n].past : a # n => \E p \in ps : a \in commits[p].past
    BY <1>3
  <2>3. \A p \in ps : \A a \in commits[p].past : a \in commits'[n].past /\ a \in 1..Len(commits) /\ a # n
    BY <1>1, <1>3, <1>4
  <2>4. ASSUME NEW a \in Roots(n)' PROVE \E p \in ps : a \in Roots(p)
    <3>1. a \in commits'[n].past /\ a # n /\ commits'[a].parents = {}
      BY <2>1 DEF Roots
    <3>2. PICK p \in ps : a \in commits[p].past
      BY <2>2, <3>1
    <3> QED  BY <1>5, <3>1, <3>2 DEF Roots
  <2>5. ASSUME NEW p \in ps, NEW a \in Roots(p) PROVE a \in Roots(n)'
    <3>1. a \in commits[p].past /\ commits[a].parents = {}
      BY DEF Roots
    <3> QED  BY <1>1, <2>3, <3>1 DEF Roots
  <2> QED  BY <2>4, <2>5
<1>7. \A c \in 1..Len(commits) :
         /\ c \in commits[c].past
         /\ commits[c].past \subseteq 1..c
         /\ commits[c].parents \subseteq 1..(c - 1)
         /\ Roots(c) # {}
         /\ \A a \in commits[c].past : commits[a].past \subseteq commits[c].past
         /\ KeepsFiles(c) => \A a \in commits[c].past : commits[a].tree \subseteq commits[c].tree
  BY DEF CommitGraph
<1>8. \A c \in 1..Len(commits) : \A a \in commits[c].past : a \in 1..Len(commits) /\ commits'[a] = commits[a]
  BY <1>1, <1>7
<1>9. \A c \in 1..Len(commits) :
         /\ c \in commits'[c].past
         /\ commits'[c].past \subseteq 1..c
         /\ commits'[c].parents \subseteq 1..(c - 1)
         /\ Roots(c)' # {}
         /\ \A a \in commits'[c].past : commits'[a].past \subseteq commits'[c].past
         /\ KeepsFiles(c)' => \A a \in commits'[c].past : commits'[a].tree \subseteq commits'[c].tree
  <2> TAKE c \in 1..Len(commits)
  <2>1. Roots(c)' = Roots(c) /\ KeepsFiles(c)' = KeepsFiles(c) /\ commits'[c] = commits[c]
    BY <1>1, <1>2, OldHistory
  <2> QED  BY <1>7, <1>8, <2>1
<1>10. /\ n \in commits'[n].past
       /\ commits'[n].past \subseteq 1..n
       /\ commits'[n].parents \subseteq 1..(n - 1)
  <2>1. n - 1 = Len(commits) /\ n \in 1..n /\ 1..Len(commits) \subseteq 1..n
    BY <1>1
  <2>2. \A a \in commits'[n].past : a \in 1..n
    BY <1>5, <2>1
  <2> QED  BY <1>3, <2>1, <2>2
<1>11. Roots(n)' # {}
  <2>1. PICK p \in ps : TRUE
    OBVIOUS
  <2>2. Roots(p) # {}
    BY <1>7
  <2> QED  BY <1>6, <2>2
<1>12. \A a \in commits'[n].past : commits'[a].past \subseteq commits'[n].past
  <2> TAKE a \in commits'[n].past
  <2>1. CASE a = n
    BY <2>1
  <2>2. CASE a # n
    <3>1. PICK p \in ps : a \in commits[p].past
      BY <1>3, <2>2
    <3>2. commits[a].past \subseteq commits[p].past /\ commits'[a] = commits[a]
      BY <1>5, <1>7, <2>2, <3>1
    <3> QED  BY <1>3, <3>2
  <2> QED  BY <2>1, <2>2
<1>13. KeepsFiles(n)' => \A a \in commits'[n].past : commits'[a].tree \subseteq commits'[n].tree
  <2> SUFFICES ASSUME KeepsFiles(n)', NEW a \in commits'[n].past, a # n
               PROVE  commits'[a].tree \subseteq commits'[n].tree
    OBVIOUS
  <2>1. PICK p \in ps : a \in commits[p].past
    BY <1>3
  <2>2. commits'[p].tree \subseteq commits'[n].tree /\ commits'[p] = commits[p] /\ commits'[a] = commits[a]
    BY <1>1, <1>3, <1>5, <1>10 DEF KeepsFiles
  <2>3. KeepsFiles(p)
    <3>1. commits'[p].past \subseteq commits'[n].past
      BY <1>1, <1>3
    <3>2. KeepsFiles(p)'
      BY <3>1 DEF KeepsFiles
    <3> QED  BY <1>2, <3>2, OldHistory
  <2>4. commits[a].tree \subseteq commits[p].tree
    BY <1>7, <2>1, <2>3
  <2> QED  BY <2>2, <2>4
<1>14. CommitGraph'
  <2>1. \A c \in 1..Len(commits') : c \in 1..Len(commits) \/ c = n
    BY <1>1
  <2>2. ASSUME NEW c \in 1..Len(commits')
        PROVE  /\ c \in commits'[c].past
               /\ commits'[c].past \subseteq 1..c
               /\ commits'[c].parents \subseteq 1..(c - 1)
               /\ Roots(c)' # {}
               /\ \A a \in commits'[c].past : commits'[a].past \subseteq commits'[c].past
               /\ KeepsFiles(c)' => \A a \in commits'[c].past : commits'[a].tree \subseteq commits'[c].tree
    <3>1. CASE c \in 1..Len(commits)
      BY <1>9, <3>1
    <3>2. CASE c = n
      BY <1>10, <1>11, <1>12, <1>13, <3>2 DEF Roots, KeepsFiles
    <3> QED  BY <2>1, <3>1, <3>2
  <2> QED  BY <1>1, <2>2 DEF CommitGraph
<1> QED  BY <1>1, <1>2, <1>3, <1>6, <1>14

\* A commit on top of verified histories that are related, with a consistent
\* tree that keeps their files, ends a verified history.
LEMMA NewVerified ==
    ASSUME CommitGraph, NEW n, n = Len(commits) + 1, NEW ps \in SUBSET (1..Len(commits)), ps # {},
           NEW tree, commits' = Append(commits, Commit(tree, ps, n)),
           Consistent(tree),
           \A p \in ps : VerifiedHistory(p) /\ commits[p].tree \subseteq tree,
           \A p, q \in ps : Related(p, q)
    PROVE  VerifiedHistory(n)'
<1>1. /\ CommitsGrow /\ Len(commits') = n /\ n \in Nat \ {0}
      /\ commits'[n].tree = tree /\ commits'[n].parents = ps
      /\ commits'[n].past = {n} \cup UNION {commits[p].past : p \in ps}
      /\ Roots(n)' = UNION {Roots(p) : p \in ps}
  BY NewCommit
<1>2. \A c \in 1..Len(commits) : commits'[c] = commits[c]
  BY <1>1 DEF CommitsGrow
<1>3. ASSUME NEW a \in commits'[n].past
      PROVE  /\ Consistent(commits'[a].tree)
             /\ \A p \in commits'[a].parents : commits'[p].tree \subseteq commits'[a].tree
  <2>1. CASE a = n
    BY <1>1, <1>2, <2>1
  <2>2. CASE a # n
    <3>1. PICK p \in ps : a \in commits[p].past
      BY <1>1, <2>2
    <3>2. VerifiedHistory(p)' /\ commits'[p] = commits[p]
      BY <1>1, <1>2, OldHistory
    <3> QED  BY <3>1, <3>2 DEF VerifiedHistory
  <2> QED  BY <2>1, <2>2
<1>4. ASSUME NEW p \in ps, NEW q \in ps PROVE Roots(p) = Roots(q)
  <2>1. PICK c : c \in commits[p].past /\ c \in commits[q].past
    BY DEF Related
  <2>2. /\ commits[p].past \subseteq 1..p /\ p \in 1..Len(commits)
        /\ commits[c].past \subseteq commits[p].past
        /\ commits[c].past \subseteq commits[q].past
    BY <2>1 DEF CommitGraph
  <2>3. c \in 1..Len(commits)
    BY <1>1, <2>1, <2>2
  <2>4. PICK r : r \in Roots(c)
    BY <2>3 DEF CommitGraph
  <2>5. r \in Roots(p) /\ r \in Roots(q)
    BY <2>2, <2>4 DEF Roots
  <2>6. Cardinality(Roots(p)) = 1 /\ Cardinality(Roots(q)) = 1
    BY DEF VerifiedHistory
  <2>7. (\E x : Roots(p) = {x}) /\ (\E x : Roots(q) = {x})
    BY <2>6, OneRoot
  <2> QED  BY <2>5, <2>7
<1>5. Cardinality(Roots(n)') = 1
  <2>1. PICK p \in ps : TRUE
    OBVIOUS
  <2>2. Roots(n)' = Roots(p)
    BY <1>1, <1>4
  <2>3. Cardinality(Roots(p)) = 1
    BY DEF VerifiedHistory
  <2> QED  BY <2>2, <2>3
<1> QED  BY <1>3, <1>5 DEF VerifiedHistory

-----------------------------------------------------------------------------
\* What every step does to a branch, to the remote branch, to a fetched commit
\* and to the result of a run.
BranchMoves(d) == head'[d] = head[d] \/ VerifiedHistory(head[d])'

RemoteMoves ==
    /\ foreign' \in Nat /\ foreign <= foreign'
    /\ \/ remote' = remote
       \/ \E d \in Devices : remote' = head[d] /\ Accepts(head[d])
       \/ foreign' > 0 /\ remote # 0 /\ remote' # 0 /\ commits[remote].past \subseteq commits'[remote'].past

IncomingMoves(d) ==
    /\ pc'[d] = "fetching" => pc[d] = "fetching" \/ remote' # 0
    /\ pc'[d] = "integrating" =>
          \/ pc[d] = "integrating" /\ incoming'[d] = incoming[d]
          \/ incoming'[d] # 0 /\ VerifiedHistory(incoming[d])'

RunMoves(d) ==
    /\ pc'[d] # "idle" => ~synced'[d]
    /\ synced'[d] => \/ head'[d] = head[d] /\ (synced[d] \/ pc[d] = "finishing")
                     \/ remote' = head'[d]
    /\ pc'[d] = "finishing" => \/ head'[d] = head[d] /\ pc[d] = "finishing"
                               \/ remote' = head'[d]

\* Such a step keeps the invariant.
LEMMA GitMoves ==
    ASSUME GitInv, CommitsGrow, CommitGraph', GitTypes', RemoteMoves,
           \A d \in Devices : BranchMoves(d) /\ IncomingMoves(d) /\ RunMoves(d)
    PROVE  GitInv'
<1>1. /\ GitTypes /\ CommitGraph
      /\ \A c \in 1..Len(commits) : commits'[c] = commits[c]
      /\ Len(commits) \in Nat
  BY DEF GitInv, CommitsGrow
<1>2. ASSUME NEW c \in 1..Len(commits), VerifiedHistory(c) PROVE VerifiedHistory(c)'
  BY <1>1, <1>2, OldHistory
<1>3. \A d \in Devices : VerifiedHistory(head[d])' \/ head'[d] # head[d]
  <2> TAKE d \in Devices
  <2>1. PICK h \in 1..Len(commits) : h = head[d]
    BY <1>1 DEF GitTypes
  <2>2. VerifiedHistory(h)
    BY <2>1 DEF GitInv, HistoriesVerify
  <2>3. VerifiedHistory(h)'
    BY <1>2, <2>2
  <2> QED  BY <2>1, <2>3 DEF VerifiedHistory, Roots
<1>4. \A d \in Devices : VerifiedHistory(head[d])'
  BY <1>3 DEF BranchMoves, VerifiedHistory, Roots
<1>5. foreign' = 0 /\ remote' # 0 => VerifiedHistory(remote)'
  <2> SUFFICES ASSUME foreign' = 0, remote' # 0
               PROVE  VerifiedHistory(remote)'
    OBVIOUS
  <2>1. foreign = 0
    BY <1>1 DEF RemoteMoves, GitTypes
  <2>2. PICK h : h = remote'
    OBVIOUS
  <2>3. h \in 1..Len(commits) /\ VerifiedHistory(h)
    <3>1. CASE remote' = remote
      BY <1>1, <2>1, <2>2, <3>1 DEF GitInv, HistoriesVerify, GitTypes
    <3>2. ASSUME NEW d \in Devices, remote' = head[d] PROVE h \in 1..Len(commits) /\ VerifiedHistory(h)
      BY <1>1, <2>2, <3>2 DEF GitInv, HistoriesVerify, GitTypes
    <3> QED  BY <3>1, <3>2 DEF RemoteMoves
  <2>4. VerifiedHistory(h)'
    BY <1>2, <2>3
  <2> QED  BY <2>2, <2>4 DEF VerifiedHistory, Roots
<1>6. remote # 0 => remote' # 0 /\ commits[remote].past \subseteq commits'[remote'].past
  <2> SUFFICES ASSUME remote # 0
               PROVE  remote' # 0 /\ commits[remote].past \subseteq commits'[remote'].past
    OBVIOUS
  <2>1. remote \in 1..Len(commits)
    BY <1>1 DEF GitTypes
  <2>2. CASE remote' = remote
    BY <1>1, <2>1, <2>2
  <2>3. ASSUME NEW d \in Devices, remote' = head[d], Accepts(head[d])
        PROVE  remote' # 0 /\ commits[remote].past \subseteq commits'[remote'].past
    <3>1. head[d] \in 1..Len(commits) /\ remote \in commits[head[d]].past
      BY <1>1, <2>3 DEF GitTypes, Accepts, IsAncestor
    <3>2. commits[remote].past \subseteq commits[head[d]].past
      BY <1>1, <3>1 DEF CommitGraph
    <3> QED  BY <1>1, <2>3, <3>1, <3>2
  <2> QED  BY <2>2, <2>3 DEF RemoteMoves
<1>7. IncomingVerified'
  <2>0. \A d \in Devices : pc'[d] = "fetching" => remote' # 0
    BY <1>6 DEF IncomingMoves, GitInv, IncomingVerified
  <2> SUFFICES ASSUME NEW d \in Devices, pc'[d] = "integrating"
               PROVE  incoming'[d] # 0 /\ VerifiedHistory(incoming[d])'
    BY <2>0 DEF IncomingVerified
  <2>1. CASE pc[d] = "integrating" /\ incoming'[d] = incoming[d]
    <3>1. PICK h : h = incoming[d]
      OBVIOUS
    <3>2. h # 0 /\ VerifiedHistory(h) /\ h \in 0..Len(commits)
      BY <1>1, <2>1, <3>1 DEF GitInv, IncomingVerified, GitTypes
    <3>3. h \in 1..Len(commits)
      BY <1>1, <3>2
    <3>4. VerifiedHistory(h)'
      BY <1>2, <3>2, <3>3
    <3> QED  BY <2>1, <3>1, <3>2, <3>4 DEF VerifiedHistory, Roots
  <2>2. CASE incoming'[d] # 0 /\ VerifiedHistory(incoming[d])'
    BY <2>2
  <2> QED  BY <2>1, <2>2 DEF IncomingMoves
<1>8. ASSUME NEW d \in Devices, head'[d] = head[d], remote # 0, IsAncestor(head[d], remote)
      PROVE  remote' # 0 /\ IsAncestor(head[d], remote)'
  BY <1>6, <1>8 DEF IsAncestor
<1>9. ASSUME NEW d \in Devices, remote' = head'[d]
      PROVE  remote' # 0 /\ IsAncestor(head[d], remote)'
  <2>1. head'[d] \in 1..Len(commits')
    BY DEF GitTypes
  <2>2. head'[d] \in commits'[head'[d]].past
    BY <2>1 DEF CommitGraph
  <2>3. head'[d] # 0
    BY <2>1, <1>1 DEF CommitsGrow
  <2> QED  BY <1>9, <2>2, <2>3 DEF IsAncestor
<1>10. PublishedBeforeSuccess' /\ SuccessMeansPublished'
  <2>1. ASSUME NEW d \in Devices
        PROVE  /\ pc'[d] # "idle" => ~synced'[d]
               /\ pc'[d] = "finishing" => remote' # 0 /\ IsAncestor(head[d], remote)'
               /\ synced'[d] => remote' # 0 /\ IsAncestor(head[d], remote)'
    <3>1. pc[d] = "finishing" \/ synced[d] => remote # 0 /\ IsAncestor(head[d], remote)
      BY DEF GitInv, PublishedBeforeSuccess, SuccessMeansPublished
    <3> QED  BY <1>8, <1>9, <3>1 DEF RunMoves
  <2> QED  BY <2>1 DEF PublishedBeforeSuccess, SuccessMeansPublished
<1> QED  BY <1>4, <1>5, <1>7, <1>10 DEF GitInv, HistoriesVerify

\* A step that makes no commit leaves the graph.
LEMMA SameCommits ==
    ASSUME CommitGraph, commits' = commits
    PROVE  CommitGraph' /\ CommitsGrow
<1>1. Len(commits) \in Nat
  <2>1. commits \in Seq({commits[c] : c \in 1..Len(commits)})
    BY DEF CommitGraph
  <2> QED  BY <2>1
<1>2. CommitsGrow
  BY <1>1 DEF CommitsGrow
<1>3. \A c \in 1..Len(commits) : Roots(c)' = Roots(c) /\ KeepsFiles(c)' = KeepsFiles(c)
  BY <1>2, OldHistory
<1> QED  BY <1>2, <1>3 DEF CommitGraph

Moves == RemoteMoves /\ \A d \in Devices : BranchMoves(d) /\ IncomingMoves(d) /\ RunMoves(d)

\* Every step of a run, of the outside client and of the network makes only
\* such moves.
LEMMA GitStep ==
    ASSUME GitInv, SyncNext
    PROVE  GitTypes' /\ CommitGraph' /\ CommitsGrow /\ Moves
<1>0. GitTypes /\ CommitGraph /\ PublishedBeforeSuccess /\ IncomingVerified /\ HistoriesVerify
  BY DEF GitInv
<1>00. Len(commits) \in Nat /\ 0 \in 0..Len(commits) /\ 1..Len(commits) \subseteq 0..Len(commits)
  BY <1>0, LogGrows DEF CommitGraph
<1> USE DEF Moves, Goto, Places
<1>1. ASSUME NEW d \in Devices, DecideLocally(d) \/ Export(d) \/ RemoveStaleLock(d)
      PROVE  GitTypes' /\ CommitGraph' /\ CommitsGrow /\ Moves
  <2>1. UNCHANGED <<head, commits, remote, incoming, pc, synced, foreign>>
    BY <1>1 DEF DecideLocally, Export, RemoveStaleLock, boundVars
  <2>2. CommitGraph' /\ CommitsGrow /\ GitTypes'
    BY <1>0, <2>1, SameCommits DEF GitTypes
  <2> QED  BY <1>0, <2>1, <2>2 DEF RemoteMoves, BranchMoves, IncomingMoves, RunMoves, GitTypes,
                                    PublishedBeforeSuccess
<1>2. ASSUME NEW d \in Devices, BeginRun(d) \/ LookupRemote(d) \/ UpToDate(d) \/ Ahead(d)
      PROVE  GitTypes' /\ CommitGraph' /\ CommitsGrow /\ Moves
  <2>1. /\ UNCHANGED <<head, commits, remote, incoming, foreign>>
        /\ \E place \in Places \ {"idle", "integrating", "finishing"} :
              pc' = [pc EXCEPT ![d] = place] /\ (place = "fetching" => remote # 0)
        /\ (synced' = synced /\ pc[d] # "idle") \/ synced' = [synced EXCEPT ![d] = FALSE]
    BY <1>2 DEF BeginRun, LookupRemote, UpToDate, Ahead, boundVars
  <2>2. CommitGraph' /\ CommitsGrow
    BY <1>0, <2>1, SameCommits
  <2>3. GitTypes'
    BY <1>0, <2>1 DEF GitTypes
  <2>4. \A e \in Devices : BranchMoves(e) /\ IncomingMoves(e)
    BY <1>0, <2>1 DEF BranchMoves, IncomingMoves, GitTypes
  <2>5. \A e \in Devices : RunMoves(e)
    BY <1>0, <2>1 DEF RunMoves, GitTypes, PublishedBeforeSuccess
  <2> QED  BY <1>0, <2>1, <2>2, <2>3, <2>4, <2>5 DEF RemoteMoves, GitTypes
<1>3. ASSUME NEW d \in Devices, PrepareLocalCommit(d)
      PROVE  GitTypes' /\ CommitGraph' /\ CommitsGrow /\ Moves
  <2>1. pc[d] = "preparing" /\ UNCHANGED <<remote, foreign>>
    BY <1>3 DEF PrepareLocalCommit, boundVars
  <2>2. CASE UNCHANGED <<head, commits, incoming, synced>> /\ pc' = [pc EXCEPT ![d] = "looking"]
    <3>1. CommitGraph' /\ CommitsGrow /\ GitTypes'
      BY <1>0, <2>1, <2>2, SameCommits DEF GitTypes
    <3> QED  BY <1>0, <2>1, <2>2, <3>1 DEF RemoteMoves, BranchMoves, IncomingMoves, RunMoves, GitTypes, PublishedBeforeSuccess
  <2>3. CASE Return(d, FALSE) /\ UNCHANGED <<head, commits>>
    <3>1. CommitGraph' /\ CommitsGrow
      BY <1>0, <2>3, SameCommits
    <3>2. GitTypes'
      BY <1>0, <2>1, <2>3, <3>1 DEF GitTypes, Return, CommitsGrow
    <3> QED  BY <1>0, <2>1, <2>3, <3>1, <3>2 DEF RemoteMoves, BranchMoves, IncomingMoves, RunMoves, GitTypes,
                                                PublishedBeforeSuccess, Return
  <2>4. CASE /\ Committable(d)
             /\ commits' = Append(commits, Commit(work[d], {head[d]}, Len(commits) + 1))
             /\ head' = [head EXCEPT ![d] = Len(commits) + 1]
             /\ pc' = [pc EXCEPT ![d] = "looking"]
             /\ UNCHANGED <<incoming, synced>>
    <3>1. PICK n, h, tree : n = Len(commits) + 1 /\ h = head[d] /\ tree = work[d]
      OBVIOUS
    <3>2. h \in 1..Len(commits) /\ Consistent(tree) /\ VerifiedHistory(h) /\ commits[h].tree \subseteq tree
      BY <1>0, <2>4, <3>1 DEF GitTypes, Committable
    <3>3. Related(h, h)
      BY <1>0, <3>2 DEF CommitGraph, Related
    <3>4. /\ {h} \in SUBSET (1..Len(commits)) /\ {h} # {}
          /\ commits' = Append(commits, Commit(tree, {h}, n))
          /\ \A q \in {h} : VerifiedHistory(q) /\ commits[q].tree \subseteq tree
          /\ \A q, r \in {h} : Related(q, r)
      BY <2>4, <3>1, <3>2, <3>3
    <3>5. CommitGraph' /\ CommitsGrow /\ Len(commits') = n
      BY <1>0, <3>1, <3>4, NewCommit
    <3>6. VerifiedHistory(n)'
      BY <1>0, <3>1, <3>2, <3>4, NewVerified
    <3>7. GitTypes'
      BY <1>0, <2>1, <2>4, <3>1, <3>5 DEF GitTypes, CommitsGrow
    <3>8. \A e \in Devices : IF e = d THEN head'[e] = n ELSE head'[e] = head[e]
      BY <1>0, <2>4, <3>1 DEF GitTypes
    <3>9. \A e \in Devices : BranchMoves(e)
      BY <3>6, <3>8 DEF BranchMoves, VerifiedHistory, Roots
    <3> QED  BY <1>0, <2>1, <2>4, <3>5, <3>7, <3>8, <3>9 DEF RemoteMoves, IncomingMoves, RunMoves, GitTypes, PublishedBeforeSuccess
  <2> QED  BY <1>3, <2>2, <2>3, <2>4 DEF PrepareLocalCommit
<1>4. ASSUME NEW d \in Devices, InitializeRemote(d)
      PROVE  GitTypes' /\ CommitGraph' /\ CommitsGrow /\ Moves
  <2>1. CommitGraph' /\ CommitsGrow
    BY <1>0, <1>4, SameCommits DEF InitializeRemote
  <2>2. GitTypes'
    BY <1>0, <1>00, <1>4 DEF InitializeRemote, Return, GitTypes, boundVars
  <2> QED  BY <1>0, <1>4, <2>1, <2>2 DEF InitializeRemote, Return, boundVars, RemoteMoves, BranchMoves, IncomingMoves, RunMoves,
                                          GitTypes, PublishedBeforeSuccess
<1>5. ASSUME NEW d \in Devices, Fetch(d)
      PROVE  GitTypes' /\ CommitGraph' /\ CommitsGrow /\ Moves
  <2>1. CommitGraph' /\ CommitsGrow
    BY <1>0, <1>5, SameCommits DEF Fetch
  <2>2. /\ UNCHANGED <<head, commits, remote, foreign>> /\ pc[d] = "fetching"
        /\ \/ /\ VerifiedHistory(remote)
              /\ incoming' = [incoming EXCEPT ![d] = remote]
              /\ pc' = [pc EXCEPT ![d] = "integrating"]
              /\ synced' = synced
           \/ Return(d, FALSE)
    BY <1>5 DEF Fetch, boundVars
  <2>3. GitTypes'
    BY <1>0, <1>00, <2>1, <2>2 DEF Return, GitTypes
  <2>4. CASE Return(d, FALSE)
    BY <1>0, <2>1, <2>2, <2>3, <2>4 DEF Return, RemoteMoves, BranchMoves, IncomingMoves, RunMoves,
                                         GitTypes, PublishedBeforeSuccess
  <2>5. CASE /\ VerifiedHistory(remote)
             /\ incoming' = [incoming EXCEPT ![d] = remote]
             /\ pc' = [pc EXCEPT ![d] = "integrating"]
             /\ synced' = synced
    <3>1. RemoteMoves /\ \A e \in Devices : BranchMoves(e) /\ RunMoves(e)
      BY <1>0, <2>2, <2>5 DEF RemoteMoves, BranchMoves, RunMoves, GitTypes, PublishedBeforeSuccess
    <3>2. remote # 0
      BY <1>0, <2>2 DEF IncomingVerified
    <3>3. \A e \in Devices : IncomingMoves(e)
      BY <1>0, <2>2, <2>5, <3>2 DEF IncomingMoves, GitTypes, VerifiedHistory, Roots
    <3> QED  BY <2>1, <2>3, <3>1, <3>3
  <2> QED  BY <2>2, <2>4, <2>5
<1>6. ASSUME NEW d \in Devices, FastForward(d)
      PROVE  GitTypes' /\ CommitGraph' /\ CommitsGrow /\ Moves
  <2>1. /\ UNCHANGED <<commits, remote, incoming, synced, foreign>> /\ pc[d] = "integrating"
        /\ head' = [head EXCEPT ![d] = incoming[d]]
        /\ pc' = [pc EXCEPT ![d] = "rechecking"]
    BY <1>6 DEF FastForward, Advance, boundVars
  <2>2. CommitGraph' /\ CommitsGrow
    BY <1>0, <2>1, SameCommits
  <2>3. PICK h : h = incoming[d]
    OBVIOUS
  <2>4. h \in 1..Len(commits) /\ VerifiedHistory(h)
    BY <1>0, <2>1, <2>2, <2>3 DEF IncomingVerified, GitTypes, CommitsGrow
  <2>5. VerifiedHistory(h)'
    BY <1>0, <2>2, <2>4, OldHistory
  <2>6. \A e \in Devices : IF e = d THEN head'[e] = h ELSE head'[e] = head[e]
    BY <1>0, <2>1, <2>3 DEF GitTypes
  <2>7. \A e \in Devices : BranchMoves(e)
    BY <2>5, <2>6 DEF BranchMoves, VerifiedHistory, Roots
  <2>8. GitTypes'
    BY <1>0, <2>1, <2>3, <2>4 DEF GitTypes
  <2> QED  BY <1>0, <2>1, <2>2, <2>6, <2>7, <2>8 DEF RemoteMoves, IncomingMoves, RunMoves, GitTypes, PublishedBeforeSuccess
<1>7. ASSUME NEW d \in Devices, MergeDivergence(d)
      PROVE  GitTypes' /\ CommitGraph' /\ CommitsGrow /\ Moves
  <2>1. PICK n, g, h, tree : /\ n = Len(commits) + 1 /\ g = head[d] /\ h = incoming[d]
                             /\ tree = commits[g].tree \cup commits[h].tree
    OBVIOUS
  <2>2. /\ pc[d] = "integrating" /\ Mergeable(d)
        /\ commits' = Append(commits, Commit(tree, {g, h}, n))
        /\ head' = [head EXCEPT ![d] = n]
        /\ pc' = [pc EXCEPT ![d] = "pushing"]
        /\ UNCHANGED <<remote, incoming, synced, foreign>>
    BY <1>7, <2>1 DEF MergeDivergence, Diverged, Advance, boundVars
  <2>3. g \in 1..Len(commits) /\ VerifiedHistory(g) /\ Consistent(tree) /\ Related(g, h)
    BY <1>0, <2>1, <2>2 DEF GitTypes, HistoriesVerify, Mergeable
  <2>4. h # 0 /\ VerifiedHistory(h) /\ h \in 0..Len(commits)
    BY <1>0, <2>1, <2>2 DEF GitTypes, IncomingVerified
  <2>5. h \in 1..Len(commits)
    <3>1. Len(commits) \in Nat
      BY <1>0, LogGrows DEF CommitGraph
    <3> QED  BY <2>4, <3>1
  <2>6. \A p, q \in {g, h} : Related(p, q)
    BY <1>0, <2>3, <2>5 DEF Related, CommitGraph
  <2>7. /\ {g, h} \in SUBSET (1..Len(commits)) /\ {g, h} # {}
        /\ \A p \in {g, h} : VerifiedHistory(p) /\ commits[p].tree \subseteq tree
    BY <2>1, <2>3, <2>4, <2>5
  <2>8. CommitGraph' /\ CommitsGrow /\ Len(commits') = n
    BY <1>0, <2>1, <2>2, <2>7, NewCommit
  <2>9. VerifiedHistory(n)'
    BY <1>0, <2>1, <2>2, <2>3, <2>6, <2>7, NewVerified
  <2>10. \A e \in Devices : IF e = d THEN head'[e] = n ELSE head'[e] = head[e]
    BY <1>0, <2>2 DEF GitTypes
  <2>11. \A e \in Devices : BranchMoves(e)
    BY <2>9, <2>10 DEF BranchMoves, VerifiedHistory, Roots
  <2>12. GitTypes'
    BY <1>0, <2>1, <2>2, <2>8 DEF GitTypes, CommitsGrow
  <2> QED  BY <1>0, <2>2, <2>8, <2>10, <2>11, <2>12 DEF RemoteMoves, IncomingMoves, RunMoves, GitTypes, PublishedBeforeSuccess
<1>8. ASSUME NEW d \in Devices, Conflict(d) \/ Push(d) \/ RecheckRemote(d) \/ Finish(d)
      PROVE  GitTypes' /\ CommitGraph' /\ CommitsGrow /\ Moves
  <2>1. /\ UNCHANGED <<head, commits, foreign>> /\ pc[d] # "idle"
        /\ remote' = remote \/ (Accepts(head[d]) /\ remote' = head[d])
        /\ \/ /\ pc' = [pc EXCEPT ![d] = "finishing"]
              /\ remote' = head[d]
              /\ UNCHANGED <<incoming, synced>>
           \/ \E success \in BOOLEAN : Return(d, success) /\ (success => pc[d] = "finishing")
    <3>1. CASE Conflict(d)
      BY <3>1 DEF Conflict, Diverged, boundVars
    <3>2. CASE Push(d)
      BY <3>2 DEF Push, boundVars
    <3>3. CASE RecheckRemote(d)
      BY <3>3 DEF RecheckRemote, boundVars
    <3>4. CASE Finish(d)
      <4>1. Consistent(work[d]) \in BOOLEAN
        BY DEF Consistent
      <4> QED  BY <3>4, <4>1 DEF Finish, boundVars
    <3> QED  BY <1>8, <3>1, <3>2, <3>3, <3>4
  <2>2. CommitGraph' /\ CommitsGrow
    BY <1>0, <2>1, SameCommits
  <2>3. GitTypes'
    BY <1>0, <1>00, <2>1, <2>2 DEF Return, GitTypes
  <2>4. RemoteMoves
    BY <1>0, <2>1 DEF RemoteMoves, GitTypes
  <2>5. CASE /\ pc' = [pc EXCEPT ![d] = "finishing"]
             /\ remote' = head[d]
             /\ UNCHANGED <<incoming, synced>>
    BY <1>0, <2>1, <2>2, <2>3, <2>4, <2>5 DEF BranchMoves, IncomingMoves, RunMoves, GitTypes, PublishedBeforeSuccess
  <2>6. ASSUME NEW success \in BOOLEAN, Return(d, success), success => pc[d] = "finishing"
        PROVE  GitTypes' /\ CommitGraph' /\ CommitsGrow /\ Moves
    BY <1>0, <2>1, <2>2, <2>3, <2>4, <2>6 DEF Return, BranchMoves, IncomingMoves, RunMoves, GitTypes, PublishedBeforeSuccess
  <2> QED  BY <2>1, <2>5, <2>6
<1>9. ASSUME NEW d \in Devices, NetworkFails(d) \/ Die(d)
      PROVE  GitTypes' /\ CommitGraph' /\ CommitsGrow /\ Moves
  <2>1. /\ UNCHANGED <<head, commits, foreign>>
        /\ remote' = remote \/ (Accepts(head[d]) /\ remote' = head[d])
        /\ pc' = [pc EXCEPT ![d] = "idle"] /\ pc[d] # "idle"
        /\ incoming' = [incoming EXCEPT ![d] = 0]
        /\ synced' = synced \/ synced' = [synced EXCEPT ![d] = FALSE]
    BY <1>9 DEF NetworkFails, Die, Return
  <2>2. CommitGraph' /\ CommitsGrow
    BY <1>0, <2>1, SameCommits
  <2>3. GitTypes'
    BY <1>0, <1>00, <2>1 DEF GitTypes
  <2>4. RemoteMoves
    BY <1>0, <2>1 DEF RemoteMoves, GitTypes
  <2> QED  BY <1>0, <2>1, <2>2, <2>3, <2>4 DEF BranchMoves, IncomingMoves, RunMoves, GitTypes, PublishedBeforeSuccess
<1>10. ASSUME ForeignPush
       PROVE  GitTypes' /\ CommitGraph' /\ CommitsGrow /\ Moves
  <2>1. PICK n, h : n = Len(commits) + 1 /\ h = remote
    OBVIOUS
  <2>2. PICK tree : commits' = Append(commits, Commit(tree, {h}, n))
    BY <1>10, <2>1 DEF ForeignPush
  <2>3. h # 0 /\ remote' = n /\ foreign' = foreign + 1 /\ UNCHANGED <<head, incoming, pc, synced>>
    BY <1>10, <2>1 DEF ForeignPush
  <2>4. h \in 1..Len(commits)
    <3>1. Len(commits) \in Nat
      BY <1>0, LogGrows DEF CommitGraph
    <3> QED  BY <1>0, <2>1, <2>3, <3>1 DEF GitTypes
  <2>5. {h} \in SUBSET (1..Len(commits)) /\ {h} # {}
    BY <2>4
  <2>6. /\ CommitGraph' /\ CommitsGrow /\ Len(commits') = n /\ n \in Nat \ {0}
        /\ commits'[n].past = {n} \cup UNION {commits[p].past : p \in {h}}
    BY <1>0, <2>1, <2>2, <2>5, NewCommit
  <2>7. GitTypes'
    BY <1>0, <2>1, <2>3, <2>6 DEF GitTypes, CommitsGrow
  <2>8. RemoteMoves
    BY <1>0, <2>1, <2>3, <2>6 DEF RemoteMoves, GitTypes
  <2> QED  BY <1>0, <2>3, <2>6, <2>7, <2>8 DEF BranchMoves, IncomingMoves, RunMoves, GitTypes, PublishedBeforeSuccess
<1> QED  BY <1>1, <1>2, <1>3, <1>4, <1>5, <1>6, <1>7, <1>8, <1>9, <1>10 DEF SyncNext, RunStep

\* Cloned or bootstrapped repositories: roots without revisions.
LEMMA GitInitInv == SyncInit => GitInv
<1> SUFFICES ASSUME SyncInit PROVE GitInv
  OBVIOUS
<1>1. PICK n \in 1..bound.roots :
         /\ head \in [Devices -> 1..n]
         /\ commits = [i \in 1..n |-> [tree |-> {}, parents |-> {}, past |-> {i}]]
  BY DEF SyncInit
<1>2. n \in Nat
  BY SyncAssumption DEF SyncInit
<1>3. Len(commits) = n /\ commits \in Seq({commits[c] : c \in 1..Len(commits)})
  <2> DEFINE T == {commits[c] : c \in 1..n}
  <2>1. commits \in [1..n -> T]
    BY <1>1
  <2> HIDE DEF T
  <2>2. commits \in Seq(T) /\ Len(commits) = n
    BY <1>2, <2>1
  <2> QED  BY <2>2 DEF T
<1>4. GitTypes
  BY <1>1, <1>2, <1>3 DEF SyncInit, GitTypes, Places
<1>5. ASSUME NEW c \in 1..n
      PROVE  /\ commits[c].tree = {} /\ commits[c].parents = {} /\ commits[c].past = {c}
             /\ Roots(c) = {c}
  BY <1>1 DEF Roots
<1>6. CommitGraph
  <2>1. \A c \in 1..n : c \in 1..c
    BY <1>2
  <2>2. \A c \in 1..n : KeepsFiles(c) => \A a \in commits[c].past : commits[a].tree \subseteq commits[c].tree
    BY <1>5
  <2>3. \A c \in 1..n : /\ c \in commits[c].past
                        /\ commits[c].past \subseteq 1..c
                        /\ commits[c].parents \subseteq 1..(c - 1)
                        /\ Roots(c) # {}
                        /\ \A a \in commits[c].past : commits[a].past \subseteq commits[c].past
    BY <1>5, <2>1
  <2> QED  BY <1>3, <2>2, <2>3 DEF CommitGraph
<1>7. ASSUME NEW c \in 1..n PROVE VerifiedHistory(c)
  <2>1. Consistent({})
    BY DEF Consistent, ParentsPresent, Unforked, Unambiguous, Heads, ActiveHeads
  <2>2. Cardinality(Roots(c)) = 1
    BY <1>5, FS_Singleton
  <2> QED  BY <1>5, <2>1, <2>2 DEF VerifiedHistory
<1>8. HistoriesVerify
  BY <1>1, <1>7 DEF SyncInit, HistoriesVerify
<1>9. IncomingVerified /\ PublishedBeforeSuccess /\ SuccessMeansPublished
  BY DEF SyncInit, IncomingVerified, PublishedBeforeSuccess, SuccessMeansPublished
<1> QED  BY <1>4, <1>6, <1>8, <1>9 DEF GitInv

\* Every step, and a stuttering step, keeps the invariant.
LEMMA GitNextInv == GitInv /\ [SyncNext]_syncVars => GitInv'
<1> SUFFICES ASSUME GitInv, [SyncNext]_syncVars PROVE GitInv'
  OBVIOUS
<1>1. CASE SyncNext
  BY <1>1, GitStep, GitMoves DEF Moves
<1>2. CASE UNCHANGED syncVars
  <2>1. GitTypes /\ CommitGraph
    BY DEF GitInv
  <2>2. /\ UNCHANGED <<head, commits, remote, incoming, pc, synced, foreign>>
        /\ CommitGraph' /\ CommitsGrow
    BY <1>2, <2>1, SameCommits DEF syncVars
  <2>3. GitTypes'
    BY <2>1, <2>2 DEF GitTypes
  <2>4. Moves
    BY <2>1, <2>2 DEF Moves, RemoteMoves, BranchMoves, IncomingMoves, RunMoves, GitTypes, GitInv, PublishedBeforeSuccess
  <2> QED  BY <2>2, <2>3, <2>4, GitMoves DEF Moves
<1> QED  BY <1>1, <1>2

\* The invariant holds for ever, whatever the devices, the network and the
\* outside client do (Run of internal/gitsync).
THEOREM GitInvariant == SyncSpec => []GitInv
<1> QED  BY GitInitInv, GitNextInv, PTL DEF SyncSpec

\* Every local branch ends a verified history, whatever the remote branch holds,
\* and so does the remote branch while only devices push (prepareLocalCommit,
\* the check of the fetched commit, mergeDivergence).
THEOREM GitHistoriesVerify == SyncSpec => []HistoriesVerify
<1>1. GitInv => HistoriesVerify
  BY DEF GitInv
<1> QED  BY <1>1, GitInvariant, PTL

\* Once Run has reported success, the remote branch holds the device's commit
\* (initializeRemote, the push and the re-check of the remote).
THEOREM GitSuccessMeansPublished == SyncSpec => []SuccessMeansPublished
<1>1. GitInv => SuccessMeansPublished
  BY DEF GitInv
<1> QED  BY <1>1, GitInvariant, PTL

-----------------------------------------------------------------------------
\* A step moves a branch only to a commit whose history holds the old one, or to
\* a commit that keeps the files of the old one.
LEMMA BranchKeepsFiles ==
    ASSUME GitInv, SyncNext, NEW d \in Devices
    PROVE  commits[head[d]].tree \subseteq commits'[head'[d]].tree
<1>1. GitTypes /\ CommitGraph /\ CommitsGrow
  BY GitStep DEF GitInv
<1>2. PICK g : g = head[d]
  OBVIOUS
<1>3. g \in 1..Len(commits) /\ commits'[g] = commits[g] /\ Len(commits) \in Nat
  BY <1>1, <1>2 DEF GitTypes, CommitsGrow
<1>4. CASE head'[d] = head[d]
  BY <1>2, <1>3, <1>4
<1>5. ASSUME NEW e \in Devices, PrepareLocalCommit(e), head' # head
      PROVE  commits[head[d]].tree \subseteq commits'[head'[d]].tree
  <2>1. PICK n, h, tree : n = Len(commits) + 1 /\ h = head[e] /\ tree = work[e]
    OBVIOUS
  <2>2. /\ Committable(e)
        /\ commits' = Append(commits, Commit(tree, {h}, n))
        /\ head' = [head EXCEPT ![e] = n]
    BY <1>5, <2>1 DEF PrepareLocalCommit
  <2>3. h \in 1..Len(commits) /\ commits[h].tree \subseteq tree
    BY <1>1, <2>1, <2>2 DEF GitTypes, Committable
  <2>4. commits'[n].tree = tree
    <3>1. {h} \in SUBSET (1..Len(commits)) /\ {h} # {}
      BY <2>3
    <3>2. CommitGraph /\ n = Len(commits) + 1 /\ commits' = Append(commits, Commit(tree, {h}, n))
      BY <1>1, <2>1, <2>2
    <3> QED  BY <3>1, <3>2, NewCommit
  <2>5. CASE e = d
    BY <1>1, <2>1, <2>2, <2>3, <2>4, <2>5 DEF GitTypes
  <2>6. CASE e # d
    BY <1>1, <1>2, <1>3, <2>2, <2>6 DEF GitTypes
  <2> QED  BY <2>5, <2>6
<1>6. ASSUME NEW e \in Devices, FastForward(e)
      PROVE  commits[head[d]].tree \subseteq commits'[head'[d]].tree
  <2>1. PICK h : h = incoming[e]
    OBVIOUS
  <2>2. /\ pc[e] = "integrating" /\ head[e] \in commits[h].past
        /\ commits' = commits /\ head' = [head EXCEPT ![e] = h]
    BY <1>6, <2>1 DEF FastForward, Advance, IsAncestor
  <2>3. h \in 0..Len(commits) /\ h # 0 /\ VerifiedHistory(h)
    BY <1>1, <2>1, <2>2 DEF GitTypes, GitInv, IncomingVerified
  <2>4. h \in 1..Len(commits) /\ KeepsFiles(h)
    BY <1>3, <2>3 DEF VerifiedHistory, KeepsFiles
  <2>5. commits[head[e]].tree \subseteq commits[h].tree
    BY <1>1, <2>2, <2>4 DEF CommitGraph
  <2> QED  BY <1>1, <2>2, <2>5 DEF GitTypes
<1>7. ASSUME NEW e \in Devices, MergeDivergence(e)
      PROVE  commits[head[d]].tree \subseteq commits'[head'[d]].tree
  <2>1. PICK n, h, k, tree : /\ n = Len(commits) + 1 /\ h = head[e] /\ k = incoming[e]
                             /\ tree = commits[h].tree \cup commits[k].tree
    OBVIOUS
  <2>2. /\ pc[e] = "integrating"
        /\ commits' = Append(commits, Commit(tree, {h, k}, n))
        /\ head' = [head EXCEPT ![e] = n]
    BY <1>7, <2>1 DEF MergeDivergence, Diverged, Advance
  <2>3. h \in 1..Len(commits) /\ k \in 0..Len(commits) /\ k # 0
    BY <1>1, <2>1, <2>2 DEF GitTypes, GitInv, IncomingVerified
  <2>4. commits'[n].tree = tree
    <3>1. {h, k} \in SUBSET (1..Len(commits)) /\ {h, k} # {}
      BY <1>3, <2>3
    <3>2. CommitGraph /\ n = Len(commits) + 1 /\ commits' = Append(commits, Commit(tree, {h, k}, n))
      BY <1>1, <2>1, <2>2
    <3> QED  BY <3>1, <3>2, NewCommit
  <2>5. CASE e = d
    BY <1>1, <2>1, <2>2, <2>4, <2>5 DEF GitTypes
  <2>6. CASE e # d
    BY <1>1, <1>2, <1>3, <2>2, <2>6 DEF GitTypes
  <2> QED  BY <2>5, <2>6
<1>8. \/ head' = head
      \/ \E e \in Devices : \/ PrepareLocalCommit(e) /\ head' # head
                          \/ FastForward(e)
                          \/ MergeDivergence(e)
  BY DEF SyncNext, RunStep, ForeignPush, DecideLocally, Export, BeginRun, LookupRemote, InitializeRemote, Fetch,
         UpToDate, Ahead, Conflict, Push, RecheckRemote, Finish, NetworkFails, Die, RemoveStaleLock
<1> QED  BY <1>4, <1>5, <1>6, <1>7, <1>8

\* A revocation in consistent files ends the line of its memory.
LEMMA RevocationEnds ==
    ASSUME NEW files, Consistent(files), NEW r \in files, ~Active(r)
    PROVE  \A s \in ActiveHeads(files) : Memory(s) # Memory(r)
<1>1. Children(files, r) = {}
  BY DEF Consistent, ParentsPresent, Children
<1>2. r \in Heads(files)
  BY <1>1 DEF Heads
<1> QED  BY <1>2 DEF ActiveHeads, Consistent, Unforked

\* A revocation that a device has committed stays the end of its memory on that
\* device, through fast-forwards and merges with what others made of the memory.
THEOREM GitRevocationsStand == SyncSpec => RevocationsStand
<1> DEFINE Stands == \A d \in Devices : \A r \in commits[head[d]].tree :
          ~Active(r) => /\ r \in commits'[head'[d]].tree
                        /\ \A s \in ActiveHeads(commits'[head'[d]].tree) : Memory(s) # Memory(r)
<1>1. ASSUME GitInv, GitInv', [SyncNext]_syncVars PROVE [Stands]_syncVars
  <2> SUFFICES ASSUME SyncNext, NEW d \in Devices, NEW r \in commits[head[d]].tree, ~Active(r)
               PROVE  /\ r \in commits'[head'[d]].tree
                      /\ \A s \in ActiveHeads(commits'[head'[d]].tree) : Memory(s) # Memory(r)
    BY <1>1
  <2>1. PICK files : files = commits'[head'[d]].tree
    OBVIOUS
  <2>2. r \in files
    BY <1>1, <2>1, BranchKeepsFiles
  <2>3. Consistent(files)
    <3>1. head'[d] \in 1..Len(commits') /\ VerifiedHistory(head[d])'
      BY <1>1 DEF GitInv, GitTypes, HistoriesVerify
    <3>2. head'[d] \in commits'[head'[d]].past
      BY <1>1, <3>1 DEF GitInv, CommitGraph
    <3> QED  BY <2>1, <3>1, <3>2 DEF VerifiedHistory
  <2>4. \A s \in ActiveHeads(files) : Memory(s) # Memory(r)
    BY <2>2, <2>3, RevocationEnds
  <2> QED  BY <2>1, <2>2, <2>4
<1> QED  BY <1>1, GitInvariant, PTL DEF SyncSpec, RevocationsStand
=============================================================================
