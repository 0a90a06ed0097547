------------------------------ MODULE GitSync ------------------------------
(***************************************************************************)
(* Private Git synchronization (internal/gitsync): the working copies of   *)
(* several devices and the remote branch they share.                       *)
(*                                                                         *)
(* Run holds the device's repository lock while it commits the working     *)
(* tree, fetches and verifies the remote history, fast-forwards, pushes or *)
(* merges in an isolated worktree, and pushes.  The remote moves between   *)
(* those steps: other devices push, and an outside Git client may push     *)
(* commits that no device would make.                                      *)
(*                                                                         *)
(* A commit is its tree, its parents and, for rev-list, its past: the      *)
(* commits reachable from it.  A tree is its set of revision files; a file *)
(* of another content under the same path cannot exist, because the path   *)
(* is the hash of the content.  Export is one step here: it holds the same *)
(* lock, and PortableRepository models how it is interrupted.              *)
(***************************************************************************)
EXTENDS PortableHistory

CONSTANTS
    Devices,
    Profiles      \* what the devices start with, and the bounds of a behaviour

\* A profile: the local histories every device starts with, the contents that
\* are stated later, how many devices bootstrap while the others clone, and how
\* many local decisions, commits, commits of an outside Git client and faults
\* there are.
ASSUME SyncAssumption ==
    /\ IsFiniteSet(Devices) /\ Devices # {}
    /\ \A b \in Profiles :
          /\ \A h \in b.promoted : IsRevision(h)
          /\ Consistent(b.promoted)
          /\ b.contents \subseteq Contents
          /\ b.roots \in Nat \ {0}
          /\ {b.decisions, b.commits, b.foreign, b.faults} \subseteq Nat

VARIABLES
    histories, \* local promotion histories of each device
    work,      \* revision files in each working tree
    locked,    \* repository.lock of each device exists
    head,      \* commit of each local branch
    commits,   \* every commit made anywhere
    remote,    \* commit of the remote branch, 0 while it has none
    incoming,  \* commit each device has fetched
    pc,        \* where each device is in Run
    synced,    \* the last Run of each device returned without an error
    bound,     \* the profile of this behaviour
    decisions, foreign, faults

syncVars == <<histories, work, locked, head, commits, remote, incoming, pc,
              synced, bound, decisions, foreign, faults>>
boundVars == <<bound, decisions, foreign, faults>>

-----------------------------------------------------------------------------
\* Git, as the code uses it.
Commit(tree, parents, id) ==
    [tree |-> tree, parents |-> parents,
     past |-> {id} \cup UNION {commits[p].past : p \in parents}]

IsAncestor(a, b) == a \in commits[b].past
Related(a, b) == commits[a].past \cap commits[b].past # {}

\* Roots of the history that ends in c.
Roots(c) == {a \in commits[c].past : commits[a].parents = {}}

\* verifyHistory: every commit of the history is consistent and keeps every
\* file of its parents, and there is one root.
VerifiedHistory(c) ==
    /\ \A a \in commits[c].past :
          /\ Consistent(commits[a].tree)
          /\ \A p \in commits[a].parents : commits[p].tree \subseteq commits[a].tree
    /\ Cardinality(Roots(c)) = 1

-----------------------------------------------------------------------------
\* Bootstrap: every root commit has the repository files and no revisions.
\* Devices with the same root have cloned it.
SyncInit ==
    /\ bound \in Profiles
    /\ histories = [d \in Devices |-> bound.promoted]
    /\ work = [d \in Devices |-> {}]
    /\ locked = [d \in Devices |-> FALSE]
    /\ \E n \in 1..bound.roots :
          /\ head \in [Devices -> 1..n]
          /\ \A i \in 1..n : \E d \in Devices : head[d] = i
          /\ commits = [i \in 1..n |-> [tree |-> {}, parents |-> {}, past |-> {i}]]
    /\ remote = 0
    /\ incoming = [d \in Devices |-> 0]
    /\ pc = [d \in Devices |-> "idle"]
    /\ synced = [d \in Devices |-> FALSE]
    /\ decisions = 0 /\ foreign = 0 /\ faults = 0

Goto(d, label) == pc' = [pc EXCEPT ![d] = label]

\* Run returns: the deferred calls drop the incoming ref and the lock.
Return(d, success) ==
    /\ Goto(d, "idle")
    /\ synced' = [synced EXCEPT ![d] = success]
    /\ locked' = [locked EXCEPT ![d] = FALSE]
    /\ incoming' = [incoming EXCEPT ![d] = 0]

Advance(d, c) ==
    /\ head' = [head EXCEPT ![d] = c]
    /\ work' = [work EXCEPT ![d] = commits'[c].tree]

-----------------------------------------------------------------------------
\* memory promotion, supersession or revocation on device d.
DecideLocally(d) ==
    /\ decisions < bound.decisions
    /\ decisions' = decisions + 1
    /\ \E hs \in Grown(histories[d]) :
          /\ \A h \in hs : h[1] \in bound.contents
          /\ histories' = [histories EXCEPT ![d] = hs]
    /\ UNCHANGED <<work, locked, head, commits, remote, incoming, pc, synced,
                   bound, foreign, faults>>

\* portable Export of all or some memories.
Export(d) ==
    /\ ~locked[d]
    /\ Consistent(work[d])
    /\ \E selected \in SUBSET histories[d] :
          /\ Consistent(work[d] \cup Projections(selected))
          /\ work' = [work EXCEPT ![d] = @ \cup Projections(selected)]
    /\ UNCHANGED <<histories, locked, head, commits, remote, incoming, pc,
                   synced, boundVars>>

\* Run up to the lock, started by a person or by the scheduler.  The scheduled
\* command verifies the repository before it gets here and refuses while an export
\* is not committed, or once its runs are suspended; a person's does not.
BeginRun(d) ==
    /\ pc[d] = "idle"
    /\ ~locked[d]
    /\ locked' = [locked EXCEPT ![d] = TRUE]
    /\ synced' = [synced EXCEPT ![d] = FALSE]
    /\ Goto(d, "preparing")
    /\ UNCHANGED <<histories, work, head, commits, remote, incoming, boundVars>>

\* prepareLocalCommit
Committable(d) ==
    /\ Consistent(work[d])
    /\ VerifiedHistory(head[d])
    /\ commits[head[d]].tree \subseteq work[d]

PrepareLocalCommit(d) ==
    /\ pc[d] = "preparing"
    /\ \/ /\ Committable(d)
          /\ work[d] = commits[head[d]].tree
          /\ Goto(d, "looking")
          /\ UNCHANGED <<head, commits, locked, incoming, synced>>
       \/ /\ Committable(d)
          /\ work[d] # commits[head[d]].tree
          /\ Len(commits) < bound.commits
          /\ commits' = Append(commits, Commit(work[d], {head[d]}, Len(commits) + 1))
          /\ head' = [head EXCEPT ![d] = Len(commits) + 1]
          /\ Goto(d, "looking")
          /\ UNCHANGED <<locked, incoming, synced>>
       \/ /\ ~Committable(d)
          /\ Return(d, FALSE)
          /\ UNCHANGED <<head, commits>>
    /\ UNCHANGED <<histories, work, remote, boundVars>>

\* lookupRemoteCommit
LookupRemote(d) ==
    /\ pc[d] = "looking"
    /\ Goto(d, IF remote = 0 THEN "initializing" ELSE "fetching")
    /\ UNCHANGED <<histories, work, locked, head, commits, remote, incoming,
                   synced, boundVars>>

\* git push HEAD:refs/heads/main is accepted when it is a fast-forward.
Accepts(c) == remote = 0 \/ IsAncestor(remote, c)

\* Mutation: the first push is taken for accepted.
InitializeRemote_unchecked(d) ==
    /\ pc[d] = "initializing"
    /\ \/ Accepts(head[d]) /\ remote' = head[d]
       \/ ~Accepts(head[d]) /\ UNCHANGED remote
    /\ Return(d, TRUE)
    /\ UNCHANGED <<histories, work, head, commits, boundVars>>

InitializeRemote(d) ==
    /\ pc[d] = "initializing"
    /\ \/ Accepts(head[d]) /\ remote' = head[d] /\ Return(d, TRUE)
       \/ ~Accepts(head[d]) /\ UNCHANGED remote /\ Return(d, FALSE)
    /\ UNCHANGED <<histories, work, head, commits, boundVars>>

\* The fetch into a temporary reference, and verifyHistory of what came.
Fetch(d) ==
    /\ pc[d] = "fetching"
    /\ IF VerifiedHistory(remote)
       THEN /\ incoming' = [incoming EXCEPT ![d] = remote]
            /\ Goto(d, "integrating")
            /\ UNCHANGED <<locked, synced>>
       ELSE Return(d, FALSE)
    /\ UNCHANGED <<histories, work, head, commits, remote, boundVars>>

UpToDate(d) ==
    /\ pc[d] = "integrating"
    /\ head[d] = incoming[d]
    /\ Goto(d, "rechecking")
    /\ UNCHANGED <<histories, work, locked, head, commits, remote, incoming,
                   synced, boundVars>>

\* Mutation: the branch does not follow the remote.
FastForward_staysBehind(d) ==
    /\ pc[d] = "integrating"
    /\ head[d] # incoming[d]
    /\ IsAncestor(head[d], incoming[d])
    /\ Goto(d, "rechecking")
    /\ UNCHANGED <<histories, work, head, commits, locked, remote, incoming, synced, boundVars>>

FastForward(d) ==
    /\ pc[d] = "integrating"
    /\ head[d] # incoming[d]
    /\ IsAncestor(head[d], incoming[d])
    /\ UNCHANGED commits
    /\ Advance(d, incoming[d])
    /\ Goto(d, "rechecking")
    /\ UNCHANGED <<histories, locked, remote, incoming, synced, boundVars>>

Ahead(d) ==
    /\ pc[d] = "integrating"
    /\ head[d] # incoming[d]
    /\ IsAncestor(incoming[d], head[d])
    /\ Goto(d, "pushing")
    /\ UNCHANGED <<histories, work, locked, head, commits, remote, incoming,
                   synced, boundVars>>

Diverged(d) ==
    /\ pc[d] = "integrating"
    /\ ~IsAncestor(head[d], incoming[d])
    /\ ~IsAncestor(incoming[d], head[d])

\* Mutation: the merged tree is committed without verification.
Mergeable_unchecked(d) == Related(head[d], incoming[d])

\* The isolated merge: Git merges related histories, trees of immutable files
\* unite, and the result must verify.
Mergeable(d) ==
    /\ Related(head[d], incoming[d])
    /\ Consistent(commits[head[d]].tree \cup commits[incoming[d]].tree)

MergeDivergence(d) ==
    /\ Diverged(d)
    /\ Mergeable(d)
    /\ Len(commits) < bound.commits
    /\ commits' = Append(commits,
                         Commit(commits[head[d]].tree \cup commits[incoming[d]].tree,
                                {head[d], incoming[d]}, Len(commits) + 1))
    /\ Advance(d, Len(commits) + 1)
    /\ Goto(d, "pushing")
    /\ UNCHANGED <<histories, locked, remote, incoming, synced, boundVars>>

Conflict(d) ==
    /\ Diverged(d)
    /\ ~Mergeable(d)
    /\ Return(d, FALSE)
    /\ UNCHANGED <<histories, work, head, commits, remote, boundVars>>

Push(d) ==
    /\ pc[d] = "pushing"
    /\ \/ /\ Accepts(head[d])
          /\ remote' = head[d]
          /\ Goto(d, "finishing")
          /\ UNCHANGED <<locked, incoming, synced>>
       \/ /\ ~Accepts(head[d])
          /\ UNCHANGED remote
          /\ Return(d, FALSE)
    /\ UNCHANGED <<histories, work, head, commits, boundVars>>

\* Nothing was pushed: the remote must still be the commit that was fetched.
RecheckRemote(d) ==
    /\ pc[d] = "rechecking"
    /\ \/ remote = head[d] /\ Goto(d, "finishing") /\ UNCHANGED <<locked, incoming, synced>>
       \/ remote # head[d] /\ Return(d, FALSE)
    /\ UNCHANGED <<histories, work, head, commits, remote, boundVars>>

\* The final verification of working tree and index, and the release.
Finish(d) ==
    /\ pc[d] = "finishing"
    /\ Return(d, Consistent(work[d]))
    /\ UNCHANGED <<histories, work, head, commits, remote, boundVars>>

-----------------------------------------------------------------------------
\* The network fails; a failed push may have moved the remote branch.
NetworkFails(d) ==
    /\ pc[d] \in {"looking", "initializing", "fetching", "pushing", "rechecking"}
    /\ faults < bound.faults
    /\ faults' = faults + 1
    /\ remote' \in {remote} \cup IF pc[d] \in {"initializing", "pushing"} /\ Accepts(head[d])
                                 THEN {head[d]} ELSE {}
    /\ Return(d, FALSE)
    /\ UNCHANGED <<histories, work, head, commits, bound, decisions,
                   foreign>>

\* The process is killed and its lock stays.
Die(d) ==
    /\ pc[d] # "idle"
    /\ faults < bound.faults
    /\ faults' = faults + 1
    /\ Goto(d, "idle")
    /\ incoming' = [incoming EXCEPT ![d] = 0]
    /\ UNCHANGED <<histories, work, locked, head, commits, remote, synced,
                   bound, decisions, foreign>>

\* The lock of a dead process is removed by hand.
RemoveStaleLock(d) ==
    /\ pc[d] = "idle"
    /\ locked[d]
    /\ locked' = [locked EXCEPT ![d] = FALSE]
    /\ UNCHANGED <<histories, work, head, commits, remote, incoming, pc, synced,
                   boundVars>>

\* An outside Git client pushes a commit: it drops files, or merges without
\* asking whether the memories agree.
ForeignPush ==
    /\ remote # 0
    /\ foreign < bound.foreign
    /\ foreign' = foreign + 1
    /\ Len(commits) < bound.commits
    /\ \E tree \in {{}} \cup {commits[remote].tree \cup Projections(histories[d]) : d \in Devices} :
          commits' = Append(commits, Commit(tree, {remote}, Len(commits) + 1))
    /\ remote' = Len(commits) + 1
    /\ UNCHANGED <<histories, work, locked, head, incoming, pc, synced,
                   bound, decisions, faults>>

RunStep(d) ==
    \/ PrepareLocalCommit(d)
    \/ LookupRemote(d)
    \/ InitializeRemote(d)
    \/ Fetch(d)
    \/ UpToDate(d)
    \/ FastForward(d)
    \/ Ahead(d)
    \/ MergeDivergence(d)
    \/ Conflict(d)
    \/ Push(d)
    \/ RecheckRemote(d)
    \/ Finish(d)

SyncNext ==
    \/ ForeignPush
    \/ \E d \in Devices :
          \/ DecideLocally(d)
          \/ Export(d)
          \/ BeginRun(d)
          \/ RunStep(d)
          \/ NetworkFails(d)
          \/ Die(d)
          \/ RemoveStaleLock(d)

\* A run that is not killed goes on.  Nothing obliges anybody to start one.
SyncFairness == \A d \in Devices : WF_syncVars(RunStep(d))

SyncSpec == SyncInit /\ [][SyncNext]_syncVars /\ SyncFairness

-----------------------------------------------------------------------------
\* Whatever the remote holds, the history of every local branch verifies: one
\* root, consistent memories in every commit, and no file ever dropped
\* (prepareLocalCommit, the check of the fetched history, mergeDivergence).  A
\* device never publishes what it would reject: while only devices push, the
\* history of the remote branch verifies too.
HistoriesVerify ==
    /\ \A d \in Devices : VerifiedHistory(head[d])
    /\ foreign = 0 /\ remote # 0 => VerifiedHistory(remote)

\* A revocation a device has committed stays the head of its memory on that
\* device, whatever other devices made of the memory in the meantime.
RevocationsStand ==
    [][\A d \in Devices : \A r \in commits[head[d]].tree :
          ~Active(r) => /\ r \in commits'[head'[d]].tree
                        /\ \A s \in ActiveHeads(commits'[head'[d]].tree) :
                              Memory(s) # Memory(r)]_syncVars

\* A run reports success only if the remote branch holds its commit, also when
\* another device initialized or moved the branch first, and it stays held.
SuccessMeansPublished ==
    \A d \in Devices : synced[d] =>
        remote # 0 /\ IsAncestor(head[d], remote)

\* Devices that share no memory to disagree about, and alone push, end with one
\* branch, through rejected pushes, merges and lost answers, provided that a run is
\* started on each of them again and again: by a person where the scheduler's is
\* refused, and where a killed run left its lock, after that is removed.  Excepted
\* are devices that bootstrapped repositories with different root commits.
Converges ==
    (\A d \in Devices : []<><<BeginRun(d)>>_syncVars) =>
        \/ bound.promoted # {} \/ bound.foreign > 0
        \/ <>[](\A d \in Devices : head[d] = remote /\ work[d] = commits[remote].tree)
        \/ [](\E d, e \in Devices : ~Related(head[d], head[e]))
=============================================================================
