------------------------- MODULE PortableRepository -------------------------
(***************************************************************************)
(* One working copy of the portable repository (internal/portable) and the *)
(* processes that share it through .agentmem/repository.lock: Export       *)
(* projects local promotion histories into it, CreateLoadout pins active   *)
(* heads in a loadout, and a native run (internal/agentbridge) delivers a  *)
(* loadout while it holds the lock as a lease.  Every file is written to a *)
(* temporary file beside its destination and renamed.                      *)
(*                                                                         *)
(* A process may die at any point and leaves its lock and its temporary    *)
(* file behind; the lock of a dead process is removed by hand.             *)
(***************************************************************************)
EXTENDS PortableHistory

CONSTANTS
    Procs,       \* processes that work on the repository
    NoProc,      \* the lock is free
    RankOf,      \* position of a memory in the order of memory ids
    MaxLocal,    \* bound: local decisions
    MaxLoadouts, \* bound: loadouts
    MaxCrashes,  \* bound: killed processes
    MaxFailures  \* bound: failed writes

ASSUME RepositoryAssumption ==
    /\ NoProc \notin Procs
    /\ {MaxLocal, MaxLoadouts, MaxCrashes, MaxFailures} \subseteq Nat
    /\ \A c, d \in Contents :
          /\ RankOf[MemoryOf[c]] \in Nat
          /\ RankOf[MemoryOf[c]] = RankOf[MemoryOf[d]] => MemoryOf[c] = MemoryOf[d]

VARIABLES
    histories,  \* the local promotion histories, by their last revisions
    unproven,   \* memories whose validation is no longer current
    files,      \* revision files under memories/
    loadouts,   \* loadout files, each the set of revisions it pins
    temps,      \* processes whose temporary file is in the tree
    lock,       \* the process that created repository.lock
    pc,         \* where each process is
    job,        \* files a process has yet to write, or the loadout it delivers
    decisions,  \* local decisions so far
    crashes,    \* killed processes so far
    failures    \* failed writes so far

repositoryVars == <<histories, unproven, files, loadouts, temps, lock, pc, job,
                    decisions, crashes, failures>>
faultVars == <<crashes, failures>>
localVars == <<histories, unproven, decisions>>
treeVars == <<files, loadouts, temps>>

\* A loadout pins at least one revision, and revisions of the repository only.
Pinned(l, fs) == l # {} /\ l \subseteq fs

\* loadRepository: no file but revisions and loadouts, consistent revisions,
\* and loadouts that refer to revisions of the repository.
Verified ==
    /\ temps = {}
    /\ Consistent(files)
    /\ \A l \in loadouts : Pinned(l, files)

\* validateLoadoutCurrent
Current(l) == l \subseteq ActiveHeads(files)

\* selectHistories and GetStatus: the histories of the wanted memories, whose
\* active ones must be eligible.
Eligible(hs) == \A h \in hs : Active(h) => Memory(h) \notin unproven

\* The order in which Export writes: memories by id, parents before children.
Before(r, s) ==
    \/ RankOf[Memory(r)] < RankOf[Memory(s)]
    \/ Memory(r) = Memory(s) /\ Len(r) < Len(s)

\* Mutation: the newest revision of a memory is written first.
NextFile_headFirst(todo) ==
    CHOOSE r \in todo : \A s \in todo \ {r} :
        \/ RankOf[Memory(r)] < RankOf[Memory(s)]
        \/ Memory(r) = Memory(s) /\ Len(r) > Len(s)

NextFile(todo) == CHOOSE r \in todo : \A s \in todo \ {r} : Before(r, s)

-----------------------------------------------------------------------------
RepositoryInit ==
    /\ histories = {}
    /\ unproven = {}
    /\ files = {}
    /\ loadouts = {}
    /\ temps = {}
    /\ lock = NoProc
    /\ pc = [p \in Procs |-> "idle"]
    /\ job = [p \in Procs |-> {}]
    /\ decisions = 0
    /\ crashes = 0
    /\ failures = 0

\* memory promotion, supersession or revocation on this device.
DecideLocally ==
    /\ decisions < MaxLocal
    /\ decisions' = decisions + 1
    /\ histories' \in Grown(histories)
    /\ UNCHANGED <<unproven, treeVars, lock, pc, job, faultVars>>

\* A later review decision takes back the validation of a memory.
ReviewAgain ==
    /\ decisions < MaxLocal
    /\ decisions' = decisions + 1
    /\ \E h \in histories : unproven' = unproven \cup {Memory(h)}
    /\ UNCHANGED <<histories, treeVars, lock, pc, job, faultVars>>

Goto(p, label) == pc' = [pc EXCEPT ![p] = label]

\* The lock file is created with O_EXCL.
AcquireRepositoryLock(p) == lock = NoProc /\ lock' = p

\* Release and every deferred release: the holder leaves.
Leave(p) ==
    /\ lock' = NoProc
    /\ Goto(p, "idle")
    /\ job' = [job EXCEPT ![p] = {}]

-----------------------------------------------------------------------------
\* Export verifies the repository before it asks for the lock.
BeginExport(p) ==
    /\ pc[p] = "idle"
    /\ Verified
    /\ Goto(p, "preflighted")
    /\ UNCHANGED <<localVars, treeVars, lock, job, faultVars>>

LockExport(p) ==
    /\ pc[p] = "preflighted"
    /\ \/ AcquireRepositoryLock(p) /\ Goto(p, "planning")
       \/ lock # NoProc /\ UNCHANGED lock /\ Goto(p, "idle")
    /\ UNCHANGED <<localVars, treeVars, job, faultVars>>

\* Mutation: the combined state is not validated before writing.
Plannable_unchecked(selected) == Eligible(selected)

\* The selected histories may be exported next to what the repository holds.
Plannable(selected) ==
    /\ Eligible(selected)
    /\ Consistent(files \cup Projections(selected))

\* Export up to the loop that writes: all histories, or those asked for.
PlanExport(p) ==
    /\ pc[p] = "planning"
    /\ \E selected \in SUBSET histories :
          \/ /\ Verified /\ Plannable(selected)
             /\ job' = [job EXCEPT ![p] = Projections(selected) \ files]
             /\ Goto(p, "exporting")
             /\ UNCHANGED lock
          \/ /\ ~(Verified /\ Plannable(selected))
             /\ Leave(p)
    /\ UNCHANGED <<localVars, treeVars, faultVars>>

\* writeFileAtomic up to the rename.
CreateTemp(p) ==
    /\ pc[p] \in {"exporting", "pinning"}
    /\ job[p] # {}
    /\ p \notin temps
    /\ temps' = temps \cup {p}
    /\ UNCHANGED <<localVars, files, loadouts, lock, pc, job, faultVars>>

PublishRevision(p) ==
    /\ pc[p] = "exporting"
    /\ p \in temps
    /\ files' = files \cup {NextFile(job[p])}
    /\ temps' = temps \ {p}
    /\ job' = [job EXCEPT ![p] = @ \ {NextFile(job[p])}]
    /\ UNCHANGED <<localVars, loadouts, lock, pc, faultVars>>

\* The write or the rename fails: the temporary file is removed.
WriteFails(p) ==
    /\ p \in temps
    /\ pc[p] # "dead"
    /\ failures < MaxFailures
    /\ failures' = failures + 1
    /\ temps' = temps \ {p}
    /\ Leave(p)
    /\ UNCHANGED <<localVars, files, loadouts, crashes>>

\* The final verification decides what is reported; the lock goes either way.
FinishWriting(p) ==
    /\ pc[p] \in {"exporting", "pinning"}
    /\ job[p] = {}
    /\ Leave(p)
    /\ UNCHANGED <<localVars, treeVars, faultVars>>

-----------------------------------------------------------------------------
LockLoadout(p) ==
    /\ pc[p] = "idle"
    /\ AcquireRepositoryLock(p)
    /\ Goto(p, "selecting")
    /\ UNCHANGED <<localVars, treeVars, job, faultVars>>

\* CreateLoadout: active heads of a verified repository, unless the loadout
\* exists already.
BuildLoadout(p) ==
    /\ pc[p] = "selecting"
    /\ \/ \E l \in SUBSET ActiveHeads(files) :
             /\ Verified /\ l # {} /\ l \notin loadouts
             /\ Cardinality(loadouts) < MaxLoadouts
             /\ job' = [job EXCEPT ![p] = {l}]
             /\ Goto(p, "pinning")
             /\ UNCHANGED lock
       \/ Leave(p)
    /\ UNCHANGED <<localVars, treeVars, faultVars>>

PublishLoadout(p) ==
    /\ pc[p] = "pinning"
    /\ p \in temps
    /\ loadouts' = loadouts \cup job[p]
    /\ temps' = temps \ {p}
    /\ job' = [job EXCEPT ![p] = {}]
    /\ UNCHANGED <<localVars, files, lock, pc, faultVars>>

-----------------------------------------------------------------------------
LeaseForRun(p) ==
    /\ pc[p] = "idle"
    /\ AcquireRepositoryLock(p)
    /\ Goto(p, "resolving")
    /\ UNCHANGED <<localVars, treeVars, job, faultVars>>

\* Mutation: a loadout is delivered because it is still in the repository.
ResolveDelivery_historical(p) ==
    /\ pc[p] = "resolving"
    /\ \/ \E l \in loadouts :
             /\ Verified
             /\ job' = [job EXCEPT ![p] = {l}]
             /\ Goto(p, "delivering")
             /\ UNCHANGED lock
       \/ Leave(p)
    /\ UNCHANGED <<localVars, treeVars, faultVars>>

\* resolveDelivery: the loadout of the receipt must still pin exact heads.
ResolveDelivery(p) ==
    /\ pc[p] = "resolving"
    /\ \/ \E l \in loadouts :
             /\ Verified /\ Current(l)
             /\ job' = [job EXCEPT ![p] = {l}]
             /\ Goto(p, "delivering")
             /\ UNCHANGED lock
       \/ Leave(p)
    /\ UNCHANGED <<localVars, treeVars, faultVars>>

\* The agent has run and its receipt is recorded.
FinishRun(p) ==
    /\ pc[p] = "delivering"
    /\ Leave(p)
    /\ UNCHANGED <<localVars, treeVars, faultVars>>

-----------------------------------------------------------------------------
\* The process is killed; its files stay.
Die(p) ==
    /\ pc[p] \notin {"idle", "dead"}
    /\ crashes < MaxCrashes
    /\ crashes' = crashes + 1
    /\ Goto(p, "dead")
    /\ job' = [job EXCEPT ![p] = {}]
    /\ UNCHANGED <<localVars, treeVars, lock, failures>>

\* Explicit recovery: the lock is inspected and removed once its owner is gone.
RemoveStaleLock(p) ==
    /\ pc[p] = "dead"
    /\ lock = p
    /\ lock' = NoProc
    /\ UNCHANGED <<localVars, treeVars, pc, job, faultVars>>

RepositoryNext ==
    \/ DecideLocally
    \/ ReviewAgain
    \/ \E p \in Procs :
          \/ BeginExport(p)
          \/ LockExport(p)
          \/ PlanExport(p)
          \/ CreateTemp(p)
          \/ PublishRevision(p)
          \/ WriteFails(p)
          \/ FinishWriting(p)
          \/ LockLoadout(p)
          \/ BuildLoadout(p)
          \/ PublishLoadout(p)
          \/ LeaseForRun(p)
          \/ ResolveDelivery(p)
          \/ FinishRun(p)
          \/ Die(p)
          \/ RemoveStaleLock(p)

RepositorySpec == RepositoryInit /\ [][RepositoryNext]_repositoryVars

-----------------------------------------------------------------------------
\* Whatever is interrupted, killed or fails, every memory in the repository is
\* one unforked line that starts at its root and holds the parent of each
\* revision: Export writes parents before children (export.go, planned).
LinesStayWhole == ParentsPresent(files) /\ Unforked(files)

\* Without a crash or a failed write the repository verifies whenever nobody
\* holds its lock: Export validates the combined state before it writes.
UninterruptedWorkVerifies == crashes = 0 /\ failures = 0 /\ lock = NoProc => Verified

\* A loadout in delivery pins the exact active heads of the repository until
\* the agent has finished: the lease keeps every other writer out
\* (AcquireRepositoryUseLease and its comment).
DeliveredLoadoutStaysCurrent ==
    \A p \in Procs : pc[p] = "delivering" => \A l \in job[p] : Current(l)

\* "Interrupted exports are safe to retry" (docs/portable-memory.md): once the
\* lock of an interrupted export is gone, the repository verifies, so that the
\* next export is not refused by its preflight.
InterruptedExportsAreRetryable == lock = NoProc => Verified
=============================================================================
