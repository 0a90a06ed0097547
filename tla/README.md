# TLA+ models of the agent memory system

This directory holds TLA+ specifications of the agent memory system, the TLC
configurations that check them on small instances, and TLAPS proofs about the ledgers,
the repository, its distribution and the studies. Every definition is translated from the Go source; the map in
`PROJECT.json` names the lines each one stands for.

    tlc -workers 2 -config EvidenceLedger.cfg MCEvidenceLedger     # one run
    tlapm GitSync_proofs.tla                                       # the proofs about one module

## 1. The system

Evidence of what coding agents did is captured into an append-only ledger,
rebuilt into episodes and candidate memories, judged by people, promoted, and
only then shared between machines through a private Git repository.

    agents' files, hooks -> capture supervisor -> JSONL importer -> EVIDENCE LEDGER
                                                                        |
                 episodes and candidates (generations over a prefix of the evidence)
                                                                        |
                     review ledger -> promotion ledger -> rule approvals
                                            |
                               portable repository -> git synchronization -> remote
                                            |                  ^
                         retrieval, loadouts, native runs      automatic synchronization

Parts interact in three ways: by calls inside one process, by lock files and
append-only JSONL files shared between processes, and through Git. There is no
server: every command is a process that takes a lock file, replays a file, decides,
appends and leaves, and it may be killed or fail at any point of that.

### Inventory

| component | state it keeps | operations | what makes it hard | what makes it correct |
|---|---|---|---|---|
| evidence ledger `internal/ledger` | `ledger/events.jsonl` (hash chain), `state/ledger-writer.lock`, blobs | `NewAppender`, `Append(Batch)`, `PutBlob`, `Close`, `Verify`, `ClearStaleWriterLock` | two processes, torn writes, failed fsync, power loss, locks left behind | the chain does not fork; acknowledged records stay; recorded blobs exist; a torn file is not extended |
| candidate review `internal/review` | `learning/review-events.jsonl`, its lock | `Apply`, `GetStatus` | decisions drafted against a status that has changed; a torn append | the file stays replayable; one validated candidate per conflict |
| promotion `internal/promotion` | `learning/promotion-events.jsonl`, two locks | `Apply` (promote, supersede, revoke), `GetStatus` | reads reviews, generation and evidence while all of them change | one active memory per meaning; promoted on current evidence; revocation is final |
| rule approval `internal/ruleapproval` | approval events, its lock | `Apply`, `GetStatus` | its validity depends on times of another ledger | the file stays replayable |
| portable repository `internal/portable` | revision files, loadouts, `.agentmem/repository.lock` | `Export`, `CreateLoadout`, verification, use lease | a set of files written one by one; killed exports; a lease held for a whole agent run | revision lines stay whole; a delivered loadout stays current |
| git synchronization `internal/gitsync` | branch, working tree, remote branch | `Run` (commit, fetch, verify, fast-forward, merge, push, recheck), `Bootstrap` | devices race for one remote branch; answers are lost; other clients push | histories verify; success means published; revocations stand; devices converge |
| automatic synchronization `internal/autosync` | `config.json`, audit, `operation.lock`, scheduler task | `enable`, `disable`, `run`, `recover`, `status`, stale-lock recovery | two files and an outside registration changed in turn, with rollbacks | attempts stay authorized; suspension holds; what is promoted is published or its stop reported |
| JSONL importer `internal/adapterjsonl` | none of its own: offsets come from the ledger | `Import` of a file from its committed offset | files grow, are cut and are replaced while they are read | every line is recorded once |
| capture supervisor `internal/capturesupervisor` | config, audit of runs, `operation.lock` | `ConfigureFile`, `Run`, `Watch`, `Recover`, `Status` | an inventory, an import and an inventory again, around files that change | success means recorded; what is missing is reported |
| hook capture `internal/hookcapture` | spool of envelopes | spooling, spool import, `Reconcile` | a hook is killed between link and remove | a ready status covers every hook that has returned |
| episode generations `internal/episodes` | generations, attempts, audit | `Build`, audit | evidence grows while a generation is built; publication by rename | a generation covers an exact prefix |
| candidate generations `internal/candidates` | generations | `Build`, conflict grouping | the same | conflicting candidates start quarantined |
| native execution `internal/agentbridge` | start and receipt records in the evidence ledger | `Run`, verification of executions | preflights, a lease, a child process and two appends, each of which may fail | what it records is what its verification accepts |
| studies `internal/study` | plans, reservations, terminals, outcomes and observations in the evidence ledger | `Create`, `RegisterExternal`, `RunTask`, `Observe`, `BuildReport` | a reservation is spent before the agent starts; every command replays all studies first | no second attempt; sealed files and memory; finished reports stand |
| retrieval and adoption, loadout contexts, hook injection `internal/retrieval`, `internal/loadout`, `internal/hookinject` | receipts in the evidence ledger | `Search`, `BuildContext`, `RecordAdoption`, `Verify`, `Process` | a repository that changes between search and use; calls cut off between receipts | receipts verify; claims rest on a delivery |
| evaluation `internal/evaluation` | trial plans, contracts, executions, verdicts, attempt receipts, corpora, labels and reports, in the evidence ledger and under derived/evaluations | preregister, execute, observe, finalize, freeze, seal, prepare, run, verify | killed supervisors, two supervisors, a ledger that grows between prepare and run, labels that must be blind | each arm is run and counted once; receipts, corpora and reports keep verifying; ready means measured |
| agent assessment `internal/agentassessment` | attempts and observations | assess, verify | an external model | nothing is finalized without its attempt |
| backup, source recovery `internal/backup`, `internal/sourcerecovery` | archives, recovery plans | create, restore, plan, apply | an archive is taken while writers run | a restore is all or nothing |
| adapters, OpenCode capture, crash-safe JSONL writer `adapters/*`, `integrations/opencode` | event files | projection of records, native exports | torn last lines | records survive a restart |
| the rest (command line, dashboard, MCP server, diagnostics, secret scan, review packets, benchmark) | none that others use | read and present | - | - |

`PROJECT.json` lists every component with its sources and status, and under
"hazards" the places where the code is hard to test, each at its line with the
properties that watch it.

## 2. Modules

| module | models | uses |
|---|---|---|
| `EvidenceLedger` | `internal/ledger` | refines `AppendOnlyLog` |
| `AppendOnlyLog` | what a reader of the ledger may rely on | - |
| `ReviewLedger` | `internal/review` | - |
| `PromotionLedger` | `internal/promotion` among evidence appends, builds and reviews | `ReviewLedger` |
| `RuleApproval` | `internal/ruleapproval` among the former two | `PromotionLedger` |
| `PortableHistory` | revisions, heads and their validation (`internal/portable`) | - |
| `PortableRepository` | export, loadouts, lease and delivery | `PortableHistory` |
| `GitSync` | `internal/gitsync` for several devices and one remote | `PortableHistory` |
| `AutoSync` | `internal/autosync` | - |
| `JsonlImport` | what one import appends | - |
| `CaptureSupervisor` | supervisor, hooks, imports by hand | `JsonlImport` |
| `NativeExecution` | the records of one native run and what their verification accepts (`internal/agentbridge`) | - |
| `StudyReplay` | the replay of all studies and their reports (`internal/study`) | `NativeExecution` |
| `StudyTrials` | studies and native runs as processes | `StudyReplay` |
| `Ordering` | what a sort with a strict total order makes of a set | - |
| `Retrieval` | ranking, budgets, rendering and receipts (`internal/retrieval`) as operators | `PortableHistory`, `Ordering` |
| `MemoryDelivery` | searches, contexts, the injection hook and adoption over a repository that changes | `PortableRepository`, `Retrieval` |
| `TrialReplay` | trial plans and what the replay of attempts accepts (`internal/evaluation`) | - |
| `TrialAttempts` | supervised executions, observation, finalization | `TrialReplay` |
| `EvaluationCorpus` | corpus freezes, detector builds, sealed labels | `TrialAttempts`, `Ordering` |
| `EvaluationMetrics` | metrics, gates and input validation as operators | - |
| `EvaluationRun` | prepare, run and verify, and all of evaluation together | `EvaluationCorpus`, `EvaluationMetrics` |
| `MC*` | instances for TLC | the module of their name |
| `EvidenceLedger_proofs`, `AutoSync_proofs`, `GitSync_proofs`, `CaptureSupervisor_proofs`, `StudyTrials_proofs` | the theorems about one module | that module, TLAPS |
| `Governance_proofs` | the theorems about reviews, promotions and approvals | `RuleApproval`, TLAPS |
| `MemoryDelivery_proofs` | the theorems about the repository, alone and among deliveries, and about the deliveries | `MemoryDelivery`, TLAPS |
| `Evaluation_proofs` | the theorems about trials, corpora, labels and reports | `EvaluationRun`, TLAPS |

### Conventions

* A step of a process is one action wherever the code reads or writes something
  that another process, a failure or a kill can touch in between. What runs under
  one lock and touches nothing shared is one step.
* A hash is modelled by what it is computed from: the hash of a record is the
  sequence of events up to it, a revision is the sequence of its line's contents, an
  event id is the tuple it is derived from. So SHA-256 is taken to be injective,
  and nothing else is assumed about it.
* Failed writes put a whole number of records, and possibly a torn one, in the
  file. A crash loses what is not synced; a kill leaves lock files behind.
* Texts, reasons, formats and paths are not modelled unless something is decided
  by them.
* `Max...` constants, or the fields of a profile, bound counters in guards. Where a
  module has `Profiles`, its `Init` chooses one: the processes at work, the records
  there already and the bounds. A run then covers several situations, each small
  enough to be explored to its end, and `bound` never changes. `CHECK_DEADLOCK FALSE` stands where
  the bounded system has nothing left to do; the evidence ledger never stops and is
  checked for deadlock.

### How they correspond to the code

**EvidenceLedger.** `lines`, `torn` and `synced` are events.jsonl: complete
records, whether a partial one follows, and how many an fsync has covered.
`pc[w]` follows a process through `NewAppender` (lock, then `lastRecordHash` scan),
`AppendBatch` (marshal, check blobs, write, sync), the sticky error after a failure,
and `Close`. `previous[w]` is the tail hash that the appender caches. `WriteFails` leaves any
prefix of the batch and perhaps a partial record; `PowerLoss` cuts the file
anywhere above `synced`. The operator's recovery has three steps, because the code
splits it: the lock is reported, the operator confirms that no writer runs, and
`ClearStaleWriterLock` removes the file. `ConfirmsUnderLock` says that the
confirmation is made while the reported lock is still there.

**ReviewLedger, PromotionLedger, RuleApproval.** Each has its records, a torn
flag, a lock file, and per process a `Pc` and a `Draft`: the request as it was
written down, then the prepared record. `Follows`, `ReviewsReplay`,
`PromotionsReplay` and `ApprovalsReplay` are the replays; a command first has to replay the whole
file, and the properties ask whether what was appended can be replayed
later. Time is a counter that each `Apply` reads where the code reads it.
`PromotionNext` contains `ReviewNext`, and `Next` of `RuleApproval` contains both, so all
interleavings of the three are explored, approvals that overlap promotions among them. The
profiles start with nothing, with two validated candidates, or with a promoted memory.

**PortableHistory, PortableRepository.** `files` is the set of revisions under
memories/, `job` what an export has still to write, `NextFile` its order (memory by
memory in the order of the ids, parents first), `temps` the temporary files in the tree.
`Verified` is `loadRepository` with its issues. The lease around an agent run is
`LeaseForRun`, `ResolveDelivery`, `FinishRun`.

**GitSync.** A commit is its tree, parents, and set of ancestors. `pc[d]` follows
`Run`: `PrepareLocalCommit`, `LookupRemote`, then `InitializeRemote` or `Fetch`,
then `UpToDate`, `FastForward`, `Ahead` or `Diverged` with `MergeDivergence` or
`Conflict`, `Push`, `RecheckRemote`. `NetworkFails` covers lost requests
and lost answers. `ForeignPush` is another Git client on the same branch. Git
itself is external, modelled from how `sync.go` uses it.

**AutoSync.** `config` and `audit` are the two files (the config named by its
number, the audit by its last event), `tail` the end of the audit, `registered` the scheduler's
task. A command is validated without the lock, takes `operation.lock`, replays, decides, acts and
records; `WriteConfig` and `BindConfig` are the two writes of enable and disable with
their rollbacks.

**JsonlImport, CaptureSupervisor.** A file is a sequence of bytes (bodies and
newlines). `FileEvents` is what one import derives from a file, and `ImportBatch` those of them
that the ledger does not have, which is what `importFile` appends from the committed offset or
from the start, with truncation gaps and partial lines. `sup` is the command that
has `operation.lock`: inventory, gaps, spool import, source import, inventory again,
result, for one source after the other. `ValidInventory`, `ValidResult`
and `ValidFinish` are what the audit's replay accepts. `hand` is an import by a
person, in a process of its own.

**NativeExecution, StudyReplay, StudyTrials.** `evidence` is the ledger as a
sequence of records; a position stands for an event id and its hash. `failureKind`
is the switch in `agentbridge.Run`, `validateExecution` the check of a receipt.
`CreateStudy` reads heads and workspace before it takes the lock and `SealPlan` appends the plan under it.
`Replays` is the replay that `Create`, `RunTask` and `Observe` start with: no duplicates,
every reservation ended by one terminal, every outcome derived from the receipt. `pc[p]` follows
`RunTask` from its first check through the context, the second check under the writer
lock (`Reserve`), `Materialize`, the bridge (`SetUp` with the lease and the delivery,
`AppendStart`, `Launch`, `AppendReceipt`) to `AppendTerminal`. Appends may fail at any
time, because another process may hold the writer lock. `tree` is the temporary
workspace, `source` the directory the tasks were drafted in, and `heads` the promoted heads.

**Retrieval, MemoryDelivery.** A text is a set of terms and a size; `rankRevisions`
selects by score, scope and id within limit and budgets and counts what it leaves
out; `validateReceipt` rereads it. `MemoryDelivery` runs readers against the
working copy of `PortableRepository`: a search loads the active heads in one step and appends its
receipt in another, a loadout context does one exact search per pinned
revision, and the hook records an invocation, a context and, after a failure, a gap. `Verify`
and `ContextsVerify` are the two verifications of the ledger. `ClaimsRestOnDelivery` asks for the
causal chain without using the model's own `eventDescendsFrom`.

**TrialReplay, TrialAttempts.** A plan fixes pairs of arms and their order; a
contract is an arm's preregistration. `ExecutePlannedTaskAttempt` is the actions from the checks through
retrieval, start, adapter, result, adoption and receipt; an interruption may come between any two. `runs`
is the history of what the adapter really ran, which no command can see:
`OneRunPerMeasuredArm` compares it with what `Eligible` lets into a population. `deriveTaskAttempt`
and `rerunTaskAttempt` are the derivation of an attempt receipt and its verification.

**EvaluationCorpus.** `BeginFreeze`, `ReadCards`, `PlanSnapshots` and `Freeze` follow
`FreezeLegacyCorpus`; a kill cuts `Freeze` behind the snapshots or between the manifest and
the freeze event. A detector build is `MarkBuild`, `ScanLedger`, `PublishGeneration` and
`AuditGeneration`. `Accepted` is what makes sealed labels count.

**EvaluationMetrics, EvaluationRun.** Metrics are fractions; one with no
observations is not measured. `PopulationCases` derives the cases of all six categories from a
prefix of the ledger, the local memory population and the last full inventory. `BeginRun` and
`FinishRun` are the two halves of `Run`: what it checks before and under the
writer lock. `VerifyRun` replays a report.

## 3. Runs

| run | asks | instance |
|---|---|---|
| `ledger` | Do crashes, failures, power loss and lock recovery keep the chain, the acknowledged records and the blobs? Is the lock always given back? | 2 writers, an event with and one without a blob, 3 records, batches of 2 |
| `governance` | Can reviewers, promoters and approvers, failures and kills make one of their files unreadable, validate two conflicting candidates, or activate two memories of one meaning? | 5 profiles: 2 reviewers over 2 conflicting candidates and a third; 1 promoter with 1 reviewer; 2 promoters before, and after, a first promotion; 2 approvers with 1 promoter |
| `approval_overlap` | Does the approval file stay replayable when approvals and promotions overlap? (violated) | the same, 1 approval |
| `portable` | Do exports, loadouts and deliveries, killed or failing anywhere, keep the repository's lines? Do the receipts of searches, contexts and adoptions verify while the repository changes? | 2 processes, 3 contents (2 of one meaning), 1 crash, 1 failed write; and 1 reader with up to 4 records, alone or with 1 export |
| `portable_retry` | Can an interrupted export be retried? (violated) | no crash, 1 failed write |
| `gitsync` | Are histories consistent with two devices racing on one memory and an outside client pushing? Do devices whose memories do not conflict end with one branch? | 2 devices; 1 memory, 2 decisions, 5 commits; 1 memory, 1 decision, 4 commits, 1 outside push; 2 memories, 2 roots, 1 fault |
| `autosync` | Are config, audit, schedule and attempts consistent, and is something promoted published or its stop reported? | 1 operator and the scheduler, 3 commands, 1 fault |
| `capture` | Is everything captured exactly once, and is what the audit says true? | 2 sources, 1 hook, files up to 4 bytes, 3 runs, 1 fault |
| `capture_replaced` | And when a file is replaced during a run? (violated) | the same, no faults |
| `study` | Is the one attempt of a task never repeated, run on the sealed files and memory, and can what is left behind be replayed? Do finished reports stand? | 6 profiles: 2 processes racing; 1 process with 2 drafts, every failure, a run outside the study and 1 trouble; an edited directory; 2 registrations of external plans; 2 profiles that finish a study, with 15 records and 1 record behind it, and with 16 and a run of Codex outside the study |
| `evaluation` | Is what a population measures what really ran? Do receipts, corpora and reports keep verifying? Are labels blind, and is ready measured? | 14 profiles: trials (2 supervisors, failing adapters, other events, attempts outside plans), freezes of a growing journal, detector builds against sealing, prepare and run over a finished pair, legacy baselines |
| `evaluation_controls` | Can an input with both frozen controls be calculated? (violated) | a finished pair, a rollout with a drift and a preserved compaction |

### What the properties say

* `ledger`. `ChainNeverForks`, `AcknowledgedRecordsDurable`, `RecordedBlobsExist`:
  invariants. `TornTailFreezesLedger`: no line is added to a torn file.
  `ImplementsAppendOnlyLog`: the file refines a log that loses at most an uncommitted
  suffix. `LockReleasedOrOrphaned`: a lock is given back, or its holder died.
* `governance`. `GovernanceReplayable`: no record that was accepted makes a later replay of
  any of the three files fail, except that approvals are not compared with the times of revisions
  that came later: that comparison does fail, see `approval_overlap`. A file that an append left torn
  is refused for good by every command (promotion/ledger.go:110, ruleapproval/ledger.go:141) and
  cannot replay; of it the property says that nobody records anything behind the torn
  record, not even who was at work when it was torn. `OneValidatedPerConflict`, `OneActivePerKey` and
  `PromotedOnCurrentEvidence` (evidence lock between check and append) are about drafts that
  were overtaken.
* `portable`. `LinesStayWhole` through any interruption,
  `UninterruptedWorkVerifies`, and `DeliveredLoadoutStaysCurrent` for the lease. `DeliveriesVerify`:
  whatever is cut off, what was written verifies. `ClaimsRestOnDelivery`:
  an outcome is attributed to a memory only behind its injection, along recorded parents.
  `ClosedStaysClosed`: an accounted retrieval does not become open again.
* `gitsync`. `HistoriesVerify` for every local branch whatever the remote holds, and for
  the remote while only devices push; `RevocationsStand` across merges;
  `SuccessMeansPublished`; `Converges`, under the premise that runs are started again and again.
* `autosync`. `AttemptsStayAuthorized` (nothing comes between the check and the push),
  `AgreementBetweenCommands`, `SuspensionHolds`, `PublishesOrReports`.
* `capture`. `EvidenceRecordedOnce`: whatever is repeated. `SuccessMeansRecorded`: for files that only
  grow or are removed whatever fails, and for files that are replaced between runs while nothing fails
  (section 4 says why not further). `ReadyMeansHooksRecorded`, `UnavailableIsReported`.
* `study`. `QuietStudiesReplay`: unless something was killed, lost or rejected, the
  ledger replays whenever no attempt is open, so two races for one task leave one
  reservation. `MemoryIsSealedAndCurrent`, `SealedFilesRun`: what an agent gets. `FinishedReportsStand`.
* `evaluation`. `OneRunPerMeasuredArm`, `ReceiptsStayVerifiable` and
  `UndisturbedExecutionsCount` for trials; `FrozenCorporaVerify` and `QuietTruthIsBlind` for the
  corpus and its labels; `ReportsDescribeTheirPrefix` (the cases are those of the prefix with no memory active, as prepare derives them, and unless
  one is active the replay agrees), `ReportsKeepVerifying` and `ReadyMeansMeasured` for reports.

Each property has a mutant in `PROJECT.json`: a plausible slip in the code, kept in
the module as an operator with a comment, under which TLC finds that property
violated.

### Why the bounds are enough to be interesting

Two processes suffice for every race over one lock file, because the lock leaves at
most one inside and the other one stands for all that were overtaken. Three ledger records with
batches of two let a batch be torn in the middle behind an acknowledged record, and be followed by a
recovery and another writer. Two review records are a decision and one that it
overtakes; three revisions are a promotion, its supersession or revocation, and a
stale draft behind it (the profile of revisions starts with the promotion). Five commits are a common one, one per device, a merge, and one
more behind the merge. Three consecutive errors pass the doubled delay, its limit
and the suspension. In `capture`, sizes up to four hold two records, or a record and a partial
line; the runs are one that imports, one that fails or is killed and one that has to make up for
it, with a scheduled full reconcile only behind them. The three styles of `capture` divide what the agent does to its file so that the
run ends in under four minutes: `append` (the file grows at any time, with an
import by hand), `replace` (it is changed, cut or removed between runs) and `hooks`.
The remaining combination, changes during a run, is `capture_replaced`.

A study of two tasks has one per arm; 7 records are a plan and one complete attempt
with its context, start, receipt, terminal and one record more. 14 finish both arms; the two profiles that reach
this allow 15 and 16, so that external plans, or the start and the receipt of a run outside the study, follow the
finished report that `FinishedReportsStand` is about. They are kept small by a bound of one
context and without the mishaps of a native run (its staged executable is exchanged, its deadline passes),
which the other profiles have. The least numbers of
tasks and observations (4 and 2 in the code) are constants and set to 2 and 1. A trial plan has one pair, whose two
arms with contracts, executions, verdicts and receipts take 16 to 17 records. The profiles of
runs start with such a pair, finished (`PairDone`; that it counts is an `ASSUME` that TLC
evaluates), and with a frozen, labelled corpus; 5 records more are two
preparations, runs, attestations or promotions in any order. Two rollouts of
at most four lines have one and two compactions, the least with and without both
controls. One agent stands for the three that a population requires.

The reduction by symmetry is used in runs without liveness properties only.

### Fairness

* `ledger`: weak fairness of opening and syncing, strong fairness of `Close`. A process
  that is not killed finishes its call, and callers defer `Close`. Nothing obliges
  a writer to start or an operator to recover.
* `gitsync`: weak fairness of the steps of a run that was started, per device. Nothing obliges
  anybody to start one: the scheduled `sync auto run` is refused before it reaches `Run` while an export
  is not committed (autosync/manager.go:223, gitsync/verify.go:71-83) and once its runs are
  suspended. `Converges` therefore has the runs as its premise: if one is started on each device again and
  again, by a person where the scheduler's is refused, the devices end with one branch. It
  excepts repositories that were bootstrapped from different roots, and is stated for the
  profile in which the devices share no memory and nobody else pushes, whose bound on commits is never
  reached.
* `autosync`: weak fairness of the scheduled start, of the steps of started
  commands and of time. Nothing obliges a person to do anything.

## 4. Findings

* `approval_overlap` - `promotion.Apply` reads its time before it takes its
  locks, so a supersession can be recorded with a time before that of an approval that was
  checked and recorded meanwhile. From then on the replay of the approvals fails,
  for every memory, and no command repairs it.
* `portable_retry` - docs/portable-memory.md says "Interrupted exports are safe to retry".
  An export that fails between the root of a new memory and the revocation of an
  old one of the same meaning leaves a repository that the preflight of the retry
  refuses. A killed export can also leave a temporary file that is refused.
* `capture_replaced` - the post-capture inventory of a failed run becomes the
  prior inventory of the next one. A file that was replaced by one of the same size in
  between is then taken as unchanged, and the next run records success without having
  imported it, until a scheduled full reconcile.
* `evaluation_controls` - every compaction case of a population cites the record of the
  sealed labels, and the validation of an input allows one case per evidence reference. A
  corpus with the drift control and the preserved control that docs/evaluation.md
  demands (lines 508-512) yields an input that `Calculate` and `Run` always refuse.

### Observations without a run

* **Recovery of a stale ledger lock.** README.md says that the writer lock
  "prevents compliant writers from forking a store". With
  `ConfirmsUnderLock = FALSE` TLC finds a fork: the reported lock is released, the
  operator then confirms, a new writer takes the lock, and `ClearStaleWriterLock` removes that
  one. The procedure of docs/quickstart.md excludes it only if the operator's
  check and the removal see the same lock. The run and the proofs assume so.
* **AutoSync, killed between its writes.** A process that is killed, or whose append fails
  together with the rollback, between `writeConfig` and the binding event leaves a config that
  both enable and disable refuse, although the recovery text says to disable and enable.
* **AutoSync, uncommitted export.** Memories that were exported and not
  committed make `validateRepository` refuse later runs before any event is written, so these
  failures do not count towards the suspension.
* **Repeated truncation.** The importer replays a truncation gap up to the
  new size and imports from 0. With a trailing partial line, or with the same sizes a
  second time, the gap's id is known and offsets are taken as committed that are
  not (`TornTruncation = TRUE` exhibits it; adapters/codex/CAPABILITIES.md describes the
  limit).
* **Capture, interrupted runs.** A run that is killed, or cannot append, between its first inventory of
  a file and its import leaves that inventory as what was seen before, like the failed run of
  `capture_replaced`. If the file had been replaced by one of the same size or more, the next run
  reports success without its records. TLC finds this with 3 runs and one fault when
  `SuccessMeansRecorded` is also asked of replaced files after a fault.
* A canceled first run counts as completed, so the run after it is not a full one.
  A captured file that was deleted stays "missing": its source does not succeed
  again under that config, which is by design.
* **Studies, terminal record.** docs/threat-model.md:154-155 says that the runner "always writes
  a terminal record". `appendTrialTerminal` appends once, which fails while
  another process holds the writer lock; the reservation then has no terminal, and every later
  `Create`, `RunTask` and `Observe` is refused by the replay. The same happens when `RunTask` returns
  because the appender could not be closed behind the reservation (trial.go:101), or the receipt
  could not be read again (trial.go:123). `QuietStudiesReplay` excepts these
  and a kill between reservation and terminal.
* **Studies, receipts.** The bridge reads its deadline twice, so a run may be recorded as a
  timeout with exit status 0; Codex may exit with 124 itself. The verification of executions
  rejects both receipts, and with them every study replay. A native run outside
  studies that was killed before its receipt, or that is still running, blocks replays too, and a killed
  run with memory leaves repository.lock.
* **Blind labels.** A build records its start for the prefix it sees then, but scans the
  ledger later and may read compactions recorded meanwhile; a killed or stale
  build leaves no audit of them. Labels sealed afterwards count as blind, although the comment at
  episodes/audit.go:70-72 says "failed or crashed builds cannot erase prior detector access".
  `QuietTruthIsBlind` is about builds that read what their marker says.
* **Overlapping supervisors.** Two executions of one arm can both pass
  `enforceExecutionOrder` and start the adapter twice (docs/evaluation.md:402-403 says an arm
  cannot be retried). The population refuses the arm then, which is what
  `OneRunPerMeasuredArm` shows. They may also record one result id twice, after which the ledger cannot
  be indexed; so may `PreregisterTaskAttempt` and two finalizers, which append without looking
  for their id. An interrupted execution leaves a start without a terminal, although the docs say
  that it "always receives a failed terminal receipt"; one interrupted between retrieval and start leaves a retrieval
  in its window, one between receipt and adoption can never be finalized. A plan may give
  both arms of a pair one thread, where the memory of one arm disturbs the other.
* **Corpora.** A kill between the manifest file and the freeze event leaves a content that can
  never be frozen again. A limited index with a line that is no entry can be frozen and never
  verifies. Of two builds that overlap, one becomes stale.
* **Evaluation of an active memory.** population.go:214 declares `activeRevisions` anew inside its branch, so the
  memory cases of an input that is prepared (lines 284-287, 302-313) are derived with the empty list of line
  197: an active memory that was not retrieved has no case, one that was is measured as inactive, and an
  attestation of it as active is a mismatch. `Run` and `eval verify` derive the bound population with the
  active memories (line 202). Every report over a repository with an active memory therefore carries
  "does not match the complete deterministic replay" (lines 117-118), although nothing has changed. No test reaches this
  (population_test.go:34 expects a refusal), and docs/evaluation.md:580-584 says that the bound population is
  reconstructed. `NoneActive` and `PreparedPopulation` model it, `ReportsDescribeTheirPrefix` says it, and
  the profiles of runs have both an active memory and a revoked one. `prepare` also compares the
  active memories in the order of memory ids with those in the order of revision ids, and may refuse when there are several;
  the instances have one.
* **Prepare and run.** The first `eval prepare` after any event other than an audit records an
  audit event itself and so yields a stale input; the second one is usable. A run with a stale input records a report that never
  verifies and uses up its run id; a run killed between its files and its event, followed by any
  other event, leaves an id that is refused for good. After a later promotion `eval verify` fails, although
  docs/evaluation.md:584 says that prepared blobs are loaded. A memory that was
  superseded after its retrieval gives two cases with one memory id, which the validation refuses.
  `requiresCaseAttestation` asks for attestations of compaction cases that no population case carries. Gaps do not
  count as normalized events, although docs/evaluation.md:505-506 names "explicit gap".
  No continuous report is release ready, which is documented.
* **Retrieval.** While an export is under way (a temporary file is in the tree) every search is
  blocked. Two adoption receipts may attribute one outcome to different memories, although
  docs/retrieval.md:232-233 says otherwise.
* No command clears the locks of reviews, promotions, approvals or the
  repository; the models let a person remove them.
* The semantic key of a local promotion includes the agent and the portable one does not, so an
  export may be refused for two memories that are both active locally.

## 5. Proofs

The `_proofs` modules prove what follows for every set of processes, devices, candidates,
contents and drafts, and for every bound and profile that the named assumptions admit. Each
proof has the same shape: an inductive invariant, one lemma or step per action, and the
property from the invariant.

| theorem | statement |
|---|---|
| `LedgerTypeOK` | `Spec => []TypeOK` (types of the state; not repeated as an invariant of the run) |
| `LedgerNeverForks` | `Spec => []ChainNeverForks` |
| `LedgerKeepsAcknowledged` | `Spec => []AcknowledgedRecordsDurable` |
| `LedgerBlobsExist` | `Spec => []RecordedBlobsExist` |
| `LedgerSingleWriter` | `Spec => []SingleWriter` (between acquiring the lock and `Close` there is one process) |
| `LedgerTornTailFreezes` | `Spec => TornTailFreezesLedger` |
| `LedgerImplementsAppendOnlyLog` | `Spec => ImplementsAppendOnlyLog` |
| `GovernanceNoContradiction` | `Spec => []OneValidatedPerConflict` |
| `GovernanceOneActive` | `Spec => []OneActivePerKey` |
| `GovernanceOnCurrentEvidence` | `Spec => PromotedOnCurrentEvidence` |
| `GovernanceReplays` | `Spec => GovernanceReplayable` |
| `RepositoryInvariant` | `[]RepositoryInv`, of `RepositorySpec` and of `DeliverySpec` |
| `RepositoryLinesStayWhole` | `[]LinesStayWhole`, of both |
| `RepositoryVerifies` | `[]UninterruptedWorkVerifies`, of both |
| `RepositoryLoadoutStaysCurrent` | `[]DeliveredLoadoutStaysCurrent`, of both |
| `DeliveryInvariant` | `DeliverySpec => []DeliveryInv` |
| `DeliveriesVerified` | `DeliverySpec => []DeliveriesVerify` |
| `ClaimsRestOnDeliveries` | `DeliverySpec => []ClaimsRestOnDelivery` |
| `AccountsStayClosed` | `DeliverySpec => ClosedStaysClosed` |
| `GitHistoriesVerify` | `SyncSpec => []HistoriesVerify` |
| `GitSuccessMeansPublished` | `SyncSpec => []SuccessMeansPublished` |
| `GitRevocationsStand` | `SyncSpec => RevocationsStand` |
| `AutoAttemptsAuthorized` | `AutoSpec => []AttemptsStayAuthorized` |
| `AutoAgreement` | `AutoSpec => []AgreementBetweenCommands` |
| `AutoSuspensionHolds` | `AutoSpec => SuspensionHolds` |
| `CaptureInvariant` | `CaptureSpec => []CaptureInv` |
| `EvidenceOnce` | `CaptureSpec => []EvidenceRecordedOnce` |
| `GrowingFilesRecorded` | `CaptureSpec => [](~MayReplace => SuccessMeansRecorded)`: files only grow or are removed |
| `ReadyHooksRecorded` | `CaptureSpec => []ReadyMeansHooksRecorded` |
| `UnavailableReported` | `CaptureSpec => []UnavailableIsReported` |
| `StudyInvariant` | `StudySpec => []StudyInv` |
| `QuietReplays` | `StudySpec => []QuietStudiesReplay` |
| `MemoryStaysSealed` | `StudySpec => []MemoryIsSealedAndCurrent` |
| `OnlySealedFilesRun` | `StudySpec => []SealedFilesRun` |
| `ReportsAreFinal` | `StudySpec => FinishedReportsStand` |
| `TrialInvariant` | `Spec => [](TrialInv /\ Finite)` of `EvaluationRun` |
| `ReceiptsVerify` | `Spec => []ReceiptsStayVerifiable` |
| `MeasuredArmsRanOnce` | `Spec => []OneRunPerMeasuredArm` |
| `UndisturbedExecutionsAreCounted` | `Spec => []UndisturbedExecutionsCount` |
| `AcceptedLabelsAreBlind` | `Spec => []QuietTruthIsBlind` |
| `CurrentReportsDescribe` | `Spec => []ReportsDescribeTheirPrefix` |
| `CurrentReportsVerify` | `Spec => []ReportsKeepVerifying` |
| `FrozenCorporaStayFrozen` | `Spec => []FrozenCorporaVerify` |
| `ReadyReportsMeasured` | `Spec => []ReadyMeansMeasured` |

### Assumptions

All are named in the modules that declare the constants, and TLC evaluates them for the
instances of the runs. Constants have their types, and:

* `LedgerAssumption` contains `ConfirmsUnderLock`: without it the theorems about the ledger are false, as
  observed above.
* `ReviewAssumption`: candidates are finitely many, and a generation that holds one
  candidate of a conflict group holds the group (`candidates.Build` groups within a generation).
* `ReviewProfileAssumption`, `PromotionProfileAssumption`, `ScenarioAssumption`: what a profile starts
  with passes its replay and is older than the clock, and a repository starts from consistent
  histories. `SyncAssumption` says this of the revisions that a device may promote.
* `ScenarioAssumption` also says that requests are within the limits `normalizeRequest` sets and that the
  events of agents are not those of the commands; `RetrievalAssumption`, that memory ids are ordered, scopes
  are of the five kinds and a text has finitely many terms and a size.
* `RepositoryAssumption`: `RankOf`, the order of file names, separates memories.
* `CaptureAssumption`: hooks are finitely many, configs and the order name sources, envelopes are
  not kept under the path of a source, and no content of a file stands for a missing file.
* `DraftAssumption`: a draft lists finitely many tasks and its seed is a number.
* `TrialAssumption`, `ProfileAssumption`: cards are numbered and finitely many, an allowed order is a
  list; other channels do not write the kinds of events that commands write.
* `HistoryAssumption`: what an execution of the evaluation starts with is what its commands leave behind
  (plans and contracts under their ids and where they come from, receipts of runs, attempts that
  replay, verdicts that are those of their arms and come after what they judge, reports on the use of
  memory that name a delivery on record).
* `CorpusAssumption`: corpora that were frozen before have their manifests on file, name what is on
  record and call captured only what is whole; the segments imported before have ranges of lines.
* `RolloutAssumption`, `JournalAssumption`: an import takes a range of lines that are in the file; a
  journal has finitely many cards and a file of lines as its index, limits are numbers, and what was frozen before has
  finitely many rollouts.
* `DetectorAssumption`: an execution starts before the detector published a generation and before a
  report was recorded; both have actions of their own.

### Arguments

**Evidence ledger.** `ChainNeverForks` is not inductive: an appender does not look at the
file, it extends the tail it has cached. The invariant `IInv` therefore adds that
the file's records count their predecessors (`PrevCountsRecords`), that the
cached tail of an open appender is the tail of the file (`TailCached`), that a written
batch is the end of the file (`BatchAtEnd`), that only one process is active and the
lock exists while it is (`SingleWriter`), and that a confirmed recovery means a lock
with nobody active behind it (`RecoverySafe`). The actions fall into those that do not touch the file
(lemma `FileUntouched`), those that extend it (`ExtendChain`,
`AppendToFile`) and the one that cuts it (`PrefixOfChain`). `NextInv` has one step per action. The
refinement maps the events of the file and `synced` to the abstract log; its step
uses `IInv` for the torn file and for the synced prefix. `RecordedBlobsExist` needs that the
blobs of a marshalled batch have been checked, and that blobs are never removed.

**Governance.** `OneValidatedPerConflict` follows from replayability by induction on the length of the
file: a record that `Follows` what is before it keeps contradicting candidates apart
(`RecordKeepsApart`, `ReplayKeepsApart`; the same for promotions in `RevisionKeepsApart` and
`ReplayKeepsKeysApart`). Replayability is not inductive, since what is
appended was prepared earlier. `ReviewInv` therefore adds mutual exclusion by the lock, that
recorded times are in the past, and that a prepared record follows the file as it is. `PromotionInv`
adds the same for promotions, whose records read the reviews, the generation and the evidence;
these may all grow in between, and lemmas say what such growth cannot change (`StatusAgree`,
`StillBound`, `FollowsAgree`). `ApprovalInv` adds that approvals are about active revisions on record and
not older than them, which later promotions leave alone. The layers
are proved one over the other: the step lemma of a ledger assumes the invariants of those it reads.
`WholeInv` says that whoever is about to append found the file whole; with mutual exclusion it
follows that nothing is appended behind a torn record (`FilesStayWhole`).

**Portable repository.** The lines stay whole because an export writes the shortest missing revision
of a memory first. `RepositoryInv` says that the files hold the parents of each file and one line
per memory, that the files together with those a running export has yet to write are
consistent, that loadouts pin what is in the files, and that nothing but a crash or
a failed write leaves an inconsistent repository behind. `NextFileIsFirst` and `NextFileHasParent` are about
the order of an export. `DeliveryRefinesRepository` shows that every step of searches,
contexts, the hook and adoptions is a step or a stutter of the repository, so that one invariant
serves both specifications.

**Deliveries.** The proofs about what a search returns are proofs about its loops. `ListFoldExists` and
`ListFoldValues` show of any fold over a list that it has a value after each element and how that
follows from the one before; `SortedByLists`, that sorting by a strict total order lists every element
once, in order. `SelectFold` and `SelectionFine` go through the selecting loop: what is selected is in
the order of the ranking, within the budgets, and with what was passed over accounts for everything
ranked. `RankedVerifies` is then that a result verifies; that the ranking is total needs
one head per memory, which a verified repository has (`CurrentMemories`). `AddBlocksLists` says that a context holds
selected memories only, `AncestorsChained`, that the walk of `eventDescendsFrom` finds nothing but
chains of recorded parents, and `AncestorsStay`, that later records do not change what it finds.

`DeliveryInv` holds of the ledger that it verifies (`EvidenceInv`) and of each reader what its call knows at its
place (`CallInv`): a result that verifies, a recorded retrieval from which its context was rendered,
or the receipts of a loadout so far, in order, with the memories that are left (`LoadoutCall`). Neither changes when others
append (`InjectionStays` to `CallStays`), so a lemma per action looks at the new record only, and
a step of an export changes nothing (`QuietLedger`). `ClaimsRestOnDelivery` follows from the receipts that
verify. `ClosedStaysClosed` needs it of both ends of a step: a second injection delivers what the first
did, since both are the rendering of one retrieval. TLC checked `DeliveryInv` on the instance of the run
`portable` before it was proved.

**Git synchronization.** `GitInv` holds that commits point back to older ones and that histories
are closed under parents (`CommitGraph`), that what a device fetched was verified before it is used
(`IncomingVerified`), and that a run which has reached its re-check has published
(`PublishedBeforeSuccess`). `NewCommit` and `NewVerified` say what a commit on top of
one or two verified heads is. `Moves` summarizes what any step may do to a branch, and
`GitMoves` derives the invariant from it. `RevocationsStand` follows since every
commit keeps the files of its parents (`BranchKeepsFiles`) and nothing follows a revocation
(`RevocationEnds`).

**Automatic synchronization.** `AutoInv` holds that one command is behind the lock, that
every configuration names the record that wrote it, what an attempt was
authorized by, what a replaced configuration can be rolled back to, and, without
a fault, that the configuration and the audit agree.

**Capture.** What an import appends is a selection (`Pick`) of the events that the bytes say, in their
order (`FileEventsAre`, `PartRecorded`): so a batch that is cut off anywhere is closed
downwards, and an injective ledger stays injective. For a file that only grows, `LinesOf` says that the
ledger has committed lines of this file only, each with all lines before it. Such lines stay what they
are when the file grows (`LinesStay`, `LinesGrow`); the committed offset is behind a whole line and
everything before it is recorded (`OffsetOfLines`), so an import from there misses nothing
(`ImportLines`), and there is no truncation. `Hand` bounds these lines by the size that an import by
hand has read before the file grew on. `Working` is what a run knows at each of its places, as
long as it has no error to report: the file its first inventory saw is preserved, the hooks that had returned
are recorded, both inventories agree, and what is missing is reported. `Concluded` says the same of the
results in the audit. What is appended takes nothing away from these (`NothingLost`), so the steps
on the audit (`EventAppended`), those that only go on (`RunGoesOn`) and those that append (`RunAppends`) share
their lemmas. TLC checked `CaptureInv` on the instance of the run `capture` before it was proved.

**Studies.** `EvidenceSound` says of each record what the replay asks of it alone, and of pairs of records
that they are not two attempts of one task. `JobSound` says what a
process knows of the records at each place of `RunTask` and `Observe`. Both are
stable: `EvidenceGrows` and `JobStays` show that appending a record takes nothing away, so that
a lemma per action only has to look at the new record. What the replay asks
of all records together, that nothing is left open, cannot hold while an attempt is under way:
`Closed` says it of everything that no process has in hand, unless there was trouble (a kill, a
lost append, a rejected receipt). `LocksHeld` ties the ledger's writer lock
and the use lease to the places of their holders. `PlanIsValid` derives from the alternation of arms
that every plan is balanced, for any number of tasks. TLC checked `StudyInv` as an invariant of the
instance of the run `study` before it was proved.

**Evaluation.** The ledger only grows (`Grows`), and as long as no id occurs twice, what a replay derives from a
prefix stays what it is in every longer ledger: positions of ids, ancestors, windows, judgments,
verdicts, derivations and receipts (`IdsStay` to `ReceiptStays`). `TrialInv` says what the records are and
what each process knows at each place (`Knows`): that the arm before its own ran, that its start is on
record and has no run yet, that its run is recorded, and, unless an id occurs twice, that
the window was judged, and the attempt is derivable. No two processes run under one start
(`StartsApart`). `KnowsStays` shows that this survives what others append, so that a lemma per action
looks at the new records only; the lemmas of actions whose records no replay reads
share `PlainRecords`. `OneRunPerMeasuredArm` then goes from the one receipt of an arm to its run
and from its one start to the uniqueness of that run (`MeasuredRun`); the order within a pair is
that of runs, not of records. `QuietTruthIsBlind` adds that every generation has the marker of its build,
recorded before it was published (`MarkedGenerations`).

`UndisturbedExecutionsCount` needs to know what lies behind a request that was handed out, long after its
execution returned: `Trialing` holds that its parts are on record, each bound to the one before
(`HandedOut`: what was found and delivered, the start, the result, the receipt, the report), and of a process
at each place of an execution as many of these parts as it has appended (`Doing`). They stay, so a lemma per
action adds one part; all other commands append events that are neither plans, contracts nor verdicts
(`OrdinaryRecords`) and leave executions alone (`QuietTrials`). A verdict is the one its arm gets and comes
behind the result and, with memory, behind a report on a delivery (`VerdictsOnRecord`,
`Decided`), which in an undisturbed window is the report of the execution itself (`VerdictOfExecution`). From the parts
follow the window and the ancestors of the result, `WindowOfExecution` and `AncestorsOfExecution`, and from these
that the attempt derives (`ExecutionDerives`), on the ledger as it is or with the verdict that is still
to be written (`VerdictMayCome`). The property asks that the output has a label, which the oracle
requires beside the order. TLC checked `Trialing` on the instance of the run `evaluation` before it was proved.

`ReportsDescribeTheirPrefix` is about a prefix that lies further and further back. Audits name a generation
that is already published (`Published`), so a compaction of a prefix never changes (`CompactionsStay`) and its
population is the same whenever it is derived (`PopulationsStay`, `PrefixStays`). What is
left is `Reporting`: an input that was prepared describes its prefix (`Inputs`), a run that
checked one has seen all issues that the check finds (`Measuring`), and a recorded report
has them too (`Recorded`). Only `FinishRun` appends reports (`NextSilent`, `NextReached`). For
`ReadyMeansMeasured` the shares of a baseline are sums over its one category, which `SumOfOne` and
`TotalOfOne` evaluate without induction.

`ReportsKeepVerifying` compares two readings of one ledger, the one under the writer lock of the run and a later one. The
evidence of a case can only be read differently while something it names is not there yet, its corpus does not verify or an
attempt does not replay; once that is excluded (`CaseSettled`), what the check finds is the same in every longer
ledger (`SettledIssues`, `InputIsSettled`, `InputSettledStays`). So `Verifying` collects that nothing of the kind is open for a
report that calls itself current: what prepared inputs cite is on record (`Sourced`, since populations are
derived from the ledger, `PopulationSourced`; for the use of memory this needs `AdoptionsOnRecord`), what a
run holds under its lock was replayed against the corpus unless it says that it is stale (`Preparing`), and the
event of a run names the file, the parents and, for a current report, the issues of such a reading (`Filed`).
Files of a run id are written once (`NextFiles`, `FilesStay`) and verification reads them back
(`FiledVerifies`). TLC checked `Verifying` on the instance of the run `evaluation` before it was proved.

`FrozenCorporaVerify` is about what is on file and what is on record: `Frozen` holds that a freeze event
names its manifest and everything in it is in the ledger, and that segments have ranges. Growth of the
ledger takes nothing away (`CorporaStay`), and no content is frozen over (`NextStays`); only an import
adds segments and only a freeze adds a corpus (`NextSilent`), whose snapshots come before it (`PendingIs`,
`ContentIsThere`). That a captured rollout is whole is what merging guarantees: each step of the fold over
the ranges sorted by their starts covers the same lines (`MergeRangeCovers`, `MergedCovers`), so one merged
range from the first line on leaves none out (`OneRangeIsWhole`). The lemmas about folds and sorting are
those of the deliveries, over again, since no module lies under both.

Induction over the length of a file goes through the least counterexample (`LeastNumber`), because
the induction theorems of the library take operators, which the provers cannot instantiate.

### Only model-checked

* `LockReleasedOrOrphaned`, `Converges` and `PublishesOrReports`: fairness and ENABLED are outside
  the prover.
* `SuccessMeansRecorded` for files that are replaced between runs (style `replace`): it rests on when
  the next full reconcile comes and on a truncation not being repeated with the same sizes, so it
  needs the bounds of the instance.

## 6. Not modelled

* `Verify`'s report, `Init` of a root and the check for a Git worktree; directory
  entries, which are taken to be durable in the order they were made.
* Secret scan, redaction, rendering and parsing of files: their outcome decides which
  requests and contents there are.
* Within git synchronization: commit messages, file modes, index bytes, the
  filesystem of the isolated merge.
* Within capture: a source has one file, an inventory and an import are one step
  each, so "source changed during inventory" and an incomplete inventory do not
  occur; a line projects to one event; `Watch` is `Run` in a loop; the time
  limits of the status are left out.
  A projection with a `StableIdentity` has an id that is not a hash of the fields here
  (importer.go:621-622); only the DeepSeek harness adapter sets one, and its projections are left out.
* Two events with one id and different contents, which the review replay
  refuses: no modelled writer makes them.
* Within studies and native runs: blobs, measurements and digests, which replay from the
  same bytes; the texts of tasks; archives of workspaces as bytes. The preflight of the workspace
  (runner.go:193) and the run of the process (runner.go:200) are one step, `Launch`: what is written to the
  directory between the two cannot be told by the code from what Codex itself writes there.
* Within retrieval: tokenization, phrases and the estimate of sizes are constants. Blobs
  keep their bytes, so an outcome event is refused for its completeness and never for its hash.
* Within evaluation: `retrieval.Verify` before an attempt is recorded or verified (attempt.go:64,158):
  memory receipts are what the commands wrote, which verifies (`DeliveriesVerify` of the run `portable`); inputs that a user writes by hand (apart from the legacy baseline), the
  audit of OpenCode sessions, the rounding of shares, the two-minute window that groups
  corrections, the texts of cases and review queues. A card is its own semantic key.
* The components that `PROJECT.json` lists as `not_modelled`, with the reason.

## 7. Plan

Done: the evidence ledger; the judgment ledgers that read it, in one
composition; the repository, its distribution and what is delivered from it; capture in
front of the ledger; studies, native runs and evaluation over it. Proofs about all of
these: every invariant that a passing run checks is a theorem, apart from those of "Only model-checked".

Next:

1. **Generations.** Grouping of turns into episodes, extraction and conflict grouping of
   candidates as operators checked against a reference definition.
2. **Agent assessment, backup, source recovery, OpenCode capture and the crash-safe JSONL
   writer**, the last two in front of the importer.
