----------------------------- MODULE StudyTrials -----------------------------
(***************************************************************************)
(* Prospective studies over the evidence ledger: Create seals a plan,      *)
(* RunTask reserves the one attempt of a task and runs Codex through the   *)
(* native agent bridge, Observe derives the outcome.  Several agentmem     *)
(* processes work on one store: they share the writer lock of the ledger,  *)
(* which nobody here waits for, and repository.lock, which a native run    *)
(* with memory holds as a lease.                                           *)
(*                                                                         *)
(* Some other process may hold the writer lock at any moment (a capture    *)
(* run, or just an append of its own): an append may fail at any time.  A  *)
(* process may be killed; the writer lock it held is then cleared by       *)
(* explicit recovery, its lease is not.                                    *)
(***************************************************************************)
EXTENDS StudyReplay

CONSTANTS
    Procs,         \* agentmem processes
    NoProc,        \* a lock is free
    Orphan,        \* the lease of a killed process
    Reporters,     \* who reports an observation
    Profiles       \* bounds of an execution, one of which is chosen at the start

\* A profile bounds the processes at work, the drafts, the records of the ledger and the contexts
\* among them, the changes of the memory heads and of the directory, the days, the runs of Codex
\* outside studies and the troubles (kills, lost appends, rejected receipts), and says what Codex
\* may print, how it may end, whether its executable may change or its deadline pass, and which
\* contents an external plan may have.
ASSUME StudyAssumption ==
    /\ {NoProc, Orphan} \cap Procs = {} /\ NoProc # Orphan
    /\ \A b \in Profiles :
           /\ b.procs \subseteq Procs /\ b.drafts \subseteq Drafts
           /\ {b.records, b.contexts, b.heads, b.edits, b.days, b.direct, b.trouble} \subseteq Nat
           /\ b.mishaps \in BOOLEAN
           /\ b.statuses \subseteq Nat

VARIABLES
    evidence,  \* the evidence ledger: the records named above
    writer,    \* who holds its writer lock
    lease,     \* who holds repository.lock
    heads,     \* version of the promoted memory heads in the repository
    source,    \* version of the directory the tasks were drafted in
    tree,      \* the temporary workspace of each process, or Nothing
    clock,     \* days
    pc,        \* where each process is
    job,       \* what it works on
    direct,    \* runs outside studies so far
    trouble,   \* what went wrong so far, as a sequence of names
    bound      \* the profile of this execution

studyVars == <<evidence, writer, lease, heads, source, tree, clock, pc, job, direct, trouble, bound>>
sharedVars == <<heads, source, clock, direct, bound>>

Nothing == {}    \* there is no workspace

\* The files of the directory at a version: work in it changes the code and the
\* repository's own files.
SourceFiles(v) == {<<"code", v>>, <<".git", v>>}

\* excludedWorkspacePath
excludedWorkspacePath(file) == file[1] \in {".git", ".agentmem"}

\* snapshotWorkspace walks the directory and leaves out what is excluded.
snapshotWorkspace(files) == {f \in files : ~excludedWorkspacePath(f)}

\* inspectMaterializedWorkspace leaves nothing out.
inspectMaterializedWorkspace(files) == files

NoJob == [plan |-> NoEvent, task |-> "none", context |-> NoEvent, trial |-> NoEvent,
          start |-> NoEvent, record |-> <<>>, execution |-> NoEvent, ran |-> Nothing, failure |-> ""]

StudyInit ==
    /\ evidence = <<>>
    /\ writer = NoProc
    /\ lease = NoProc
    /\ heads = 0
    /\ source = 0
    /\ tree = [p \in Procs |-> Nothing]
    /\ clock = 0
    /\ pc = [p \in Procs |-> "idle"]
    /\ job = [p \in Procs |-> NoJob]
    /\ direct = 0
    /\ trouble = <<>>
    /\ bound \in Profiles

LastRecord == Len(evidence)
Room == LastRecord < bound.records

Goto(p, l) == pc' = [pc EXCEPT ![p] = l]
Return(p) ==
    /\ Goto(p, "idle")
    /\ job' = [job EXCEPT ![p] = NoJob]
    /\ tree' = [tree EXCEPT ![p] = Nothing]
Trouble(what) ==
    /\ Len(trouble) < bound.trouble
    /\ trouble' = Append(trouble, what)

\* store.Append: it takes the writer lock, writes and releases it; there is no
\* second attempt.
Writes(record) ==
    /\ writer = NoProc
    /\ Room
    /\ evidence' = Append(evidence, record)

\* NewAppenderAfterVisit: the lock is kept until closeAppender.
TakeWriter(p) == writer = NoProc /\ writer' = p
LeaveWriter == writer' = NoProc

-----------------------------------------------------------------------------
(* Create and RegisterExternal.                                            *)

\* Create reads the current loadout and the directory before it waits for any
\* lock (LoadCurrentLoadout, buildPlan).
CreateStudy(p, d) ==
    /\ pc[p] = "idle"
    /\ validateDraft(d)
    /\ LET plan == buildPlan(d, heads, snapshotWorkspace(SourceFiles(source)), clock)
       IN  job' = [job EXCEPT ![p] = [NoJob EXCEPT !.record = <<plan>>]]
    /\ Goto(p, "create")
    /\ UNCHANGED <<evidence, writer, lease, trouble>> /\ UNCHANGED <<tree, sharedVars>>

\* The replay, the checks and the record are made under the writer lock; what the
\* plan was built from is not read again.
SealPlan(p) ==
    /\ pc[p] = "create"
    /\ LET plan == job[p].record[1]
       IN  /\ \A q \in Positions(evidence, "plan") : evidence[q].tasks \cap plan.tasks = {}
           /\ Writes(plan)
    /\ Replays(evidence)
    /\ Return(p)
    /\ UNCHANGED <<writer, lease, trouble>> /\ UNCHANGED sharedVars

\* RegisterExternal: a study id keeps its first content, and a second
\* registration of that content writes nothing.
RegisterExternal(p, content) ==
    /\ pc[p] = "idle"
    /\ Positions(evidence, "external") = {}
    /\ Writes(External("study", content))
    /\ UNCHANGED <<writer, lease, pc, job, trouble>> /\ UNCHANGED <<tree, sharedVars>>

-----------------------------------------------------------------------------
(* RunTask.                                                                *)

Consumed(e, plan, task) == TrialsOf(e, plan, task) # {}

\* The replay, the one-shot check and the check of the loadout, without a lock.
RunTask(p, plan, task) ==
    /\ pc[p] = "idle"
    /\ plan \in Positions(evidence, "plan") /\ task \in evidence[plan].tasks
    /\ ~Consumed(evidence, plan, task)
    /\ heads = evidence[plan].loadout
    /\ Replays(evidence)
    /\ job' = [job EXCEPT ![p] = [NoJob EXCEPT !.plan = plan, !.task = task]]
    /\ Goto(p, IF evidence[plan].condition[task] = "memory" THEN "context" ELSE "reserve")
    /\ UNCHANGED <<evidence, writer, lease, trouble>> /\ UNCHANGED <<tree, sharedVars>>

\* BuildContext: the loadout must still be current; the receipt is appended with
\* retries while another writer is at work.
BuildContext(p) ==
    /\ pc[p] = "context"
    /\ heads = evidence[job[p].plan].loadout
    /\ Cardinality(Positions(evidence, "context")) < bound.contexts
    /\ Writes(Context(heads, job[p].task))
    /\ job' = [job EXCEPT ![p].context = LastRecord + 1]
    /\ Goto(p, "reserve")
    /\ UNCHANGED <<writer, lease, trouble>> /\ UNCHANGED <<tree, sharedVars>>

\* A plan is refused, or BuildContext or the writer lock fails before anything is
\* reserved.
GiveUp(p) ==
    /\ pc[p] \in {"create", "context", "reserve"}
    /\ Return(p)
    /\ UNCHANGED <<evidence, writer, lease, trouble>> /\ UNCHANGED sharedVars

LockForReservation(p) ==
    /\ pc[p] = "reserve"
    /\ TakeWriter(p)
    /\ Goto(p, "reserving")
    /\ UNCHANGED <<evidence, lease, job, trouble>> /\ UNCHANGED <<tree, sharedVars>>

\* Mutation: what was replayed before the lock was taken is not replayed again.
Reservable_stale(e, plan, task) == TRUE

Reservable(e, plan, task) == Replays(e) /\ ~Consumed(e, plan, task)

\* The second replay, the reservation and closeAppender, under the writer lock.
Reserve(p) ==
    /\ pc[p] = "reserving"
    /\ LET j == job[p]
           c == evidence[j.plan].condition[j.task]
       IN  IF Reservable(evidence, j.plan, j.task)
           THEN /\ Room
                /\ evidence' = Append(evidence, Trial(j.plan, j.task, c, j.context))
                /\ job' = [job EXCEPT ![p].trial = LastRecord + 1]
                /\ Goto(p, "materialize")
                /\ UNCHANGED tree
           ELSE UNCHANGED evidence /\ Return(p)
    /\ LeaveWriter
    /\ UNCHANGED <<lease, trouble>> /\ UNCHANGED sharedVars

\* The reservation is written and closeAppender fails: RunTask returns without a
\* terminal.  A lock that could not be removed is cleared by explicit recovery.
ReserveUnclosed(p) ==
    /\ pc[p] = "reserving"
    /\ LET j == job[p]
           c == evidence[j.plan].condition[j.task]
       IN  /\ Reservable(evidence, j.plan, j.task)
           /\ Room
           /\ evidence' = Append(evidence, Trial(j.plan, j.task, c, j.context))
    /\ Trouble("reservation_unclosed")
    /\ Return(p)
    /\ LeaveWriter
    /\ UNCHANGED lease /\ UNCHANGED sharedVars

\* materializeWorkspace unpacks the sealed archive, never the directory.
materializeWorkspace(plan) == evidence[plan].workspace

\* A failure goes straight to the terminal record (finishFailedTrial).
Materialize(p) ==
    /\ pc[p] = "materialize"
    /\ \/ /\ tree' = [tree EXCEPT ![p] = materializeWorkspace(job[p].plan)]
          /\ Goto(p, "setup") /\ UNCHANGED job
       \/ /\ job' = [job EXCEPT ![p].failure = "workspace_materialization"]
          /\ Goto(p, "terminal") /\ UNCHANGED tree
    /\ UNCHANGED <<evidence, writer, lease, trouble>> /\ UNCHANGED sharedVars

-----------------------------------------------------------------------------
(* agentbridge.Run.                                                        *)

\* A run that no study asked for (agentmem agent run).
DirectRun(p, task) ==
    /\ pc[p] = "idle" /\ direct < bound.direct
    /\ direct' = direct + 1
    /\ job' = [job EXCEPT ![p] = [NoJob EXCEPT !.task = task]]
    /\ Goto(p, "setup")
    /\ UNCHANGED <<evidence, writer, lease, heads, source, tree, clock, trouble, bound>>

\* Where a failed Run goes: RunTask writes its terminal, the command returns.
RunFails(p) == IF job[p].trial = NoEvent THEN Return(p)
               ELSE /\ job' = [job EXCEPT ![p].failure = "native_execution_setup"]
                    /\ Goto(p, "terminal")
                    /\ UNCHANGED tree

\* Mutation: the context is delivered without looking at the heads again.
resolveDelivery_stale(p) == TRUE

\* resolveDelivery: the loadout of the context is still the current one.
resolveDelivery(p) ==
    job[p].context # NoEvent => heads = evidence[job[p].context].loadout

\* Mutation: the workspace is not looked at before the process starts.
verifyMaterializedWorkspace_skipped(p) == TRUE

\* verifyMaterializedWorkspace, the preflight of a study-bound run.
verifyMaterializedWorkspace(p) ==
    job[p].trial # NoEvent =>
        inspectMaterializedWorkspace(tree[p]) = evidence[job[p].plan].workspace

\* From the first preflight to the start record: the lease is taken, the delivery
\* is resolved under it and the executables are staged.
SetUp(p) ==
    /\ pc[p] = "setup"
    /\ verifyMaterializedWorkspace(p)
    /\ job[p].context # NoEvent => lease = NoProc
    /\ resolveDelivery(p)
    /\ lease' = IF job[p].context # NoEvent THEN p ELSE lease
    /\ Goto(p, "start")
    /\ UNCHANGED <<evidence, writer, job, trouble>> /\ UNCHANGED <<tree, sharedVars>>

\* A busy lease, a loadout that is no longer current, or a preflight, staging or
\* version probe that fails.
SetUpFails(p) ==
    /\ pc[p] = "setup"
    /\ RunFails(p)
    /\ UNCHANGED <<evidence, writer, lease, trouble>> /\ UNCHANGED sharedVars

Release(p) == lease' = IF lease = p THEN NoProc ELSE lease

AppendStart(p) ==
    /\ pc[p] = "start"
    /\ Writes(Start(job[p].trial, job[p].task, job[p].context))
    /\ job' = [job EXCEPT ![p].start = LastRecord + 1]
    /\ Goto(p, "launch")
    /\ UNCHANGED <<writer, lease, trouble>> /\ UNCHANGED <<tree, sharedVars>>

AppendStartFails(p) ==
    /\ pc[p] = "start"
    /\ RunFails(p)
    /\ Release(p)
    /\ UNCHANGED <<evidence, writer, trouble>> /\ UNCHANGED sharedVars

\* How an attempt may go.  The process is started only if the staged executable
\* and the workspace are unchanged; a deadline that has passed stays passed.
Attempts ==
    {a \in [stagedBefore : BOOLEAN, stagedAfter : BOOLEAN, sealed : BOOLEAN,
            expired : BOOLEAN, expiredLater : BOOLEAN,
            status : bound.statuses \cup {NotAnExit}, stream : bound.streams \cup {<<>>}] :
        /\ ~bound.mishaps => a.stagedBefore /\ a.stagedAfter /\ ~a.expiredLater
        /\ a.expired => a.expiredLater
        /\ ~(a.stagedBefore /\ a.sealed) => a.status = NotAnExit
        /\ a.status = NotAnExit => a.stream = <<>>
        /\ a.expired /\ a.stagedBefore /\ a.sealed => a.status # 0}

\* From the check of the staged executable, with the second preflight, to the
\* receipt.  Nothing is written to the workspace between the preflight and the
\* start of the process: Run cannot tell such a change from the work of Codex.
Launch(p) ==
    /\ pc[p] = "launch"
    /\ \E a \in Attempts :
           /\ a.sealed = verifyMaterializedWorkspace(p)
           /\ job' = [job EXCEPT
                  ![p].record = <<Receipt(job[p].start, job[p].task, a)>>,
                  ![p].ran = IF a.stagedBefore /\ a.sealed THEN tree[p] ELSE Nothing]
           /\ IF ExitFits(Receipt(job[p].start, job[p].task, a))
              THEN UNCHANGED trouble ELSE Trouble("receipt_rejected")
    /\ Goto(p, "receipt")
    /\ UNCHANGED <<evidence, writer, lease>> /\ UNCHANGED <<tree, sharedVars>>

\* The receipt is appended and Run returns; RunTask looks up its record.
AppendReceipt(p) ==
    /\ pc[p] = "receipt"
    /\ Writes(job[p].record[1])
    /\ IF job[p].trial = NoEvent THEN Return(p)
       ELSE /\ job' = [job EXCEPT ![p].execution = LastRecord + 1]
            /\ Goto(p, "terminal")
            /\ UNCHANGED tree
    /\ Release(p)
    /\ UNCHANGED <<writer, trouble>> /\ UNCHANGED sharedVars

\* The receipt is written and lookupBoundEvent fails: RunTask returns without a
\* terminal.
ReceiptNotFound(p) ==
    /\ pc[p] = "receipt" /\ job[p].trial # NoEvent
    /\ Writes(job[p].record[1])
    /\ Trouble("terminal_lost")
    /\ Return(p)
    /\ Release(p)
    /\ UNCHANGED writer /\ UNCHANGED sharedVars

AppendReceiptFails(p) ==
    /\ pc[p] = "receipt"
    /\ Trouble("receipt_lost")
    /\ RunFails(p)
    /\ Release(p)
    /\ UNCHANGED <<evidence, writer>> /\ UNCHANGED sharedVars

-----------------------------------------------------------------------------
(* The end of RunTask.                                                     *)

\* RunTask and finishFailedTrial: what the terminal says of the attempt.
TerminalFor(e, j) ==
    IF j.execution = NoEvent
    THEN Terminal(j.trial, NoEvent, "failed", j.failure)
    ELSE Terminal(j.trial, j.execution, e[j.execution].outcome, e[j.execution].failure)

\* appendTrialTerminal; the temporary workspace goes with the return.
AppendTerminal(p) ==
    /\ pc[p] = "terminal"
    /\ Writes(TerminalFor(evidence, job[p]))
    /\ Return(p)
    /\ UNCHANGED <<writer, lease, trouble>> /\ UNCHANGED sharedVars

AppendTerminalFails(p) ==
    /\ pc[p] = "terminal"
    /\ Trouble("terminal_lost")
    /\ Return(p)
    /\ UNCHANGED <<evidence, writer, lease>> /\ UNCHANGED sharedVars

-----------------------------------------------------------------------------
(* Observe, under the writer lock throughout.                              *)

StartObserve(p) ==
    /\ pc[p] = "idle"
    /\ Positions(evidence, "receipt") # {}
    /\ TakeWriter(p)
    /\ Goto(p, "observe")
    /\ UNCHANGED <<evidence, lease, job, trouble>> /\ UNCHANGED <<tree, sharedVars>>

Observable(plan, task, receipt) ==
    /\ plan \in Positions(evidence, "plan") /\ task \in evidence[plan].tasks
    /\ ObservationsOf(evidence, plan, task) = {}
    /\ receipt \in VerifiedExecutions(evidence)
    /\ executionEligibility(evidence, plan, task, receipt)
    /\ Replays(evidence)

\* The outcome that an interrupted Observe recorded.
RecordedOutcome(plan, task) == OutcomesOf(evidence, plan, task)

\* The outcome event, unless an earlier Observe recorded it.
RecordOutcome(p, plan, task, receipt) ==
    /\ pc[p] = "observe"
    /\ Observable(plan, task, receipt)
    /\ IF RecordedOutcome(plan, task) # {}
       THEN /\ evidence[Max(RecordedOutcome(plan, task))] = Outcome(evidence, plan, task, receipt)
            /\ job' = [job EXCEPT ![p].execution = Max(RecordedOutcome(plan, task))]
            /\ UNCHANGED evidence
       ELSE /\ Room
            /\ evidence' = Append(evidence, Outcome(evidence, plan, task, receipt))
            /\ job' = [job EXCEPT ![p].execution = LastRecord + 1]
    /\ Goto(p, "observed")
    /\ UNCHANGED <<writer, lease, trouble>> /\ UNCHANGED <<tree, sharedVars>>

\* The request names something that cannot be observed.
RefuseObserve(p) ==
    /\ pc[p] = "observe"
    /\ LeaveWriter
    /\ Return(p)
    /\ UNCHANGED <<evidence, lease, trouble>> /\ UNCHANGED sharedVars

\* The observation event and closeAppender.
RecordObservation(p) ==
    /\ pc[p] = "observed"
    /\ Room
    /\ LET o == evidence[job[p].execution]
       IN \E r \in Reporters :
              evidence' = Append(evidence, Observation(evidence, o.plan, o.task,
                                                       job[p].execution, r, clock))
    /\ LeaveWriter
    /\ Return(p)
    /\ UNCHANGED <<lease, trouble>> /\ UNCHANGED sharedVars

-----------------------------------------------------------------------------
(* The environment.                                                        *)

\* Export changes the promoted heads; it needs repository.lock.
ExportHeads ==
    /\ lease = NoProc /\ heads < bound.heads
    /\ heads' = heads + 1
    /\ UNCHANGED <<evidence, writer, lease, source, tree, clock, pc, job, direct, trouble, bound>>

\* Work goes on in the directory the tasks were drafted in.
EditSource ==
    /\ source < bound.edits
    /\ source' = source + 1
    /\ UNCHANGED <<evidence, writer, lease, heads, tree, clock, pc, job, direct, trouble, bound>>

\* Something else writes to the temporary workspace: a file changes, or one
\* appears that no snapshot would hold.
Tamper(p) ==
    /\ bound.edits > 0 /\ tree[p] # Nothing
    /\ \E files \in {{<<"code", -1>>}, tree[p] \cup {<<".git", -1>>}} :
           tree' = [tree EXCEPT ![p] = files]
    /\ UNCHANGED <<evidence, writer, lease, heads, source, clock, pc, job, direct, trouble, bound>>

Tick ==
    /\ clock < bound.days
    /\ clock' = clock + 1
    /\ UNCHANGED <<evidence, writer, lease, heads, source, tree, pc, job, direct, trouble, bound>>

\* A native start or a reservation is open: a kill leaves it so.
Open(p) == \/ pc[p] \in {"launch", "receipt"}
           \/ job[p].trial # NoEvent

Kill(p) ==
    /\ pc[p] # "idle"
    /\ IF Open(p) THEN Trouble("killed") ELSE UNCHANGED trouble
    /\ Return(p)
    /\ writer' = IF writer = p THEN NoProc ELSE writer
    /\ lease' = IF lease = p THEN Orphan ELSE lease
    /\ UNCHANGED evidence /\ UNCHANGED sharedVars

\* repository.lock of a killed process is removed by hand.
RemoveOrphan ==
    /\ lease = Orphan
    /\ lease' = NoProc
    /\ UNCHANGED <<evidence, writer, pc, job, trouble>> /\ UNCHANGED <<tree, sharedVars>>

AttemptStep(p) ==
    \/ Materialize(p) \/ SetUp(p) \/ SetUpFails(p)
    \/ AppendStart(p) \/ AppendStartFails(p)
    \/ Launch(p)
    \/ AppendReceipt(p) \/ ReceiptNotFound(p) \/ AppendReceiptFails(p)
    \/ AppendTerminal(p) \/ AppendTerminalFails(p)

StudyNext ==
    \/ \E p \in bound.procs :
          \/ \E d \in bound.drafts : CreateStudy(p, d)
          \/ SealPlan(p)
          \/ \E c \in bound.contents : RegisterExternal(p, c)
          \/ \E q \in Positions(evidence, "plan") : \E t \in evidence[q].tasks : RunTask(p, q, t)
          \/ BuildContext(p) \/ GiveUp(p) \/ LockForReservation(p)
          \/ Reserve(p) \/ ReserveUnclosed(p)
          \/ \E q \in Positions(evidence, "plan") : \E t \in evidence[q].tasks : DirectRun(p, t)
          \/ AttemptStep(p)
          \/ StartObserve(p)
          \/ \E q \in Positions(evidence, "plan") : \E t \in evidence[q].tasks :
                 \E r \in Positions(evidence, "receipt") : RecordOutcome(p, q, t, r)
          \/ RefuseObserve(p) \/ RecordObservation(p)
          \/ Kill(p) \/ Tamper(p)
    \/ ExportHeads \/ EditSource \/ Tick \/ RemoveOrphan

StudySpec == StudyInit /\ [][StudyNext]_studyVars

-----------------------------------------------------------------------------
(* Properties.                                                             *)

\* Every command can replay what the others left: unless a process was killed in
\* an attempt or an append of it was lost or its receipt is one the verification
\* rejects, the ledger replays whenever no attempt is open.  An Observe killed
\* between its two appends does no harm.
QuietStudiesReplay ==
    (trouble = <<>> /\ \A p \in Procs : ~Open(p)) => Replays(evidence)

\* An agent of the memory arm runs on the heads its study sealed, and they stay
\* the current heads until its receipt is written (resolveDelivery under the use
\* lease); an agent of the baseline arm gets no memory.
MemoryIsSealedAndCurrent ==
    \A p \in Procs : pc[p] \in {"start", "launch", "receipt"} /\ job[p].trial # NoEvent =>
        LET t == evidence[job[p].trial]
            plan == evidence[t.plan]
        IN  IF plan.condition[t.task] = "memory"
            THEN /\ job[p].context # NoEvent
                 /\ heads = plan.loadout
                 /\ evidence[job[p].context].loadout = plan.loadout
            ELSE job[p].context = NoEvent

\* Codex starts only in the files the study sealed, whatever was done to the
\* directory of the task since, or to the temporary workspace before the last
\* preflight (materializeWorkspace, verifyMaterializedWorkspace).
SealedFilesRun ==
    \A p \in Procs : job[p].trial # NoEvent =>
        job[p].ran \in {Nothing, evidence[job[p].plan].workspace}

\* What a finished study reports is final: later records change neither its
\* status nor the difference between the arms (BuildReport).
FinishedReportsStand ==
    [][\A q \in Positions(evidence, "plan") :
          BuildReport(evidence, q).status = "descriptive_signal"
            => BuildReport(evidence', q) = BuildReport(evidence, q)]_studyVars
=============================================================================
