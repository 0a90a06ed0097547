------------------------- MODULE CaptureSupervisor -------------------------
(***************************************************************************)
(* Supervised capture of agent sources (internal/capturesupervisor, with   *)
(* hookcapture.Reconcile and the JSONL importer behind it).                *)
(*                                                                         *)
(* A run takes an inventory of each configured source, imports the hook    *)
(* spool and the source file, takes a second inventory and records, in an  *)
(* audit of immutable files, what it saw and how it went.  Agents write    *)
(* their files, and hooks their envelopes, at any moment; a person may     *)
(* import by hand; any step can be the last one of a killed process.       *)
(*                                                                         *)
(* operation.lock is an operating-system lock on a file that is never      *)
(* removed: it is held exactly while a process runs a command, so the one  *)
(* process that has it is the record sup, and a killed process frees it.   *)
(* Each source is a directory with one file.                               *)
(***************************************************************************)
EXTENDS JsonlImport, FiniteSets

CONSTANTS
    SourceOrder,              \* Sources by id, the order of a config
    HookSource,               \* the source whose agent has hooks, imported by
                              \* Reconcile; any other is an OpenCode event log
    Missing,                  \* stands for a file that is not there
    InitialFiles,             \* what the sources may hold before the first run
    Busy,                     \* sources whose agent is at work
    Styles,                   \* how agents treat their files, see below
    Hooks,                    \* hook invocations
    Configs,                  \* configs a person may apply: source -> required
    FullReconcileEveryRuns,
    TornTruncation,           \* a file cut short may end inside a record
    MaxSize, MaxEdits, MaxTruncations, MaxConfigures, MaxRuns, MaxHandImports,
    MaxFaults                 \* bound for each style

\* Configs name sources, hook envelopes are not kept under the path of a source,
\* there are finitely many hooks, and no content stands for a missing file.
ASSUME CaptureAssumption ==
    /\ IsFiniteSet(Hooks) /\ Busy \subseteq Sources /\ "spool" \notin Sources
    /\ Missing \notin Bytes
    /\ Styles \subseteq {"append", "replace", "hooks", "any"}
    /\ SourceOrder \in Seq(Sources)
    /\ \A c \in Configs : DOMAIN c \subseteq Sources
    /\ InitialFiles \subseteq [Sources -> {Missing} \cup Bytes]

VARIABLES
    style,        \* what the agents do to their files
    files,        \* what each source's file holds, Missing if there is none
    spool,        \* what the hook spool holds of each invocation
    log,          \* events of the evidence ledger
    blobs,        \* contents in the blob store
    writerLock,   \* ledger writer lock: none, hand, or left by a killed process
    audit,        \* capture supervisor audit
    sup,          \* the command that has operation.lock
    hand,         \* an import by hand
    due,          \* history: hooks that had returned when the last run started
    edits, truncations, imports, faults

sourceVars == <<style, files, spool, edits, truncations>>
evidenceVars == <<log, blobs>>
captureVars == <<sourceVars, evidenceVars, writerLock, audit, sup, hand, due, imports, faults>>

NoItem == [status |-> "none", bytes |-> <<>>, seen |-> 0]
NoInventory == [run |-> 0, required |-> FALSE, phase |-> "", status |-> "", item |-> NoItem]
Idle == [pc |-> "idle", ctx |-> "live", todo |-> <<>>, force |-> FALSE, pre |-> NoInventory,
         post |-> NoInventory, owed |-> <<>>, errors |-> {}, gapped |-> FALSE]
NoResult == [outcome |-> "", code |-> "", inventory |-> NoInventory, config |-> <<>>]
NoHand == [source |-> "", size |-> 0]

-----------------------------------------------------------------------------
(***************************************************************************)
(* The audit, as replayAudit reads it: newReplayState and applyEvent.      *)
(* Events are immutable files that are only added, so this is all of it    *)
(* that any command ever uses.                                             *)
(***************************************************************************)
newReplayState ==
    [config |-> <<>>, configures |-> 0,
     started |-> 0,                                \* LastRunID
     active |-> FALSE,                             \* the last run has no terminal event
     full |-> FALSE,                               \* ActiveFullReconcile
     completed |-> 0,                              \* RunsCompleted
     lastOutcome |-> "",                           \* LastRunOutcome
     inventories |-> [s \in Sources |-> <<>>],     \* ActiveInventories
     results |-> [s \in Sources |-> NoResult],     \* results of the last run
     last |-> [s \in Sources |-> NoInventory]]     \* LastInventories

Results(state) == {s \in Sources : state.results[s] # NoResult}

\* runOutcome
RunOutcome(state) ==
    LET failed == {s \in Results(state) : state.results[s].outcome \in {"failed", "skipped"}}
    IN  IF \E s \in Results(state) : state.results[s].code \in {"canceled", "capture_canceled"}
        THEN "canceled"
        ELSE IF \E s \in failed : state.config[s] THEN "failed"
        ELSE IF \E s \in Results(state) : state.results[s].outcome # "success" THEN "partial"
        ELSE "success"

applyConfigure(state, config) ==
    [state EXCEPT !.config = config, !.configures = @ + 1]

applyRunStarted(state, full) ==
    [state EXCEPT !.started = @ + 1, !.active = TRUE, !.full = full,
                  !.inventories = [s \in Sources |-> <<>>],
                  !.results = [s \in Sources |-> NoResult]]

applyInventory(state, source, inventory) ==
    [state EXCEPT !.inventories[source] = Append(@, inventory), !.last[source] = inventory]

applyResult(state, source, result) == [state EXCEPT !.results[source] = result]

applyRunEnded(state, action, outcome) ==
    [state EXCEPT !.active = FALSE, !.full = FALSE, !.lastOutcome = outcome,
                  !.inventories = [s \in Sources |-> <<>>],
                  !.completed = IF action = "run_finished" THEN @ + 1 ELSE @]

-----------------------------------------------------------------------------
(***************************************************************************)
(* Inventories.                                                            *)
(***************************************************************************)
inventoriesEquivalent(left, right) ==
    left.status = right.status /\ left.item = right.item

\* priorInventory: the last one of the source, under the same source config.
priorInventory(source) ==
    LET last == audit.last[source]
    IN  IF last.required = audit.config[source] THEN last ELSE NoInventory

\* buildFileInventory: the item of the source's file.  Nothing can be read once
\* the context is done; a file seen before and gone now is missing.
observe(prior, file) ==
    LET remembered(status) == IF prior.item = NoItem THEN NoItem
                              ELSE [prior.item EXCEPT !.status = status]
    IN  CASE sup.ctx # "live" -> remembered("unverified")
          [] sup.ctx = "live" /\ file = Missing -> remembered("missing")
          [] OTHER -> [status |-> "available", bytes |-> file, seen |-> audit.started]

buildFileInventory(source, prior, phase) ==
    LET item == observe(prior, files[source])
    IN  [run |-> audit.started, required |-> audit.config[source], phase |-> phase,
         status |-> IF item = NoItem THEN "empty" ELSE item.status, item |-> item]

\* Mutation: a file that is not the one seen before is read from the offset.
requireFull_never(prior, inventory) == inventory.status # "available"

\* The source must be read from its start: it is not what was seen before with
\* bytes behind it.
requireFull(prior, inventory) ==
    \/ inventory.status # "available"
    \/ /\ prior.item # NoItem
       /\ \/ prior.item.status # "available"
          \/ /\ prior.item.bytes # inventory.item.bytes
             /\ ~(prior.item.bytes # <<>> /\ IsPrefix(prior.item.bytes, inventory.item.bytes))

\* missingGapEvents: the id holds the run that last saw the item and the reason.
missingGapEvents(source, inventory) ==
    IF inventory.item.status \in {"none", "available"} THEN <<>>
    ELSE <<Event("source_inventory", source, inventory.item.seen, 0, <<inventory.item.status>>)>>

-----------------------------------------------------------------------------
(***************************************************************************)
(* validateEvent, which appendEvent asks before it writes an event, for    *)
(* the actions whose event depends on more than its own guard.             *)
(***************************************************************************)
validateSuccessfulInventories(inventories) ==
    /\ Len(inventories) = 2
    /\ inventories[1].phase = "pre_capture" /\ inventories[2].phase = "post_capture"
    /\ \A i \in 1 .. 2 : inventories[i].status = "available"
    /\ inventoriesEquivalent(inventories[1], inventories[2])

ValidInventory(state, source, inventory) ==
    /\ state.active /\ source \in DOMAIN state.config \ Results(state)
    /\ inventory.run = state.started /\ inventory.required = state.config[source]

ValidResult(state, source, result) ==
    /\ state.active /\ source \in DOMAIN state.config \ Results(state)
    /\ result.outcome = "success" <=> result.code = ""
    /\ result.inventory # NoInventory => result.inventory = state.last[source]
    /\ result.outcome = "success" =>
          /\ result.inventory # NoInventory
          /\ validateSuccessfulInventories(state.inventories[source])

ValidFinish(state, outcome, full) ==
    /\ state.active /\ full = state.full
    /\ Results(state) = DOMAIN state.config /\ outcome = RunOutcome(state)

sourceResult(outcome, code, inventory) ==
    [outcome |-> outcome, code |-> code, inventory |-> inventory, config |-> audit.config]

\* appendEvent: the event is linked into the audit and applied, or the command
\* returns with an error.
appendEvent(valid, applied, next) ==
    \/ /\ valid
       /\ audit' = applied
       /\ sup' = next
       /\ UNCHANGED faults
    \/ /\ faults < MaxFaults[style]
       /\ faults' = faults + 1
       /\ sup' = Idle
       /\ UNCHANGED audit

-----------------------------------------------------------------------------
CaptureInit ==
    /\ style \in Styles
    /\ files \in InitialFiles
    /\ spool = [h \in Hooks |-> "none"]
    /\ log = <<>> /\ blobs = {}
    /\ writerLock = "none"
    /\ audit = newReplayState
    /\ sup = Idle
    /\ hand = NoHand /\ due = {}
    /\ edits = 0 /\ truncations = 0 /\ imports = 0 /\ faults = 0

(***************************************************************************)
(* The agents.  Style "append": files only grow, at any time.  Style       *)
(* "replace": files are also changed in place, cut, removed and written    *)
(* anew, but nothing is written while a run is in progress, and nobody     *)
(* imports by hand.  Style "hooks": hooks run, and files are only removed. *)
(* Style "any" has no restriction.                                         *)
(***************************************************************************)
MayAppend == style # "hooks"
MayReplace == style \in {"replace", "any"}

Write(source, bytes) ==
    /\ edits < MaxEdits /\ (style = "replace" => sup = Idle)
    /\ edits' = edits + 1
    /\ files' = [files EXCEPT ![source] = bytes]
    /\ UNCHANGED <<due, style, spool, evidenceVars, writerLock, audit, sup, hand, imports, faults>>

\* What one write can add behind a newline: a record, or the start of a valid one.
Chunks == {<<b, NL>> : b \in Bodies} \cup {<<b>> : b \in Bodies \ Malformed}

\* A file appears with one record, written in one or in two writes.
CreateFile(source) ==
    /\ MayAppend /\ files[source] = Missing
    /\ \E chunk \in Chunks : Write(source, chunk)
    /\ UNCHANGED truncations

AppendBytes(source) ==
    /\ MayAppend /\ files[source] # Missing
    /\ LET old == files[source]
           torn == old # <<>> /\ Last(old) # NL
       IN  /\ Len(old) + 2 <= MaxSize \/ torn
           /\ \E chunk \in (IF torn THEN {<<NL>>} ELSE Chunks) : Write(source, old \o chunk)
    /\ UNCHANGED truncations

\* The first record is changed in place; the size stays.
RewriteFile(source) ==
    /\ MayReplace /\ files[source] \notin {Missing, <<>>}
    /\ \E b \in Bodies \ {files[source][1]} : Write(source, [files[source] EXCEPT ![1] = b])
    /\ UNCHANGED truncations

\* The file is cut and begun again.
TruncateFile(source) ==
    /\ MayReplace /\ files[source] # Missing
    /\ truncations < MaxTruncations
    /\ truncations' = truncations + 1
    /\ \E bytes \in {<<>>} \cup {<<b, NL>> : b \in Bodies}
                     \cup (IF TornTruncation THEN {<<b>> : b \in Bodies} ELSE {}) :
          Len(bytes) < Len(files[source]) /\ Write(source, bytes)

DeleteFile(source) ==
    /\ style # "append" /\ files[source] # Missing
    /\ Write(source, Missing)
    /\ UNCHANGED truncations

(***************************************************************************)
(* hookcapture.Capture: the envelope is written to a temporary file,       *)
(* linked to its name and the temporary name removed.  A temporary file    *)
(* alone is never read, so a hook killed before the link has left nothing; *)
(* killed behind it, it leaves both names.  If the removal fails, the      *)
(* envelope is removed again.                                              *)
(***************************************************************************)
Spooled(h) == spool[h] \in {"linked", "envelope"}

HookStep(h) ==
    /\ style \in {"hooks", "any"}
    /\ \/ spool[h] = "none" /\ spool' = [spool EXCEPT ![h] = "linked"]
       \/ spool[h] = "linked" /\ spool' = [spool EXCEPT ![h] = "envelope"]
    /\ UNCHANGED <<due, style, files, edits, truncations, evidenceVars, writerLock, audit, sup, hand,
                   imports, faults>>

HookFails(h) ==
    /\ spool[h] = "linked"
    /\ faults < MaxFaults[style]
    /\ faults' = faults + 1
    /\ spool' = [spool EXCEPT ![h] = "failed"]
    /\ UNCHANGED <<due, style, files, edits, truncations, evidenceVars, writerLock, audit, sup, hand,
                   imports>>

-----------------------------------------------------------------------------
(***************************************************************************)
(* Commands of the supervisor.                                             *)
(***************************************************************************)
ConfigureFile(config) ==
    /\ sup = Idle /\ ~audit.active /\ config # audit.config
    /\ audit.configures < MaxConfigures
    /\ appendEvent(TRUE, applyConfigure(audit, config), Idle)
    /\ UNCHANGED <<due, sourceVars, evidenceVars, writerLock, hand, imports>>

\* Sources in the order of the config.
InOrder(sources) == Pick(SourceOrder, {i \in DOMAIN SourceOrder : SourceOrder[i] \in sources})

\* Run, up to the event that starts it.
StartRun ==
    LET full == audit.completed = 0 \/ (audit.completed + 1) % FullReconcileEveryRuns = 0
    IN  /\ sup = Idle /\ ~audit.active /\ audit.config # <<>>
        /\ audit.started < MaxRuns
        /\ appendEvent(TRUE, applyRunStarted(audit, full),
                       [Idle EXCEPT !.pc = "source",
                          !.todo = InOrder(DOMAIN audit.config)])
        /\ due' = IF sup' = Idle THEN due ELSE {h \in Hooks : spool[h] = "envelope"}
        /\ UNCHANGED <<sourceVars, evidenceVars, writerLock, hand, imports>>

\* A source is done: the next one has its own timeout, but not its own
\* cancellation.
NextSource ==
    LET todo == Tail(sup.todo)
    IN  [Idle EXCEPT !.pc = IF todo = <<>> THEN "finish" ELSE "source", !.todo = todo,
                     !.ctx = IF sup.ctx = "canceled" THEN "canceled" ELSE "live"]

SkipSource ==
    /\ sup.pc = "source" /\ sup.ctx = "canceled"
    /\ LET source == Head(sup.todo)
           result == sourceResult("skipped", "capture_canceled", NoInventory)
       IN  appendEvent(ValidResult(audit, source, result), applyResult(audit, source, result),
                       NextSource)
    /\ UNCHANGED <<due, sourceVars, evidenceVars, writerLock, hand, imports>>

\* The gaps a step owes are appended next, if there are any.
AfterGaps == [pre_gaps |-> "spool", import_gaps |-> "post", post_gaps |-> "result"]

\* Mutation: gaps are not appended.
Owing_forgotten(state, pc) == [state EXCEPT !.pc = AfterGaps[pc], !.owed = <<>>]

Owing(state, pc) == [state EXCEPT !.pc = IF state.owed = <<>> THEN AfterGaps[pc] ELSE pc]

\* The inventory before the import is recorded.
RecordPreInventory ==
    /\ sup.pc = "source" /\ sup.ctx # "canceled"
    /\ LET source == Head(sup.todo)
           prior == priorInventory(source)
           inventory == buildFileInventory(source, prior, "pre_capture")
       IN  appendEvent(ValidInventory(audit, source, inventory),
                       applyInventory(audit, source, inventory),
                       Owing([sup EXCEPT !.pre = inventory,
                                         !.force = requireFull(prior, inventory),
                                         !.owed = missingGapEvents(source, inventory)], "pre_gaps"))
    /\ UNCHANGED <<due, sourceVars, evidenceVars, writerLock, hand, imports>>

\* AppendBatch of events under the writer lock.  A failure may leave a part of
\* the batch in the file; then part says how much.
Committed(events, part) == log' = log \o SubSeq(events, 1, part)

\* appendInventoryGaps and appendReconcileGaps.
AppendGaps ==
    /\ sup.pc \in DOMAIN AfterGaps
    /\ LET next == AfterGaps[sup.pc]
           events == Unknown(log, sup.owed)
           failing(code) == [sup EXCEPT !.pc = next, !.owed = <<>>, !.errors = @ \cup {code}]
       IN  \/ /\ sup.ctx # "live"
              /\ sup' = failing(sup.ctx)
              /\ UNCHANGED <<log, faults>>
           \/ /\ sup.ctx = "live" /\ writerLock # "none"
              /\ sup' = failing("writer_locked")
              /\ UNCHANGED <<log, faults>>
           \/ /\ sup.ctx = "live" /\ writerLock = "none"
              /\ \/ /\ Committed(events, Len(events))
                    /\ sup' = [sup EXCEPT !.pc = next, !.owed = <<>>,
                                          !.gapped = @ \/ events # <<>>]
                    /\ UNCHANGED faults
                 \/ /\ faults < MaxFaults[style] /\ faults' = faults + 1
                    /\ \E part \in 0 .. Len(events) : Committed(events, part)
                    /\ sup' = failing("other")
    /\ UNCHANGED <<due, sourceVars, blobs, writerLock, audit, hand, imports>>

hookEvents == LET spooled == SetToSeq({h \in Hooks : Spooled(h)})
              IN  [i \in DOMAIN spooled |-> Event("line", "spool", 0, 2, <<spooled[i], NL>>)]

\* newReconcileFailure: an import that failed, to be recorded as a gap.
captureGap(operation, code) == Event(operation, Head(sup.todo), 0, 0, <<code>>)

\* Only Reconcile records one.
failed(operation, code, next) ==
    [sup EXCEPT !.pc = next, !.errors = @ \cup {code},
                !.owed = IF Head(sup.todo) = HookSource
                         THEN Append(@, captureGap(operation, code)) ELSE @]

\* Reconcile's first half: the envelopes in the spool of the source's agent.
\* An error is remembered and the source file is imported all the same.
ImportSpool ==
    /\ sup.pc = "spool" /\ sup.ctx = "live"
    /\ LET spooled == IF Head(sup.todo) = HookSource THEN hookEvents ELSE <<>>
           events == Unknown(log, spooled)
       IN  \/ /\ spooled # <<>> /\ writerLock # "none"
              /\ sup' = failed("hook_spool_import", "writer_locked", "import")
              /\ UNCHANGED <<log, faults>>
           \/ /\ spooled = <<>> \/ writerLock = "none"
              /\ Committed(events, Len(events))
              /\ sup' = [sup EXCEPT !.pc = "import"]
              /\ UNCHANGED faults
           \/ /\ events # <<>> /\ writerLock = "none"
              /\ faults < MaxFaults[style] /\ faults' = faults + 1
              /\ \E part \in 0 .. Len(events) : Committed(events, part)
              /\ sup' = failed("hook_spool_import", "other", "import")
    /\ UNCHANGED <<due, sourceVars, blobs, writerLock, audit, hand, imports>>

\* What importFile does with a source the inventory saw: the whole file goes to
\* the blob store first and must be what was seen; the import reads the blob.
Expected(bytes) == sup.pre.status = "available" => sup.pre.item.bytes = bytes

\* Reconcile's second half: the source file itself.
ImportSource ==
    /\ sup.pc = "import" /\ sup.ctx = "live"
    /\ LET source == Head(sup.todo)
           bytes == files[source]
           events == ImportBatch(log, source, Len(bytes), bytes, audit.full \/ sup.force)
           importFailed(code) == Owing(failed("transcript_import", code, "import_gaps"), "import_gaps")
       IN  \/ /\ bytes = Missing
              /\ sup' = importFailed("other")
              /\ UNCHANGED <<evidenceVars, faults>>
           \/ /\ bytes # Missing /\ writerLock # "none"
              /\ sup' = importFailed("writer_locked")
              /\ UNCHANGED <<evidenceVars, faults>>
           \/ /\ bytes # Missing /\ writerLock = "none" /\ ~Expected(bytes)
              /\ blobs' = blobs \cup {bytes}
              /\ sup' = importFailed("other")
              /\ UNCHANGED <<log, faults>>
           \/ /\ bytes # Missing /\ writerLock = "none" /\ Expected(bytes)
              /\ blobs' = blobs \cup {bytes}
              /\ Committed(events, Len(events))
              /\ sup' = Owing([sup EXCEPT !.gapped = @ \/ HasGaps(events)], "import_gaps")
              /\ UNCHANGED faults
           \/ /\ bytes # Missing /\ writerLock = "none" /\ Expected(bytes)
              /\ faults < MaxFaults[style] /\ faults' = faults + 1
              /\ blobs' = blobs \cup {bytes}
              /\ \E part \in 0 .. Len(events) : Committed(events, part)
              /\ sup' = importFailed("other")
    /\ UNCHANGED <<due, sourceVars, writerLock, audit, hand, imports>>

\* The context is done before the import: nothing is imported, and what the
\* inventory saw was not preserved.
SkipImport ==
    /\ sup.pc \in {"spool", "import"} /\ sup.ctx # "live"
    /\ sup' = Owing(sup, "import_gaps")
    /\ UNCHANGED <<due, sourceVars, evidenceVars, writerLock, audit, hand, imports, faults>>

\* The inventory after the import is recorded, and compared with the first.
RecordPostInventory ==
    /\ sup.pc = "post"
    /\ LET source == Head(sup.todo)
           inventory == buildFileInventory(source, sup.pre, "post_capture")
           unstable == ~inventoriesEquivalent(sup.pre, inventory)
       IN  appendEvent(ValidInventory(audit, source, inventory),
                       applyInventory(audit, source, inventory),
                       Owing([sup EXCEPT !.post = inventory,
                                         !.errors = @ \cup (IF unstable THEN {"other"} ELSE {}),
                                         !.owed = missingGapEvents(source, inventory)], "post_gaps"))
    /\ UNCHANGED <<due, sourceVars, evidenceVars, writerLock, hand, imports>>

\* The first of these is what an error is classified as.
ErrorCodes == <<"canceled", "expired", "writer_locked", "other">>
classifyRunError(errors) ==
    ErrorCodes[Min({i \in DOMAIN ErrorCodes : ErrorCodes[i] \in errors})]

setSourceOutcome ==
    LET errors == sup.errors \cup (IF sup.ctx = "live" THEN {} ELSE {sup.ctx})
        complete == sup.pre.status = "available" /\ sup.post.status = "available"
    IN  CASE errors # {} -> sourceResult("failed", classifyRunError(errors), sup.post)
          [] errors = {} /\ ~complete ->
                sourceResult("partial", "source_inventory_incomplete", sup.post)
          [] errors = {} /\ complete /\ sup.gapped ->
                sourceResult("partial", "capture_gaps_observed", sup.post)
          [] OTHER -> sourceResult("success", "", sup.post)

FinishSource ==
    /\ sup.pc = "result"
    /\ LET source == Head(sup.todo)
       IN  appendEvent(ValidResult(audit, source, setSourceOutcome),
                       applyResult(audit, source, setSourceOutcome), NextSource)
    /\ UNCHANGED <<due, sourceVars, evidenceVars, writerLock, hand, imports>>

FinishRun ==
    /\ sup.pc = "finish"
    /\ LET outcome == RunOutcome(audit)
       IN  appendEvent(ValidFinish(audit, outcome, audit.full),
                       applyRunEnded(audit, "run_finished", outcome), Idle)
    /\ UNCHANGED <<due, sourceVars, evidenceVars, writerLock, hand, imports>>

\* The source's timeout passes, or the command is interrupted.
EndContext ==
    /\ sup.pc \notin {"idle", "recover", "finish"} /\ sup.ctx # "canceled"
    /\ faults < MaxFaults[style] /\ faults' = faults + 1
    /\ \E ended \in {"expired", "canceled"} \ {sup.ctx} : sup' = [sup EXCEPT !.ctx = ended]
    /\ UNCHANGED <<due, sourceVars, evidenceVars, writerLock, audit, hand, imports>>

\* Recover: every source without a result is skipped, then the run abandoned.
StartRecover ==
    /\ sup = Idle /\ audit.active
    /\ sup' = [Idle EXCEPT !.pc = "recover"]
    /\ UNCHANGED <<due, sourceVars, evidenceVars, writerLock, audit, hand, imports, faults>>

Unfinished == InOrder(DOMAIN audit.config \ Results(audit))

recoveryResult(source) ==
    sourceResult("skipped", "recovery_abandoned",
                 IF audit.last[source].run = audit.started THEN audit.last[source] ELSE NoInventory)

RecoverStep ==
    /\ sup.pc = "recover"
    /\ \/ /\ Unfinished # <<>>
          /\ LET source == Head(Unfinished)
             IN  appendEvent(ValidResult(audit, source, recoveryResult(source)),
                             applyResult(audit, source, recoveryResult(source)), sup)
       \/ /\ Unfinished = <<>>
          /\ appendEvent(audit.active, applyRunEnded(audit, "run_abandoned", "abandoned"), Idle)
    /\ UNCHANGED <<due, sourceVars, evidenceVars, writerLock, hand, imports>>

\* The process is killed.  While it appends to the ledger it leaves a part of the
\* batch and the writer lock.
Crash ==
    /\ sup # Idle /\ faults < MaxFaults[style]
    /\ faults' = faults + 1
    /\ sup' = Idle
    /\ \/ UNCHANGED <<evidenceVars, writerLock>>
       \/ /\ sup.ctx = "live" /\ writerLock = "none"
          /\ writerLock' = "stale"
          /\ \/ /\ sup.pc \in DOMAIN AfterGaps
                /\ \E part \in 0 .. Len(Unknown(log, sup.owed)) : Committed(Unknown(log, sup.owed), part)
                /\ UNCHANGED blobs
             \/ /\ sup.pc = "spool" /\ Head(sup.todo) = HookSource /\ hookEvents # <<>>
                /\ \E part \in 0 .. Len(Unknown(log, hookEvents)) : Committed(Unknown(log, hookEvents), part)
                /\ UNCHANGED blobs
             \/ /\ sup.pc = "import"
                /\ files[Head(sup.todo)] # Missing /\ Expected(files[Head(sup.todo)])
                /\ LET bytes == files[Head(sup.todo)]
                       events == ImportBatch(log, Head(sup.todo), Len(bytes), bytes, audit.full \/ sup.force)
                   IN  /\ blobs' = blobs \cup {bytes}
                       /\ \E part \in 0 .. Len(events) : Committed(events, part)
    /\ UNCHANGED <<due, sourceVars, audit, hand, imports>>

-----------------------------------------------------------------------------
(***************************************************************************)
(* An import by hand (agentmem import), from the committed offset: it      *)
(* takes the writer lock, reads the size of the file, and later its bytes. *)
(***************************************************************************)
StartHandImport(source) ==
    /\ style # "replace" /\ hand = NoHand /\ imports < MaxHandImports
    /\ files[source] # Missing /\ writerLock = "none"
    /\ writerLock' = "hand"
    /\ hand' = [source |-> source, size |-> Len(files[source])]
    /\ imports' = imports + 1
    /\ UNCHANGED <<due, sourceVars, evidenceVars, audit, sup, faults>>

FinishHandImport ==
    /\ hand # NoHand
    /\ hand' = NoHand
    /\ writerLock' = "none"
    /\ \/ /\ files[hand.source] = Missing
          /\ UNCHANGED evidenceVars
       \/ /\ files[hand.source] # Missing
          /\ LET events == ImportBatch(log, hand.source, hand.size, files[hand.source], FALSE)
             IN  /\ blobs' = blobs \cup {e.bytes : e \in {x \in ToSet(events) :
                                                              x.kind = "source_segment"}}
                 /\ Committed(events, Len(events))
    /\ UNCHANGED <<due, sourceVars, audit, sup, imports, faults>>

\* recover-lock, after the operator made sure that no writer runs.
ClearStaleWriterLock ==
    /\ writerLock = "stale"
    /\ writerLock' = "none"
    /\ UNCHANGED <<due, sourceVars, evidenceVars, audit, sup, hand, imports, faults>>

-----------------------------------------------------------------------------
CaptureNext ==
    \/ \E s \in Busy : \/ CreateFile(s) \/ AppendBytes(s) \/ RewriteFile(s)
                       \/ TruncateFile(s) \/ DeleteFile(s) \/ StartHandImport(s)
    \/ \E h \in Hooks : HookStep(h) \/ HookFails(h)
    \/ \E c \in Configs : ConfigureFile(c)
    \/ StartRun \/ SkipSource \/ RecordPreInventory \/ AppendGaps \/ ImportSpool
    \/ ImportSource \/ SkipImport \/ RecordPostInventory \/ FinishSource \/ FinishRun
    \/ EndContext \/ StartRecover \/ RecoverStep \/ Crash
    \/ FinishHandImport \/ ClearStaleWriterLock

CaptureSpec == CaptureInit /\ [][CaptureNext]_captureVars

-----------------------------------------------------------------------------
(***************************************************************************)
(* Properties.                                                             *)
(***************************************************************************)
\* Whatever was imported by whom, interrupted and repeated, no event is in the
\* ledger twice (event ids are computed from the source bytes; knownIDs).
EvidenceRecordedOnce == \A i \in DOMAIN log : \A j \in 1 .. i - 1 : log[j] # log[i]

\* A source_succeeded event means that the file the inventories saw is preserved
\* byte for byte and that each of its records is in the ledger
\* (setSourceOutcome; docs/capture-supervisor.md: "A required source is
\* successful only when").  For files that only grow, or are removed, this
\* holds whatever fails.  Where a file may be replaced, a run that stops between
\* its first inventory and its import leaves that inventory as what was seen
\* before, so it is said of what happens without a failure.
SuccessMeansRecorded ==
    \A s \in Results(audit) :
        (audit.results[s].outcome = "success" /\ (MayReplace => faults = 0)) =>
            LET seen == audit.results[s].inventory.item.bytes
            IN  seen \in blobs /\ LinesRecorded(log, s, seen)

\* Mutation: a result of an earlier run counts when the latest run was abandoned.
captureReady_abandoned ==
    /\ audit.config # <<>> /\ sup = Idle /\ ~audit.active
    /\ \A s \in DOMAIN audit.config : audit.config[s] =>
          /\ audit.results[s] # NoResult /\ audit.results[s].outcome \in {"success", "skipped"}

\* The health that statusFromState computes from the audit, without its time
\* limits: no incomplete or abandoned run, and every required source succeeded
\* in the latest run under the active config.
captureReady ==
    /\ audit.config # <<>> /\ sup = Idle /\ ~audit.active
    /\ audit.lastOutcome # "abandoned"
    /\ \A s \in DOMAIN audit.config : audit.config[s] =>
          audit.results[s].outcome = "success" /\ audit.results[s].config = audit.config

\* When the status reports the capture as ready, every hook that had returned
\* when the latest run started is in the ledger too (statusFromState asks for
\* results of the latest run only).
ReadyMeansHooksRecorded ==
    captureReady /\ HookSource \in DOMAIN audit.config /\ audit.config[HookSource] =>
        \A h \in due : Event("line", "spool", 0, 2, <<h, NL>>) \in ToSet(log)

\* A source whose file was seen before and could not be read now left a gap that
\* says which file, last seen when, and why, unless the run was interrupted or
\* the ledger could not be written (appendInventoryGaps; README: "Missing ...
\* data becomes an explicit gap").
UnavailableIsReported ==
    \A s \in Results(audit) :
        /\ audit.results[s].outcome # "skipped" /\ faults = 0
        /\ audit.results[s].code # "writer_locked"
        => ToSet(missingGapEvents(s, audit.results[s].inventory)) \subseteq ToSet(log)
=============================================================================
