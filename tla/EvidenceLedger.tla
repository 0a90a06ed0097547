--------------------------- MODULE EvidenceLedger ---------------------------
(***************************************************************************)
(* The local evidence ledger (internal/ledger/ledger.go): one append-only, *)
(* hash-chained JSONL file, guarded across processes by a lock FILE that   *)
(* is created with O_EXCL and removed by path, and a content-addressed     *)
(* blob store.                                                             *)
(*                                                                         *)
(* SHA-256 is idealised as injective: the hash of a record is the sequence *)
(* of the events from the first record up to it, so two records have the   *)
(* same hash exactly when they end the same chain.                         *)
(***************************************************************************)
EXTENDS Integers, Sequences, FiniteSets

CONSTANTS
    Writers,            \* processes that append to one evidence root
    Events,             \* valid events (what validateEvent accepts)
    Blobs,              \* blob contents, named by their digest
    BlobOf,             \* the set of blobs (none or one) an event refers to
    MaxRecords,         \* bound: records in the file
    MaxBatch,           \* bound: events in one AppendBatch
    Garbled,            \* a line that json.Unmarshal refuses
    ConfirmsUnderLock   \* TRUE: the operator confirms that no writer is active
                        \* while the reported lock file is still there

ASSUME LedgerAssumption ==
    /\ BlobOf \in [Events -> SUBSET Blobs]
    /\ Garbled \notin Events
    /\ MaxRecords \in Nat
    /\ MaxBatch \in Nat \ {0}
    /\ ConfirmsUnderLock \in BOOLEAN

VARIABLES
    lockFile,   \* state/evidence-writer.lock exists
    lines,      \* the newline-terminated lines of the ledger file
    torn,       \* the file ends with a partial line
    synced,     \* how many lines an fsync has made durable
    blobs,      \* blobs renamed into the blob store
    pc,         \* where each process is in NewAppender .. Close
    previous,   \* Appender.previous, the cached chain tail
    batch,      \* the batch written and not yet synced
    acked,      \* the records AppendBatch has returned to a caller
    recovery    \* the operator's stale-lock procedure

vars == <<lockFile, lines, torn, synced, blobs, pc, previous, batch, acked, recovery>>

Hash == Seq(Events)
Record == [event : Events, prev : Hash]
PC == {"idle", "locked", "open", "written", "failed"}
Recovery == {"none", "reported", "confirmed"}

RecordHash(r) == Append(r.prev, r.event)

\* makeRecord for every event of a batch, chained from the cached tail
makeRecords(b, tail) ==
    [i \in 1..Len(b) |-> [event |-> b[i], prev |-> tail \o SubSeq(b, 1, i - 1)]]

\* The hash the line at position i must name as its previous record.
ExpectedPrevious(ls, i) == IF i = 1 THEN <<>> ELSE RecordHash(ls[i - 1])

\* What lastRecordHash and visitRecords require of every complete line.
ChainOK(ls) ==
    \A i \in 1..Len(ls) : /\ ls[i].event \in Events
                          /\ ls[i].prev = ExpectedPrevious(ls, i)

\* What lastRecordHash returns for a file it accepts.
TailHash(ls) == ExpectedPrevious(ls, Len(ls) + 1)

\* The file after an O_APPEND write of rs: the first line joins a partial tail.
AppendedTo(ls, partial, rs) ==
    IF partial /\ rs # <<>>
    THEN ls \o <<[event |-> Garbled, prev |-> <<>>]>> \o Tail(rs)
    ELSE ls \o rs

Batches == UNION {[1..n -> Events] : n \in 1..MaxBatch}

-----------------------------------------------------------------------------
Init ==
    /\ lockFile = FALSE
    /\ lines = <<>>
    /\ torn = FALSE
    /\ synced = 0
    /\ blobs = {}
    /\ pc = [w \in Writers |-> "idle"]
    /\ previous = [w \in Writers |-> <<>>]
    /\ batch = [w \in Writers |-> <<>>]
    /\ acked = {}
    /\ recovery = "none"

\* PutBlob: the content becomes visible by one rename of a synced temp file.
PutBlob(d) ==
    /\ d \notin blobs
    /\ blobs' = blobs \cup {d}
    /\ UNCHANGED <<lockFile, lines, torn, synced, pc, previous, batch, acked, recovery>>

\* Mutation: the lock file is opened without O_EXCL.
acquireWriterLock_notExclusive(w) ==
    /\ pc[w] = "idle"
    /\ lockFile' = TRUE
    /\ pc' = [pc EXCEPT ![w] = "locked"]
    /\ UNCHANGED <<lines, torn, synced, blobs, previous, batch, acked, recovery>>

\* acquireWriterLock: O_CREATE|O_EXCL; an existing file is ErrWriterLocked.
acquireWriterLock(w) ==
    /\ pc[w] = "idle"
    /\ ~lockFile
    /\ lockFile' = TRUE
    /\ pc' = [pc EXCEPT ![w] = "locked"]
    /\ UNCHANGED <<lines, torn, synced, blobs, previous, batch, acked, recovery>>

\* Mutation: the scan stops at the last newline.
TailAccepted_ignoresPartial == ChainOK(lines)

\* The scan of NewAppender and NewAppenderAfterVisit accepts the file.
TailAccepted == ~torn /\ ChainOK(lines)

\* NewAppender, NewAppenderAfterVisit: read the tail under the lock and open.
NewAppender(w) ==
    /\ pc[w] = "locked"
    /\ TailAccepted
    /\ previous' = [previous EXCEPT ![w] = TailHash(lines)]
    /\ pc' = [pc EXCEPT ![w] = "open"]
    /\ UNCHANGED <<lockFile, lines, torn, synced, blobs, batch, acked, recovery>>

\* releaseWriterLockAfterError: a bad tail, or any I/O error before the
\* appender is open, removes the lock file again.
releaseWriterLockAfterError(w) ==
    /\ pc[w] = "locked"
    /\ lockFile' = FALSE
    /\ pc' = [pc EXCEPT ![w] = "idle"]
    /\ UNCHANGED <<lines, torn, synced, blobs, previous, batch, acked, recovery>>

\* Mutation: a failed appender takes another batch.
AppenderUsable_afterFailure(w) == pc[w] \in {"open", "failed"}

\* A closed or failed appender refuses AppendBatch.
AppenderUsable(w) == pc[w] = "open"

\* Mutation: only the first event of the batch is verified.
BlobsVerified_firstOnly(b) == BlobOf[b[1]] \subseteq blobs

\* Every event's blob is verified before anything is written.
BlobsVerified(b) == \A i \in 1..Len(b) : BlobOf[b[i]] \subseteq blobs

\* AppendBatch up to the Write, which reaches the file completely.
WriteBatch(w, b) ==
    /\ AppenderUsable(w)
    /\ BlobsVerified(b)
    /\ Len(lines) + Len(b) <= MaxRecords
    /\ lines' = AppendedTo(lines, torn, makeRecords(b, previous[w]))
    /\ torn' = FALSE
    /\ batch' = [batch EXCEPT ![w] = b]
    /\ pc' = [pc EXCEPT ![w] = "written"]
    /\ UNCHANGED <<lockFile, synced, blobs, previous, acked, recovery>>

\* AppendBatch whose Write fails or is short after k whole records; the rest
\* of record k + 1 may have begun.  The appender is unusable from here on.
WriteFails(w, b) ==
    /\ AppenderUsable(w)
    /\ BlobsVerified(b)
    /\ Len(lines) + Len(b) <= MaxRecords
    /\ \E k \in 0..Len(b) - 1, partial \in BOOLEAN :
          /\ lines' = AppendedTo(lines, torn,
                                 SubSeq(makeRecords(b, previous[w]), 1, k))
          /\ torn' = (partial \/ (k = 0 /\ torn))
    /\ pc' = [pc EXCEPT ![w] = "failed"]
    /\ UNCHANGED <<lockFile, synced, blobs, previous, batch, acked, recovery>>

\* Mutation: the records are returned without an fsync.
SyncBatch_withoutSync(w) ==
    /\ pc[w] = "written"
    /\ previous' = [previous EXCEPT ![w] = previous[w] \o batch[w]]
    /\ acked' = acked \cup {makeRecords(batch[w], previous[w])[i] : i \in 1..Len(batch[w])}
    /\ pc' = [pc EXCEPT ![w] = "open"]
    /\ batch' = [batch EXCEPT ![w] = <<>>]
    /\ UNCHANGED <<lockFile, lines, torn, synced, blobs, recovery>>

\* The Sync of AppendBatch succeeds: the records are returned to the caller.
SyncBatch(w) ==
    /\ pc[w] = "written"
    /\ synced' = Len(lines)
    /\ previous' = [previous EXCEPT ![w] = previous[w] \o batch[w]]
    /\ acked' = acked \cup {makeRecords(batch[w], previous[w])[i] : i \in 1..Len(batch[w])}
    /\ pc' = [pc EXCEPT ![w] = "open"]
    /\ batch' = [batch EXCEPT ![w] = <<>>]
    /\ UNCHANGED <<lockFile, lines, torn, blobs, recovery>>

\* The Sync fails: an error for the caller, though every byte is in the file.
SyncFails(w) ==
    /\ pc[w] = "written"
    /\ pc' = [pc EXCEPT ![w] = "failed"]
    /\ batch' = [batch EXCEPT ![w] = <<>>]
    /\ UNCHANGED <<lockFile, lines, torn, synced, blobs, previous, acked, recovery>>

\* Mutation: Close of a failed appender returns early.
Close_notAfterFailure(w) ==
    /\ pc[w] = "open"
    /\ lockFile' = FALSE
    /\ pc' = [pc EXCEPT ![w] = "idle"]
    /\ UNCHANGED <<lines, torn, synced, blobs, previous, batch, acked, recovery>>

\* Close, after success or failure, removes the lock file by path.
Close(w) ==
    /\ pc[w] \in {"open", "failed"}
    /\ lockFile' = FALSE
    /\ pc' = [pc EXCEPT ![w] = "idle"]
    /\ UNCHANGED <<lines, torn, synced, blobs, previous, batch, acked, recovery>>

\* A process dies: the lock file and what Write put in the file stay.
Crash(w) ==
    /\ pc[w] # "idle"
    /\ pc' = [pc EXCEPT ![w] = "idle"]
    /\ batch' = [batch EXCEPT ![w] = <<>>]
    /\ UNCHANGED <<lockFile, lines, torn, synced, blobs, previous, acked, recovery>>

\* The machine dies: any part of the file that no fsync covered may be gone.
PowerLoss ==
    /\ \E n \in synced..Len(lines) :
          /\ lines' = SubSeq(lines, 1, n)
          /\ torn' \in IF n = Len(lines) THEN {torn, FALSE} ELSE BOOLEAN
    /\ pc' = [w \in Writers |-> "idle"]
    /\ batch' = [w \in Writers |-> <<>>]
    /\ recovery' = "none"
    /\ UNCHANGED <<lockFile, synced, blobs, previous, acked>>

\* doctor reports writer_lock_present.
ReportLock ==
    /\ recovery = "none"
    /\ lockFile
    /\ recovery' = "reported"
    /\ UNCHANGED <<lockFile, lines, torn, synced, blobs, pc, previous, batch, acked>>

\* The operator confirms that no ledger writer is active.
ConfirmNoWriter ==
    /\ recovery = "reported"
    /\ \A w \in Writers : pc[w] = "idle"
    /\ ConfirmsUnderLock => lockFile
    /\ recovery' = "confirmed"
    /\ UNCHANGED <<lockFile, lines, torn, synced, blobs, pc, previous, batch, acked>>

\* The operator sees that a writer is active, or finds the lock gone.
AbandonRecovery ==
    /\ recovery = "reported"
    /\ recovery' = "none"
    /\ UNCHANGED <<lockFile, lines, torn, synced, blobs, pc, previous, batch, acked>>

\* ClearStaleWriterLock removes whatever lock file is there now.
ClearStaleWriterLock ==
    /\ recovery = "confirmed"
    /\ lockFile' = FALSE
    /\ recovery' = "none"
    /\ UNCHANGED <<lines, torn, synced, blobs, pc, previous, batch, acked>>

AppendStep(w) == \E b \in Batches : WriteBatch(w, b) \/ WriteFails(w, b)

Next ==
    \/ \E d \in Blobs : PutBlob(d)
    \/ \E w \in Writers : \/ acquireWriterLock(w)
                          \/ NewAppender(w)
                          \/ releaseWriterLockAfterError(w)
                          \/ AppendStep(w)
                          \/ SyncBatch(w)
                          \/ SyncFails(w)
                          \/ Close(w)
                          \/ Crash(w)
    \/ PowerLoss
    \/ ReportLock
    \/ ConfirmNoWriter
    \/ AbandonRecovery
    \/ ClearStaleWriterLock

Spec == Init /\ [][Next]_vars

(***************************************************************************)
(* A process that is not killed finishes the call it is in, and every      *)
(* caller closes its appender (defer Close) after finitely many batches.   *)
(***************************************************************************)
Fairness ==
    \A w \in Writers : /\ WF_vars(NewAppender(w) \/ releaseWriterLockAfterError(w))
                       /\ WF_vars(SyncBatch(w) \/ SyncFails(w))
                       /\ SF_vars(Close(w))

FairSpec == Spec /\ Fairness

-----------------------------------------------------------------------------
TypeOK ==
    /\ lockFile \in BOOLEAN
    /\ lines \in Seq(Record)
    /\ torn \in BOOLEAN
    /\ synced \in 0..Len(lines)
    /\ blobs \in SUBSET Blobs
    /\ pc \in [Writers -> PC]
    /\ previous \in [Writers -> Hash]
    /\ batch \in [Writers -> Hash]
    /\ acked \in SUBSET Record
    /\ recovery \in Recovery

Active(w) == pc[w] # "idle"

\* The ledger never forks: whatever writers, crashes, failed writes and lock
\* recoveries happened, every complete line extends the one before it, so
\* lastRecordHash can only ever refuse the file for a partial tail.
ChainNeverForks == ChainOK(lines)

\* What AppendBatch returned to its caller is durable: the record is at its
\* place in the file, below the last fsync, through failed writes of others,
\* process crashes, power loss and recovery of a stale lock.
AcknowledgedRecordsDurable ==
    \A r \in acked : /\ Len(r.prev) < synced
                     /\ synced <= Len(lines)
                     /\ lines[Len(r.prev) + 1] = r

\* Every record in the file, acknowledged or not, refers only to blobs that
\* PutBlob has committed: Verify never reports a missing blob.
RecordedBlobsExist ==
    \A i \in 1..Len(lines) :
        lines[i].event \in Events => BlobOf[lines[i].event] \subseteq blobs

\* Two processes are never both between acquireWriterLock and Close, and the
\* lock file is there for as long as one is.
SingleWriter ==
    /\ \A v, w \in Writers : Active(v) /\ Active(w) => v = w
    /\ \A w \in Writers : Active(w) => lockFile

\* A partial final record freezes the ledger: no process adds a line to a
\* file that ends in one, neither the appender that failed nor a later one.
TornTailFreezesLedger == [][torn => Len(lines') <= Len(lines)]_vars

\* The events of the file, and what an fsync has covered, behave as a log that
\* only grows and that loses at most an uncommitted suffix.
EventLog == [i \in 1..Len(lines) |-> lines[i].event]
Log == INSTANCE AppendOnlyLog WITH Entries <- Events, log <- EventLog, committed <- synced
ImplementsAppendOnlyLog == Log!Spec

\* A lock that is held is released by its holder, unless the holder dies and
\* leaves it for the operator.
LockReleasedOrOrphaned == lockFile ~> (~lockFile \/ \A w \in Writers : ~Active(w))

=============================================================================
