----------------------------- MODULE AutoSync -----------------------------
(***************************************************************************)
(* Optional automatic synchronization (internal/autosync) of one portable  *)
(* repository: the scheduled sync auto run, the operator's enable, disable,*)
(* recover and run, and what they share: operation.lock, config.json, the  *)
(* hash-chained audit events.jsonl and the registration of the operating   *)
(* system's scheduler.                                                     *)
(*                                                                         *)
(* A config is numbered when it is written (its UpdatedAt makes its hash    *)
(* unique).  The audit is its last event, whether it can be replayed  *)
(* and who has replayed it to its end.  Export and Git synchronization are *)
(* the number of revisions that were promoted, exported, committed and     *)
(* published: PortableRepository and GitSync model them in full.  Install  *)
(* and Remove of the scheduler are atomic, as in Task Scheduler.           *)
(***************************************************************************)
EXTENDS Naturals, FiniteSets

CONSTANTS
    Operators,                \* processes of people at this device
    Scheduled,                \* the process that the scheduler starts
    Interval,                 \* IntervalSeconds, in units of time
    MaximumRetry,             \* MaximumRetrySeconds, in units of time
    MaximumConsecutiveErrors,
    MaxCommands,              \* bound: commands by people
    MaxPromoted,              \* bound: promoted revisions
    MaxFaults                 \* bound: failed writes and crashes

ASSUME AutoSyncAssumption ==
    /\ Scheduled \notin Operators
    /\ Interval \in Nat \ {0}
    /\ MaximumRetry \in Nat /\ Interval <= MaximumRetry     \* validateConfig
    /\ MaximumConsecutiveErrors \in Nat \ {0}
    /\ {MaxCommands, MaxPromoted, MaxFaults} \subseteq Nat

Processes == Operators \cup {Scheduled}

VARIABLES
    promoted, exported, committed, published,   \* numbers of revisions
    repositoryLock,  \* who holds .agentmem/repository.lock
    remoteIs,        \* what a synchronization would meet
    registered,      \* the scheduler has the task
    config,          \* config.json: its number (0: no file), enabled
    audit,           \* last event: config, state, ConsecutiveErrors
    tail,            \* end of events.jsonl: whole, bare (no newline), torn, forked
    wait,            \* time until NextAttemptAt
    operationLock,   \* operation.lock exists
    pc, command,     \* where each process is, and in which command
    replayed,        \* processes whose replayed audit ends with the last event
    prior,           \* config and registration before enable or disable changed them
    outcome,         \* result of the attempt of each process
    written,         \* number of configs written
    commands, faults

repositoryVars == <<promoted, exported, committed, published>>
auditVars == <<audit, tail, wait, replayed>>
processVars == <<pc, command, prior, outcome>>
configVars == <<config, written>>
autoVars == <<repositoryVars, repositoryLock, remoteIs, registered, configVars, auditVars,
              operationLock, processVars, commands, faults>>

NoConfig == [by |-> 0, enabled |-> FALSE]
NoPrior == [config |-> NoConfig, registered |-> FALSE]

-----------------------------------------------------------------------------
\* gitsync.Verify without issues: nothing in the working tree is untracked.
RepositoryVerifies == exported = committed

\* replayEvents
Replays == tail \in {"whole", "bare"}

\* The hash of the config is the one the last event carries.
Bound == config.by = audit.config

\* retryDelay: doubles from the interval, up to the maximum.
retryDelay(consecutive) ==
    LET delay[n \in Nat] == IF n = 0 THEN Interval
                            ELSE IF 2 * delay[n-1] > MaximumRetry THEN MaximumRetry
                            ELSE 2 * delay[n-1]
    IN  delay[consecutive - 1]

\* The issues of GetStatus.
Issues ==
    {i \in {"repository_invalid", "audit_invalid", "config_audit_mismatch", "config_missing",
            "scheduler_missing", "orphaned_schedule", "state_mismatch", "operation_locked"} :
        CASE i = "repository_invalid"    -> ~RepositoryVerifies
          [] i = "audit_invalid"         -> ~Replays
          [] i = "config_audit_mismatch" -> config.by # 0 /\ Replays /\ ~Bound
          [] i = "config_missing"        -> config.by = 0 /\ Replays /\ audit.config # 0
          [] i = "scheduler_missing"     -> config.enabled /\ ~registered
          [] i = "orphaned_schedule"     -> ~config.enabled /\ registered
          [] i = "state_mismatch"        -> Replays /\ config.enabled = (audit.state = "disabled")
          [] i = "operation_locked"      -> operationLock}

-----------------------------------------------------------------------------
AutoInit ==
    /\ promoted = 0 /\ exported = 0 /\ committed = 0 /\ published = 0
    /\ repositoryLock = "free"
    /\ remoteIs = "reachable"
    /\ registered = FALSE
    /\ config = NoConfig
    /\ audit = [config |-> 0, state |-> "disabled", errors |-> 0]
    /\ tail = "whole"
    /\ wait = 0
    /\ operationLock = FALSE
    /\ pc = [p \in Processes |-> "idle"]
    /\ command = [p \in Processes |-> "none"]
    /\ replayed = {}
    /\ prior = [p \in Processes |-> NoPrior]
    /\ outcome = [p \in Processes |-> "none"]
    /\ written = 0 /\ commands = 0 /\ faults = 0

Goto(p, label) == pc' = [pc EXCEPT ![p] = label]

Forget(p) ==
    /\ Goto(p, "idle")
    /\ command' = [command EXCEPT ![p] = "none"]
    /\ prior' = [prior EXCEPT ![p] = NoPrior]
    /\ outcome' = [outcome EXCEPT ![p] = "none"]

\* The command returns and its deferred call removes the lock file.
Return(p) ==
    /\ Forget(p)
    /\ operationLock' = FALSE

Fault == faults < MaxFaults /\ faults' = faults + 1

\* Entering the attempts, rewrites and appends that follow a decision.
Proceed(p, label) ==
    /\ Goto(p, label)
    /\ replayed' = replayed \cup {p}
    /\ UNCHANGED <<command, outcome, operationLock>>

\* A command that decides to change nothing.
Decline(p) ==
    /\ Return(p)
    /\ UNCHANGED <<repositoryVars, repositoryLock, remoteIs, registered, configVars, auditVars,
                   commands, faults>>

-----------------------------------------------------------------------------
\* Every command starts with validateRepository, before it takes the lock; the
\* scheduler starts sync auto run while the task is registered.
Validate(p, c) ==
    /\ pc[p] = "idle"
    /\ IF p = Scheduled THEN c = "run" /\ registered /\ UNCHANGED commands
       ELSE commands < MaxCommands /\ commands' = commands + 1
    /\ RepositoryVerifies
    /\ Goto(p, "validated")
    /\ command' = [command EXCEPT ![p] = c]
    /\ UNCHANGED <<repositoryVars, repositoryLock, remoteIs, registered, configVars, auditVars,
                   operationLock, prior, outcome, faults>>

\* The lock file is created with O_EXCL.
acquireOperationLock(p) == ~operationLock /\ operationLock' = TRUE /\ Goto(p, "locked")

TakeLock(p) ==
    /\ pc[p] = "validated"
    /\ acquireOperationLock(p)
    /\ UNCHANGED <<repositoryVars, repositoryLock, remoteIs, registered, configVars, auditVars,
                   command, prior, outcome, commands, faults>>

\* Another command holds the lock.
Locked(p) ==
    /\ pc[p] = "validated"
    /\ operationLock
    /\ Forget(p)
    /\ UNCHANGED <<repositoryVars, repositoryLock, remoteIs, registered, configVars, auditVars,
                   operationLock, commands, faults>>

\* What enable, disable, recover and run require of config and audit.
Readable == Replays /\ (config.by # 0 => Bound)

-----------------------------------------------------------------------------
\* Mutation: an attempt is made before its time and after suspension.
MayAttempt_always == Readable /\ config.enabled

\* Mutation: an attempt that failed is not made again.
MayAttempt_readyOnly == config.enabled /\ Readable /\ audit.state = "ready"

\* run goes on to an attempt.
MayAttempt ==
    /\ config.enabled
    /\ Readable
    /\ audit.state \notin {"disabled", "suspended"}
    /\ wait = 0

DecideRun(p) ==
    /\ pc[p] = "locked" /\ command[p] = "run"
    /\ \/ /\ MayAttempt
          /\ Proceed(p, "exporting")
          /\ UNCHANGED <<repositoryVars, repositoryLock, remoteIs, registered, configVars, audit,
                         tail, wait, prior, commands, faults>>
       \/ ~MayAttempt /\ Decline(p)

Attempted(p, result) ==
    /\ Goto(p, "recording")
    /\ outcome' = [outcome EXCEPT ![p] = result]
    /\ UNCHANGED <<command, prior>>

\* portable.Export of every promoted memory.
ExportPromoted(p) ==
    /\ pc[p] = "exporting"
    /\ \/ /\ repositoryLock = "free"
          /\ exported' = promoted
          /\ Goto(p, "syncing")
          /\ UNCHANGED <<command, prior, outcome, faults>>
       \/ /\ repositoryLock # "free"
          /\ Attempted(p, "failed")
          /\ UNCHANGED <<exported, faults>>
       \/ /\ repositoryLock = "free"         \* a write fails between two files
          /\ Fault
          /\ exported' \in exported..promoted
          /\ Attempted(p, "failed")
    /\ UNCHANGED <<promoted, committed, published, repositoryLock, remoteIs, registered,
                   configVars, auditVars, operationLock, commands>>

\* gitsync.Run up to the local commit.
CommitExported(p) ==
    /\ pc[p] = "syncing"
    /\ \/ /\ repositoryLock = "free"
          /\ repositoryLock' = "synchronization"
          /\ committed' = exported
          /\ Goto(p, "pushing")
          /\ UNCHANGED <<command, prior, outcome>>
       \/ /\ repositoryLock # "free"
          /\ Attempted(p, "failed")
          /\ UNCHANGED <<committed, repositoryLock>>
    /\ UNCHANGED <<promoted, exported, published, remoteIs, registered, configVars, auditVars,
                   operationLock, commands, faults>>

\* The rest of gitsync.Run.
PushCommitted(p) ==
    /\ pc[p] = "pushing"
    /\ repositoryLock' = "free"
    /\ \/ /\ remoteIs = "reachable"
          /\ published' = committed
          /\ Attempted(p, "succeeded")
       \/ /\ remoteIs = "offline"         \* the answer to a push may be lost
          /\ Attempted(p, "failed")
          /\ published' \in {published, committed}
       \/ /\ remoteIs = "conflicting"
          /\ Attempted(p, "conflict")
          /\ UNCHANGED published
    /\ UNCHANGED <<promoted, exported, committed, remoteIs, registered, configVars, auditVars,
                   operationLock, commands, faults>>

\* The event of an attempt.
AttemptEvent(result) ==
    IF result = "succeeded"
    THEN [config |-> config.by, state |-> "ready", errors |-> 0]
    ELSE [config |-> config.by,
          state |-> IF result = "conflict" \/ audit.errors + 1 >= MaximumConsecutiveErrors
                    THEN "suspended" ELSE "retrying",
          errors |-> audit.errors + 1]

\* The event that a command is about to append.
EventOf(p) ==
    CASE command[p] = "run"     -> AttemptEvent(outcome[p])
      [] command[p] = "recover" -> [config |-> config.by, state |-> "ready", errors |-> 0]
      [] command[p] = "enable"  -> [config |-> config.by, state |-> "ready", errors |-> 0]
      [] command[p] = "disable" -> [config |-> config.by, state |-> "disabled", errors |-> 0]

\* appendEvent writes all of a record behind the last one.
Append(p) ==
    /\ audit' = EventOf(p)
    /\ tail' = IF p \notin replayed THEN "forked" ELSE IF tail = "bare" THEN "torn" ELSE tail
    /\ replayed' = {}
    /\ wait' = IF EventOf(p).state = "retrying" THEN retryDelay(EventOf(p).errors) ELSE 0

\* appendEvent fails: nothing, a part, all but the newline or all is written.
AppendFails(p) ==
    /\ Fault
    /\ \/ replayed' = replayed \ {p} /\ UNCHANGED <<audit, tail, wait>>
       \/ replayed' = {} /\ tail' = "torn" /\ UNCHANGED <<audit, wait>>
       \/ Append(p)
       \/ /\ tail = "whole"
          /\ audit' = EventOf(p) /\ tail' = "bare" /\ replayed' = {}
          /\ wait' = IF EventOf(p).state = "retrying" THEN retryDelay(EventOf(p).errors) ELSE 0

\* run and recover append their event and return.
Record(p) ==
    /\ pc[p] = "recording"
    /\ \/ Append(p) /\ UNCHANGED faults
       \/ AppendFails(p)
    /\ Return(p)
    /\ UNCHANGED <<repositoryVars, repositoryLock, remoteIs, registered, configVars, commands>>

DecideRecover(p) ==
    /\ pc[p] = "locked" /\ command[p] = "recover"
    /\ \/ /\ config.enabled /\ Readable
          /\ audit.state \in {"retrying", "suspended"}
          /\ Proceed(p, "recording")
          /\ UNCHANGED <<repositoryVars, repositoryLock, remoteIs, registered, configVars, audit,
                         tail, wait, prior, commands, faults>>
       \/ /\ ~(config.enabled /\ Readable /\ audit.state \in {"retrying", "suspended"})
          /\ Decline(p)

-----------------------------------------------------------------------------
\* Mutation: a suspended schedule may be replaced.
EnableRefuses_notSuspended == ~Readable \/ (registered /\ ~config.enabled)

\* enable refuses: unreadable or unbound state, a schedule nobody owns, or a
\* suspended configuration.
EnableRefuses ==
    \/ ~Readable
    \/ registered /\ ~config.enabled
    \/ config.enabled /\ audit.state = "suspended"

\* enable with settings like the current ones, or with others, up to Install.
DecideEnable(p) ==
    /\ pc[p] = "locked" /\ command[p] = "enable"
    /\ \/ /\ ~EnableRefuses
          /\ registered' = TRUE
          /\ prior' = [prior EXCEPT ![p] = [config |-> config, registered |-> registered]]
          /\ Proceed(p, "configuring")
          /\ UNCHANGED <<repositoryVars, repositoryLock, remoteIs, configVars, audit, tail, wait,
                         commands, faults>>
       \/ /\ EnableRefuses \/ (Readable /\ config.enabled /\ registered
                                 /\ audit.state # "disabled")
          /\ Decline(p)
       \/ /\ ~EnableRefuses                  \* Install fails
          /\ Fault
          /\ Return(p)
          /\ UNCHANGED <<repositoryVars, repositoryLock, remoteIs, registered, configVars,
                         auditVars, commands>>

\* Mutation: disable leaves the schedule to itself.
DecideDisable_keepsSchedule(p) ==
    /\ pc[p] = "locked" /\ command[p] = "disable"
    /\ Readable
    /\ prior' = [prior EXCEPT ![p] = [config |-> config, registered |-> registered]]
    /\ Proceed(p, "configuring")
    /\ UNCHANGED <<repositoryVars, repositoryLock, remoteIs, registered, configVars, audit, tail,
                   wait, commands, faults>>

\* disable up to Remove; it also removes a schedule that nobody owns.
DecideDisable(p) ==
    LET done == config.by # 0 /\ ~config.enabled /\ ~registered /\ audit.state = "disabled"
    IN  /\ pc[p] = "locked" /\ command[p] = "disable"
        /\ \/ /\ Readable /\ ~done
              /\ registered' = FALSE
              /\ prior' = [prior EXCEPT ![p] = [config |-> config, registered |-> registered]]
              /\ Proceed(p, "configuring")
              /\ UNCHANGED <<repositoryVars, repositoryLock, remoteIs, configVars, audit, tail,
                             wait, commands, faults>>
           \/ ~Readable /\ Decline(p)
           \/ Readable /\ done /\ Decline(p)
           \/ /\ Readable /\ ~done           \* Remove fails
              /\ Fault
              /\ Return(p)
              /\ UNCHANGED <<repositoryVars, repositoryLock, remoteIs, registered, configVars,
                             auditVars, commands>>

\* The registration that a failed enable or disable leaves: that of the prior
\* config.
RestoredRegistration(p) ==
    IF command[p] = "enable" THEN prior[p].config.enabled
    ELSE prior[p].registered /\ prior[p].config.enabled

\* writeConfig replaces the file atomically or fails.
WriteConfig(p) ==
    /\ pc[p] = "configuring"
    /\ \/ /\ config' = [by |-> written + 1, enabled |-> command[p] = "enable"]
          /\ written' = written + 1
          /\ Goto(p, "binding")
          /\ UNCHANGED <<registered, operationLock, command, prior, outcome, replayed, faults>>
       \/ /\ Fault
          /\ registered' = RestoredRegistration(p)
          /\ replayed' = replayed \ {p}
          /\ Return(p)
          /\ UNCHANGED configVars
    /\ UNCHANGED <<repositoryVars, repositoryLock, remoteIs, audit, tail, wait, commands>>

\* The event that binds the config.  If it cannot be appended, config and
\* schedule are put back; disable keeps the config it created.
BindConfig(p) ==
    /\ pc[p] = "binding"
    /\ \/ Append(p) /\ UNCHANGED <<registered, config, faults>>
       \/ /\ AppendFails(p)
          /\ registered' = RestoredRegistration(p)
          /\ config' = IF command[p] = "disable" /\ prior[p].config.by = 0
                       THEN config ELSE prior[p].config
    /\ Return(p)
    /\ UNCHANGED <<repositoryVars, repositoryLock, remoteIs, written, commands>>

-----------------------------------------------------------------------------
\* A process is killed; the lock files it holds stay.
Crash(p) ==
    /\ pc[p] # "idle"
    /\ Fault
    /\ Forget(p)
    /\ replayed' = replayed \ {p}
    /\ repositoryLock' = IF pc[p] = "pushing" THEN "stale" ELSE repositoryLock
    /\ exported' \in IF pc[p] = "exporting" /\ repositoryLock = "free"
                     THEN exported..promoted ELSE {exported}
    /\ UNCHANGED <<promoted, committed, published, remoteIs, registered, configVars, audit, tail,
                   wait, operationLock, commands>>

\* sync auto recover --clear-stale-lock, with no other run active.
ClearStaleLock ==
    /\ operationLock
    /\ \A p \in Processes : pc[p] \in {"idle", "validated"}
    /\ operationLock' = FALSE
    /\ UNCHANGED <<repositoryVars, repositoryLock, remoteIs, registered, configVars, auditVars,
                   processVars, commands, faults>>

TimePasses ==
    /\ wait > 0
    /\ wait' = wait - 1
    /\ UNCHANGED <<repositoryVars, repositoryLock, remoteIs, registered, configVars, audit, tail,
                   replayed, operationLock, processVars, commands, faults>>

-----------------------------------------------------------------------------
\* A memory is promoted.
Promote ==
    /\ promoted < MaxPromoted
    /\ promoted' = promoted + 1
    /\ UNCHANGED <<exported, committed, published, repositoryLock, remoteIs, registered,
                   configVars, auditVars, operationLock, processVars, commands, faults>>

\* portable export by hand.
ExportByHand ==
    /\ repositoryLock = "free"
    /\ exported # promoted
    /\ exported' = promoted
    /\ UNCHANGED <<promoted, committed, published, repositoryLock, remoteIs, registered,
                   configVars, auditVars, operationLock, processVars, commands, faults>>

\* sync run by hand.
SyncByHand ==
    /\ repositoryLock = "free"
    /\ committed' = exported
    /\ published' = IF remoteIs = "reachable" THEN exported ELSE published
    /\ UNCHANGED <<promoted, exported, repositoryLock, remoteIs, registered, configVars,
                   auditVars, operationLock, processVars, commands, faults>>

\* A bridge holds the lock while it delivers a loadout.
Lease ==
    /\ repositoryLock' = CASE repositoryLock = "free"  -> "lease"
                           [] repositoryLock = "lease" -> "free"
                           [] OTHER -> repositoryLock
    /\ repositoryLock \in {"free", "lease"}
    /\ UNCHANGED <<repositoryVars, remoteIs, registered, configVars, auditVars, operationLock,
                   processVars, commands, faults>>

\* A stale repository.lock is removed by hand.
RemoveRepositoryLock ==
    /\ repositoryLock = "stale"
    /\ repositoryLock' = "free"
    /\ UNCHANGED <<repositoryVars, remoteIs, registered, configVars, auditVars, operationLock,
                   processVars, commands, faults>>

RemoteChanges ==
    /\ remoteIs' \in {"reachable", "offline", "conflicting"} \ {remoteIs}
    /\ UNCHANGED <<repositoryVars, repositoryLock, registered, configVars, auditVars,
                   operationLock, processVars, commands, faults>>

Step(p) ==
    \/ TakeLock(p)
    \/ Locked(p)
    \/ DecideRun(p)
    \/ ExportPromoted(p)
    \/ CommitExported(p)
    \/ PushCommitted(p)
    \/ Record(p)
    \/ DecideRecover(p)
    \/ DecideEnable(p)
    \/ DecideDisable(p)
    \/ WriteConfig(p)
    \/ BindConfig(p)

AutoNext ==
    \/ \E p \in Processes :
          \/ \E c \in {"enable", "disable", "recover", "run"} : Validate(p, c)
          \/ Step(p)
          \/ Crash(p)
    \/ ClearStaleLock
    \/ TimePasses
    \/ Promote
    \/ ExportByHand
    \/ SyncByHand
    \/ Lease
    \/ RemoveRepositoryLock
    \/ RemoteChanges

AutoSpec == AutoInit /\ [][AutoNext]_autoVars

\* The scheduler starts a run again and again, running commands go on and time
\* passes.  Nothing obliges a person to do anything.
AutoFairness ==
    /\ WF_autoVars(Validate(Scheduled, "run"))
    /\ \A p \in Processes : WF_autoVars(Step(p))
    /\ WF_autoVars(TimePasses)

AutoLiveSpec == AutoSpec /\ AutoFairness
-----------------------------------------------------------------------------
Inside == \E p \in Processes : pc[p] \notin {"idle", "validated"}

\* During the whole of an attempt automatic synchronization is enabled, not
\* suspended, past its retry time, and configured as the audit says: no enable,
\* disable or other attempt comes between the check and the push.
AttemptsStayAuthorized ==
    \A p \in Processes :
        pc[p] \in {"exporting", "syncing", "pushing"} =>
            /\ config.enabled /\ Bound
            /\ audit.state \in {"ready", "retrying"} /\ wait = 0

\* Between commands, as long as no write has failed and no process was killed,
\* config, audit and schedule agree; status can only report a working tree with
\* uncommitted memories.
AgreementBetweenCommands ==
    faults = 0 /\ ~Inside => Issues \subseteq {"repository_invalid"}

\* A suspension ends only by recover or disable: no attempt, no enable with
\* other settings and no restart resumes it.
SuspensionHolds ==
    [][audit.state = "suspended" /\ audit' # audit =>
          \E p \in Processes : command[p] \in {"recover", "disable"} /\ pc'[p] = "idle"]_autoVars

\* While it is enabled, automatic synchronization publishes what is promoted
\* again and again, or has stopped where status shows it: suspended, or with an
\* issue.
PublishesOrReports ==
    <>[]config.enabled =>
        \/ []<>(published = promoted)
        \/ <>[](audit.state = "suspended" \/ Issues # {})
=============================================================================
