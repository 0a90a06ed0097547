-------------------------- MODULE AutoSync_proofs --------------------------
(***************************************************************************)
(* Proofs about AutoSync, for any operators, retry times and bounds.       *)
(***************************************************************************)
EXTENDS AutoSync, TLAPS

CommandNames == {"enable", "disable", "recover", "run"}
Attempting == {"exporting", "syncing", "pushing"}
PlacesInside == {"locked", "recording", "configuring", "binding"} \cup Attempting
Config == [by : Nat, enabled : BOOLEAN]
States == {"disabled", "ready", "retrying", "suspended"}

AutoTypes ==
    /\ registered \in BOOLEAN
    /\ config \in Config
    /\ audit \in [config : Nat, state : States, errors : Nat]
    /\ operationLock \in BOOLEAN
    /\ pc \in [Processes -> {"idle", "validated"} \cup PlacesInside]
    /\ command \in [Processes -> CommandNames \cup {"none"}]
    /\ replayed \in SUBSET Processes
    /\ prior \in [Processes -> [config : Config, registered : BOOLEAN]]
    /\ outcome \in [Processes -> {"none", "succeeded", "failed", "conflict"}]
    /\ written \in Nat
    /\ faults \in Nat

IsInside(p) == pc[p] \in PlacesInside

\* operation.lock admits one process, and is there for as long as it is inside.
OneInside ==
    /\ \A p, q \in Processes : IsInside(p) /\ IsInside(q) => p = q
    /\ \A p \in Processes : IsInside(p) => operationLock

\* Which commands reach which place.
CommandsInPlace ==
    \A p \in Processes :
        /\ pc[p] # "idle" => command[p] \in CommandNames
        /\ pc[p] \in Attempting => command[p] = "run"
        /\ pc[p] = "recording" => command[p] \in {"run", "recover"}
        /\ pc[p] \in {"configuring", "binding"} => command[p] \in {"enable", "disable"}

\* Configs are numbered as they are written: an enabled config was written, and
\* the one that is about to be bound is not the one that the audit names.
ConfigsNumbered ==
    /\ config.enabled => config.by # 0
    /\ audit.config <= written
    /\ config.by <= written
    /\ \A p \in Processes :
          /\ prior[p].config.enabled => prior[p].config.by # 0
          /\ prior[p].config.by <= written
          /\ pc[p] = "binding" => config.by # 0 /\ config.by # audit.config

\* The config and the audit allow the attempt until its event is recorded.
Authorized ==
    \A p \in Processes :
        /\ pc[p] \in Attempting => wait = 0
        /\ pc[p] \in Attempting \cup {"recording"} => config.enabled /\ Bound
        /\ pc[p] \in Attempting \cup {"recording"} /\ command[p] = "run" =>
              audit.state \in {"ready", "retrying"}

\* A suspension in force under a config is one of an enabled config.
SuspendedEnabled(c) ==
    audit.state = "suspended" /\ (c.by = 0 \/ c.by = audit.config) => c.enabled

\* enable and disable replace a config that they remember, and enable does not
\* replace a suspended one.
Replacement ==
    /\ (\A p \in Processes : pc[p] # "binding") => SuspendedEnabled(config)
    /\ \A p \in Processes :
          /\ pc[p] = "configuring" => prior[p].config = config
          /\ pc[p] = "binding" => SuspendedEnabled(prior[p].config)
          /\ pc[p] \in {"configuring", "binding"} /\ command[p] = "enable" =>
                audit.state # "suspended"

\* Config and audit agree, whatever the schedule.
ConfigMatchesAudit == Bound /\ config.enabled = (audit.state # "disabled")

\* Without a fault the audit can be replayed, the process inside has replayed
\* it, the lock is that of a process, and config, audit and schedule agree
\* except where enable or disable is changing them.
Undisturbed ==
    faults = 0 =>
        /\ tail = "whole"
        /\ operationLock => \E p \in Processes : IsInside(p)
        /\ \A p \in Processes : IsInside(p) /\ pc[p] # "locked" => p \in replayed
        /\ (\A p \in Processes : pc[p] # "binding") => ConfigMatchesAudit
        /\ (\A p \in Processes : pc[p] \notin {"configuring", "binding"}) =>
              registered = config.enabled
        /\ \A p \in Processes :
              /\ pc[p] \in {"configuring", "binding"} => registered = (command[p] = "enable")
              /\ pc[p] = "binding" => config.enabled = (command[p] = "enable")

AutoInv ==
    /\ AutoTypes
    /\ OneInside
    /\ CommandsInPlace
    /\ ConfigsNumbered
    /\ Authorized
    /\ Replacement
    /\ Undisturbed

-----------------------------------------------------------------------------
\* A command that gives up right behind the lock: whether it decides to change
\* nothing, or the scheduler refuses the change.
LEMMA LeaveUnchanged ==
    ASSUME AutoInv, NEW p \in Processes, pc[p] = "locked", Return(p),
           UNCHANGED <<registered, configVars, auditVars>>, faults' \in {faults, faults + 1}
    PROVE  AutoInv'
<1> USE DEF SuspendedEnabled, ConfigMatchesAudit, IsInside, PlacesInside, Attempting, CommandNames,
            States, Config, Bound, Replays, NoPrior, NoConfig, auditVars, processVars, configVars
<1>0. faults' \in Nat
  BY DEF AutoInv, AutoTypes
<1>1. AutoTypes'
  BY <1>0 DEF AutoInv, AutoTypes, Return, Forget, Goto
<1>2. OneInside'
  BY DEF AutoInv, AutoTypes, OneInside, Return, Forget, Goto
<1>3. CommandsInPlace'
  BY DEF AutoInv, AutoTypes, OneInside, CommandsInPlace, Return, Forget, Goto
<1>4. ConfigsNumbered'
  BY DEF AutoInv, AutoTypes, OneInside, ConfigsNumbered, Return, Forget, Goto
<1>5. Authorized'
  BY DEF AutoInv, AutoTypes, OneInside, CommandsInPlace, Authorized, Return, Forget, Goto
<1>6. Replacement'
  BY DEF AutoInv, AutoTypes, OneInside, CommandsInPlace, ConfigsNumbered, Replacement,
         Return, Forget, Goto
<1>7. Undisturbed'
  BY DEF AutoInv, AutoTypes, OneInside, CommandsInPlace, Authorized, Undisturbed, Return,
         Forget, Goto
<1> QED  BY <1>1, <1>2, <1>3, <1>4, <1>5, <1>6, <1>7 DEF AutoInv

\* A command whose decision changes neither config, audit nor schedule goes on.
LEMMA GoesOn ==
    ASSUME AutoInv, NEW p \in Processes, NEW label \in {"exporting", "recording"},
           pc[p] = "locked", Proceed(p, label),
           command[p] = "run" => label = "exporting" /\ wait = 0 /\ audit.state \in {"ready", "retrying"},
           command[p] # "run" => label = "recording" /\ command[p] = "recover",
           config.enabled, Bound,
           UNCHANGED <<registered, configVars, audit, tail, wait, prior, faults>>
    PROVE  AutoInv'
<1> USE DEF SuspendedEnabled, ConfigMatchesAudit, IsInside, PlacesInside, Attempting, CommandNames,
            States, Config, Bound, Replays, NoPrior, NoConfig, auditVars, processVars, configVars
<1>0. pc'[p] = label /\ \A q \in Processes : q # p => ~IsInside(q) /\ pc'[q] = pc[q]
  BY DEF AutoInv, AutoTypes, OneInside, Proceed, Goto
<1>1. AutoTypes'
  BY DEF AutoInv, AutoTypes, Proceed, Goto
<1>2. OneInside'
  BY DEF AutoInv, AutoTypes, OneInside, Proceed, Goto
<1>3. CommandsInPlace'
  BY DEF AutoInv, AutoTypes, OneInside, CommandsInPlace, Proceed, Goto
<1>4. ConfigsNumbered'
  BY DEF AutoInv, AutoTypes, OneInside, ConfigsNumbered, Proceed, Goto
<1>5. Authorized'
  BY DEF AutoInv, AutoTypes, OneInside, CommandsInPlace, Authorized, Proceed, Goto
<1>6. Replacement'
  BY DEF AutoInv, AutoTypes, OneInside, CommandsInPlace, ConfigsNumbered, Replacement,
         Proceed, Goto
<1>7. Undisturbed'
  <2> SUFFICES ASSUME faults = 0 PROVE Undisturbed'
    BY DEF Undisturbed
  <2>1. tail' = "whole" /\ \A q \in Processes : IsInside(q)' => q \in replayed'
    BY <1>0 DEF AutoInv, Undisturbed, Proceed
  <2>2. IsInside(p)' /\ \A q \in Processes : pc'[q] \notin {"configuring", "binding"}
    BY <1>0
  <2>3. \A q \in Processes : pc[q] \notin {"configuring", "binding"}
    BY <1>0
  <2>4. ConfigMatchesAudit' /\ registered' = config'.enabled
    BY <2>3 DEF AutoInv, Undisturbed
  <2> QED  BY <2>1, <2>2, <2>4 DEF Undisturbed
<1> QED  BY <1>1, <1>2, <1>3, <1>4, <1>5, <1>6, <1>7 DEF AutoInv

\* An attempt moves on, or ends, and leaves config, audit and schedule alone.
LEMMA AttemptMoves ==
    ASSUME AutoInv, NEW p \in Processes, NEW label \in {"syncing", "pushing", "recording"},
           pc[p] \in Attempting, pc' = [pc EXCEPT ![p] = label],
           outcome' \in [Processes -> {"none", "succeeded", "failed", "conflict"}],
           UNCHANGED <<registered, configVars, auditVars, operationLock, command, prior>>,
           faults' \in {faults, faults + 1}
    PROVE  AutoInv'
<1> USE DEF SuspendedEnabled, ConfigMatchesAudit, IsInside, PlacesInside, Attempting, CommandNames,
            States, Config, Bound, Replays, NoPrior, NoConfig, auditVars, processVars, configVars
<1>0. faults' \in Nat
  BY DEF AutoInv, AutoTypes
<1>1. AutoTypes'
  BY <1>0 DEF AutoInv, AutoTypes
<1>2. OneInside'
  BY DEF AutoInv, AutoTypes, OneInside
<1>3. CommandsInPlace'
  BY DEF AutoInv, AutoTypes, OneInside, CommandsInPlace
<1>4. ConfigsNumbered'
  BY DEF AutoInv, AutoTypes, OneInside, ConfigsNumbered
<1>5. Authorized'
  BY DEF AutoInv, AutoTypes, OneInside, CommandsInPlace, Authorized
<1>6. Replacement'
  BY DEF AutoInv, AutoTypes, OneInside, CommandsInPlace, ConfigsNumbered, Replacement
<1>7. Undisturbed'
  BY DEF AutoInv, AutoTypes, OneInside, CommandsInPlace, Authorized, Undisturbed
<1> QED  BY <1>1, <1>2, <1>3, <1>4, <1>5, <1>6, <1>7 DEF AutoInv

\* enable or disable has changed the schedule and remembers what it replaces.
LEMMA BeginsToConfigure ==
    ASSUME AutoInv, NEW p \in Processes, pc[p] = "locked", command[p] \in {"enable", "disable"},
           command[p] = "enable" => audit.state # "suspended",
           registered' = (command[p] = "enable"),
           prior' = [prior EXCEPT ![p] = [config |-> config, registered |-> registered]],
           Proceed(p, "configuring"),
           UNCHANGED <<configVars, audit, tail, wait, faults>>
    PROVE  AutoInv'
<1> USE DEF SuspendedEnabled, ConfigMatchesAudit, IsInside, PlacesInside, Attempting, CommandNames,
            States, Config, Bound, Replays, NoPrior, NoConfig, auditVars, processVars, configVars
<1>1. AutoTypes'
  BY DEF AutoInv, AutoTypes, Proceed, Goto
<1>2. OneInside'
  BY DEF AutoInv, AutoTypes, OneInside, Proceed, Goto
<1>3. CommandsInPlace'
  BY DEF AutoInv, AutoTypes, OneInside, CommandsInPlace, Proceed, Goto
<1>4. ConfigsNumbered'
  BY DEF AutoInv, AutoTypes, OneInside, ConfigsNumbered, Proceed, Goto
<1>5. Authorized'
  BY DEF AutoInv, AutoTypes, OneInside, CommandsInPlace, Authorized, Proceed, Goto
<1>6. Replacement'
  BY DEF AutoInv, AutoTypes, OneInside, CommandsInPlace, ConfigsNumbered, Replacement,
         Proceed, Goto
<1>7. Undisturbed'
  BY DEF AutoInv, AutoTypes, OneInside, CommandsInPlace, Authorized, Undisturbed,
         Proceed, Goto
<1> QED  BY <1>1, <1>2, <1>3, <1>4, <1>5, <1>6, <1>7 DEF AutoInv

\* What a failed enable or disable makes of the schedule is a yes or a no.
LEMMA RestoredType ==
    ASSUME AutoTypes, NEW p \in Processes
    PROVE  RestoredRegistration(p) \in BOOLEAN
<1>1. prior[p].config.enabled \in BOOLEAN /\ prior[p].registered \in BOOLEAN
  BY DEF AutoTypes, Config
<1> QED  BY <1>1 DEF RestoredRegistration

\* The event that a process is about to append is one of the audit, under the
\* config of the moment.
LEMMA EventType ==
    ASSUME AutoInv, NEW p \in Processes, pc[p] \in {"recording", "binding"}
    PROVE  /\ EventOf(p) \in [config : Nat, state : States, errors : Nat]
           /\ EventOf(p).config = config.by
           /\ pc[p] = "recording" => EventOf(p).state # "disabled"
           /\ pc[p] = "binding" => EventOf(p).state = (IF command[p] = "enable" THEN "ready" ELSE "disabled")
<1>1. CASE command[p] = "run"
  BY <1>1 DEF AutoInv, AutoTypes, CommandsInPlace, Config, States, EventOf, AttemptEvent
<1>2. CASE command[p] = "recover"
  BY <1>2 DEF AutoInv, AutoTypes, CommandsInPlace, Config, States, EventOf
<1>3. CASE command[p] = "enable"
  BY <1>3 DEF AutoInv, AutoTypes, CommandsInPlace, Config, States, EventOf
<1>4. CASE command[p] = "disable"
  BY <1>4 DEF AutoInv, AutoTypes, CommandsInPlace, Config, States, EventOf
<1> QED  BY <1>1, <1>2, <1>3, <1>4 DEF AutoInv, CommandsInPlace

\* However much of the event reaches the file, the audit has it or what it had;
\* only an append that succeeds, by a process that has replayed the audit, leaves
\* a whole audit a whole one without a fault.
LEMMA Appending ==
    ASSUME AutoInv, NEW p \in Processes, (Append(p) /\ UNCHANGED faults) \/ AppendFails(p)
    PROVE  /\ audit' \in {audit, EventOf(p)}
           /\ replayed' \in SUBSET Processes
           /\ faults' \in {faults, faults + 1}
           /\ faults' = 0 => /\ audit' = EventOf(p)
                             /\ tail = "whole" /\ p \in replayed => tail' = "whole"
BY DEF Append, AppendFails, Fault, AutoInv, AutoTypes

\* A repository that was never configured satisfies the inductive invariant.
LEMMA AutoInitInv == AutoInit => AutoInv
<1> SUFFICES ASSUME AutoInit PROVE AutoInv
  OBVIOUS
<1> USE DEF AutoInit, NoConfig, NoPrior, PlacesInside, Attempting, IsInside
<1>1. AutoTypes
  BY DEF AutoTypes, Config, States, CommandNames
<1>2. OneInside /\ CommandsInPlace /\ ConfigsNumbered /\ Authorized
  BY DEF OneInside, CommandsInPlace, ConfigsNumbered, Authorized
<1>3. Replacement /\ Undisturbed
  BY DEF Replacement, SuspendedEnabled, Undisturbed, ConfigMatchesAudit, Bound
<1> QED  BY <1>1, <1>2, <1>3 DEF AutoInv

\* Every step of a command, the scheduler, the clock or the operator keeps it.
LEMMA AutoNextInv ==
    ASSUME AutoInv, [AutoNext]_autoVars
    PROVE  AutoInv'
<1> USE DEF SuspendedEnabled, ConfigMatchesAudit, IsInside, PlacesInside, Attempting, CommandNames,
            States, Config, Bound, Replays, NoPrior, NoConfig, auditVars, processVars, configVars
<1>1. ASSUME NEW p \in Processes, NEW c \in CommandNames, Validate(p, c) PROVE AutoInv'
  <2>1. AutoTypes'
    BY <1>1 DEF AutoInv, AutoTypes, Validate, Goto
  <2>2. OneInside'
    BY <1>1 DEF AutoInv, AutoTypes, OneInside, Validate, Goto
  <2>3. CommandsInPlace'
    BY <1>1 DEF AutoInv, AutoTypes, OneInside, CommandsInPlace, Validate, Goto
  <2>4. ConfigsNumbered'
    BY <1>1 DEF AutoInv, AutoTypes, OneInside, ConfigsNumbered, Validate, Goto
  <2>5. Authorized'
    BY <1>1 DEF AutoInv, AutoTypes, OneInside, CommandsInPlace, Authorized, Validate, Goto
  <2>6. Replacement'
    BY <1>1 DEF AutoInv, AutoTypes, OneInside, CommandsInPlace, ConfigsNumbered,
                Replacement, Validate, Goto
  <2>7. Undisturbed'
    BY <1>1 DEF AutoInv, AutoTypes, OneInside, CommandsInPlace, Authorized, Undisturbed,
                Validate, Goto
  <2> QED  BY <2>1, <2>2, <2>3, <2>4, <2>5, <2>6, <2>7 DEF AutoInv
<1>2. ASSUME NEW p \in Processes, TakeLock(p) PROVE AutoInv'
  <2>1. AutoTypes'
    BY <1>2 DEF AutoInv, AutoTypes, TakeLock, acquireOperationLock, Goto
  <2>2. OneInside'
    BY <1>2 DEF AutoInv, AutoTypes, OneInside, TakeLock, acquireOperationLock, Goto
  <2>3. CommandsInPlace'
    BY <1>2 DEF AutoInv, AutoTypes, OneInside, CommandsInPlace, TakeLock,
                acquireOperationLock, Goto
  <2>4. ConfigsNumbered'
    BY <1>2 DEF AutoInv, AutoTypes, OneInside, ConfigsNumbered, TakeLock,
                acquireOperationLock, Goto
  <2>5. Authorized'
    BY <1>2 DEF AutoInv, AutoTypes, OneInside, CommandsInPlace, Authorized, TakeLock,
                acquireOperationLock, Goto
  <2>6. Replacement'
    BY <1>2 DEF AutoInv, AutoTypes, OneInside, CommandsInPlace, ConfigsNumbered,
                Replacement, TakeLock, acquireOperationLock, Goto
  <2>7. Undisturbed'
    BY <1>2 DEF AutoInv, AutoTypes, OneInside, CommandsInPlace, Authorized, Undisturbed,
                TakeLock, acquireOperationLock, Goto
  <2> QED  BY <2>1, <2>2, <2>3, <2>4, <2>5, <2>6, <2>7 DEF AutoInv
<1>3. ASSUME NEW p \in Processes, Locked(p) PROVE AutoInv'
  <2>1. AutoTypes'
    BY <1>3 DEF AutoInv, AutoTypes, Locked, Forget, Goto
  <2>2. OneInside'
    BY <1>3 DEF AutoInv, AutoTypes, OneInside, Locked, Forget, Goto
  <2>3. CommandsInPlace'
    BY <1>3 DEF AutoInv, AutoTypes, OneInside, CommandsInPlace, Locked, Forget, Goto
  <2>4. ConfigsNumbered'
    BY <1>3 DEF AutoInv, AutoTypes, OneInside, ConfigsNumbered, Locked, Forget, Goto
  <2>5. Authorized'
    BY <1>3 DEF AutoInv, AutoTypes, OneInside, CommandsInPlace, Authorized, Locked,
                Forget, Goto
  <2>6. Replacement'
    BY <1>3 DEF AutoInv, AutoTypes, OneInside, CommandsInPlace, ConfigsNumbered,
                Replacement, Locked, Forget, Goto
  <2>7. Undisturbed'
    BY <1>3 DEF AutoInv, AutoTypes, OneInside, CommandsInPlace, Authorized, Undisturbed,
                Locked, Forget, Goto
  <2> QED  BY <2>1, <2>2, <2>3, <2>4, <2>5, <2>6, <2>7 DEF AutoInv
<1>4. ASSUME NEW p \in Processes, DecideRun(p) PROVE AutoInv'
  <2>1. CASE MayAttempt /\ Proceed(p, "exporting")
    <3>1. config.enabled /\ Bound /\ wait = 0 /\ audit.state \in {"ready", "retrying"}
      BY <2>1 DEF MayAttempt, Readable, AutoInv, AutoTypes, ConfigsNumbered
    <3>2. UNCHANGED <<registered, configVars, audit, tail, wait, prior, faults>>
      BY <1>4, <2>1 DEF DecideRun, Decline
    <3> QED  BY <1>4, <2>1, <3>1, <3>2, GoesOn DEF DecideRun
  <2>2. CASE Decline(p)
    BY <1>4, <2>2, LeaveUnchanged DEF DecideRun, Decline
  <2> QED  BY <1>4, <2>1, <2>2 DEF DecideRun
<1>5. ASSUME NEW p \in Processes, ExportPromoted(p) PROVE AutoInv'
  <2>1. PICK label \in {"syncing", "recording"} : pc' = [pc EXCEPT ![p] = label]
    BY <1>5 DEF ExportPromoted, Attempted, Goto
  <2>2. outcome' \in [Processes -> {"none", "succeeded", "failed", "conflict"}]
    BY <1>5 DEF ExportPromoted, Attempted, AutoInv, AutoTypes
  <2>3. /\ UNCHANGED <<registered, configVars, auditVars, operationLock, command, prior>>
        /\ faults' \in {faults, faults + 1}
    BY <1>5 DEF ExportPromoted, Attempted, Fault
  <2> QED  BY <1>5, <2>1, <2>2, <2>3, AttemptMoves DEF ExportPromoted
<1>6. ASSUME NEW p \in Processes, CommitExported(p) PROVE AutoInv'
  <2>1. PICK label \in {"pushing", "recording"} : pc' = [pc EXCEPT ![p] = label]
    BY <1>6 DEF CommitExported, Attempted, Goto
  <2>2. outcome' \in [Processes -> {"none", "succeeded", "failed", "conflict"}]
    BY <1>6 DEF CommitExported, Attempted, AutoInv, AutoTypes
  <2>3. UNCHANGED <<registered, configVars, auditVars, operationLock, command, prior, faults>>
    BY <1>6 DEF CommitExported, Attempted
  <2> QED  BY <1>6, <2>1, <2>2, <2>3, AttemptMoves DEF CommitExported
<1>7. ASSUME NEW p \in Processes, PushCommitted(p) PROVE AutoInv'
  <2>1. pc' = [pc EXCEPT ![p] = "recording"]
    BY <1>7 DEF PushCommitted, Attempted, Goto
  <2>2. outcome' \in [Processes -> {"none", "succeeded", "failed", "conflict"}]
    BY <1>7 DEF PushCommitted, Attempted, AutoInv, AutoTypes
  <2>3. UNCHANGED <<registered, configVars, auditVars, operationLock, command, prior, faults>>
    BY <1>7 DEF PushCommitted, Attempted
  <2> QED  BY <1>7, <2>1, <2>2, <2>3, AttemptMoves DEF PushCommitted
<1>8. ASSUME NEW p \in Processes, Record(p) PROVE AutoInv'
  <2>1. /\ audit' \in {audit, EventOf(p)}
        /\ replayed' \in SUBSET Processes
        /\ faults' \in {faults, faults + 1}
        /\ faults' = 0 => /\ audit' = EventOf(p)
                          /\ tail = "whole" /\ p \in replayed => tail' = "whole"
    BY <1>8, Appending DEF Record
  <2>2. /\ EventOf(p) \in [config : Nat, state : States, errors : Nat]
        /\ EventOf(p).config = config.by
        /\ EventOf(p).state # "disabled"
    BY <1>8, EventType DEF Record
  <2>3. /\ config.enabled /\ Bound
        /\ \A q \in Processes : q # p => ~IsInside(q)
    BY <1>8 DEF Record, AutoInv, Authorized, OneInside
  <2>4. faults' \in Nat /\ Return(p) /\ pc[p] = "recording" /\ UNCHANGED <<registered, configVars>>
    BY <1>8, <2>1 DEF Record, AutoInv, AutoTypes
  <2>11. AutoTypes'
    BY <2>1, <2>2, <2>3, <2>4 DEF AutoInv, AutoTypes, Return, Forget, Goto
  <2>12. OneInside'
    BY <2>1, <2>2, <2>3, <2>4 DEF AutoInv, AutoTypes, OneInside, Return, Forget,
                                        Goto
  <2>13. CommandsInPlace'
    BY <2>1, <2>2, <2>3, <2>4 DEF AutoInv, AutoTypes, OneInside, CommandsInPlace,
                                        Return, Forget, Goto
  <2>14. ConfigsNumbered'
    BY <2>1, <2>2, <2>3, <2>4 DEF AutoInv, AutoTypes, OneInside, ConfigsNumbered,
                                        Return, Forget, Goto
  <2>15. Authorized'
    BY <2>1, <2>2, <2>3, <2>4 DEF AutoInv, AutoTypes, OneInside, CommandsInPlace,
                                        Authorized, Return, Forget, Goto
  <2>16. Replacement'
    BY <2>1, <2>2, <2>3, <2>4 DEF AutoInv, AutoTypes, OneInside, CommandsInPlace,
                                        ConfigsNumbered, Replacement, Return, Forget, Goto
  <2>17. Undisturbed'
    <3> SUFFICES ASSUME faults' = 0 PROVE Undisturbed'
      BY DEF Undisturbed
    <3>1. faults = 0
      BY <2>1 DEF AutoInv, AutoTypes
    <3>2. tail' = "whole"
      BY <2>1, <2>4, <3>1 DEF AutoInv, Undisturbed
    <3>3. operationLock' = FALSE /\ \A q \in Processes : ~IsInside(q)'
      BY <2>3, <2>4 DEF AutoInv, AutoTypes, Return, Forget, Goto
    <3>4. ConfigMatchesAudit'
      BY <2>1, <2>2, <2>3, <2>4
    <3>5. \A q \in Processes : pc[q] \notin {"configuring", "binding"}
      BY <2>3, <2>4
    <3>6. registered' = config'.enabled
      BY <2>4, <3>1, <3>5 DEF AutoInv, Undisturbed
    <3> QED  BY <3>2, <3>3, <3>4, <3>6 DEF Undisturbed
  <2> QED  BY <2>11, <2>12, <2>13, <2>14, <2>15, <2>16, <2>17 DEF AutoInv
<1>9. ASSUME NEW p \in Processes, DecideRecover(p) PROVE AutoInv'
  <2>1. CASE config.enabled /\ Readable /\ Proceed(p, "recording") /\ ~Decline(p)
    <3>1. Bound
      BY <2>1 DEF Readable, AutoInv, ConfigsNumbered
    <3>2. UNCHANGED <<registered, configVars, audit, tail, wait, prior, faults>>
      BY <1>9, <2>1 DEF DecideRecover
    <3> QED  BY <1>9, <2>1, <3>1, <3>2, GoesOn DEF DecideRecover
  <2>2. CASE Decline(p)
    BY <1>9, <2>2, LeaveUnchanged DEF DecideRecover, Decline
  <2> QED  BY <1>9, <2>1, <2>2 DEF DecideRecover
<1>10. ASSUME NEW p \in Processes, DecideEnable(p) PROVE AutoInv'
  <2>1. pc[p] = "locked" /\ command[p] = "enable"
    BY <1>10 DEF DecideEnable
  <2>2. CASE Return(p)
    <3>1. UNCHANGED <<registered, configVars, auditVars>> /\ faults' \in {faults, faults + 1}
      BY <1>10, <2>1, <2>2 DEF DecideEnable, Decline, Fault, Return, Forget, Proceed, Goto, AutoInv, AutoTypes
    <3> QED  BY <2>1, <2>2, <3>1, LeaveUnchanged
  <2>3. CASE ~EnableRefuses /\ Proceed(p, "configuring") /\ ~Return(p)
    <3>1. audit.state # "suspended"
      <4>1. \A q \in Processes : pc[q] # "binding"
        BY <2>1 DEF AutoInv, OneInside
      <4> QED  BY <2>3, <4>1 DEF EnableRefuses, Readable, AutoInv, Replacement
    <3>2. /\ registered' = TRUE
          /\ prior' = [prior EXCEPT ![p] = [config |-> config, registered |-> registered]]
          /\ UNCHANGED <<configVars, audit, tail, wait, faults>>
      BY <1>10, <2>3 DEF DecideEnable, Decline
    <3> QED  BY <2>1, <2>3, <3>1, <3>2, BeginsToConfigure
  <2> QED  BY <1>10, <2>2, <2>3 DEF DecideEnable, Decline
<1>11. ASSUME NEW p \in Processes, DecideDisable(p) PROVE AutoInv'
  <2>1. pc[p] = "locked" /\ command[p] = "disable"
    BY <1>11 DEF DecideDisable
  <2>2. CASE Return(p)
    <3>1. UNCHANGED <<registered, configVars, auditVars>> /\ faults' \in {faults, faults + 1}
      BY <1>11, <2>1, <2>2 DEF DecideDisable, Decline, Fault, Return, Forget, Proceed, Goto, AutoInv, AutoTypes
    <3> QED  BY <2>1, <2>2, <3>1, LeaveUnchanged
  <2>3. CASE Proceed(p, "configuring") /\ ~Return(p)
    <3>1. /\ registered' = FALSE
          /\ prior' = [prior EXCEPT ![p] = [config |-> config, registered |-> registered]]
          /\ UNCHANGED <<configVars, audit, tail, wait, faults>>
      BY <1>11, <2>3 DEF DecideDisable, Decline
    <3> QED  BY <2>1, <2>3, <3>1, BeginsToConfigure
  <2> QED  BY <1>11, <2>2, <2>3 DEF DecideDisable, Decline
<1>12. ASSUME NEW p \in Processes, WriteConfig(p) PROVE AutoInv'
  <2>1. command[p] \in {"enable", "disable"} /\ \A q \in Processes : q # p => ~IsInside(q)
    BY <1>12 DEF WriteConfig, AutoInv, CommandsInPlace, OneInside
  <2>0. pc[p] = "configuring" /\ UNCHANGED <<audit, tail, wait>>
    BY <1>12 DEF WriteConfig
  <2>2. CASE /\ config' = [by |-> written + 1, enabled |-> command[p] = "enable"]
             /\ written' = written + 1
             /\ Goto(p, "binding")
             /\ UNCHANGED <<registered, operationLock, command, prior, outcome, replayed, faults>>
    <3>1. AutoTypes'
      BY <2>1, <2>2, <2>0 DEF AutoInv, AutoTypes, Goto
    <3>2. OneInside'
      BY <2>1, <2>2, <2>0 DEF AutoInv, AutoTypes, OneInside, Goto
    <3>3. CommandsInPlace'
      BY <2>1, <2>2, <2>0 DEF AutoInv, AutoTypes, OneInside, CommandsInPlace, Goto
    <3>4. ConfigsNumbered'
      BY <2>1, <2>2, <2>0 DEF AutoInv, AutoTypes, OneInside, ConfigsNumbered, Goto
    <3>5. Authorized'
      BY <2>1, <2>2, <2>0 DEF AutoInv, AutoTypes, OneInside, CommandsInPlace, Authorized,
                              Goto
    <3>6. Replacement'
      BY <2>1, <2>2, <2>0 DEF AutoInv, AutoTypes, OneInside, CommandsInPlace,
                              ConfigsNumbered, Replacement, Goto
    <3>7. Undisturbed'
      BY <2>1, <2>2, <2>0 DEF AutoInv, AutoTypes, OneInside, CommandsInPlace, Authorized,
                              Undisturbed, Goto
    <3> QED  BY <3>1, <3>2, <3>3, <3>4, <3>5, <3>6, <3>7 DEF AutoInv
  <2>3. CASE /\ faults' = faults + 1
             /\ registered' = RestoredRegistration(p)
             /\ replayed' = replayed \ {p}
             /\ Return(p)
             /\ UNCHANGED configVars
    <3>0. registered' \in BOOLEAN /\ replayed' \in SUBSET Processes /\ faults' \in Nat
      BY <2>3, RestoredType DEF AutoInv, AutoTypes
    <3>1. AutoTypes'
      <4> HIDE DEF States, PlacesInside, CommandNames
      <4> QED  BY <2>3, <2>0, <3>0 DEF AutoInv, AutoTypes, Return, Forget, Goto, PlacesInside
    <3>2. OneInside'
      BY <2>1, <2>3, <2>0 DEF AutoInv, AutoTypes, OneInside, Return, Forget, Goto,
                              RestoredRegistration
    <3>3. CommandsInPlace'
      BY <2>1, <2>3, <2>0 DEF AutoInv, AutoTypes, OneInside, CommandsInPlace, Return,
                              Forget, Goto, RestoredRegistration
    <3>4. ConfigsNumbered'
      BY <2>1, <2>3, <2>0 DEF AutoInv, AutoTypes, OneInside, ConfigsNumbered, Return,
                              Forget, Goto, RestoredRegistration
    <3>5. Authorized'
      BY <2>1, <2>3, <2>0 DEF AutoInv, AutoTypes, OneInside, CommandsInPlace, Authorized,
                              Return, Forget, Goto, RestoredRegistration
    <3>6. Replacement'
      BY <2>1, <2>3, <2>0 DEF AutoInv, AutoTypes, OneInside, CommandsInPlace,
                              ConfigsNumbered, Replacement, Return, Forget, Goto,
                              RestoredRegistration
    <3>7. Undisturbed'
      BY <2>1, <2>3, <2>0 DEF AutoInv, AutoTypes, OneInside, CommandsInPlace, Authorized,
                              Undisturbed, Return, Forget, Goto, RestoredRegistration
    <3> QED  BY <3>1, <3>2, <3>3, <3>4, <3>5, <3>6, <3>7 DEF AutoInv
  <2> QED  BY <1>12, <2>2, <2>3 DEF WriteConfig, Fault
<1>13. ASSUME NEW p \in Processes, BindConfig(p) PROVE AutoInv'
  <2>1. /\ audit' \in {audit, EventOf(p)}
        /\ replayed' \in SUBSET Processes
        /\ faults' \in {faults, faults + 1}
        /\ faults' = 0 => /\ audit' = EventOf(p)
                          /\ tail = "whole" /\ p \in replayed => tail' = "whole"
    BY <1>13, Appending DEF BindConfig
  <2>2. /\ EventOf(p) \in [config : Nat, state : States, errors : Nat]
        /\ EventOf(p).config = config.by
        /\ EventOf(p).state = (IF command[p] = "enable" THEN "ready" ELSE "disabled")
    BY <1>13, EventType DEF BindConfig
  <2>3. command[p] \in {"enable", "disable"} /\ \A q \in Processes : q # p => ~IsInside(q)
    BY <1>13 DEF BindConfig, AutoInv, CommandsInPlace, OneInside
  <2>4. \/ Append(p) /\ UNCHANGED <<registered, config, faults>>
        \/ /\ faults' = faults + 1
           /\ registered' = RestoredRegistration(p)
           /\ config' = IF command[p] = "disable" /\ prior[p].config.by = 0
                        THEN config ELSE prior[p].config
    BY <1>13 DEF BindConfig, AppendFails, Fault
  <2>5. pc[p] = "binding" /\ Return(p) /\ UNCHANGED written /\ faults' \in Nat
    BY <1>13, <2>1 DEF BindConfig, AutoInv, AutoTypes
  <2>6. Append(p) => audit' = EventOf(p)
    BY DEF Append
  <2>7. registered' \in BOOLEAN /\ config' \in Config
    BY <2>4, RestoredType DEF AutoInv, AutoTypes
  <2>11. AutoTypes'
    BY <2>1, <2>2, <2>5, <2>7 DEF AutoInv, AutoTypes, Return, Forget, Goto
  <2>12. OneInside'
    BY <2>1, <2>2, <2>3, <2>4, <2>5, <2>6 DEF AutoInv, AutoTypes, OneInside,
                                                     Return, Forget, Goto,
                                                     RestoredRegistration
  <2>13. CommandsInPlace'
    BY <2>1, <2>2, <2>3, <2>4, <2>5, <2>6 DEF AutoInv, AutoTypes, OneInside,
                                                     CommandsInPlace, Return, Forget,
                                                     Goto, RestoredRegistration
  <2>14. ConfigsNumbered'
    BY <2>1, <2>2, <2>3, <2>4, <2>5, <2>6 DEF AutoInv, AutoTypes, OneInside,
                                                     ConfigsNumbered, Return, Forget,
                                                     Goto, RestoredRegistration
  <2>15. Authorized'
    BY <2>1, <2>2, <2>3, <2>4, <2>5, <2>6 DEF AutoInv, AutoTypes, OneInside,
                                                     CommandsInPlace, Authorized, Return,
                                                     Forget, Goto, RestoredRegistration
  <2>16. Replacement'
    BY <2>1, <2>2, <2>3, <2>4, <2>5, <2>6 DEF AutoInv, AutoTypes, OneInside,
                                                     CommandsInPlace, ConfigsNumbered,
                                                     Replacement, Return, Forget, Goto,
                                                     RestoredRegistration
  <2>17. Undisturbed'
    BY <2>1, <2>2, <2>3, <2>4, <2>5, <2>6 DEF AutoInv, AutoTypes, OneInside,
                                                     CommandsInPlace, Authorized,
                                                     Undisturbed, Return, Forget, Goto,
                                                     RestoredRegistration
  <2> QED  BY <2>11, <2>12, <2>13, <2>14, <2>15, <2>16, <2>17 DEF AutoInv
<1>14. ASSUME NEW p \in Processes, Crash(p) PROVE AutoInv'
  <2>1. AutoTypes'
    BY <1>14 DEF AutoInv, AutoTypes, Crash, Forget, Goto, Fault
  <2>2. OneInside'
    BY <1>14 DEF AutoInv, AutoTypes, OneInside, Crash, Forget, Goto, Fault
  <2>3. CommandsInPlace'
    BY <1>14 DEF AutoInv, AutoTypes, OneInside, CommandsInPlace, Crash, Forget, Goto,
                 Fault
  <2>4. ConfigsNumbered'
    BY <1>14 DEF AutoInv, AutoTypes, OneInside, ConfigsNumbered, Crash, Forget, Goto,
                 Fault
  <2>5. Authorized'
    BY <1>14 DEF AutoInv, AutoTypes, OneInside, CommandsInPlace, Authorized, Crash,
                 Forget, Goto, Fault
  <2>6. Replacement'
    BY <1>14 DEF AutoInv, AutoTypes, OneInside, CommandsInPlace, ConfigsNumbered,
                 Replacement, Crash, Forget, Goto, Fault
  <2>7. Undisturbed'
    BY <1>14 DEF AutoInv, AutoTypes, OneInside, CommandsInPlace, Authorized, Undisturbed,
                 Crash, Forget, Goto, Fault
  <2> QED  BY <2>1, <2>2, <2>3, <2>4, <2>5, <2>6, <2>7 DEF AutoInv
<1>15. CASE ClearStaleLock
  <2>1. AutoTypes'
    BY <1>15 DEF AutoInv, AutoTypes, ClearStaleLock
  <2>2. OneInside'
    BY <1>15 DEF AutoInv, AutoTypes, OneInside, ClearStaleLock
  <2>3. CommandsInPlace'
    BY <1>15 DEF AutoInv, AutoTypes, OneInside, CommandsInPlace, ClearStaleLock
  <2>4. ConfigsNumbered'
    BY <1>15 DEF AutoInv, AutoTypes, OneInside, ConfigsNumbered, ClearStaleLock
  <2>5. Authorized'
    BY <1>15 DEF AutoInv, AutoTypes, OneInside, CommandsInPlace, Authorized,
                 ClearStaleLock
  <2>6. Replacement'
    BY <1>15 DEF AutoInv, AutoTypes, OneInside, CommandsInPlace, ConfigsNumbered,
                 Replacement, ClearStaleLock
  <2>7. Undisturbed'
    BY <1>15 DEF AutoInv, AutoTypes, OneInside, CommandsInPlace, Authorized, Undisturbed,
                 ClearStaleLock
  <2> QED  BY <2>1, <2>2, <2>3, <2>4, <2>5, <2>6, <2>7 DEF AutoInv
<1>16. CASE TimePasses
  <2>1. AutoTypes'
    BY <1>16 DEF AutoInv, AutoTypes, TimePasses
  <2>2. OneInside'
    BY <1>16 DEF AutoInv, AutoTypes, OneInside, TimePasses
  <2>3. CommandsInPlace'
    BY <1>16 DEF AutoInv, AutoTypes, OneInside, CommandsInPlace, TimePasses
  <2>4. ConfigsNumbered'
    BY <1>16 DEF AutoInv, AutoTypes, OneInside, ConfigsNumbered, TimePasses
  <2>5. Authorized'
    BY <1>16 DEF AutoInv, AutoTypes, OneInside, CommandsInPlace, Authorized, TimePasses
  <2>6. Replacement'
    BY <1>16 DEF AutoInv, AutoTypes, OneInside, CommandsInPlace, ConfigsNumbered,
                 Replacement, TimePasses
  <2>7. Undisturbed'
    BY <1>16 DEF AutoInv, AutoTypes, OneInside, CommandsInPlace, Authorized, Undisturbed,
                 TimePasses
  <2> QED  BY <2>1, <2>2, <2>3, <2>4, <2>5, <2>6, <2>7 DEF AutoInv
<1>17. CASE Promote \/ ExportByHand \/ SyncByHand \/ Lease \/ RemoveRepositoryLock \/ RemoteChanges
             \/ UNCHANGED autoVars
  <2>1. UNCHANGED <<registered, configVars, auditVars, operationLock, processVars, faults>>
    BY <1>17 DEF Promote, ExportByHand, SyncByHand, Lease, RemoveRepositoryLock, RemoteChanges,
                 autoVars
  <2>11. AutoTypes'
    BY <2>1 DEF AutoInv, AutoTypes
  <2>12. OneInside'
    BY <2>1 DEF AutoInv, AutoTypes, OneInside
  <2>13. CommandsInPlace'
    BY <2>1 DEF AutoInv, AutoTypes, OneInside, CommandsInPlace
  <2>14. ConfigsNumbered'
    BY <2>1 DEF AutoInv, AutoTypes, OneInside, ConfigsNumbered
  <2>15. Authorized'
    BY <2>1 DEF AutoInv, AutoTypes, OneInside, CommandsInPlace, Authorized
  <2>16. Replacement'
    BY <2>1 DEF AutoInv, AutoTypes, OneInside, CommandsInPlace, ConfigsNumbered,
                       Replacement
  <2>17. Undisturbed'
    BY <2>1 DEF AutoInv, AutoTypes, OneInside, CommandsInPlace, Authorized,
                       Undisturbed
  <2> QED  BY <2>11, <2>12, <2>13, <2>14, <2>15, <2>16, <2>17 DEF AutoInv
<1> QED  BY <1>1, <1>2, <1>3, <1>4, <1>5, <1>6, <1>7, <1>8, <1>9, <1>10, <1>11, <1>12, <1>13,
            <1>14, <1>15, <1>16, <1>17 DEF AutoNext, Step

-----------------------------------------------------------------------------
\* From the lock to the push, an attempt stays enabled, bound, not suspended and
\* past its retry time: no other command gets between the check and the push.
THEOREM AutoAttemptsAuthorized == AutoSpec => []AttemptsStayAuthorized
<1>1. AutoInit => AutoInv
  BY AutoInitInv
<1>2. AutoInv /\ [AutoNext]_autoVars => AutoInv'
  BY AutoNextInv
<1>3. AutoInv => AttemptsStayAuthorized
  BY DEF AutoInv, Authorized, CommandsInPlace, Attempting, AttemptsStayAuthorized
<1> QED  BY <1>1, <1>2, <1>3, PTL DEF AutoSpec

\* Without a fault, status can report nothing between commands but a working tree
\* with uncommitted memories.
THEOREM AutoAgreement == AutoSpec => []AgreementBetweenCommands
<1>1. AutoInit => AutoInv
  BY AutoInitInv
<1>2. AutoInv /\ [AutoNext]_autoVars => AutoInv'
  BY AutoNextInv
<1>3. ASSUME AutoInv, faults = 0, ~Inside PROVE Issues \subseteq {"repository_invalid"}
  <2>1. \A p \in Processes : ~IsInside(p) /\ pc[p] \notin {"configuring", "binding"}
    BY <1>3 DEF Inside, IsInside, PlacesInside, Attempting
  <2>2. Replays /\ ~operationLock
    BY <1>3, <2>1 DEF AutoInv, AutoTypes, Undisturbed, Replays
  <2>3. Bound /\ registered = config.enabled /\ config.enabled = (audit.state # "disabled")
    BY <1>3, <2>1 DEF AutoInv, Undisturbed, ConfigMatchesAudit
  <2> QED  BY <1>3, <2>2, <2>3 DEF Issues, Bound, AutoInv, AutoTypes, Config
<1>4. AutoInv => AgreementBetweenCommands
  BY <1>3 DEF AgreementBetweenCommands
<1> QED  BY <1>1, <1>2, <1>4, PTL DEF AutoSpec

\* A suspension ends by recover or disable alone, also when an enable with other
\* settings, a failed append or a crash comes in between.
THEOREM AutoSuspensionHolds == AutoSpec => SuspensionHolds
<1>1. AutoInit => AutoInv
  BY AutoInitInv
<1>2. AutoInv /\ [AutoNext]_autoVars => AutoInv'
  BY AutoNextInv
<1>3. ASSUME AutoInv, [AutoNext]_autoVars
      PROVE  [audit.state = "suspended" /\ audit' # audit =>
                 \E p \in Processes : command[p] \in {"recover", "disable"} /\ pc'[p] = "idle"]_autoVars
  <2> SUFFICES ASSUME AutoNext, audit.state = "suspended", audit' # audit
               PROVE  \E p \in Processes : command[p] \in {"recover", "disable"} /\ pc'[p] = "idle"
    BY <1>3
  <2>1. PICK p \in Processes : Record(p) \/ BindConfig(p)
    BY <1>3 DEF AutoNext, Step, Validate, TakeLock, Locked, DecideRun, ExportPromoted, CommitExported,
                PushCommitted, DecideRecover, DecideEnable, DecideDisable, WriteConfig, Crash,
                ClearStaleLock, TimePasses, Promote, ExportByHand, SyncByHand, Lease,
                RemoveRepositoryLock, RemoteChanges, Decline, auditVars
  <2>2. pc'[p] = "idle"
    BY <1>3, <2>1 DEF Record, BindConfig, Return, Forget, Goto, AutoInv, AutoTypes
  <2>3. CASE Record(p)
    <3>1. command[p] \in {"run", "recover"}
      BY <1>3, <2>3 DEF Record, AutoInv, CommandsInPlace
    <3>2. command[p] # "run"
      BY <1>3, <2>3 DEF Record, AutoInv, Authorized
    <3> QED  BY <2>2, <3>1, <3>2
  <2>4. CASE BindConfig(p)
    <3>1. command[p] \in {"enable", "disable"}
      BY <1>3, <2>4 DEF BindConfig, AutoInv, CommandsInPlace
    <3>2. command[p] # "enable"
      BY <1>3, <2>4 DEF BindConfig, AutoInv, Replacement
    <3> QED  BY <2>2, <3>1, <3>2
  <2> QED  BY <2>1, <2>3, <2>4
<1> QED  BY <1>1, <1>2, <1>3, PTL DEF AutoSpec, SuspensionHolds
=============================================================================
