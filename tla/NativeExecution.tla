--------------------------- MODULE NativeExecution ---------------------------
(***************************************************************************)
(* What the native agent bridge (internal/agentbridge) records of one run  *)
(* of Codex and what its verification accepts.  The evidence ledger is a   *)
(* sequence of records; the position of a record stands for its event id   *)
(* and its record hash, and 0 for "no event".  Blobs, measurements and     *)
(* digests are left out: they replay from the same bytes.                  *)
(***************************************************************************)
EXTENDS Integers, Sequences, FiniteSetsExt, SequencesExt

NoEvent == 0

Positions(e, kind) == {i \in DOMAIN e : e[i].kind = kind}

-----------------------------------------------------------------------------
(* The process.  A run that ends without an exit status (it could not be   *)
(* started, or was not started) has the status NotAnExit.                  *)

NotAnExit == -1

Occurrences(stream, items) == Cardinality({i \in DOMAIN stream : stream[i] \in items})

Messages == {"right", "wrong"}

\* parseExecutionJSONL: one thread, one completed turn and at least one agent
\* message; a line that is not an event, or a reported failure, ends the parse.
parseExecutionJSONL(stream) ==
    /\ Occurrences(stream, {"garbled", "turn.failed"}) = 0
    /\ Occurrences(stream, {"thread.started"}) = 1
    /\ Occurrences(stream, {"turn.completed"}) = 1
    /\ Occurrences(stream, Messages) > 0

\* The last agent message of a stream that parses.
AgentMessage(stream) ==
    IF parseExecutionJSONL(stream)
    THEN stream[Max({i \in DOMAIN stream : stream[i] \in Messages})]
    ELSE "none"

\* commandExitCode
commandExitCode(status, expired) ==
    CASE expired                          -> 124
      [] ~expired /\ status = NotAnExit   -> 126
      [] OTHER                            -> status

\* The switch of Run that names the failure of an attempt a: the staged
\* executable before the run, the second workspace preflight, the deadline as it
\* is when the switch reads it, the exit, the stream; a staged executable that
\* changed in the meantime overrides all of them.
failureKind(a) ==
    LET applies == << <<"executable_changed", ~a.stagedBefore \/ ~a.stagedAfter>>,
                      <<"workspace_changed", ~a.sealed>>,
                      <<"timeout", a.expiredLater>>,
                      <<"process_exit", a.status # 0>>,
                      <<"invalid_jsonl", ~parseExecutionJSONL(a.stream)>>,
                      <<"", TRUE>> >>
    IN  applies[Min({i \in DOMAIN applies : applies[i][2]})][1]

Context(loadout, task) == [kind |-> "context", loadout |-> loadout, task |-> task]

\* executionParentIDs: the trial, if the run is bound to one, and the context.
executionParentIDs(trial, context) == {trial, context} \ {NoEvent}

\* The start Run appends before it starts the process.
Start(trial, task, context) ==
    [kind |-> "start", task |-> task, context |-> context,
     parents |-> executionParentIDs(trial, context)]

\* The receipt Run appends for an attempt.  The deadline is read once for the
\* exit code and again for the failure kind.
Receipt(start, task, a) ==
    [kind |-> "receipt", start |-> start, task |-> task,
     exit |-> commandExitCode(a.status, a.expired),
     failure |-> failureKind(a),
     outcome |-> IF failureKind(a) = "" THEN "completed" ELSE "failed",
     stream |-> a.stream, message |-> AgentMessage(a.stream), parents |-> {start}]

-----------------------------------------------------------------------------
(* Verification.                                                           *)

\* What validateExecution requires of the exit code of each outcome.
ExitFits(r) ==
    CASE r.outcome = "completed" ->
            r.exit = 0 /\ r.failure = "" /\ parseExecutionJSONL(r.stream)
      [] r.failure = "timeout"                              -> r.exit = 124
      [] r.failure \in {"process_exit", "workspace_changed"} -> r.exit \notin {0, 124}
      [] r.failure = "invalid_jsonl" -> r.exit = 0 /\ ~parseExecutionJSONL(r.stream)
      [] OTHER                       -> r.failure = "executable_changed"

\* The context a start was rendered from is an earlier receipt for its task.
ContextFits(e, s) ==
    e[s].context # NoEvent =>
        /\ e[s].context \in Positions(e, "context")
        /\ e[e[s].context].task = e[s].task

validReceiptEvent(r) == r.parents = {r.start}

validateExecution(e, i) ==
    /\ e[i].start \in Positions(e, "start")
    /\ e[i].start < i
    /\ e[i].task = e[e[i].start].task
    /\ validReceiptEvent(e[i])
    /\ ContextFits(e, e[i].start)
    /\ e[i].message = AgentMessage(e[i].stream)
    /\ ExitFits(e[i])

\* BuildVerifiedIndex reports no issue: every receipt replays, and every start
\* has one.
ExecutionsVerify(e) ==
    /\ \A i \in Positions(e, "receipt") : validateExecution(e, i)
    /\ \A s \in Positions(e, "start") :
           \E i \in Positions(e, "receipt") : e[i].start = s

\* The executions a consumer of the index sees: none when there is an issue.
VerifiedExecutions(e) == IF ExecutionsVerify(e) THEN Positions(e, "receipt") ELSE {}
VerifiedContexts(e) == IF ExecutionsVerify(e) THEN Positions(e, "context") ELSE {}
=============================================================================
