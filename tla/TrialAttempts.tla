---------------------------- MODULE TrialAttempts ----------------------------
(***************************************************************************)
(* The commands that plan, execute and finalize paired trials, as several  *)
(* agentmem processes run them over one evidence ledger.  Only the sealing *)
(* of a plan holds the writer lock from its check to its append; the other *)
(* commands read the ledger, decide, and append one event at a time, so    *)
(* another process may append between any two of their steps.              *)
(*                                                                         *)
(* The adapter of the system under test runs once per execution; runs is   *)
(* the record of what really ran, which no command can see.                *)
(***************************************************************************)
EXTENDS TrialReplay

CONSTANTS
    Procs,     \* agentmem processes
    Profiles   \* bounds of an execution, one of which is chosen at the start

\* The kinds of events that commands write and a capture does not.
CommandKinds == {"plan", "contract", "retrieval", "injection", "adoption", "start", "receipt", "attempt",
                 "corpus", "generation_attempt", "generation", "truth", "promotion", "attestation",
                 "evaluation_run"}

\* A profile says which arms a process may execute and whether it may observe and
\* finalize, bounds the plans, the attempts outside plans, the records, the interrupted commands and the other events
\* of a context, and says what adapters may produce and what a retrieval may select.
ASSUME ProfileAssumption ==
    \A b \in Profiles :
        /\ DOMAIN b.may = Procs /\ b.plans \subseteq Plans
        /\ {b.records, b.aborts, b.work} \subseteq Nat
        /\ \A x \in b.events : x[1] \notin CommandKinds \cup {"verdict"}

VARIABLES
    evidence,  \* the evidence ledger
    pc,        \* where each process is
    job,       \* what it works on; held is what a command of the modules above has read
    handed,    \* the requests that finished executions handed out, each a file of the user
    runs,      \* the runs of the adapter, in their order
    aborts,    \* interrupted commands so far
    work,      \* other events so far
    bound      \* the profile of this execution

trialVars == <<evidence, pc, job, handed, runs, aborts, work, bound>>

NoJob == [request |-> Request(Arm(Unplanned, 0, "baseline")), start |-> NoEvent,
          payload |-> "none", outcome |-> "none", result |-> NoEvent, held |-> <<>>]

TrialInit ==
    /\ bound \in Profiles
    /\ evidence = bound.history
    /\ pc = [p \in Procs |-> "idle"]
    /\ job = [p \in Procs |-> NoJob]
    /\ handed = {}
    /\ runs = bound.ran
    /\ aborts = 0
    /\ work = 0

Next1 == Len(evidence) + 1
Fresh(kind) == <<kind, Next1>>
Goto(p, l) == pc' = [pc EXCEPT ![p] = l]
Return(p) == Goto(p, "idle") /\ job' = [job EXCEPT ![p] = NoJob]
Idle(p, command) == pc[p] = "idle" /\ command \in bound.may[p]

\* store.Append
Append1(event) == Len(evidence) < bound.records /\ evidence' = Append(evidence, event)

\* An event of the execution supervisor (executionSource).
Supervised(id, kind, arm, parents, payload, body) ==
    Event(id, kind, ContextOf(arm), "supervisor", parents, payload, body)

-----------------------------------------------------------------------------
(* Planning (trial_plan.go, preregister.go).                               *)

\* The plan and the contracts of its arms.
PlanBatch(plan) ==
    LET arms == ArmsOf(plan)
    IN  <<Event(PlanID(plan), "plan", <<"plan">>, "evaluation", {}, "plan", plan)>> \o
        [k \in DOMAIN arms |->
            Event(ContractID(arms[k]), "contract", ContextOf(arms[k]), "oracle", {Next1},
                  "contract", arms[k])]

\* PreregisterTrialPlan: one batch, written under the writer lock if none of its
\* ids is taken.
PreregisterTrialPlan(plan) ==
    /\ plan.cards \subseteq selectedTrialCorpusArtifacts
    /\ LET batch == PlanBatch(plan)
       IN  /\ \A k \in DOMAIN batch : ~Has(evidence, batch[k].id)
           /\ Len(evidence) + Len(batch) <= bound.records
           /\ evidence' = evidence \o batch
    /\ UNCHANGED <<pc, job, handed, runs, aborts, work, bound>>

\* PreregisterTaskAttempt outside a plan appends without looking at the ledger.
PreregisterTaskAttempt(arm) ==
    /\ work < bound.work
    /\ Append1(Event(ContractID(arm), "contract", ContextOf(arm), "oracle", {}, "contract", arm))
    /\ work' = work + 1
    /\ UNCHANGED <<pc, job, handed, runs, aborts, bound>>

-----------------------------------------------------------------------------
(* Execution (execution_supervisor.go).                                    *)

\* enforceExecutionOrder: no start of this arm, and the preceding arm has its
\* result and its receipt.
enforceExecutionOrder(e, arm) ==
    /\ StartsOf(e, arm) = {}
    /\ IsSecond(arm) => Has(e, ResultID(Before(arm))) /\ ReceiptsOf(e, Before(arm)) # {}

\* ExecutePlannedTaskAttempt up to the context: the checks, on what was read.
BeginExecution(p, arm) ==
    /\ Idle(p, arm.condition)
    /\ loadIndexedRecords(evidence)
    /\ Has(evidence, PlanID(arm.plan)) /\ Has(evidence, ContractID(arm))
    /\ enforceExecutionOrder(evidence, arm)
    /\ ~Has(evidence, ResultID(arm))
    /\ job' = [job EXCEPT ![p].request = Request(arm)]
    /\ Goto(p, IF arm.condition = "memory" THEN "retrieve" ELSE "start")
    /\ UNCHANGED <<evidence, handed, runs, aborts, work, bound>>

\* BuildContext searches and records what it found, even when nothing is
\* selected; the execution then gives up.
Retrieve(p, memory) ==
    /\ pc[p] = "retrieve"
    /\ Append1(Event(Fresh("retrieval"), "retrieval", ContextOf(job[p].request.arm), "retrieval", {},
                     "retrieval", [memory |-> memory]))
    /\ IF memory = "none" THEN Return(p)
       ELSE /\ job' = [job EXCEPT ![p].request.retrieval = Next1, ![p].request.memory = memory]
            /\ Goto(p, "inject")
    /\ UNCHANGED <<handed, runs, aborts, work, bound>>

Inject(p) ==
    /\ pc[p] = "inject"
    /\ LET r == job[p].request
       IN  Append1(Event(Fresh("injection"), "injection", ContextOf(r.arm), "retrieval", {r.retrieval},
                         "injection", [retrieval |-> r.retrieval, memory |-> r.memory]))
    /\ job' = [job EXCEPT ![p].request.injection = Next1]
    /\ Goto(p, "start")
    /\ UNCHANGED <<handed, runs, aborts, work, bound>>

\* Mutation: the start is bound to the contract only.
StartParents_contract(e, r) == {At(e, ContractID(r.arm))}

StartParents(e, r) == {At(e, ContractID(r.arm)), r.injection} \ {NoEvent}

\* The start is on record before the adapter runs.
AppendStart(p) ==
    /\ pc[p] = "start"
    /\ LET r == job[p].request
       IN  Append1(Supervised(Fresh("start"), "start", r.arm, StartParents(evidence, r),
                              "start", [arm |-> r.arm, memory |-> r.memory]))
    /\ job' = [job EXCEPT ![p].start = Next1]
    /\ Goto(p, "run")
    /\ UNCHANGED <<handed, runs, aborts, work, bound>>

\* The adapter ends with an output, or a failure of any kind is turned into one.
Run(p, payload) ==
    /\ pc[p] = "run"
    /\ runs' = Append(runs, [arm |-> job[p].request.arm, start |-> job[p].start,
                             memory |-> job[p].request.memory, payload |-> payload])
    /\ job' = [job EXCEPT ![p].payload = payload,
                          ![p].outcome = IF payload = "failure" THEN "failed" ELSE "completed"]
    /\ Goto(p, "result")
    /\ UNCHANGED <<evidence, handed, aborts, work, bound>>

\* The result has the id the contract fixed; nothing looks whether it is taken.
AppendResult(p) ==
    /\ pc[p] = "result"
    /\ LET j == job[p]
       IN  Append1(Supervised(ResultID(j.request.arm), "tool_result", j.request.arm, {j.start},
                              j.payload, j.request.arm))
    /\ job' = [job EXCEPT ![p].result = Next1]
    /\ Goto(p, "receipt")
    /\ UNCHANGED <<handed, runs, aborts, work, bound>>

AppendReceipt(p) ==
    /\ pc[p] = "receipt"
    /\ LET j == job[p]
           r == j.request
       IN  /\ Append1(Supervised(Fresh("receipt"), "receipt", r.arm, {j.start, j.result}, "receipt",
                  [arm |-> r.arm, start |-> j.start, result |-> j.result, outcome |-> j.outcome,
                   payload |-> j.payload, retrieval |-> r.retrieval, injection |-> r.injection,
                   memory |-> r.memory]))
           /\ IF r.arm.condition = "memory" THEN Goto(p, "adopt") /\ UNCHANGED <<job, handed>>
              ELSE Return(p) /\ handed' = handed \cup {r}
    /\ UNCHANGED <<runs, aborts, work, bound>>

\* RecordAdoption: the memory was delivered, its use was not observed.
Adopt(p) ==
    /\ pc[p] = "adopt"
    /\ LET r == job[p].request
       IN  /\ Append1(Event(Fresh("adoption"), "adoption", ContextOf(r.arm), "retrieval",
                  {r.retrieval, r.injection, job[p].result}, "adoption",
                  [injection |-> r.injection, adopted |-> FALSE, outcome |-> "unknown"]))
           /\ handed' = handed \cup {[r EXCEPT !.adoption = Next1]}
    /\ Return(p)
    /\ UNCHANGED <<runs, aborts, work, bound>>

\* A command is killed, or an append of it fails: what it appended stays.
Abort(p) ==
    /\ pc[p] # "idle" /\ aborts < bound.aborts
    /\ aborts' = aborts + 1
    /\ Return(p)
    /\ UNCHANGED <<evidence, handed, runs, work, bound>>

-----------------------------------------------------------------------------
(* Manual results, and what else happens in the thread of an arm.          *)

Exposures(e, arm, last, kind) ==
    {i \in At(e, ContractID(arm)) + 1..last : e[i].context = ContextOf(arm) /\ e[i].kind = kind}

\* ObserveTaskAttemptResult: a result with the same content is not written again.
Observe(p, arm, payload) ==
    LET e == evidence
        s == At(e, ContractID(arm))
        retrievals == Exposures(e, arm, Len(e), "retrieval")
        injections == Exposures(e, arm, Len(e), "injection")
    IN  /\ Idle(p, "observe")
        /\ loadIndexedRecords(e)
        /\ Has(e, ContractID(arm)) /\ ~Has(e, ResultID(arm))
        /\ arm.condition = "memory" => /\ Cardinality(retrievals) = 1
                                       /\ Cardinality(injections) = 1
                                       /\ \A i \in injections : e[i].body.retrieval \in retrievals
        /\ job' = [job EXCEPT ![p].request = Request(arm), ![p].payload = payload,
                              ![p].start = IF arm.condition = "baseline" THEN s
                                           ELSE CHOOSE i \in injections : TRUE]
        /\ Goto(p, "observe")
        /\ UNCHANGED <<evidence, handed, runs, aborts, work, bound>>

AppendObservation(p) ==
    /\ pc[p] = "observe"
    /\ LET arm == job[p].request.arm
       IN  Append1(Event(ResultID(arm), "tool_result", ContextOf(arm), "evaluation",
                         {job[p].start}, job[p].payload, arm))
    /\ Return(p)
    /\ UNCHANGED <<handed, runs, aborts, work, bound>>

\* The last event of the thread, which a captured event may name as its parent.
LastOf(context) == Max({i \in DOMAIN evidence : evidence[i].context = context} \cup {NoEvent})

\* Capture records what the agent and the user do in the thread.
Work(context, kind, payload, linked) ==
    /\ work < bound.work
    /\ Append1(Event(Fresh(kind), kind, context, "capture",
                     IF linked THEN {LastOf(context)} \ {NoEvent} ELSE {}, payload, kind))
    /\ work' = work + 1
    /\ UNCHANGED <<pc, job, handed, runs, aborts, bound>>

\* Another channel delivers memory to the thread, and its use is reported.
Deliver(context) ==
    /\ work < bound.work /\ Len(evidence) + 2 <= bound.records
    /\ evidence' = evidence \o
           <<Event(Fresh("retrieval"), "retrieval", context, "retrieval", {}, "retrieval",
                   [memory |-> "fits"]),
             Event(<<"injection", Next1 + 1>>, "injection", context, "retrieval", {Next1}, "injection",
                   [retrieval |-> Next1, memory |-> "fits"])>>
    /\ work' = work + 1
    /\ UNCHANGED <<pc, job, handed, runs, aborts, bound>>

ReportAdoption(injection, outcome) ==
    /\ work < bound.work
    /\ Append1(Event(Fresh("adoption"), "adoption", evidence[injection].context, "retrieval",
                     {evidence[injection].body.retrieval, injection}, "adoption",
                     [injection |-> injection, adopted |-> TRUE, outcome |-> outcome]))
    /\ work' = work + 1
    /\ UNCHANGED <<pc, job, handed, runs, aborts, bound>>

-----------------------------------------------------------------------------
(* Finalizing (preregister.go, attempt.go).                                *)

\* hydratePreregisteredMemoryAttempt: the bindings of an unbound request, if each
\* of them is unique.
Bindings(e, arm) ==
    LET t == At(e, ResultID(arm))
        retrievals == Exposures(e, arm, t, "retrieval")
        injections == Exposures(e, arm, t, "injection")
        last == IF Has(e, VerdictID(arm)) THEN At(e, VerdictID(arm)) - 1 ELSE Len(e)
        adoptions == {i \in t + 1..last : /\ e[i].kind = "adoption" /\ e[i].context = ContextOf(arm)
                                          /\ e[i].body.injection \in injections}
    IN  IF arm.condition = "baseline" THEN {Request(arm)}
        ELSE {[arm |-> arm, retrieval |-> x, injection |-> y, adoption |-> z, memory |-> e[y].body.memory] :
                 x \in {x \in retrievals : Cardinality(retrievals) = 1},
                 y \in {y \in injections : Cardinality(injections) = 1 /\ e[y].body.retrieval \in retrievals},
                 z \in {z \in adoptions : Cardinality(adoptions) = 1}}

\* ValidateTaskExecutionResult: the file of a finished execution is checked
\* against its receipt.
ValidateTaskExecutionResult(e, r) ==
    /\ loadIndexedRecords(e)
    /\ \E i \in ReceiptsOf(e, r.arm) : validatePopulationExecutionReceipt(e, i, r)

\* The part of FinalizeBuiltinTaskAttempt before its append.
Finalizable(e, r) ==
    LET w == Window(e, r.arm)
    IN  /\ loadIndexedRecords(e)
        /\ Has(e, ContractID(r.arm)) /\ Has(e, ResultID(r.arm))
        /\ At(e, ContractID(r.arm)) < At(e, ResultID(r.arm))
        /\ Complete(e, w)
        /\ Judgeable(e, Results(e, w), Users(e, w))
        /\ Has(e, VerdictID(r.arm)) =>
               e[At(e, VerdictID(r.arm))].body = materializeBuiltinVerdict(e, r.arm)

\* FinalizeBuiltinTaskAttempt, with the file of an execution or the bare request
\* of a contract.
Finalize(p, r) ==
    /\ Idle(p, "finalize")
    /\ Finalizable(evidence, r)
    /\ validateTaskAttemptRequest(r)
    /\ job' = [job EXCEPT ![p].request = r]
    /\ Goto(p, IF Has(evidence, VerdictID(r.arm)) THEN "record" ELSE "verdict")
    /\ UNCHANGED <<evidence, handed, runs, aborts, work, bound>>

FinalizeExecution(p) ==
    \E r \in handed :
        /\ ValidateTaskExecutionResult(evidence, r)
        /\ \A i \in ReceiptsOf(evidence, r.arm) : evidence[i].body.outcome = "completed"
        /\ Finalize(p, r)
FinalizeRequest(p) ==
    \E arm \in Preregistered(evidence) :
        /\ Has(evidence, ResultID(arm))
        /\ \E r \in Bindings(evidence, arm) : Finalize(p, r)

\* The verdict is the one computed before.
AppendVerdict(p) ==
    /\ pc[p] = "verdict"
    /\ Append1(VerdictEvent(evidence, job[p].request.arm))
    /\ Goto(p, "record")
    /\ UNCHANGED <<job, handed, runs, aborts, work, bound>>

\* RecordTaskAttempt reads the ledger again: a receipt that exists is reused,
\* an error ends the command.
Record(p) ==
    /\ pc[p] = "record"
    /\ LET r == job[p].request
       IN  IF /\ loadIndexedRecords(evidence)
              /\ ~Has(evidence, AttemptID(r))
              /\ Derivable(evidence, r)
           THEN Goto(p, "attempt") /\ UNCHANGED job
           ELSE Return(p)
    /\ UNCHANGED <<evidence, handed, runs, aborts, work, bound>>

AppendAttempt(p) ==
    /\ pc[p] = "attempt"
    /\ LET r == job[p].request
       IN  Append1(Event(AttemptID(r), "attempt", ContextOf(r.arm), "evaluation",
                         AttemptParents(evidence, r), "attempt", deriveTaskAttempt(evidence, r)))
    /\ Return(p)
    /\ UNCHANGED <<handed, runs, aborts, work, bound>>

-----------------------------------------------------------------------------
ContextsInUse == {ContextOf(arm) : arm \in Preregistered(evidence)}

TrialNext ==
    \/ \E plan \in bound.plans : PreregisterTrialPlan(plan)
    \/ \E arm \in bound.drafts : PreregisterTaskAttempt(arm)
    \/ \E context \in ContextsInUse :
           \/ \E x \in bound.events, linked \in BOOLEAN : Work(context, x[1], x[2], linked)
           \/ bound.deliver /\ Deliver(context)
    \/ \E i \in OfKind(evidence, "injection"), outcome \in bound.outcomes : ReportAdoption(i, outcome)
    \/ \E p \in Procs :
           \/ \E arm \in Arms(evidence) : BeginExecution(p, arm)
           \/ \E memory \in bound.memories : Retrieve(p, memory)
           \/ Inject(p)
           \/ AppendStart(p)
           \/ \E payload \in bound.outputs : Run(p, payload)
           \/ AppendResult(p)
           \/ AppendReceipt(p)
           \/ Adopt(p)
           \/ \E arm \in Preregistered(evidence), payload \in bound.observed : Observe(p, arm, payload)
           \/ AppendObservation(p)
           \/ FinalizeExecution(p)
           \/ FinalizeRequest(p)
           \/ AppendVerdict(p)
           \/ Record(p)
           \/ AppendAttempt(p)
           \/ Abort(p)

-----------------------------------------------------------------------------
(* What an execution may start with: records and runs as earlier commands  *)
(* left them.                                                              *)

\* A plan has cards, and the id of a contract is that of its arm.
PlansOnRecord(e) ==
    /\ \A i \in OfKind(e, "plan") : e[i].body \in Plans
    /\ \A i \in DOMAIN e : e[i].id[1] = "contract" =>
           e[i].kind = "contract" /\ e[i].id = ContractID(e[i].body)

\* A plan has no parents, and the parent of a contract is its plan.
OriginsOnRecord(e) ==
    /\ \A i \in OfKind(e, "plan") : e[i].parents = {}
    /\ \A i \in DOMAIN e : e[i].id[1] = "contract" =>
           e[i].context = ContextOf(e[i].body) /\ e[i].parents \subseteq OfKind(e, "plan")

\* A verdict after place v has the contract and the result of its arm before it and,
\* with memory, a report on an injection between the two.
Decided(e, arm, v) ==
    \E c, t \in DOMAIN e :
        /\ c < t /\ t <= v
        /\ e[c].id = ContractID(arm) /\ e[t].id = ResultID(arm)
        /\ arm.condition = "memory" => \E a \in OfKind(e, "adoption"), i \in OfKind(e, "injection") :
               /\ t < a /\ a <= v /\ e[a].body.injection = i
               /\ c < i /\ i <= t /\ e[i].context = ContextOf(arm)

\* A verdict is the one its arm gets.
VerdictsOnRecord(e) ==
    \A i \in DOMAIN e : e[i].id[1] = "verdict" =>
        /\ Decided(e, e[i].body.arm, i - 1)
        /\ loadIndexedRecords(e) => e[i] = VerdictEvent(e, e[i].body.arm)

\* A run has a start of its own, the second arm of a pair runs after the first,
\* and every receipt is of a run.
RunsOnRecord(e, rs) ==
    /\ \A k \in DOMAIN rs :
           /\ rs[k].start \in OfKind(e, "start")
           /\ e[rs[k].start].body = [arm |-> rs[k].arm, memory |-> rs[k].memory]
           /\ IsSecond(rs[k].arm) => \E l \in 1..k - 1 : rs[l].arm = Before(rs[k].arm)
    /\ \A k, l \in DOMAIN rs : rs[k].start = rs[l].start => k = l
    /\ \A i \in OfKind(e, "receipt") : \E k \in DOMAIN rs :
           rs[k] = [arm |-> e[i].body.arm, start |-> e[i].body.start, memory |-> e[i].body.memory,
                    payload |-> e[i].body.payload]

\* A report on the use of memory names an event that is there.
AdoptionsOnRecord(e) == \A a \in OfKind(e, "adoption") : e[a].body.injection \in DOMAIN e

\* Every attempt receipt replays, if the ledger can be read at all.
AttemptsReplay(e) == loadIndexedRecords(e) => \A i \in OfKind(e, "attempt") : rerunTaskAttempt(e, i)

ASSUME HistoryAssumption ==
    \A b \in Profiles :
        /\ \E n \in 0..b.records : b.history = [i \in 1..n |-> b.history[i]]
        /\ \E n \in 0..b.records : b.ran = [k \in 1..n |-> b.ran[k]]
        /\ PlansOnRecord(b.history) /\ RunsOnRecord(b.history, b.ran) /\ AttemptsReplay(b.history)
        /\ OriginsOnRecord(b.history) /\ VerdictsOnRecord(b.history) /\ AdoptionsOnRecord(b.history)

-----------------------------------------------------------------------------
(* Properties.                                                             *)

RunsOf(arm) == {k \in DOMAIN runs : runs[k].arm = arm}

\* What an eligible population measures is what really ran: the adapter ran exactly once
\* for every planned arm, with the memory the condition says, the arms of a pair
\* ran in the sealed order, and the judged result is the output of that run. No
\* interruption, overlap of two supervisors or manual result gets a second run or
\* another output counted (docs: a start cannot be discarded and retried).
OneRunPerMeasuredArm ==
    Eligible(evidence) =>
        \A arm \in Arms(evidence) :
            /\ Cardinality(RunsOf(arm)) = 1
            /\ \A k \in RunsOf(arm) :
                   /\ (runs[k].memory = "fits") = (arm.condition = "memory")
                   /\ evidence[At(evidence, ResultID(arm))].payload = runs[k].payload
                   /\ IsSecond(arm) => \A l \in RunsOf(Before(arm)) : l < k

\* An attempt receipt that was recorded verifies at every later time, whatever
\* is appended to its thread afterwards (VerifyTaskAttempt), as long as the ledger
\* can be read at all.
ReceiptsStayVerifiable == AttemptsReplay(evidence)

\* A supervised execution that nothing disturbed counts: when it completed with an
\* output the criteria allow and label, its memory fits the contract, its window holds
\* nothing else and nobody else reported on its injection, the request it handed
\* out can be finalized, before and after the verdict.
UndisturbedExecutionsCount ==
    \A r \in handed :
        LET e == evidence
            w == Window(e, r.arm)
            t == At(e, ResultID(r.arm))
        IN  ( /\ loadIndexedRecords(e)
              /\ w \subseteq {At(e, ContractID(r.arm)), r.retrieval, r.injection, t} \cup StartsOf(e, r.arm)
              /\ <<e[t].kind, e[t].payload>> \in {o[1] : o \in {o \in AllowedOrders : Len(o) = 1}}
              /\ e[t].payload \in DOMAIN ResultLabels
              /\ r.memory \in {"none", "fits"}
              /\ \A i \in OfKind(e, "adoption") : e[i].body.injection = r.injection => i = r.adoption ) =>
                /\ ValidateTaskExecutionResult(e, r) /\ Finalizable(e, r)
                /\ Derivable(IF Has(e, VerdictID(r.arm)) THEN e ELSE Append(e, VerdictEvent(e, r.arm)), r)
=============================================================================
