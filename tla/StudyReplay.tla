----------------------------- MODULE StudyReplay -----------------------------
(***************************************************************************)
(* What the prospective studies (internal/study) read back from the        *)
(* evidence ledger: every command replays all studies first and refuses to *)
(* work when the replay has an issue.  A study is identified by its draft, *)
(* its creation time and the loadout it seals; the loadout is the version  *)
(* of the promoted memory heads it pins.                                   *)
(***************************************************************************)
EXTENDS NativeExecution

CONSTANTS
    Drafts,         \* study drafts
    TasksOf,        \* the task ids of a draft, in their order
    SeedOf,         \* the last hexadecimal digit of its assignment seed
    MinimumTasks,   \* the least number of tasks of a study (4 in validatePlan)
    MinimumPerArm,  \* the least number of observations per arm (2 in BuildReport)
    MinimumElapsed  \* minimum_elapsed_days

ASSUME DraftAssumption ==
    /\ MinimumTasks \in Nat \ {0}
    /\ \A d \in Drafts : TasksOf[d] \in Seq(ToSet(TasksOf[d])) /\ SeedOf[d] \in Nat

-----------------------------------------------------------------------------
(* Plans (codec.go).                                                       *)

Conditions == {"baseline", "memory"}

\* validateDraft: an even number of tasks with distinct ids.
validateDraft(d) ==
    /\ Len(TasksOf[d]) >= MinimumTasks
    /\ Len(TasksOf[d]) % 2 = 0
    /\ IsInjective(TasksOf[d])

\* buildPlan: tasks in order, alternately baseline and memory from an offset
\* the seed gives (indices start at 0 in the source); the snapshot of the directory is
\* sealed with them.
buildPlan(d, loadout, workspace, at) ==
    [kind |-> "plan", draft |-> d, loadout |-> loadout, workspace |-> workspace, at |-> at,
     tasks |-> {TasksOf[d][i] : i \in DOMAIN TasksOf[d]},
     condition |-> [t \in {TasksOf[d][i] : i \in DOMAIN TasksOf[d]} |->
         LET i == CHOOSE i \in DOMAIN TasksOf[d] : TasksOf[d][i] = t
         IN  IF (i - 1 + SeedOf[d]) % 2 = 1 THEN "memory" ELSE "baseline"]]

Arm(p, c) == {t \in p.tasks : p.condition[t] = c}

\* validatePlan: the assignment is the one the seed gives, and balanced.
validatePlan(p) ==
    /\ validateDraft(p.draft)
    /\ p = buildPlan(p.draft, p.loadout, p.workspace, p.at)
    /\ Cardinality(Arm(p, "baseline")) = Cardinality(Arm(p, "memory"))

-----------------------------------------------------------------------------
(* The events a study appends.                                             *)

\* trialReservationEvent; the request names the context it was built from.
Trial(plan, task, condition, context) ==
    [kind |-> "trial", plan |-> plan, task |-> task, condition |-> condition,
     context |-> context, parents |-> {plan, context} \ {NoEvent}]

\* trialTerminalEvent
Terminal(trial, execution, outcome, failure) ==
    [kind |-> "terminal", trial |-> trial, execution |-> execution,
     outcome |-> outcome, failure |-> failure,
     parents |-> {trial, execution} \ {NoEvent}]

\* evaluateOutcome: the assertions compare the digest of the last agent message.
evaluateOutcome(e, execution) ==
    IF e[execution].message = "right" THEN "success" ELSE "failure"

Outcome(e, plan, task, execution) ==
    [kind |-> "outcome", plan |-> plan, task |-> task, execution |-> execution,
     outcome |-> evaluateOutcome(e, execution), parents |-> {plan, execution}]

\* observationEvent
Observation(e, plan, task, outcome, reporter, at) ==
    [kind |-> "observation", reporter |-> reporter, plan |-> plan, task |-> task,
     condition |-> e[plan].condition[task], execution |-> e[outcome].execution,
     evidence |-> outcome, outcome |-> e[outcome].outcome, at |-> at,
     parents |-> {plan, e[outcome].execution, outcome}]

External(study, content) == [kind |-> "external", study |-> study, content |-> content]

-----------------------------------------------------------------------------
(* The replay (replay.go, trial_replay.go).                                *)

\* The keys under which the replay keeps one record of a kind each.
Of(e, kind, plan, task) ==
    {i \in Positions(e, kind) : e[i].plan = plan /\ e[i].task = task}
TrialsOf(e, plan, task) == Of(e, "trial", plan, task)
TerminalsOf(e, trial) == {i \in Positions(e, "terminal") : e[i].trial = trial}
OutcomesOf(e, plan, task) == Of(e, "outcome", plan, task)
ObservationsOf(e, plan, task) == Of(e, "observation", plan, task)

AtMostOne(S) == \A x, y \in S : x = y

\* replayWithDependencies: no duplicate under any key, and no task of two plans.
NoDuplicates(e) ==
    /\ \A p, q \in Positions(e, "plan") :
           p # q => e[p] # e[q] /\ e[p].tasks \cap e[q].tasks = {}
    /\ \A i, j \in Positions(e, "trial") \cup Positions(e, "outcome")
                       \cup Positions(e, "observation") :
           i # j => <<e[i].kind, e[i].plan, e[i].task>> # <<e[j].kind, e[j].plan, e[j].task>>
    /\ \A i, j \in Positions(e, "terminal") : i # j => e[i].trial # e[j].trial

\* validateTrialReservation and validateTrialReservationRecord
validateTrialReservation(t) ==
    /\ t.condition \in Conditions
    /\ t.parents = {t.plan, t.context} \ {NoEvent}

\* validateTrialTerminal and validateTrialTerminalRecord
validateTrialTerminal(t) ==
    /\ t.outcome \in {"completed", "failed"}
    /\ t.outcome = "completed" => t.execution # NoEvent /\ t.failure = ""
    /\ t.outcome = "failed" => t.failure # ""
    /\ t.parents = {t.trial, t.execution} \ {NoEvent}

\* validateObservation and validateObservationRecord
validateObservation(o) ==
    /\ o.condition \in Conditions
    /\ o.outcome \in {"success", "failure"}
    /\ o.parents = {o.plan, o.execution, o.evidence}

\* The start of a bound execution lies between its reservation and its receipt.
RunsFor(e, trial, receipt) ==
    LET s == e[receipt].start
    IN  /\ trial < s /\ s < receipt
        /\ trial \in e[s].parents
        /\ e[s].task = e[trial].task
        /\ e[s].context = e[trial].context

\* The part of validateTrialLinks about the plan, the request and the context.
TrialBound(e, t) ==
    LET p == e[t].plan
        c == e[t].context
    IN  /\ p \in Positions(e, "plan") /\ p < t
        /\ e[t].task \in e[p].tasks
        /\ e[t].condition = e[p].condition[e[t].task]
        /\ e[t].condition = "baseline" => c = NoEvent
        /\ e[t].condition = "memory" =>
               /\ c \in VerifiedContexts(e)
               /\ e[c].loadout = e[p].loadout
               /\ e[c].task = e[t].task

\* The part of validateTrialLinks about the terminal and its execution.
TrialEnded(e, t) ==
    \E n \in TerminalsOf(e, t) :
        /\ t < n
        /\ e[n].execution = NoEvent => e[n].outcome = "failed"
        /\ e[n].execution # NoEvent =>
               /\ e[n].execution \in VerifiedExecutions(e)
               /\ e[n].execution < n
               /\ RunsFor(e, t, e[n].execution)
               /\ e[n].outcome = e[e[n].execution].outcome

validateTrialLinks(e) ==
    /\ \A t \in Positions(e, "trial") : TrialBound(e, t) /\ TrialEnded(e, t)
    /\ \A n \in Positions(e, "terminal") : e[n].trial \in Positions(e, "trial")

\* executionEligibility: the receipt is the completed terminal result of the one
\* reservation of the task, no other task was observed through it, and the agent
\* got the sealed loadout or, in the baseline arm, no memory.
executionEligibility(e, plan, task, receipt) ==
    /\ e[receipt].outcome = "completed"
    /\ e[receipt].task = task
    /\ \E t \in TrialsOf(e, plan, task) : \E n \in TerminalsOf(e, t) :
           /\ plan < t /\ receipt < n
           /\ RunsFor(e, t, receipt)
           /\ e[n].outcome = "completed" /\ e[n].execution = receipt
    /\ \A o \in Positions(e, "observation") :
           e[o].execution = receipt => e[o].plan = plan /\ e[o].task = task
    /\ LET c == e[e[receipt].start].context
       IN  IF e[plan].condition[task] = "baseline"
           THEN c = NoEvent
           ELSE c # NoEvent /\ e[c].loadout = e[plan].loadout

\* validateOutcomeLinks
validateOutcomeLinks(e) ==
    \A i \in Positions(e, "outcome") :
        LET o == e[i] IN
        /\ o.plan \in Positions(e, "plan") /\ o.task \in e[o.plan].tasks
        /\ o.execution \in VerifiedExecutions(e) /\ o.execution < i
        /\ executionEligibility(e, o.plan, o.task, o.execution)
        /\ o = Outcome(e, o.plan, o.task, o.execution)

\* validateStudyLinks
validateStudyLinks(e) ==
    /\ validateOutcomeLinks(e)
    /\ \A i \in Positions(e, "observation") :
        LET o == e[i] IN
        /\ o.plan \in Positions(e, "plan") /\ o.task \in e[o.plan].tasks
        /\ o.condition = e[o.plan].condition[o.task]
        /\ o.execution \in VerifiedExecutions(e)
        /\ executionEligibility(e, o.plan, o.task, o.execution)
        /\ o.evidence \in OutcomesOf(e, o.plan, o.task)
        /\ o.execution < o.evidence /\ o.evidence < i
        /\ e[o.evidence].execution = o.execution /\ e[o.evidence].outcome = o.outcome

\* replay: there is no issue.
Replays(e) ==
    /\ NoDuplicates(e)
    /\ \A p \in Positions(e, "plan") : validatePlan(e[p])
    /\ \A t \in Positions(e, "trial") : validateTrialReservation(e[t])
    /\ \A n \in Positions(e, "terminal") : validateTrialTerminal(e[n])
    /\ \A o \in Positions(e, "observation") : validateObservation(e[o])
    /\ ExecutionsVerify(e)
    /\ validateTrialLinks(e)
    /\ validateStudyLinks(e)

-----------------------------------------------------------------------------
(* The report (BuildReport).                                               *)

Observed(e, p, c) ==
    {o \in Positions(e, "observation") : e[o].plan = p /\ e[o].condition = c}

Successes(e, p, c) == {o \in Observed(e, p, c) : e[o].outcome = "success"}

\* successRate in basis points; integer division.
successRate(e, p, c) ==
    IF Observed(e, p, c) = {} THEN 0
    ELSE (Cardinality(Successes(e, p, c)) * 10000) \div Cardinality(Observed(e, p, c))

ObservedTasks(e, p) == {o \in Positions(e, "observation") : e[o].plan = p}

\* Mutation: a study with missing tasks is reported on.
Evaluable_early(e, p) == ObservedTasks(e, p) # {}

\* The reasons BuildReport gives for a study that is not evaluable do not apply.
Evaluable(e, p) ==
    /\ \A t \in e[p].tasks : ObservationsOf(e, p, t) # {}
    /\ Max({0} \cup {e[o].at - e[p].at : o \in ObservedTasks(e, p)}) >= MinimumElapsed
    /\ \A o \in ObservedTasks(e, p) : e[o].reporter # "synthetic_test"
    /\ \A c \in Conditions : Cardinality(Observed(e, p, c)) >= MinimumPerArm

\* BuildReport: the status, and what it says of the two arms.
BuildReport(e, p) ==
    [status |-> IF Evaluable(e, p) THEN "descriptive_signal" ELSE "not_evaluable",
     delta |-> successRate(e, p, "memory") - successRate(e, p, "baseline")]
=============================================================================
