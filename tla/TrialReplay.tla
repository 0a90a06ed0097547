----------------------------- MODULE TrialReplay -----------------------------
(***************************************************************************)
(* What the evaluation (internal/evaluation) reads back from the evidence  *)
(* ledger about paired trials: a sealed plan has one arm without memory    *)
(* and one with memory for each selected legacy card, and every arm is a   *)
(* contract, a supervised execution, a verdict and an attempt receipt.     *)
(*                                                                         *)
(* An event is named by its position, except the ones whose id is computed *)
(* from their content (plan, contract, result, verdict, attempt receipt):  *)
(* the ledger itself accepts the same id twice.  Hashes, blobs, manifests  *)
(* and sources are left out where both arms bind the same ones; a payload  *)
(* stands for its digest.                                                  *)
(***************************************************************************)
EXTENDS Naturals, Sequences, FiniteSets, SequencesExt, FiniteSetsExt

CONSTANTS
    Cards,         \* legacy cards of the frozen corpus, numbered by their rank
    SampleSize,    \* continuousTrialCorpusSampleSize
    MemoryFirst,   \* cards whose assignment digest is odd
    AllowedOrders, \* allowed_event_orders of the criteria: sequences of <<kind, payload>>
    ResultLabels,  \* their labels of results, by payload
    UserLabels,    \* and of user messages
    PassThreshold  \* pass_threshold, as a pair <<numerator, denominator>>

ASSUME TrialAssumption ==
    /\ Cards \subseteq Nat \ {0} /\ IsFiniteSet(Cards)
    /\ SampleSize \in Nat \ {0}
    /\ MemoryFirst \subseteq Cards
    /\ PassThreshold[1] <= PassThreshold[2]
    /\ \A o \in AllowedOrders : o \in Seq({o[k] : k \in 1..Len(o)})

-----------------------------------------------------------------------------
(* Plans and their arms (trial_plan.go).                                   *)

\* A plan is its content, from which its id is computed: the cards it pairs,
\* and whether both arms of a pair were given the same thread and session.
Plans == [cards : (SUBSET Cards) \ {{}}, shared : BOOLEAN]
Unplanned == [cards |-> {}, shared |-> FALSE]

Arm(plan, card, condition) == [plan |-> plan, card |-> card, condition |-> condition]
Planned(arm) == arm.plan # Unplanned

ContextOf(arm) == <<"arm", arm.card, IF arm.plan.shared THEN "both" ELSE arm.condition>>

\* The element at place k of a set of numbers.
Nth(S, k) == CHOOSE i \in S : Cardinality({j \in S : j < i}) = k - 1

\* selectedTrialCorpusArtifacts: the first cards in the order of their rank.
selectedTrialCorpusArtifacts ==
    {card \in Cards : Cardinality({c \in Cards : c < card}) < SampleSize}

ExecutionOrder(card) ==
    IF card \in MemoryFirst THEN <<"memory", "baseline">> ELSE <<"baseline", "memory">>
Before(arm) == Arm(arm.plan, arm.card, ExecutionOrder(arm.card)[1])
IsSecond(arm) == ExecutionOrder(arm.card)[2] = arm.condition

\* The contracts of a plan, in the order of its pairs.
ArmsOf(plan) ==
    [k \in 1..2 * Cardinality(plan.cards) |->
        Arm(plan, Nth(plan.cards, (k + 1) \div 2), IF k % 2 = 1 THEN "baseline" ELSE "memory")]

-----------------------------------------------------------------------------
(* Events.                                                                 *)

NoEvent == 0

Event(id, kind, context, by, parents, payload, body) ==
    [id |-> id, kind |-> kind, context |-> context, by |-> by, parents |-> parents,
     payload |-> payload, body |-> body]

PlanID(plan) == <<"plan", plan>>
ContractID(arm) == <<"contract", arm>>
ResultID(arm) == <<"result", arm>>
VerdictID(arm) == <<"verdict", arm>>
AttemptID(request) == <<"attempt", request>>

Has(e, id) == \E i \in DOMAIN e : e[i].id = id
At(e, id) == CHOOSE i \in DOMAIN e : e[i].id = id
OfKind(e, kind) == {i \in DOMAIN e : e[i].kind = kind}

\* loadIndexedRecords: every evaluation command stops at an event id that occurs twice.
loadIndexedRecords(e) == Cardinality({e[i].id : i \in DOMAIN e}) = Len(e)

\* isCausalDescendant, causalAncestorKinds
Ancestors(e) ==
    LET up[i \in 1..Len(e)] ==
            {i} \cup UNION {up[q] : q \in e[i].parents \cap 1..i - 1}
    IN  up
isCausalDescendant(e, i, ancestor) == ancestor \in Ancestors(e)[i]
causalAncestorKinds(e, events, kinds) ==
    {q \in UNION {Ancestors(e)[i] : i \in events} : e[q].kind \in kinds}

\* A request binds an attempt to what happened; 0 stands for an empty binding.
Request(arm) ==
    [arm |-> arm, retrieval |-> NoEvent, injection |-> NoEvent, adoption |-> NoEvent, memory |-> "none"]
validateTaskAttemptRequest(r) ==
    IF r.arm.condition = "baseline" THEN r = Request(r.arm)
    ELSE NoEvent \notin {r.retrieval, r.injection, r.adoption} /\ r.memory # "none"

-----------------------------------------------------------------------------
(* The builtin evidence-score oracle (builtin_oracle.go).                  *)

\* The events of the context from the contract to the result.
Window(e, arm) ==
    {i \in At(e, ContractID(arm))..At(e, ResultID(arm)) : e[i].context = ContextOf(arm)}

Results(e, window) == {i \in window : e[i].kind \in {"tool_result", "file_change"}}
Users(e, window) == {i \in window : e[i].kind = "user_message"}
Complete(e, window) == \A i \in window : e[i].kind # "gap"

\* blindOracleObservations: kinds and payloads, in the order of the ledger.
blindOracleObservations(e, events) ==
    [k \in 1..Cardinality(events) |-> LET i == Nth(events, k) IN <<e[i].kind, e[i].payload>>]

\* The errors of runBuiltinEvidenceScoreOracle.
Judgeable(e, results, users) ==
    /\ results # {}
    /\ blindOracleObservations(e, results \cup users) \in AllowedOrders
    /\ \A i \in results : e[i].payload \in DOMAIN ResultLabels
    /\ \A i \in users : e[i].payload \in DOMAIN UserLabels

\* The score is (success + neutral / 2) / results; here it is kept in halves.
runBuiltinEvidenceScoreOracle(e, results, users) ==
    LET label == [i \in results |-> ResultLabels[e[i].payload]]
        halves == 2 * Quantify(results, LAMBDA i : label[i] = "success")
                  + Quantify(results, LAMBDA i : label[i] = "neutral")
    IN  [results |-> label,
         users |-> [i \in users |-> UserLabels[e[i].payload]],
         halves |-> halves,
         pass |-> halves * PassThreshold[2] >= PassThreshold[1] * 2 * Cardinality(results)]

\* materializeBuiltinVerdict
materializeBuiltinVerdict(e, arm) ==
    LET w == Window(e, arm)
    IN  [arm |-> arm, judgment |-> runBuiltinEvidenceScoreOracle(e, Results(e, w), Users(e, w))]

\* The verdict event is itself a tool result of the context of the arm.
VerdictEvent(e, arm) ==
    Event(VerdictID(arm), "tool_result", ContextOf(arm), "oracle", {At(e, ResultID(arm))},
          "verdict", materializeBuiltinVerdict(e, arm))

-----------------------------------------------------------------------------
(* Attempt receipts (attempt.go).                                          *)

\* validateMemoryAttempt: order, causality and content of the memory receipts.
\* That the receipts verify by themselves (retrieval.Verify, asked before) is
\* left out: the commands write them, and MemoryDelivery shows that what the
\* commands write verifies.
validateMemoryAttempt(e, r) ==
    LET s == At(e, ContractID(r.arm))
        t == At(e, ResultID(r.arm))
        v == At(e, VerdictID(r.arm))
    IN  /\ s < r.retrieval /\ r.retrieval < r.injection /\ r.injection <= t
        /\ t < r.adoption /\ r.adoption < v
        /\ \A i \in {r.retrieval, r.injection, r.adoption} : e[i].context = ContextOf(r.arm)
        /\ isCausalDescendant(e, r.injection, r.retrieval)
        /\ isCausalDescendant(e, r.adoption, r.injection)
        /\ e[r.injection].body = [retrieval |-> r.retrieval, memory |-> r.memory]
        /\ e[r.retrieval].body.memory = r.memory
        /\ e[r.adoption].kind = "adoption" /\ e[r.adoption].body.injection = r.injection
        /\ Planned(r.arm) \/ e[r.adoption].body.adopted
        /\ r.memory = "fits"       \* ResolveSemanticKey gives the key of the contract

\* Mutation: exposures are counted to the end of the ledger.
Exposed_open(e, arm) ==
    {i \in At(e, ContractID(arm))..Len(e) :
        e[i].context = ContextOf(arm) /\ e[i].kind \in {"retrieval", "injection"}}

Exposed(e, arm) == {i \in Window(e, arm) : e[i].kind \in {"retrieval", "injection"}}

ConditionHolds(e, r, window) ==
    LET exposures == Exposed(e, r.arm)
        evidence == Results(e, window) \cup Users(e, window)
        inherited == causalAncestorKinds(e, evidence \cup {At(e, ContractID(r.arm))},
                                         {"retrieval", "injection"})
    IN  IF r.arm.condition = "baseline"
        THEN /\ exposures = {} /\ inherited = {}
             /\ \A i \in evidence : isCausalDescendant(e, i, At(e, ContractID(r.arm)))
        ELSE /\ exposures = {r.retrieval, r.injection}
             /\ validateMemoryAttempt(e, r)
             /\ inherited \subseteq {r.retrieval, r.injection}
             /\ \A i \in evidence : isCausalDescendant(e, i, r.injection)

\* The errors of deriveTaskAttempt.
Derivable(e, r) ==
    /\ validateTaskAttemptRequest(r)
    /\ \A id \in {ContractID(r.arm), ResultID(r.arm), VerdictID(r.arm)} : Has(e, id)
    /\ {r.retrieval, r.injection, r.adoption} \subseteq DOMAIN e \cup {NoEvent}
    /\ LET s == At(e, ContractID(r.arm))
           t == At(e, ResultID(r.arm))
           v == At(e, VerdictID(r.arm))
           w == Window(e, r.arm)
       IN  /\ s < t /\ t < v
           /\ \A i \in {s, t, v} : e[i].context = ContextOf(r.arm)
           /\ Complete(e, w)
           /\ e[v].body.arm = r.arm
           /\ isCausalDescendant(e, v, t)
           /\ DOMAIN e[v].body.judgment.results = Results(e, w)   \* validateVerdictCoverage
           /\ DOMAIN e[v].body.judgment.users = Users(e, w)
           /\ ConditionHolds(e, r, w)

\* What deriveTaskAttempt returns: the receipt and its causal parents.
deriveTaskAttempt(e, r) ==
    LET w == Window(e, r.arm)
        j == e[At(e, VerdictID(r.arm))].body.judgment
    IN  [request |-> r, results |-> Results(e, w), users |-> Users(e, w), success |-> j.pass,
         halves |-> j.halves,
         errors |-> Quantify(DOMAIN j.results, LAMBDA i : j.results[i] = "error"),
         corrections |-> Quantify(DOMAIN j.users, LAMBDA i : j.users[i] = "correction")]
AttemptParents(e, r) ==
    LET w == Window(e, r.arm)
    IN  ({At(e, ContractID(r.arm)), At(e, ResultID(r.arm)), At(e, VerdictID(r.arm)),
          r.retrieval, r.injection, r.adoption} \cup Results(e, w) \cup Users(e, w)) \ {NoEvent}

verifyTaskAttemptRecord(e, i) ==
    LET r == e[i].body.request
    IN  /\ Derivable(e, r)
        /\ e[i].body = deriveTaskAttempt(e, r)
        /\ e[i].parents = AttemptParents(e, r)

\* rerunTaskAttempt: the oracle judges the window again.
rerunTaskAttempt(e, i) ==
    LET arm == e[i].body.request.arm
        w == Window(e, arm)
    IN  /\ verifyTaskAttemptRecord(e, i)
        /\ Judgeable(e, Results(e, w), Users(e, w))
        /\ e[At(e, VerdictID(arm))].body = materializeBuiltinVerdict(e, arm)

-----------------------------------------------------------------------------
(* The population a continuous report measures (trial_plan.go,             *)
(* population.go, execution_supervisor.go).                                *)

Arms(e) == UNION {ToSet(ArmsOf(e[p].body)) : p \in OfKind(e, "plan")}
Preregistered(e) == {e[i].body : i \in OfKind(e, "contract")}
StartsOf(e, arm) == {i \in OfKind(e, "start") : e[i].body.arm = arm}
AttemptsOf(e, arm) == {i \in OfKind(e, "attempt") : e[i].body.request.arm = arm}
ReceiptsOf(e, arm) == {i \in OfKind(e, "receipt") : e[i].body.arm = arm}

\* The contracts follow their plan at once, in its order.
ContractBatch(e, p) ==
    LET arms == ArmsOf(e[p].body)
    IN  \A k \in DOMAIN arms :
            /\ p + k <= Len(e)
            /\ e[p + k].id = ContractID(arms[k])
            /\ e[p + k].parents = {p} /\ e[p + k].context = ContextOf(arms[k])

\* The second arm of a pair has no result, or one after that of the first.
ResultOrder(e, arm) ==
    (IsSecond(arm) /\ Has(e, ResultID(arm))) =>
        Has(e, ResultID(Before(arm))) /\ At(e, ResultID(Before(arm))) < At(e, ResultID(arm))

loadPopulationTrialPlans(e) ==
    LET plans == OfKind(e, "plan")
        arms == Arms(e)
        results == {i \in DOMAIN e : \E arm \in arms : e[i].id = ResultID(arm)}
        contracts == {i \in DOMAIN e : \E arm \in arms : e[i].id = ContractID(arm)}
    IN  /\ plans # {}
        /\ \A p \in plans : ContractBatch(e, p)
        /\ \A arm \in arms : ResultOrder(e, arm)
        /\ \A c \in selectedTrialCorpusArtifacts :
               Cardinality({p \in plans : c \in e[p].body.cards}) = 1
        /\ \A p \in plans : e[p].body.cards \subseteq selectedTrialCorpusArtifacts
        /\ \A i \in contracts, j \in results : i < j

\* loadPopulationAttempts: one receipt for each planned contract, and it replays.
loadPopulationAttempts(e) ==
    \A arm \in {a \in Preregistered(e) : Planned(a)} :
        /\ arm \in Arms(e)
        /\ Cardinality(AttemptsOf(e, arm)) = 1
        /\ \A i \in AttemptsOf(e, arm) : rerunTaskAttempt(e, i)

\* validatePopulationExecutionReceipt: the receipt at i describes the execution
\* that produced the result of request r.
validatePopulationExecutionReceipt(e, i, r) ==
    LET x == e[i].body
        s == At(e, ContractID(r.arm))
        t == At(e, ResultID(r.arm))
    IN  /\ x.arm = r.arm /\ x.result = t
        /\ s < x.start /\ x.start < t /\ t < i
        /\ \A k \in {x.start, t, i} : e[k].by = "supervisor" /\ e[k].context = ContextOf(r.arm)
        /\ e[x.start].parents = {s, x.injection} \ {NoEvent}
        /\ e[t].parents = {x.start} /\ e[i].parents = {x.start, t}
        /\ e[x.start].body = [arm |-> r.arm, memory |-> x.memory]
        /\ e[t].payload = x.payload
        /\ <<x.retrieval, x.injection, x.memory>> = <<r.retrieval, r.injection, r.memory>>
        /\ r.arm.condition = "memory" =>
               /\ x.retrieval < x.injection /\ x.injection < x.start
               /\ e[x.injection].parents = {x.retrieval}
               /\ e[x.injection].body.memory = x.memory

\* Mutation: any number of starts will do, as long as there is one.
StartedOnce_orMore(e, arm) == StartsOf(e, arm) # {}

StartedOnce(e, arm) == Cardinality(StartsOf(e, arm)) = 1

\* validatePopulationExecutionReceipts
validatePopulationExecutionReceipts(e) ==
    \A arm \in {a \in Preregistered(e) : Planned(a)} :
        /\ StartedOnce(e, arm)
        /\ Cardinality(ReceiptsOf(e, arm)) = 1
        /\ \A i \in ReceiptsOf(e, arm), a \in AttemptsOf(e, arm) :
               /\ e[i].body.outcome = "completed"
               /\ i < At(e, VerdictID(arm))
               /\ validatePopulationExecutionReceipt(e, i, e[a].body.request)

\* The trials of the ledger may be measured.
Eligible(e) ==
    /\ loadIndexedRecords(e)
    /\ loadPopulationTrialPlans(e)
    /\ loadPopulationAttempts(e)
    /\ validatePopulationExecutionReceipts(e)
=============================================================================
