---------------------------- MODULE EvaluationRun ----------------------------
(***************************************************************************)
(* Preparing, running and verifying an evaluation (population.go,          *)
(* capture_population.go, attestation.go, baseline.go, run.go).            *)
(*                                                                         *)
(* eval prepare derives the cases of an input from a prefix of the ledger, *)
(* the local memory population and the last full capture inventory, eval   *)
(* run measures the input and records a report, and eval verify replays    *)
(* it.  One agent stands for the three required ones, and a legacy card    *)
(* for the semantic key of its trials.  Positions stand for record hashes. *)
(***************************************************************************)
EXTENDS EvaluationCorpus, EvaluationMetrics

CONSTANTS
    MemoryOf,    \* the memory of each revision; the names of revisions are the memories of trials
    Tokens,      \* the estimated tokens of what a retrieval selects
    Continuity,  \* what the detector finds at each compaction, by path and line
    RunIDs       \* names of runs

VARIABLES
    repository,  \* the memory population of the portable repository: revision -> active
    inventory,   \* the last full reconcile of the capture supervisor, and the ledger it saw
    inputs,      \* the input files of the user
    reports      \* derived/evaluations/runs: run id -> the input and the report on file

runVars == <<repository, inventory, inputs, reports>>
vars == <<trialVars, corpusVars, runVars>>

None == [x \in {} |-> x]

\* An execution starts before the detector and the evaluation have recorded anything.
ASSUME DetectorAssumption ==
    \A b \in Profiles : \A i \in DOMAIN b.history : b.history[i].kind \notin {"generation", "evaluation_run"}

Init ==
    /\ TrialInit
    /\ CorpusInit
    /\ repository = bound.repository
    /\ inventory = [at |-> Len(bound.history), items |-> bound.inventory]
    /\ inputs = {}
    /\ reports = None

-----------------------------------------------------------------------------
(* The surroundings: memory, the repository, the inventory, attestations.  *)

\* portable.LoadLocalPopulation: what the promotions of the whole ledger amount to.
LocalPopulation(e) ==
    IF OfKind(e, "promotion") = {} THEN None ELSE e[Max(OfKind(e, "promotion"))].body

Promote(population) ==
    /\ work < bound.work
    /\ Append1(Event(Fresh("promotion"), "promotion", <<"memory">>, "promotion", {}, "promotion", population))
    /\ work' = work + 1
    /\ UNCHANGED <<pc, job, handed, runs, aborts, bound, corpusVars, runVars>>

Export ==
    /\ repository' = LocalPopulation(evidence)
    /\ UNCHANGED <<trialVars, corpusVars, inventory, inputs, reports>>

\* A full reconcile finds files, or finds that they are gone.
Reconcile(items) ==
    /\ work < bound.work
    /\ inventory' = [at |-> Len(evidence), items |-> items]
    /\ work' = work + 1
    /\ UNCHANGED <<evidence, pc, job, handed, runs, aborts, bound, corpusVars, repository, inputs, reports>>

\* RecordAttestation: a human labels a memory, under the writer lock; the same
\* attestation is recorded once.
AttestationID(case, measure) == <<"attestation", case, measure>>
RecordAttestation(case, measure) ==
    /\ work < bound.work
    /\ IF Has(evidence, AttestationID(case, measure)) THEN UNCHANGED evidence
       ELSE Append1(Event(AttestationID(case, measure), "attestation", <<"attestation">>, "evaluation", {},
                          "attestation", [case |-> case, measure |-> measure]))
    /\ work' = work + 1
    /\ UNCHANGED <<pc, job, handed, runs, aborts, bound, corpusVars, runVars>>

-----------------------------------------------------------------------------
(* The cases of a population, from the prefix e of the ledger.             *)

Case(category, subject, evidenceRefs, measure) ==
    [id |-> <<category, subject>>, category |-> category, evidence |-> evidenceRefs, measure |-> measure]

LedgerRefs(events) == {<<"ledger_event", i>> : i \in events}

\* The attempts of the sealed plans; outside attempts are not measured.
Attempts(e) ==
    {i \in OfKind(e, "attempt") : e[i].body.request.arm \in Arms(e)}
ArmOf(e, i) == e[i].body.request.arm

\* captureItemRecords
captureItemRecords(e, path) ==
    {i \in DOMAIN e : e[i].by \in {"importer", "recovery"} /\ e[i].body.path = path}

\* segmentMatchesFull: the preserved bytes are those of the inventoried file.
Matching(e, path, lines) ==
    {i \in Segments(e, path) :
        LET r == e[i].body.range
        IN  r[2] <= Len(lines) /\ SubSeq(lines, r[1] + 1, r[2]) = SubSeq(Rollouts[path], r[1] + 1, r[2])}

\* verifyCurrentSnapshotSegments: the matching segments reach from the start of
\* the file to its end.
rawComplete(e, path, lines) ==
    LET ranges == SetToSortSeq({e[i].body.range : i \in Matching(e, path, lines)},
                               LAMBDA q, r : q[1] < r[1] \/ (q[1] = r[1] /\ q[2] > r[2]))
    IN  FoldLeft(LAMBDA cursor, r : IF r[1] > cursor THEN cursor ELSE Max({cursor, r[2]}), 0, ranges)
            = Len(lines)

\* isNormalizedCaptureEvent
isNormalizedCaptureEvent(event) == event.kind \notin {"snapshot", "gap"}

\* auditJSONLProjection: every line has a normalized event of a matching segment.
auditJSONLProjection(e, path, lines) ==
    \A k \in 1..Len(lines) :
        \E i \in Projected(e, path) :
            /\ isNormalizedCaptureEvent(e[i])
            /\ e[i].body.range = <<k - 1, k>> /\ e[i].body.complete
            /\ e[i].parents \cap Matching(e, path, lines) # {}

\* buildCapturePopulation: no case if the inventory predates the trials.
Predates(e, inv) ==
    \E a \in Attempts(e) : \E id \in {ResultID(ArmOf(e, a)), VerdictID(ArmOf(e, a))} :
        Has(e, id) /\ At(e, id) > inv.at
CaptureCases(e, inv) ==
    LET items == DOMAIN inv.items
        present == {x \in items : inv.items[x].status = "available"}
        raw == {x \in present : rawComplete(e, x, inv.items[x].lines)}
        complete == {x \in raw : auditJSONLProjection(e, x, inv.items[x].lines)}
        accounted == {x \in items \ present : MissingGaps(e, x) # {}}
        preserved == {i \in UNION {captureItemRecords(e, x) : x \in items} : e[i].kind \in {"snapshot", "gap"}}
    IN  IF items = {} \/ Predates(e, inv) THEN {}
        ELSE {Case("capture_coverage", "agent", LedgerRefs(preserved),
                   [unit |-> "source_inventory_items", expected |-> Cardinality(items),
                    complete |-> Cardinality(complete), partial |-> Cardinality(raw \ complete),
                    missing |-> Cardinality(items \ raw), accounted |-> Cardinality(accounted)])}
CaptureIssues(e, inv) ==
    (IF Predates(e, inv) THEN {<<"independent capture inventory">>} ELSE {}) \cup
    (IF \E c \in CaptureCases(e, inv) : c.measure.complete = c.measure.expected /\ c.evidence # {}
     THEN {} ELSE {<<"normalized projection coverage">>})

Selected(e) == {e[i].body.memory : i \in OfKind(e, "retrieval")} \ {"none"}
MemorySubject(e, portable, revision) ==
    [memory |-> MemoryOf[revision], label |-> "unknown", retrieved |-> revision \in Selected(e),
     active |-> portable[revision]]

\* loadPopulationAttestations, onePopulationAttestation
Attested(e, portable, revision) ==
    LET found == {i \in OfKind(e, "attestation") : e[i].body.case = <<"false_memory", revision>>}
    IN  {i \in found : /\ Cardinality(found) = 1
                       /\ [e[i].body.measure EXCEPT !.label = "unknown"] = MemorySubject(e, portable, revision)}
MemoryRevisions(e, portable) == {r \in DOMAIN portable : portable[r]} \cup Selected(e)
MemoryCases(e, portable) ==
    {LET by == Attested(e, portable, revision)
     IN  Case("false_memory", revision, {<<"portable_revision", revision>>} \cup LedgerRefs(by),
              IF by = {} THEN MemorySubject(e, portable, revision)
              ELSE e[CHOOSE i \in by : TRUE].body.measure) :
         revision \in MemoryRevisions(e, portable) \cap DOMAIN portable}
MemoryIssues(e, portable) ==
    {<<"attestation or revision", r>> :
        r \in {r \in MemoryRevisions(e, portable) : r \notin DOMAIN portable \/ Attested(e, portable, r) = {}}}

\* The first corrected attempt of a key and the first attempt with memory after it.
Corrected(e, key) == {i \in Attempts(e) : ArmOf(e, i).card = key /\ e[i].body.corrections > 0}
FollowUps(e, key) ==
    {i \in Attempts(e) : /\ ArmOf(e, i).card = key /\ ArmOf(e, i).condition = "memory"
                         /\ i > Min(Corrected(e, key))}
CorrectedKeys(e) == {key \in Cards : Corrected(e, key) # {}}
CorrectionCases(e) ==
    {LET initial == Min(Corrected(e, key))
         followup == Min(FollowUps(e, key))
     IN  Case("repeated_correction", key, LedgerRefs({initial, followup}),
              [key |-> key, initial |-> initial, followup |-> followup,
               repeated |-> e[followup].body.corrections > 0]) :
         key \in {key \in CorrectedKeys(e) : FollowUps(e, key) # {}}}

\* findCompactionClusters: compactions with nothing of the conversation between
\* them are one checkpoint, named here by its first line.
Barriers == {"user_message", "agent_message", "tool_call", "tool_result", "file_change"}
Checkpoint(e, i) ==
    LET path == e[i].body.path
        last == e[i].body.range[2]
    IN  <<path, Min({k \in 1..last : /\ Rollouts[path][k] = "compaction"
                                     /\ \A l \in k..last : Rollouts[path][l] \notin Barriers})>>

\* buildCompactionPopulation: the labels of the first pack, against the generation
\* whose audit is the last event of the prefix.
Pack(e, content) == Min(Truths(e, content))
DetectorBound(e, content) ==
    /\ Len(e) \in Audits(e)
    /\ \E g \in generations : g.prefix = e[Len(e)].body
    /\ Truths(e, content) # {} /\ Pack(e, content) <= e[Len(e)].body
CompactionCases(e, content) ==
    IF ~DetectorBound(e, content) THEN {}
    ELSE LET t == Pack(e, content)
         IN  {LET mark == Checkpoint(e, i)
              IN  Case("compaction_drift", i, LedgerRefs({i, t}),
                       [checkpoint |-> mark, expected |-> e[t].body.labels[i],
                        observed |-> Continuity[mark[1]][mark[2]]]) :
                  i \in DOMAIN e[t].body.labels \cap FrozenCompactions(e, manifests[content])}

\* eventInsideFrozenRollout
Control(e, content, label) ==
    \E c \in CompactionCases(e, content) : \E i \in FrozenCompactions(e, manifests[content]) :
        /\ <<"ledger_event", i>> \in c.evidence /\ c.measure.expected = label
        /\ \E r \in content.rollouts : r.path = e[i].body.path /\ e[i].parents \cap r.segments # {}
CompactionIssues(e, content) ==
    (IF DetectorBound(e, content) THEN {} ELSE {<<"independent compaction detector">>}) \cup
    (IF SealedTruth(e, content) THEN {} ELSE {<<"sealed compaction ground truth">>}) \cup
    (IF Accepted(e, content) THEN {} ELSE {<<"detector access before the seal">>}) \cup
    {<<"frozen control", l>> : l \in {l \in {"drift", "preserved"} : ~Control(e, content, l)}}

\* loadPopulationRetrievals, summarizedOutcome
AdoptionsOf(e, i) == {a \in OfKind(e, "adoption") : e[e[a].body.injection].body.retrieval = i}
summarizedOutcome(outcomes) ==
    LET ranked == SelectSeq(<<"harmful", "helpful", "neutral">>, LAMBDA o : o \in outcomes)
    IN  IF ranked = <<>> THEN "unknown" ELSE Head(ranked)
RetrievalMeasure(e, i, adoptions) ==
    LET adopted == {a \in adoptions : e[a].body.adopted}
    IN  [retrieval |-> i, tokens |-> Tokens[e[i].body.memory],
         items |-> IF e[i].body.memory = "none" THEN 0 ELSE 1, adopted |-> adopted # {},
         outcome |-> summarizedOutcome({e[a].body.outcome : a \in adopted})]
RetrievalCases(e) ==
    {Case("retrieval_cost", i, LedgerRefs({i} \cup AdoptionsOf(e, i)), RetrievalMeasure(e, i, AdoptionsOf(e, i))) :
        i \in OfKind(e, "retrieval")}

\* The receipts of both arms of a pair, if each has one.
TrialMeasure(e, i) ==
    [success |-> e[i].body.success, halves |-> e[i].body.halves, results |-> Cardinality(e[i].body.results),
     errors |-> e[i].body.errors, corrections |-> e[i].body.corrections]
PairCase(e, pair, i, j) ==
    Case("paired_outcome", pair, LedgerRefs({i, j}),
         [pair |-> pair, first |-> i, second |-> j, baseline |-> TrialMeasure(e, i), treatment |-> TrialMeasure(e, j)])
Pairs(e) ==
    {x \in Attempts(e) \X Attempts(e) :
        /\ ArmOf(e, x[1]).condition = "baseline" /\ ArmOf(e, x[2]).condition = "memory"
        /\ \A a \in {x[1], x[2]} : AttemptsOf(e, ArmOf(e, a)) = {a}
        /\ ArmOf(e, x[2]) = [ArmOf(e, x[1]) EXCEPT !.condition = "memory"]}
PairCases(e) ==
    {PairCase(e, <<ArmOf(e, x[1]).plan, ArmOf(e, x[1]).card>>, x[1], x[2]) :
        x \in {x \in Pairs(e) : \A y \in Pairs(e) : ArmOf(e, y[1]).card = ArmOf(e, x[1]).card => x[1] <= y[1]}}

-----------------------------------------------------------------------------
(* Populations (buildContinuousPopulation).                                *)

PopulationCases(e, content, portable, inv) ==
    CaptureCases(e, inv) \cup MemoryCases(e, portable) \cup CorrectionCases(e) \cup
    CompactionCases(e, content) \cup RetrievalCases(e) \cup PairCases(e)

\* The issues of a population; the last two are there whatever is measured, as
\* no adapter proves which agent produced its result.
PopulationIssues(e, content, portable, inv) ==
    LET cases == PopulationCases(e, content, portable, inv)
    IN  CaptureIssues(e, inv) \cup MemoryIssues(e, portable) \cup CompactionIssues(e, content) \cup
        {<<"follow-up", key>> : key \in {key \in CorrectedKeys(e) : FollowUps(e, key) = {}}} \cup
        {<<"empty", category>> : category \in {x \in Categories : Of(cases, x) = {}}} \cup
        {<<"stratum", x>> : x \in {x \in {"paired_outcome", "repeated_correction"} : Cardinality(Of(cases, x)) < 3}} \cup
        (IF \E a \in Attempts(e) : \A c \in PairCases(e) : a \notin {c.measure.first, c.measure.second}
         THEN {<<"unpaired attempts">>} ELSE {}) \cup
        (IF Eligible(e) THEN {} ELSE {<<"trials">>}) \cup
        {<<"verified native agent execution">>}

\* The errors of buildContinuousPopulation. The memory population, bound or not,
\* must be the one of the ledger as it is now.
Buildable(e, n, content, portable) ==
    /\ loadIndexedRecords(e) /\ n \in 1..Len(e)
    /\ VerifyCorpus(e, content)
    /\ portable = LocalPopulation(e)
Population(e, n, content, portable, inv) ==
    LET prefix == SubSeq(e, 1, n)
    IN  [prefix |-> n, portable |-> portable, inventory |-> inv,
         issues |-> PopulationIssues(prefix, content, portable, inv),
         cases |-> PopulationCases(prefix, content, portable, inv)]

\* The population of a new input.  It measures no memory as active: the active
\* revisions of the repository are loaded into an inner variable that shadows the
\* one the cases are built from; a bound population is built from its snapshot.
NoneActive(portable) == [r \in DOMAIN portable |-> FALSE]
PreparedPopulation(e, n, content, portable, inv) ==
    [Population(e, n, content, NoneActive(portable), inv) EXCEPT !.portable = portable]

NoPopulation == [prefix |-> 0, portable |-> None, inventory |-> [at |-> 0, items |-> None],
                 issues |-> {}, cases |-> {}]
Input(id, profile, content, population, cases, thresholds) ==
    [id |-> id, profile |-> profile, content |-> content, population |-> population, cases |-> cases,
     thresholds |-> thresholds]

\* PrepareContinuousInput: the length of the ledger is taken before the episodes
\* are built.
BeginPrepare(p, id, content) ==
    /\ Idle(p, "prepare")
    /\ loadIndexedRecords(evidence) /\ evidence # <<>>
    /\ job' = [job EXCEPT ![p].held = NewBuild("population", [id |-> id, content |-> content, read |-> Len(evidence)])]
    /\ Goto(p, IF NeedsBuild(FALSE) THEN "mark" ELSE "population")
    /\ UNCHANGED <<evidence, handed, runs, aborts, work, bound, corpusVars, runVars>>

DerivePopulation(p) ==
    /\ pc[p] = "population"
    /\ LET o == job[p].held.order
           population == PreparedPopulation(evidence, o.read, o.content, repository, inventory)
       IN  inputs' = inputs \cup
               (IF Buildable(evidence, o.read, o.content, repository)
                THEN {Input(o.id, "continuous", o.content, population, population.cases,
                            FixedContinuousLearningThresholds)}
                ELSE {})
    /\ Return(p)
    /\ UNCHANGED <<evidence, handed, runs, aborts, work, bound, corpusVars, repository, inventory, reports>>

\* PrepareLegacyBaseline: the rollouts of a corpus as one component case.
RolloutCounts(content) ==
    LET number(status) == Cardinality({r \in content.rollouts : r.status = status})
    IN  [unit |-> "legacy_rollouts", expected |-> Cardinality(content.rollouts), complete |-> number("captured"),
         partial |-> number("partial"), missing |-> number("missing"),
         accounted |-> Cardinality({r \in content.rollouts : r.status = "missing" /\ r.gaps # {}})]
IndexArtifacts(content) == {a \in content.artifacts : a.file = "index"}
PrepareBaseline(p, id, content, minimum) ==
    LET refs == {<<"corpus_artifact", a>> : a \in IndexArtifacts(content)}
    IN  /\ Idle(p, "baseline_input")
        /\ VerifyCorpus(evidence, content)
        /\ inputs' = inputs \cup
               {Input(id, "component", content, NoPopulation,
                      {Case("capture_coverage", "legacy", refs, RolloutCounts(content))},
                      [capture_coverage |-> minimum])}
        /\ UNCHANGED <<trialVars, corpusVars, repository, inventory, reports>>

-----------------------------------------------------------------------------
(* Evidence of the cases of an input (validateCaseEvidence), in a report.  *)

Cited(c) == {r[2] : r \in {r \in c.evidence : r[1] = "ledger_event"}}

RefHolds(e, r, content, portable) ==
    CASE r[1] = "ledger_event" -> r[2] \in DOMAIN e
      [] r[1] = "corpus_artifact" -> VerifyCorpus(e, content) /\ r[2] \in content.artifacts
      [] r[1] = "portable_revision" -> r[2] \in DOMAIN portable

validateAttestationRecord(e, i, c) ==
    /\ e[i].kind = "attestation" /\ e[i].body.case = c.id
    /\ IF c.category = "compaction_drift"
       THEN /\ e[i].body.measure.checkpoint = c.measure.checkpoint
            /\ e[i].body.measure.expected = c.measure.expected
       ELSE e[i].body.measure = c.measure

requiresCaseAttestation(c) == c.category \in {"false_memory", "compaction_drift"}

AttemptHolds(e, i) == i \in OfKind(e, "attempt") /\ verifyTaskAttemptRecord(e, i)

\* validateCaseEvidence and its parts for the categories, on the cited records.
MeasureHolds(e, c, content) ==
    CASE c.category = "capture_coverage" /\ c.measure.unit = "legacy_rollouts" ->
             /\ VerifyCorpus(e, content)
             /\ \E a \in IndexArtifacts(content) : <<"corpus_artifact", a>> \in c.evidence
             /\ c.measure = [RolloutCounts(content) EXCEPT !.accounted = c.measure.accounted]
      [] c.category = "repeated_correction" ->
             LET x == c.measure.initial
                 y == c.measure.followup
             IN  /\ {x, y} \subseteq Cited(c) /\ x < y
                 /\ AttemptHolds(e, x) /\ AttemptHolds(e, y)
                 /\ e[x].body.corrections > 0
                 /\ ArmOf(e, x).card = c.measure.key /\ ArmOf(e, y).card = c.measure.key
                 /\ ArmOf(e, y).condition = "memory"
                 /\ c.measure.repeated = (e[y].body.corrections > 0)
      [] c.category = "compaction_drift" -> \E i \in Cited(c) : e[i].kind = "compaction"
      [] c.category = "retrieval_cost" ->
             LET i == c.measure.retrieval
             IN  /\ i \in Cited(c) /\ e[i].kind = "retrieval"
                 /\ c.measure = RetrievalMeasure(e, i, Cited(c) \cap AdoptionsOf(e, i))
      [] c.category = "paired_outcome" ->
             LET x == c.measure.first
                 y == c.measure.second
             IN  /\ {x, y} \subseteq Cited(c) /\ AttemptHolds(e, x) /\ AttemptHolds(e, y)
                 /\ ArmOf(e, x).condition = "baseline" /\ ArmOf(e, y).condition = "memory"
                 /\ ArmOf(e, x).card = ArmOf(e, y).card
                 /\ c.measure.baseline = TrialMeasure(e, x) /\ c.measure.treatment = TrialMeasure(e, y)
      [] OTHER -> TRUE

CaseIssues(e, c, content, portable) ==
    LET cited == {i \in Cited(c) \cap DOMAIN e : e[i].kind = "attestation"}
        valid == {i \in cited : validateAttestationRecord(e, i, c)}
    IN  {<<"reference", c.id, r>> : r \in {r \in c.evidence : ~RefHolds(e, r, content, portable)}} \cup
        {<<"attestation", c.id, i>> : i \in cited \ valid} \cup
        (IF Cardinality(valid) > 1 \/ (requiresCaseAttestation(c) /\ valid = {})
         THEN {<<"one attestation", c.id>>} ELSE {}) \cup
        (IF MeasureHolds(e, c, content) THEN {} ELSE {<<"measurement", c.id>>})

\* loadEvaluationPortableRevisions: the bound population, or the repository.
Portable(input) == IF input.profile = "continuous" THEN input.population.portable ELSE repository

Stale(e, input) == \E i \in input.population.prefix + 1..Len(e) : e[i].kind # "evaluation_run"

\* verifyContinuousPopulation
PopulationReplayIssues(e, input, requireCurrent) ==
    LET b == input.population
        wanted == Population(e, b.prefix, input.content, b.portable, b.inventory)
    IN  IF input.profile # "continuous" THEN {}
        ELSE IF ~Buildable(e, b.prefix, input.content, b.portable) THEN {<<"population replay failed">>}
        ELSE wanted.issues \cup
             (IF requireCurrent /\ Stale(e, input) THEN {<<"stale">>} ELSE {}) \cup
             (IF wanted = b /\ wanted.cases = input.cases THEN {} ELSE {<<"population differs">>})

\* The issues outside the writer lock.
OpenIssues(e, input, requireCurrent) ==
    PopulationReplayIssues(e, input, requireCurrent) \cup
    (IF VerifyCorpus(e, input.content) THEN {} ELSE {<<"corpus">>})

\* Mutation: the ledger is not compared again under the writer lock.
lockedContinuousLedgerIssues_none(e, input) == {}

lockedContinuousLedgerIssues(e, input) ==
    IF input.profile = "continuous" /\ Stale(e, input) THEN {<<"stale under lock">>} ELSE {}

Report(input, issues) ==
    LET metrics == Metrics(input.cases)
    IN  [metrics |-> metrics, issues |-> issues,
         ready |-> issues = {} /\ gatesPassed(input.thresholds, metrics)]
AllCaseIssues(e, input) == UNION {CaseIssues(e, c, input.content, Portable(input)) : c \in input.cases}

-----------------------------------------------------------------------------
(* Run and VerifyRun.                                                      *)

RunID(input, report) == <<"evaluation_run", input, report>>
RunParents(e, input) == (UNION {Cited(c) : c \in input.cases}) \cap DOMAIN e
RunEvent(e, input, report) ==
    Event(RunID(input, report), "evaluation_run", <<"run">>, "evaluation", RunParents(e, input), "report",
          [input |-> input, report |-> report])

\* Run up to the writer lock.
BeginRun(p, input) ==
    /\ Idle(p, "evaluate")
    /\ validateInput(input)
    /\ job' = [job EXCEPT ![p].held = [input |-> input, issues |-> OpenIssues(evidence, input, TRUE)]]
    /\ Goto(p, "report")
    /\ UNCHANGED <<evidence, handed, runs, aborts, work, bound, corpusVars, runVars>>

\* writeRunFiles: the files of a run id are written once.
writeRunFiles(files, id, content) == id \in DOMAIN files => files[id] = content

\* Under the writer lock; the process may die between the files and the event.
FinishRun(p, dies) ==
    /\ pc[p] = "report"
    /\ LET e == evidence
           input == job[p].held.input
           report == Report(input, job[p].held.issues \cup lockedContinuousLedgerIssues(e, input)
                                       \cup AllCaseIssues(e, input))
           content == [input |-> input, report |-> report]
           files == [x \in DOMAIN reports \cup {input.id} |-> IF x = input.id THEN content ELSE reports[x]]
       IN  IF loadIndexedRecords(e) /\ writeRunFiles(reports, input.id, content)
           THEN /\ reports' = files
                /\ IF dies \/ Has(e, RunID(input, report)) THEN UNCHANGED evidence
                   ELSE Append1(RunEvent(e, input, report))
           ELSE UNCHANGED <<reports, evidence>>
    /\ IF dies THEN aborts < bound.aborts /\ aborts' = aborts + 1 ELSE UNCHANGED aborts
    /\ Return(p)
    /\ UNCHANGED <<handed, runs, work, bound, corpusVars, repository, inventory, inputs>>

\* Mutation: the replay asks for the current ledger, as the run does.
replayEvaluationEvidence_current(e, input) ==
    Report(input, OpenIssues(e, input, TRUE) \cup AllCaseIssues(e, input))

\* replayEvaluationEvidence
replayEvaluationEvidence(e, input) ==
    Report(input, OpenIssues(e, input, FALSE) \cup AllCaseIssues(e, input))

\* VerifyRun: the report on file is the replayed one, and its event is on record.
VerifyRun(e, id) ==
    /\ id \in DOMAIN reports
    /\ LET input == reports[id].input
           stored == reports[id].report
       IN  /\ validateInput(input)
           /\ loadIndexedRecords(e)
           /\ stored = replayEvaluationEvidence(e, input)
           /\ Has(e, RunID(input, stored))
           /\ e[At(e, RunID(input, stored))].parents = RunParents(e, input)

-----------------------------------------------------------------------------
RunNext ==
    \/ \E population \in bound.populations : Promote(population)
    \/ Export
    \/ \E items \in bound.inventories : Reconcile(items)
    \/ \E x \in bound.attestations : RecordAttestation(<<"false_memory", x[1]>>, x[2])
    \/ \E p \in Procs :
           \/ \E id \in RunIDs, content \in DOMAIN manifests :
                  \/ BeginPrepare(p, id, content)
                  \/ \E minimum \in bound.minimums : PrepareBaseline(p, id, content, minimum)
           \/ DerivePopulation(p)
           \/ \E input \in inputs : BeginRun(p, input)
           \/ \E dies \in BOOLEAN : FinishRun(p, dies)

Next ==
    \/ TrialNext /\ UNCHANGED <<corpusVars, runVars>>
    \/ CorpusNext /\ UNCHANGED runVars
    \/ RunNext

Spec == Init /\ [][Next]_vars

-----------------------------------------------------------------------------
(* Properties.                                                             *)

RunEvents(e) == OfKind(e, "evaluation_run")
Current(report) == report.issues \cap {<<"stale">>, <<"stale under lock">>, <<"population replay failed">>, <<"corpus">>} = {}

\* A report that does not call itself stale describes the ledger it was recorded
\* in: only other reports lie between its prefix and its event, its cases are all
\* those of that prefix with no memory measured as active, and unless one is active
\* the replay finds no difference, however prepare, run and other commands
\* interleave.
ReportsDescribeTheirPrefix ==
    \A i \in RunEvents(evidence) :
        LET input == evidence[i].body.input
            b == input.population
        IN  (input.profile = "continuous" /\ Current(evidence[i].body.report)) =>
                /\ \A k \in b.prefix + 1..i - 1 : evidence[k].kind = "evaluation_run"
                /\ input.cases = PopulationCases(SubSeq(evidence, 1, b.prefix), input.content,
                                                NoneActive(b.portable), b.inventory)
                /\ b.portable = NoneActive(b.portable) =>
                       <<"population differs">> \notin evidence[i].body.report.issues

\* The report of a run id stays what it was, and verifies at every later time as
\* long as no memory is promoted, although sources, attestations and trials go on
\* changing the ledger.
ReportsKeepVerifying ==
    \A i \in RunEvents(evidence) :
        LET input == evidence[i].body.input
        IN  /\ reports[input.id] = evidence[i].body
            /\ ( /\ Current(evidence[i].body.report) /\ loadIndexedRecords(evidence)
                 /\ input.profile = "continuous" => input.population.portable = LocalPopulation(evidence) )
               => VerifyRun(evidence, input.id)

\* A report is ready only for what was observed: every gate of its thresholds has
\* cases behind it, and the measured share meets the threshold. The rollouts of a
\* baseline are the ones of the frozen corpus. No continuous report is ready.
ReadyMeansMeasured ==
    \A i \in RunEvents(evidence) : evidence[i].body.report.ready =>
        LET input == evidence[i].body.input
            minimum == input.thresholds.capture_coverage
            rollouts == input.content.rollouts
        IN  /\ input.profile = "component"
            /\ rollouts # {}
            /\ Cardinality({r \in rollouts : r.status = "captured"}) * minimum[2]
                   >= minimum[1] * Cardinality(rollouts)

\* An input with all six categories and both frozen controls can be run
\* (docs/evaluation.md: a population is evaluated against the frozen controls).
ControlsCanBeEvaluated ==
    \A input \in inputs :
        ( /\ input.profile = "continuous"
          /\ \A category \in Categories : Of(input.cases, category) # {}
          /\ \A label \in {"drift", "preserved"} : <<"frozen control", label>> \notin input.population.issues )
        => validateInput(input)
=============================================================================
