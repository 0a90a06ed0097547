-------------------------- MODULE EvaluationMetrics --------------------------
(***************************************************************************)
(* The metrics and gates of an evaluation (metrics.go): what a set of      *)
(* cases measures, when an input is well formed, and when its gates pass.  *)
(*                                                                         *)
(* A metric is a fraction <<numerator, denominator>>; one without eligible *)
(* observations has the denominator 0.  The rounding of quotients is left  *)
(* out.  The score of a trial is kept as half points over results.         *)
(***************************************************************************)
EXTENDS Integers, FiniteSets, FiniteSetsExt

Categories == {"capture_coverage", "false_memory", "repeated_correction", "compaction_drift",
               "retrieval_cost", "paired_outcome"}

Of(cases, category) == {c \in cases : c.category = category}
Total(cases, F(_)) == FoldSet(LAMBDA c, sum : sum + F(c), 0, cases)
Count(cases, P(_)) == Cardinality({c \in cases : P(c)})

ratio(numerator, denominator) == <<numerator, denominator>>
Measured(fraction) == fraction[2] > 0
Plus(f, g) == <<f[1] * g[2] + g[1] * f[2], f[2] * g[2]>>

\* The difference of the scores of a pair.
ScoreDelta(c) ==
    Plus(<<c.measure.treatment.halves, 2 * c.measure.treatment.results>>,
         <<-c.measure.baseline.halves, 2 * c.measure.baseline.results>>)

\* Calculate: the gated metrics of the cases.
Metrics(cases) ==
    LET capture == Of(cases, "capture_coverage")
        memory == Of(cases, "false_memory")
        unknown == Count(memory, LAMBDA c : c.measure.label = "unknown")
        corrections == Of(cases, "repeated_correction")
        opportunities == Cardinality(corrections)
        drift(expected, observed) ==
            Count(Of(cases, "compaction_drift"),
                  LAMBDA c : c.measure.expected = expected /\ c.measure.observed = observed)
        retrievals == Of(cases, "retrieval_cost")
        pairs == Of(cases, "paired_outcome")
        score == FoldSet(LAMBDA c, sum : Plus(ScoreDelta(c), sum), <<0, 1>>, pairs)
    IN  [capture_coverage |-> ratio(Total(capture, LAMBDA c : c.measure.complete),
                                    Total(capture, LAMBDA c : c.measure.expected)),
         false_memory_rate |->
             ratio(Count(memory, LAMBDA c : c.measure.label \in {"incorrect", "unsupported", "stale"}),
                   Cardinality(memory) - unknown),
         unknown_memory_rate |-> ratio(unknown, Cardinality(memory)),
         repeated_correction_rate |-> ratio(Count(corrections, LAMBDA c : c.measure.repeated), opportunities),
         compaction_drift_precision |->
             ratio(drift("drift", "drift"), drift("drift", "drift") + drift("preserved", "drift")),
         compaction_drift_recall |->
             ratio(drift("drift", "drift"), drift("drift", "drift") + drift("drift", "preserved")),
         mean_retrieval_tokens |-> ratio(Total(retrievals, LAMBDA c : c.measure.tokens), Cardinality(retrievals)),
         harmful_outcomes |-> ratio(Count(retrievals, LAMBDA c : c.measure.outcome = "harmful"),
                                    IF retrievals = {} THEN 0 ELSE 1),
         mean_outcome_score_delta |-> ratio(score[1], score[2] * Cardinality(pairs)),
         mean_correction_delta |->
             ratio(Total(pairs, LAMBDA c : c.measure.treatment.corrections - c.measure.baseline.corrections),
                   Cardinality(pairs)),
         correction_opportunities |-> ratio(opportunities, 1),
         paired_outcome_pairs |-> ratio(Cardinality(pairs), 1)]

-----------------------------------------------------------------------------
(* Gates.                                                                  *)

Minimums == {"capture_coverage", "compaction_drift_precision", "compaction_drift_recall",
             "mean_outcome_score_delta", "correction_opportunities", "paired_outcome_pairs"}

FixedContinuousLearningThresholds ==
    [capture_coverage |-> <<1, 1>>, false_memory_rate |-> <<0, 1>>, unknown_memory_rate |-> <<0, 1>>,
     repeated_correction_rate |-> <<1, 10>>, compaction_drift_precision |-> <<9, 10>>,
     compaction_drift_recall |-> <<9, 10>>, mean_retrieval_tokens |-> <<800, 1>>,
     harmful_outcomes |-> <<0, 1>>, mean_outcome_score_delta |-> <<1, 100>>,
     mean_correction_delta |-> <<-1, 100>>, correction_opportunities |-> <<20, 1>>,
     paired_outcome_pairs |-> <<10, 1>>]

AtLeast(f, g) == f[1] * g[2] >= g[1] * f[2]

\* Mutation: a metric without observations passes.
gate_unmeasured(name, threshold, actual) ==
    IF name \in Minimums THEN AtLeast(actual, threshold) ELSE AtLeast(threshold, actual)

gate(name, threshold, actual) ==
    /\ Measured(actual)
    /\ IF name \in Minimums THEN AtLeast(actual, threshold) ELSE AtLeast(threshold, actual)

gatesPassed(thresholds, metrics) ==
    /\ DOMAIN thresholds # {}
    /\ \A name \in DOMAIN thresholds : gate(name, thresholds[name], metrics[name])

-----------------------------------------------------------------------------
(* Inputs.                                                                 *)

validateCaseMeasurement(c) ==
    CASE c.category = "capture_coverage" ->
             c.measure.complete + c.measure.partial + c.measure.missing = c.measure.expected
      [] c.category = "false_memory" -> c.measure.active \/ c.measure.retrieved
      [] c.category = "repeated_correction" -> c.measure.initial # c.measure.followup
      [] c.category = "retrieval_cost" ->
             /\ c.measure.adopted => c.measure.items > 0
             /\ c.measure.adopted \/ c.measure.outcome = "unknown"
      [] c.category = "paired_outcome" -> c.measure.first # c.measure.second
      [] OTHER -> TRUE

\* The subjects a case measures; no other case of the input may measure them.
Claims(c) ==
    CASE c.category = "capture_coverage" -> {<<"capture", r>> : r \in c.evidence}
      [] c.category = "false_memory" -> {<<"memory", c.measure.memory>>}
      [] c.category = "repeated_correction" ->
             {<<"key", c.measure.key>>, <<"initial", c.measure.initial>>, <<"attempt", c.measure.followup>>}
      [] c.category = "compaction_drift" ->
             {<<"compaction", c.measure.checkpoint>>} \cup {<<"compaction_evidence", r>> : r \in c.evidence}
      [] c.category = "retrieval_cost" -> {<<"retrieval", c.measure.retrieval>>}
      [] c.category = "paired_outcome" ->
             {<<"pair", c.measure.pair>>, <<"paired", c.measure.first>>, <<"paired", c.measure.second>>}

\* What makes Calculate fail.
validateInput(input) ==
    /\ input.cases # {}
    /\ \A c \in input.cases :
           /\ c.evidence # {}
           /\ validateCaseMeasurement(c)
           /\ c.category = "false_memory" => \E r \in c.evidence : r[1] = "portable_revision"
    /\ \A c, d \in input.cases : c # d => c.id # d.id /\ Claims(c) \cap Claims(d) = {}
    /\ \A c, d \in Of(input.cases, "capture_coverage") : c.measure.unit = d.measure.unit
    /\ IF input.profile = "component"
       THEN \A c \in Of(input.cases, "capture_coverage") : c.measure.unit # "source_inventory_items"
       ELSE /\ \A category \in Categories : Of(input.cases, category) # {}
            /\ input.thresholds = FixedContinuousLearningThresholds
=============================================================================
