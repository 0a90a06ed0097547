----------------------------- MODULE MCEvaluation -----------------------------
(***************************************************************************)
(* Three legacy cards, the first of which is sampled, two rollouts, and    *)
(* two revisions of one memory.  The profiles of trials and of the corpus  *)
(* start with an empty ledger or a captured rollout; those of runs start   *)
(* with a finished pair whose memory is active or revoked, a frozen corpus *)
(* and, mostly, sealed labels.                                             *)
(***************************************************************************)
EXTENDS EvaluationRun, TLC

Good == <<"tool_result", "good">>
Bad == <<"tool_result", "bad">>
Edit == <<"file_change", "edit">>
Fix == <<"user_message", "fix">>
MCAllowedOrders == {<<Good>>, <<Bad>>, <<Edit, Good>>, <<Fix, Good>>}
MCResultLabels == "good" :> "success" @@ "bad" :> "error" @@ "edit" :> "neutral"
MCUserLabels == "fix" :> "correction"
MCPassThreshold == <<3, 4>>

MCRollouts == "one" :> <<"user_message", "compaction">> @@
              "two" :> <<"user_message", "compaction", "user_message", "compaction">>
MCContinuity == [path \in DOMAIN MCRollouts |-> [k \in 1..4 |-> IF k = 2 THEN "drift" ELSE "preserved"]]
MCMemoryOf == "fits" :> "m1" @@ "fits2" :> "m1" @@ "foreign" :> "m2"
MCTokens == "fits" :> 5 @@ "foreign" :> 5 @@ "none" :> 0

First == CHOOSE p \in Procs : TRUE
Trial == {"baseline", "memory", "observe", "finalize"}
Only(commands) == [p \in Procs |-> IF p = First THEN commands ELSE {}]
Pair(c) == [cards |-> {c}, shared |-> FALSE]
Shared(c) == [cards |-> {c}, shared |-> TRUE]
Draft(condition) == Arm(Unplanned, 1, condition)

-----------------------------------------------------------------------------
(* A pair that was executed, corrected once and finalized.                 *)

Active == "fits" :> TRUE
Revoked == "fits" :> FALSE
Promoted(n, population) ==
    Event(<<"promotion", n>>, "promotion", <<"memory">>, "promotion", {}, "promotion", population)
B == Arm(Pair(1), 1, "baseline")
M == Arm(Pair(1), 1, "memory")
Finished(arm, start, result, r) ==
    [arm |-> arm, start |-> start, result |-> result, outcome |-> "completed", payload |-> "good",
     retrieval |-> r.retrieval, injection |-> r.injection, memory |-> r.memory]
Finalized(e, r) ==
    LET v == Append(e, VerdictEvent(e, r.arm))
    IN  Append(v, Event(AttemptID(r), "attempt", ContextOf(r.arm), "evaluation", AttemptParents(v, r),
                        "attempt", deriveTaskAttempt(v, r)))
WithMemory == [arm |-> M, retrieval |-> 11, injection |-> 12, adoption |-> 16, memory |-> "fits"]
BaselineDone ==
    Finalized(<<Promoted(1, Active),
                Event(PlanID(Pair(1)), "plan", <<"plan">>, "evaluation", {}, "plan", Pair(1)),
                Event(ContractID(B), "contract", ContextOf(B), "oracle", {2}, "contract", B),
                Event(ContractID(M), "contract", ContextOf(M), "oracle", {2}, "contract", M),
                Supervised(<<"start", 5>>, "start", B, {3}, "start", [arm |-> B, memory |-> "none"]),
                Event(<<"user_message", 6>>, "user_message", ContextOf(B), "capture", {5}, "fix", "user_message"),
                Supervised(ResultID(B), "tool_result", B, {5}, "good", B),
                Supervised(<<"receipt", 8>>, "receipt", B, {5, 7}, "receipt", Finished(B, 5, 7, Request(B)))>>,
              Request(B))
PairDone ==
    Finalized(BaselineDone \o
        <<Event(<<"retrieval", 11>>, "retrieval", ContextOf(M), "retrieval", {}, "retrieval", [memory |-> "fits"]),
          Event(<<"injection", 12>>, "injection", ContextOf(M), "retrieval", {11}, "injection",
                [retrieval |-> 11, memory |-> "fits"]),
          Supervised(<<"start", 13>>, "start", M, {4, 12}, "start", [arm |-> M, memory |-> "fits"]),
          Supervised(ResultID(M), "tool_result", M, {13}, "good", M),
          Supervised(<<"receipt", 15>>, "receipt", M, {13, 14}, "receipt", Finished(M, 13, 14, WithMemory)),
          Event(<<"adoption", 16>>, "adoption", ContextOf(M), "retrieval", {11, 12, 14}, "adoption",
                [injection |-> 12, adopted |-> FALSE, outcome |-> "unknown"])>>,
        WithMemory)

PairRevoked == Append(PairDone, Promoted(Len(PairDone) + 1, Revoked))

PairRuns == <<[arm |-> B, start |-> 5, memory |-> "none", payload |-> "good"],
              [arm |-> M, start |-> 13, memory |-> "fits", payload |-> "good"]>>

\* The pair may be measured.
ASSUME PairAssumption == Eligible(PairDone)

\* A rollout captured as one segment, and a corpus whose index names it.
Journal(path) == [index |-> <<[card |-> "c1", path |-> path]>>, cards |-> "c1" :> <<1>>]
Imported(e, path) ==
    LET n == Len(e) + 1
    IN  e \o <<Captured(<<"segment", n>>, "snapshot", "importer", path, <<0, Len(MCRollouts[path])>>, {}, TRUE)>> \o
        [k \in DOMAIN MCRollouts[path] |->
            Captured(<<"line", n + k>>, MCRollouts[path][k], "importer", path, <<k - 1, k>>, {n}, TRUE)]
Held(path) == [limit |-> 0, index |-> Journal(path).index,
               artifacts |-> {Artifact("index", Journal(path).index), Artifact("c1", <<1>>)}]
Preserved(e, path) ==
    LET artifacts == SetToSeq(Held(path).artifacts)
    IN  e \o [k \in DOMAIN artifacts |->
                 Event(SnapshotID(artifacts[k]), "snapshot", <<"journal">>, "legacy", {}, "snapshot",
                       [path |-> artifacts[k].file, range |-> <<0, 1>>, complete |-> TRUE])]
ManifestOf(e, path) == CorpusManifest(Held(path), Preserved(Imported(e, path), path))
Frozen(e, path) ==
    LET m == ManifestOf(e, path)
    IN  Append(Preserved(Imported(e, path), path),
               Event(<<"corpus", m>>, "corpus", <<"journal">>, "legacy", {}, "corpus", m))
Sealed(e, path) ==
    LET m == ManifestOf(e, path)
        f == Frozen(e, path)
        labels == [i \in FrozenCompactions(f, m) |->
                      MCContinuity[path][f[i].body.range[2]]]
    IN  Append(f, Event(<<"truth", Len(f) + 1>>, "truth", <<"truth">>, "human", DOMAIN labels, "truth",
                        [content |-> m.content, labels |-> labels]))

-----------------------------------------------------------------------------
Quiet == [may |-> Only({}), plans |-> {}, drafts |-> {}, records |-> 0, aborts |-> 0, work |-> 0,
          outputs |-> {}, memories |-> {}, observed |-> {}, events |-> {}, deliver |-> FALSE, outcomes |-> {},
          history |-> <<>>, ran |-> <<>>, manifests |-> None, journal |-> Journal("one"), imports |-> {}, missing |-> {},
          writes |-> {}, limits |-> {}, labels |-> {}, repository |-> None, populations |-> {},
          inventory |-> None, inventories |-> {}, attestations |-> {}, minimums |-> {}]

Trials == [Quiet EXCEPT !.may = Only(Trial), !.plans = {Pair(1)}, !.records = 16,
                        !.outputs = {"good", "bad"}, !.memories = {"fits"}]
TrialProfiles ==
    {[Trials EXCEPT !.may = [p \in Procs |-> IF p = First THEN Trial ELSE {"baseline"}], !.aborts = 1,
                    !.outputs = {"good"}, !.records = 17],
     [Trials EXCEPT !.aborts = 1, !.outputs = {"good", "failure"}, !.memories = {"fits", "foreign", "none"}],
     [Trials EXCEPT !.may = [p \in Procs |-> IF p = First THEN Trial ELSE {"finalize"}], !.work = 1,
                    !.outputs = {"good"}, !.outcomes = {"helpful"}, !.records = 17],
     [Trials EXCEPT !.observed = {"good"}, !.outputs = {"good"}, !.work = 1, !.records = 17,
                    !.events = {Edit, Fix, <<"gap", "lost">>}],
     [Trials EXCEPT !.plans = {Shared(1)}, !.deliver = TRUE, !.outcomes = {"helpful"}, !.work = 2,
                    !.outputs = {"good"}, !.records = 12],
     [Trials EXCEPT !.may = [p \in Procs |-> Trial], !.plans = {}, !.drafts = {Draft("baseline"), Draft("memory")},
                    !.work = 3, !.deliver = TRUE, !.outcomes = {"helpful"}, !.observed = {"good", "bad"}, !.records = 8]}

\* Two freezes of a journal that grows, and one while its rollout is captured in pieces.
Freezes == [Quiet EXCEPT !.limits = {0, 1}, !.aborts = 1, !.records = 8]
CorpusProfiles ==
    {[Freezes EXCEPT !.may = [p \in Procs |-> {"freeze"}], !.work = 1,
                     !.writes = {[Journal("one") EXCEPT !.cards = "c1" :> <<1, 2>>],
                                 [Journal("one") EXCEPT !.index = <<BadLine>> \o @]}],
     [Freezes EXCEPT !.may = Only({"freeze"}), !.work = 3, !.limits = {0}, !.missing = {"one"}, !.records = 11,
                     !.imports = {<<"one", <<0, 1>>, TRUE>>, <<"one", <<1, 2>>, FALSE>>, <<"one", <<1, 2>>, TRUE>>}]}

\* Detector builds and the sealing of labels, over a corpus that is frozen.
DetectorProfiles ==
    {[Quiet EXCEPT !.may = [p \in Procs |-> IF p = First THEN {"build"} ELSE {"freeze", "seal"}],
                   !.history = Imported(<<>>, "one"), !.records = 9, !.aborts = 1, !.limits = {0}, !.labels = {"drift"}],
     [Quiet EXCEPT !.may = [p \in Procs |-> IF p = First THEN {"build"} ELSE {"build", "seal"}],
                   !.history = Frozen(<<>>, "one"), !.records = 10, !.aborts = 1, !.labels = {"drift", "preserved"},
                   !.manifests = ManifestOf(<<>>, "one").content :> ManifestOf(<<>>, "one")]}

Supported == [memory |-> "m1", label |-> "supported", retrieved |-> TRUE, active |-> FALSE]
Available(path) == [status |-> "available", lines |-> MCRollouts[path]]
Lost == [status |-> "missing", lines |-> <<>>]
Runs(e, population, path) ==
    [Quiet EXCEPT !.history = Sealed(e, path), !.ran = PairRuns,
                  !.records = Len(Sealed(e, path)) + 5,
                  !.manifests = ManifestOf(e, path).content :> ManifestOf(e, path),
                  !.repository = population, !.inventory = path :> Available(path),
                  !.attestations = {<<"fits", Supported>>}, !.work = 1]
RunProfiles ==
    {[Runs(PairRevoked, Revoked, "one") EXCEPT
          !.may = [p \in Procs |-> IF p = First THEN {"prepare", "evaluate"} ELSE {"evaluate"}], !.aborts = 1],
     [Runs(PairDone, Active, "one") EXCEPT
          !.may = Only({"prepare", "evaluate"}), !.populations = {"fits" :> FALSE @@ "fits2" :> TRUE},
          !.inventories = {"one" :> Available("one"), "one" :> Lost}, !.work = 2,
          !.attestations = {}, !.records = @ - 1]}
BaselineProfiles ==
    {[Runs(PairDone, Active, "one") EXCEPT
          !.may = [p \in Procs |-> {"baseline_input", "evaluate"}], !.aborts = 1, !.minimums = {<<1, 1>>}],
     [Quiet EXCEPT !.may = Only({"freeze", "baseline_input", "evaluate"}), !.limits = {0}, !.minimums = {<<1, 1>>},
                   !.journal = [index |-> <<BadLine>>, cards |-> None], !.records = 4]}

\* Both controls are frozen.
MCControls == {[Runs(PairDone, Active, "two") EXCEPT !.may = Only({"prepare"})]}
MCProfiles == TrialProfiles \cup CorpusProfiles \cup DetectorProfiles \cup RunProfiles \cup BaselineProfiles
=============================================================================
