--------------------------- MODULE EvaluationCorpus ---------------------------
(***************************************************************************)
(* The evidence an evaluation is measured against: the frozen copy of the  *)
(* legacy journal (corpus.go), the generations of the episode detector     *)
(* (episodes/build.go, audit.go) and the sealed labels of the compactions  *)
(* of the corpus (compaction_truth.go, compaction_population.go).          *)
(*                                                                         *)
(* A label counts as blind if the detector had not seen its compaction     *)
(* when the labels were sealed.  A build first records that it starts,     *)
(* then reads the ledger, publishes its generation by a rename, and last   *)
(* records the generation, if the ledger is still the one it read.         *)
(*                                                                         *)
(* A rollout is a file of lines; a range <<a, b>> has the lines a to b-1.  *)
(***************************************************************************)
EXTENDS TrialAttempts, Functions, Ordering

CONSTANT
    Rollouts   \* the transcript files, each a sequence of the kinds of its lines

\* The lines are those of a conversation, and an import takes lines that are there.
ASSUME RolloutAssumption ==
    /\ \A path \in DOMAIN Rollouts : \A k \in DOMAIN Rollouts[path] : Rollouts[path][k] \notin CommandKinds
    /\ \A b \in Profiles : \A x \in b.imports :
           /\ x[2] \in Nat \X Nat /\ x[2][1] <= x[2][2]
           /\ x[1] \in DOMAIN Rollouts /\ x[2][1] + 1..x[2][2] \subseteq DOMAIN Rollouts[x[1]]

\* The journal has finitely many cards and an index of lines, whatever its hook writes.
ASSUME JournalAssumption ==
    \A b \in Profiles :
        /\ \A j \in {b.journal} \cup b.writes :
               IsFiniteSet(DOMAIN j.cards) /\ j.index \in Seq({j.index[k] : k \in 1..Len(j.index)})
        /\ b.limits \subseteq Nat
        /\ \A content \in DOMAIN b.manifests : IsFiniteSet(content.rollouts)

VARIABLES
    journal,     \* the legacy journal: its index, and what each card file holds
    manifests,   \* derived/evaluations/corpora: the manifest of each frozen content
    generations  \* derived/generations: the prefix of each, with the marker of its build
                 \* and the length of the ledger when it was published

corpusVars == <<journal, manifests, generations>>

CorpusInit ==
    /\ journal = bound.journal
    /\ manifests = bound.manifests
    /\ generations = {}

-----------------------------------------------------------------------------
(* Capture of rollouts, as the importer and source recovery record it.     *)

Captured(id, kind, by, path, range, parents, complete) ==
    Event(id, kind, <<"rollout", path>>, by, parents, kind,
          [path |-> path, range |-> range, complete |-> complete])

\* A segment: its snapshot and the events of its lines, in one batch.
Import(path, range, complete) ==
    LET lines == [k \in 1..range[2] - range[1] |->
                     Captured(<<"line", Next1 + k>>, Rollouts[path][range[1] + k], "importer",
                              path, <<range[1] + k - 1, range[1] + k>>, {Next1}, TRUE)]
    IN  /\ work < bound.work /\ Next1 + Len(lines) <= bound.records
        /\ evidence' = evidence \o
               <<Captured(Fresh("segment"), "snapshot", "importer", path, range, {}, complete)>> \o lines
        /\ work' = work + 1
        /\ UNCHANGED <<pc, job, handed, runs, aborts, bound, corpusVars>>

\* Source recovery found no file for the path.
RecordMissing(path) ==
    /\ work < bound.work
    /\ Append1(Captured(Fresh("gap"), "gap", "recovery", path, <<0, 0>>, {}, FALSE))
    /\ work' = work + 1
    /\ UNCHANGED <<pc, job, handed, runs, aborts, bound, corpusVars>>

\* The hook that keeps the journal adds to a card or to the index.
WriteJournal(after) ==
    /\ work < bound.work
    /\ journal' = after
    /\ work' = work + 1
    /\ UNCHANGED <<evidence, pc, job, handed, runs, aborts, bound, manifests, generations>>

-----------------------------------------------------------------------------
(* Rollouts of a corpus.                                                   *)

Segments(e, path) == {i \in OfKind(e, "snapshot") : e[i].by = "importer" /\ e[i].body.path = path}
MissingGaps(e, path) == {i \in OfKind(e, "gap") : e[i].by = "recovery" /\ e[i].body.path = path}
Projected(e, path) ==
    {i \in DOMAIN e : e[i].by = "importer" /\ e[i].kind # "snapshot" /\ e[i].body.path = path}

\* mergeRanges: in the order of their starts, a range that begins within the
\* last one extends it.
mergeRange(merged, r) ==
    IF merged = <<>> \/ r[1] > Last(merged)[2] THEN Append(merged, r)
    ELSE [merged EXCEPT ![Len(merged)] = <<@[1], IF r[2] > @[2] THEN r[2] ELSE @[2]>>]
byStart(ranges) == {p \in ranges \X ranges : p[1][1] < p[2][1] \/ (p[1][1] = p[2][1] /\ p[1][2] < p[2][2])}
mergeRanges(ranges) ==
    FoldLeft(LAMBDA merged, r : mergeRange(merged, r), <<>>, SortedBy(ranges, byStart(ranges)))

rangesBeginAtZeroAndContiguous(ranges) == Len(ranges) = 1 /\ ranges[1][1] = 0 /\ ranges[1][2] > 0

rangeCovered(range, ranges) ==
    \E k \in DOMAIN ranges : range[1] >= ranges[k][1] /\ range[2] <= ranges[k][2]

\* RolloutReference
RolloutReference(e, path) ==
    LET segments == Segments(e, path)
        ranges == mergeRanges({e[i].body.range : i \in segments})
    IN  [path |-> path, segments |-> segments, gaps |-> MissingGaps(e, path),
         projected |-> Projected(e, path), ranges |-> ranges,
         status |-> CASE segments = {} -> "missing"
                      [] (\E i \in segments : ~e[i].body.complete)
                         \/ ~rangesBeginAtZeroAndContiguous(ranges) -> "partial"
                      [] OTHER -> "captured"]

-----------------------------------------------------------------------------
(* FreezeLegacyCorpus.                                                     *)

\* An entry of the index names a card and a rollout; a line may be no entry.
BadLine == [card |-> "none", path |-> "none"]
Entries(index) == {k \in DOMAIN index : index[k] # BadLine}

\* An artifact is a file with the bytes that were preserved of it.
SnapshotID(artifact) == <<"legacy", artifact>>
Artifact(file, bytes) == [file |-> file, bytes |-> bytes]

\* limitLegacyIndexData counts the lines, entries or not.
limitLegacyIndexData(index, limit) == IF limit = 0 THEN index ELSE SubSeq(index, 1, limit)

\* collectLegacyCards, trustedLegacyCardPath: all card files, or those the limited
\* index names.
collectLegacyCards(index, limit) ==
    IF limit = 0 THEN DOMAIN journal.cards
    ELSE {index[k].card : k \in Entries(index)} \cap DOMAIN journal.cards

\* The index is read, and the names of the cards.
BeginFreeze(p, limit) ==
    /\ Idle(p, "freeze")
    /\ limit <= Len(journal.index)
    /\ LET index == limitLegacyIndexData(journal.index, limit)
       IN  job' = [job EXCEPT ![p].held =
               [limit |-> limit, index |-> index, files |-> collectLegacyCards(index, limit)]]
    /\ Goto(p, "cards")
    /\ UNCHANGED <<evidence, handed, runs, aborts, work, bound, corpusVars>>

ReadCards(p) ==
    /\ pc[p] = "cards"
    /\ LET h == job[p].held
       IN  job' = [job EXCEPT ![p].held =
               [limit |-> h.limit, index |-> h.index,
                artifacts |-> {Artifact("index", h.index)} \cup
                              {Artifact(f, journal.cards[f]) : f \in h.files},
                changed |-> {}]]
    /\ Goto(p, "plan")
    /\ UNCHANGED <<evidence, handed, runs, aborts, work, bound, corpusVars>>

\* planSnapshot: a file of another size than what was read changed meanwhile;
\* the index is compared only if all of it was read.
Changed(artifact, limit) ==
    IF artifact.file = "index" THEN limit = 0 /\ Len(journal.index) # Len(artifact.bytes)
    ELSE Len(journal.cards[artifact.file]) # Len(artifact.bytes)
PlanSnapshots(p) ==
    /\ pc[p] = "plan"
    /\ job' = [job EXCEPT ![p].held.changed = {a \in job[p].held.artifacts : Changed(a, job[p].held.limit)}]
    /\ Goto(p, "freeze")
    /\ UNCHANGED <<evidence, handed, runs, aborts, work, bound, corpusVars>>

\* The snapshots that are not on record yet.
PendingSnapshots(h) ==
    LET missing == SetToSeq({a \in h.artifacts : ~Has(evidence, SnapshotID(a))})
    IN  [k \in DOMAIN missing |->
            Event(SnapshotID(missing[k]), "snapshot", <<"journal">>, "legacy", {}, "snapshot",
                  [path |-> missing[k].file, range |-> <<0, Len(missing[k].bytes)>>,
                   complete |-> missing[k] \notin h.changed])]

\* The content of a corpus, whose hash is its id: not the ledger it was frozen at.
Content(h, e) ==
    [limit |-> h.limit, artifacts |-> h.artifacts,
     rollouts |-> {RolloutReference(e, path) : path \in {h.index[k].path : k \in Entries(h.index)}}]
CorpusManifest(h, e) ==
    [content |-> Content(h, e), anchor |-> Len(e), entries |-> Cardinality(Entries(h.index))]

\* validateCorpusManifest
validateCorpusManifest(m) == m.content.limit \in {0, m.entries}

\* What a corpus names is there.
OnRecord(e, content) ==
    /\ \A a \in content.artifacts : Has(e, SnapshotID(a))
    /\ \A r \in content.rollouts :
           r.segments \subseteq Segments(e, r.path) /\ r.gaps \subseteq MissingGaps(e, r.path)

\* VerifyCorpus: the freeze event has this manifest, and what it names is there.
VerifyCorpus(e, content) ==
    /\ content \in DOMAIN manifests
    /\ LET m == manifests[content]
       IN  /\ validateCorpusManifest(m)
           /\ OnRecord(e, content)
           /\ Has(e, <<"corpus", m>>)
           /\ m.anchor \in DOMAIN e

\* Mutation: a content that is already frozen is frozen again.
AlreadyFrozen_no(content) == FALSE

AlreadyFrozen(content) == content \in DOMAIN manifests

\* From the scan to the freeze event the writer lock is held. The process may
\* die, or an append fail, after the snapshots or after the manifest.
Freeze(p, cut) ==
    /\ pc[p] = "freeze"
    /\ LET e == evidence \o PendingSnapshots(job[p].held)
           m == CorpusManifest(job[p].held, e)
           event == Event(<<"corpus", m>>, "corpus", <<"journal">>, "legacy", {}, "corpus", m)
       IN  /\ Len(e) < bound.records
           /\ CASE cut = "snapshots" \/ AlreadyFrozen(m.content) -> evidence' = e /\ UNCHANGED manifests
                [] OTHER -> /\ manifests' = [x \in DOMAIN manifests \cup {m.content} |->
                                                IF x = m.content THEN m ELSE manifests[x]]
                            /\ evidence' = IF cut = "manifest" THEN e ELSE Append(e, event)
    /\ IF cut = "none" THEN UNCHANGED aborts ELSE aborts < bound.aborts /\ aborts' = aborts + 1
    /\ Return(p)
    /\ UNCHANGED <<handed, runs, work, bound, journal, generations>>

-----------------------------------------------------------------------------
(* Generations of the episode detector (episodes.Build).                   *)

Markers(e) == OfKind(e, "generation_attempt")
Audits(e) == OfKind(e, "generation")

\* loadLastAuditedGeneration: nothing is built when the last event is an audit,
\* unless a rebuild is asked for.
NeedsBuild(rebuild) == rebuild \/ Len(evidence) \notin Audits(evidence)

\* What a build holds; a command that calls it goes on with its order.
NewBuild(then, order) == [marker |-> NoEvent, prefix |-> 0, then |-> then, order |-> order]

BeginBuild(p, rebuild) ==
    /\ Idle(p, "build")
    /\ NeedsBuild(rebuild)
    /\ job' = [job EXCEPT ![p].held = NewBuild("idle", <<>>)]
    /\ Goto(p, "mark")
    /\ UNCHANGED <<evidence, handed, runs, aborts, work, bound, corpusVars>>

\* recordGenerationAttempt
MarkBuild(p) ==
    /\ pc[p] = "mark"
    /\ Append1(Event(<<"generation_attempt", Len(evidence)>>, "generation_attempt", <<"detector">>,
                     "detector", {}, "prefix", Len(evidence)))
    /\ job' = [job EXCEPT ![p].held.marker = Next1]
    /\ Goto(p, "scan")
    /\ UNCHANGED <<handed, runs, aborts, work, bound, corpusVars>>

\* VisitRecords reads the ledger as it is now.
ScanLedger(p) ==
    /\ pc[p] = "scan"
    /\ job' = [job EXCEPT ![p].held.prefix = Len(evidence)]
    /\ Goto(p, "publish")
    /\ UNCHANGED <<evidence, handed, runs, aborts, work, bound, corpusVars>>

\* The rename publishes the generation; one of the same prefix is reused.
PublishGeneration(p) ==
    /\ pc[p] = "publish"
    /\ LET h == job[p].held
       IN  generations' = IF \E g \in generations : g.prefix = h.prefix THEN generations
                          ELSE generations \cup {[prefix |-> h.prefix, marker |-> h.marker, at |-> Len(evidence)]}
    /\ Goto(p, "audit")
    /\ UNCHANGED <<evidence, job, handed, runs, aborts, work, bound, journal, manifests>>

\* recordGenerationAudit: a generation the ledger has outgrown is not recorded,
\* and the command fails.
AuditGeneration(p) ==
    /\ pc[p] = "audit"
    /\ LET n == job[p].held.prefix
       IN  IF Len(evidence) = n
           THEN /\ Append1(Event(<<"generation", n>>, "generation", <<"detector">>, "detector", {}, "prefix", n))
                /\ IF job[p].held.then = "idle" THEN Return(p) ELSE Goto(p, job[p].held.then) /\ UNCHANGED job
           ELSE UNCHANGED evidence /\ Return(p)
    /\ UNCHANGED <<handed, runs, aborts, work, bound, corpusVars>>

-----------------------------------------------------------------------------
(* Ground truth of compactions.                                            *)

\* frozenCorpusCompactionRecords
FrozenCompactions(e, m) ==
    {i \in 1..m.anchor :
        /\ e[i].kind = "compaction"
        /\ \E r \in m.content.rollouts :
               r.status = "captured" /\ r.path = e[i].body.path /\ rangeCovered(e[i].body.range, r.ranges)}

\* A marker or an audit covers the prefix it names.
Covers(e, records, subjects) == \E k \in records, i \in subjects : i <= e[k].body

\* SealCompactionGroundTruth: the checks, on what was read, and the append.
BeginSeal(p, content) ==
    /\ Idle(p, "seal")
    /\ VerifyCorpus(evidence, content)
    /\ loadIndexedRecords(evidence)
    /\ LET subjects == FrozenCompactions(evidence, manifests[content])
       IN  /\ subjects # {}
           /\ ~Covers(evidence, Markers(evidence), subjects)
           /\ ~Covers(evidence, Audits(evidence), subjects)
           /\ \E labels \in [subjects -> bound.labels] :
                  job' = [job EXCEPT ![p].held = [content |-> content, labels |-> labels]]
    /\ Goto(p, "seal")
    /\ UNCHANGED <<evidence, handed, runs, aborts, work, bound, corpusVars>>

AppendSeal(p) ==
    /\ pc[p] = "seal"
    /\ Append1(Event(Fresh("truth"), "truth", <<"truth">>, "human", DOMAIN job[p].held.labels, "truth",
                     job[p].held))
    /\ Return(p)
    /\ UNCHANGED <<handed, runs, aborts, work, bound, corpusVars>>

\* loadSealedCompactionGroundTruth: the first pack of the corpus, if it is the
\* only one and labels exactly the frozen compactions.
Truths(e, content) == {i \in OfKind(e, "truth") : e[i].body.content = content}
SealedTruth(e, content) ==
    /\ Cardinality(Truths(e, content)) = 1
    /\ \A t \in Truths(e, content) :
           DOMAIN e[t].body.labels = FrozenCompactions(e, manifests[content])

\* Mutation: only audits disqualify a pack.
DetectedBefore_auditsOnly(e, t) == Covers(e, {k \in Audits(e) : k < t}, DOMAIN e[t].body.labels)

\* buildCompactionPopulation: the detector had access before the pack t.
DetectedBefore(e, t) ==
    Covers(e, {k \in Markers(e) \cup Audits(e) : k < t}, DOMAIN e[t].body.labels)

\* The labels of a corpus count.
Accepted(e, content) ==
    /\ SealedTruth(e, content)
    /\ \A t \in Truths(e, content) : ~DetectedBefore(e, t)

-----------------------------------------------------------------------------
CorpusNext ==
    \/ \E x \in bound.imports : Import(x[1], x[2], x[3])
    \/ \E path \in bound.missing : RecordMissing(path)
    \/ \E after \in bound.writes : WriteJournal(after)
    \/ \E p \in Procs :
           \/ \E limit \in bound.limits : BeginFreeze(p, limit)
           \/ ReadCards(p)
           \/ PlanSnapshots(p)
           \/ \E cut \in {"none", "snapshots", "manifest"} : Freeze(p, cut)
           \/ \E rebuild \in BOOLEAN : BeginBuild(p, rebuild)
           \/ MarkBuild(p)
           \/ ScanLedger(p)
           \/ PublishGeneration(p)
           \/ AuditGeneration(p)
           \/ \E content \in DOMAIN manifests : BeginSeal(p, content)
           \/ AppendSeal(p)

-----------------------------------------------------------------------------
(* What an execution may start with: captures and corpora as earlier       *)
(* commands left them.                                                     *)

Lines(e, segments) == UNION {e[i].body.range[1]..e[i].body.range[2] - 1 : i \in segments}

\* A rollout called captured has every line from the first on, under complete snapshots.
Whole(e, r) ==
    r.status = "captured" =>
        /\ Lines(e, r.segments) = 0..r.ranges[1][2] - 1
        /\ \A k \in r.segments : e[k].body.complete

\* The range of a segment is one.
RangesOnRecord(e) ==
    \A i \in OfKind(e, "snapshot") : e[i].by = "importer" =>
        /\ e[i].body.range \in Nat \X Nat
        /\ e[i].body.range[1] <= e[i].body.range[2]

\* The manifest of a freeze event is on file, and what it says of the ledger is so.
CorporaOnRecord(e, files) ==
    \A i \in OfKind(e, "corpus") :
        LET m == e[i].body
        IN  /\ e[i].id = <<"corpus", m>> /\ m.anchor \in DOMAIN e
            /\ m.content \in DOMAIN files /\ files[m.content] = m
            /\ OnRecord(e, m.content)
            /\ \A r \in m.content.rollouts : Whole(e, r)

ASSUME CorpusAssumption ==
    \A b \in Profiles : RangesOnRecord(b.history) /\ CorporaOnRecord(b.history, b.manifests)

-----------------------------------------------------------------------------
(* Properties.                                                             *)

\* A corpus that was frozen stays frozen: the manifest on file is the one of the
\* freeze event and verifies, whatever other freezes, imports and interruptions
\* follow, and a rollout it calls captured has every line from the first on
\* under complete snapshots. (A limited index with a line that is no entry is
\* the exception: its manifest never verifies.)
FrozenCorporaVerify ==
    \A i \in OfKind(evidence, "corpus") :
        LET m == evidence[i].body
        IN  /\ manifests[m.content] = m
            /\ validateCorpusManifest(m) => VerifyCorpus(evidence, m.content)
            /\ \A r \in m.content.rollouts : Whole(evidence, r)

PublishedBefore(t) == {g \in generations : g.at < t}

\* Labels that count were sealed before the detector had published anything over
\* their compactions, crashed and stale builds included, by builds that read the
\* ledger just as they found it when they recorded their start (audit.go,
\* compaction_truth.go).
QuietTruthIsBlind ==
    \A content \in DOMAIN manifests : Accepted(evidence, content) =>
        \A t \in Truths(evidence, content), g \in PublishedBefore(Max(Truths(evidence, content))) :
            g.prefix = g.marker => \A i \in DOMAIN evidence[t].body.labels : i > g.prefix
=============================================================================
