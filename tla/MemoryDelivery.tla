--------------------------- MODULE MemoryDelivery ---------------------------
(***************************************************************************)
(* Delivery of promoted memory and its traces in the evidence ledger:      *)
(* searches, rendered contexts and their injections, the injection hook    *)
(* (internal/hookinject), contexts of a pinned loadout (internal/loadout)  *)
(* and adoption receipts (internal/retrieval).  The repository that is     *)
(* searched is the one of PortableRepository, with its exports going on;   *)
(* nothing here takes its lock.  Every append is tried six times while     *)
(* another process holds the writer lock of the ledger, and then fails.    *)
(***************************************************************************)
EXTENDS PortableRepository, Retrieval

CONSTANTS
    Readers,      \* processes that search, render and inject
    Threads,      \* threads agents work in
    Scenarios,    \* initial repositories, requests and bounds, one chosen at the start
    Items         \* what an adoption request may say of memories: sets of items

\* A request within the limits that normalizeRequest allows.
Requests(queries) ==
    \A q \in queries :
        /\ q = [memory |-> "none", terms |-> q.terms, context |-> q.context,
                limit |-> q.limit, budget |-> q.budget]
        /\ q.limit \in Nat \ {0} /\ q.budget \in Sizes

\* A scenario: exported histories, loadouts of their heads, the bounds that are
\* left, and what the readers and agents do: the events of the agents are not those
\* of the commands.
ASSUME ScenarioAssumption ==
    \A s \in Scenarios :
        /\ IsFiniteSet(s.histories)
        /\ \A h \in s.histories : IsRevision(h)
        /\ Consistent(Projections(s.histories))
        /\ \A l \in s.loadouts : l # {} /\ l \subseteq ActiveHeads(Projections(s.histories))
        /\ s.readers \subseteq Readers /\ Requests(s.requests)
        /\ s.work \subseteq {"tool_result", "file_change", "incomplete_result", "message"}
        /\ s.decisions \in 0..MaxLocal /\ s.crashes \in 0..MaxCrashes /\ s.failures \in 0..MaxFailures

VARIABLES
    evidence,   \* the records of the evidence ledger that matter here
    call,       \* what each reader is doing
    scenario    \* the bounds of this execution

deliveryVars == <<evidence, call, scenario>>

None == 0
Kinds(e, kind) == {i \in DOMAIN e : e[i].kind = kind}
Thread(request) == request.context.task

-----------------------------------------------------------------------------
(* Records.                                                                *)

RetrievalEvent(request, result) ==
    [kind |-> "retrieval", request |-> request, result |-> result,
     thread |-> Thread(request), parents |-> {}]

InjectionEvent(retrieval, request, context) ==
    [kind |-> "injection", retrieval |-> retrieval, memories |-> context.memories,
     size |-> context.size, thread |-> Thread(request), parents |-> {retrieval}]

\* The receipt of a loadout context.
ContextEvent(loadout, request, receipts, memories) ==
    [kind |-> "loadout_context", loadout |-> loadout, request |-> request,
     retrievals |-> receipts, memories |-> memories, thread |-> Thread(request),
     parents |-> {receipts[i] : i \in DOMAIN receipts}]

\* appendAdoptionEvent
AdoptionEvent(q, thread) ==
    [kind |-> "adoption", retrieval |-> q.retrieval, injection |-> q.injection,
     items |-> q.items, outcomes |-> q.outcomes, thread |-> thread,
     parents |-> ({q.retrieval, q.injection} \cup q.outcomes) \ {None}]

AgentEvent(kind, thread, parents) == [kind |-> kind, thread |-> thread, parents |-> parents]

-----------------------------------------------------------------------------
(* Adoption.                                                               *)

Claims(items) == {item \in items : item.outcome # "unknown"}

\* validateAdoptionRequest
validateAdoptionRequest(q) ==
    /\ q.items # {}
    /\ \A i, j \in q.items : i.revision = j.revision => i = j
    /\ \A i \in Claims(q.items) : i.adoption = "adopted"
    /\ Claims(q.items) # {} => q.injection # None /\ q.outcomes # {}
    /\ Cardinality(Claims(q.items)) <= 1

\* The delivery an adoption refers to, and the memories it may speak of.
Delivery(q) == IF q.injection # None THEN q.injection ELSE q.retrieval

Delivered(e, q) == IF q.injection # None THEN Range(e[q.injection].memories)
                   ELSE References(e[q.retrieval].result.selected)

\* An injection is the deterministic rendering of its retrieval.
InjectionFits(e, i) ==
    LET r == e[i].retrieval
        expected == renderBoundedContext(e[r].result, e[r].request)
    IN  /\ r \in Kinds(e, "retrieval") /\ r < i
        /\ e[i].thread = e[r].thread /\ e[i].parents = {r}
        /\ Range(e[i].memories) \subseteq References(e[r].result.selected)
        /\ e[i].memories = expected.memories /\ e[i].size = expected.size
        /\ e[i].memories # <<>>

\* Mutation: whether a result is complete is not looked at.
verifyOutcomeEvidence_incomplete(event) ==
    event.kind \in {"tool_result", "file_change", "incomplete_result"}

\* verifyOutcomeEvidence: only results that were recorded completely prove an
\* outcome; one that was cut short or has no payload is an incomplete_result.  The
\* bytes of a recorded payload do not change.
verifyOutcomeEvidence(event) == event.kind \in {"tool_result", "file_change"}

\* An outcome event of an adoption request or receipt.
OutcomeFits(e, q, o) ==
    /\ o \in DOMAIN e /\ o > Delivery(q)
    /\ e[o].thread = e[q.retrieval].thread
    /\ verifyOutcomeEvidence(e[o])
    /\ eventDescendsFrom(e, o, Delivery(q))

\* Mutation: the outcome events of a request are taken as they are.
Adoptable_unbound(e, q, thread) ==
    /\ validateAdoptionRequest(q)
    /\ q.retrieval \in Kinds(e, "retrieval") /\ e[q.retrieval].result.status = "completed"
    /\ thread \in {"", e[q.retrieval].thread}
    /\ q.injection # None => e[q.injection].retrieval = q.retrieval /\ InjectionFits(e, q.injection)
    /\ {i.revision : i \in q.items} \subseteq Delivered(e, q)
    /\ q.outcomes \subseteq DOMAIN e

\* The checks of RecordAdoption; alignAdoptionContext takes a thread that is not
\* given from the retrieval.
Adoptable(e, q, thread) ==
    /\ validateAdoptionRequest(q)
    /\ q.retrieval \in Kinds(e, "retrieval") /\ e[q.retrieval].result.status = "completed"
    /\ thread \in {"", e[q.retrieval].thread}
    /\ q.injection # None => e[q.injection].retrieval = q.retrieval /\ InjectionFits(e, q.injection)
    /\ {i.revision : i \in q.items} \subseteq Delivered(e, q)
    /\ \A o \in q.outcomes : OutcomeFits(e, q, o)

-----------------------------------------------------------------------------
(* Verification.                                                           *)

AdoptionFits(e, i) ==
    LET a == e[i] IN
    /\ validateAdoptionRequest(a)
    /\ a.retrieval \in Kinds(e, "retrieval") /\ a.retrieval < i
    /\ a.thread = e[a.retrieval].thread
    /\ a.injection # None =>
           /\ a.injection \in Kinds(e, "injection") /\ a.injection < i
           /\ e[a.injection].retrieval = a.retrieval
    /\ {item.revision : item \in a.items} \subseteq Delivered(e, a)
    /\ \A o \in a.outcomes : o < i /\ OutcomeFits(e, a, o)
    /\ a.parents = ({a.retrieval, a.injection} \cup a.outcomes) \ {None}

\* retrieval.Verify reports no issue.
Verify(e) ==
    /\ \A i \in Kinds(e, "retrieval") : validateReceipt(e[i])
    /\ \A i \in Kinds(e, "injection") : InjectionFits(e, i)
    /\ \A i \in Kinds(e, "adoption") : AdoptionFits(e, i)

\* validateReceipt of internal/loadout: one exact retrieval per pinned revision.
ContextReceiptFits(e, i) ==
    LET c == e[i] IN
    /\ Len(c.retrievals) = Cardinality(c.loadout) /\ c.parents = Range(c.retrievals)
    /\ Range(c.memories) = c.loadout
    /\ \A k \in DOMAIN c.retrievals :
           LET r == c.retrievals[k] IN
           /\ r \in Kinds(e, "retrieval") /\ r < i
           /\ e[r].request.memory = Memory(c.memories[k])
           /\ e[r].request.context = c.request.context
           /\ References(e[r].result.selected) = {c.memories[k]}

\* Verify of internal/loadout; buildVerifiedContexts.
ContextsVerify(e) == Verify(e) /\ \A i \in Kinds(e, "loadout_context") : ContextReceiptFits(e, i)

\* Mutation: only injected memories are expected to be accounted for.
OpenRetrievals_injectedOnly(e) ==
    {r \in Kinds(e, "retrieval") :
        LET injected == UNION {Range(e[i].memories) : i \in {k \in Kinds(e, "injection") : e[k].retrieval = r}}
            observed == UNION {{item.revision : item \in e[a].items} :
                                   a \in {k \in Kinds(e, "adoption") : e[k].retrieval = r}}
        IN  ~(injected \subseteq observed)}

\* open_retrieval_ids: a delivered memory about which nobody has said anything.
OpenRetrievals(e) ==
    {r \in Kinds(e, "retrieval") :
        LET injected == UNION {Range(e[i].memories) : i \in {k \in Kinds(e, "injection") : e[k].retrieval = r}}
            expected == IF injected = {} THEN References(e[r].result.selected) ELSE injected
            observed == UNION {{item.revision : item \in e[a].items} :
                                   a \in {k \in Kinds(e, "adoption") : e[k].retrieval = r}}
        IN  ~(expected \subseteq observed)}

-----------------------------------------------------------------------------
(* The readers.                                                            *)

NoCall == [at |-> "idle", op |-> "none", request |-> None, result |-> None,
           invocation |-> None, loadout |-> {}, receipts |-> <<>>, memories |-> <<>>]

DeliveryInit ==
    /\ scenario \in Scenarios
    /\ histories = scenario.histories
    /\ unproven = {}
    /\ files = Projections(scenario.histories)
    /\ loadouts = scenario.loadouts
    /\ temps = {}
    /\ lock = NoProc
    /\ pc = [p \in Procs |-> IF p \in scenario.procs THEN "idle" ELSE "dead"]
    /\ job = [p \in Procs |-> {}]
    /\ decisions = MaxLocal - scenario.decisions
    /\ crashes = MaxCrashes - scenario.crashes
    /\ failures = MaxFailures - scenario.failures
    /\ evidence = <<>>
    /\ call = [p \in Readers |-> NoCall]

LastRecord == Len(evidence)
Appends(record) == LastRecord < scenario.records /\ evidence' = Append(evidence, record)
Becomes(p, c) == call' = [call EXCEPT ![p] = c]
Done(p) == Becomes(p, NoCall)

\* An error ends the call; the hook records it as a gap.
Fails(p) == IF call[p].invocation # None THEN Becomes(p, [call[p] EXCEPT !.at = "gap"]) ELSE Done(p)

\* Search and BuildContext are called.
Ask(p, op, request) ==
    /\ call[p].at = "idle" /\ LastRecord < scenario.records
    /\ Becomes(p, [NoCall EXCEPT !.at = "load", !.op = op, !.request = request])
    /\ UNCHANGED <<evidence, scenario, repositoryVars>>

\* Process: the invocation is recorded before anything else.
Process(p, request) ==
    /\ call[p].at = "idle"
    /\ Appends(AgentEvent("hook_input", Thread(request), {}))
    /\ Becomes(p, [NoCall EXCEPT !.at = "load", !.op = "context", !.request = request,
                                 !.invocation = LastRecord + 1])
    /\ UNCHANGED <<scenario, repositoryVars>>

\* LoadActiveRevisions and the ranking, without a lock.
LoadActiveRevisions(p) ==
    /\ call[p].at = "load"
    /\ Becomes(p, [call[p] EXCEPT !.at = "retrieval",
           !.result = IF Verified THEN rankRevisions(ActiveHeads(files), call[p].request)
                      ELSE Blocked(ActiveHeads(files))])
    /\ UNCHANGED <<evidence, scenario, repositoryVars>>

Exact(c) == References(c.result.selected) = {Head(c.memories)}

\* What follows the receipt of a search: an error, the end, an injection, the next
\* memory of the loadout or its receipt.
AfterRetrieval(p, c) ==
    CASE c.result.status = "blocked" -> Fails(p)
      [] c.result.status # "blocked" /\ c.op = "search" -> Done(p)
      [] c.result.status # "blocked" /\ c.op = "context" ->
             IF renderBoundedContext(c.result, c.request).memories = <<>> THEN Done(p)
             ELSE Becomes(p, [c EXCEPT !.at = "injection", !.receipts = <<LastRecord + 1>>])
      [] c.result.status # "blocked" /\ c.op = "loadout" ->
             IF ~Exact(c) THEN Done(p)
             ELSE LET rest == Tail(c.memories) IN
                  Becomes(p, [c EXCEPT !.receipts = Append(@, LastRecord + 1), !.memories = rest,
                      !.at = IF rest = <<>> THEN "receipt" ELSE "load",
                      !.request = IF rest = <<>> THEN @ ELSE [@ EXCEPT !.memory = Memory(Head(rest))]])

\* appendReceiptEvent
AppendRetrieval(p) ==
    /\ call[p].at = "retrieval"
    /\ Appends(RetrievalEvent(call[p].request, call[p].result))
    /\ AfterRetrieval(p, call[p])
    /\ UNCHANGED <<scenario, repositoryVars>>

\* appendInjectionEvent
AppendInjection(p) ==
    /\ call[p].at = "injection"
    /\ Appends(InjectionEvent(call[p].receipts[1], call[p].request,
                              renderBoundedContext(call[p].result, call[p].request)))
    /\ Done(p)
    /\ UNCHANGED <<scenario, repositoryVars>>

\* Six attempts were not enough.
AppendFails(p) ==
    /\ call[p].at \in {"retrieval", "injection", "receipt"}
    /\ Fails(p)
    /\ UNCHANGED <<evidence, scenario, repositoryVars>>

\* appendProcessingGap; its own failure is ignored.
AppendGap(p) ==
    /\ call[p].at = "gap"
    /\ \/ Appends(AgentEvent("gap", Thread(call[p].request), {call[p].invocation}))
       \/ UNCHANGED evidence
    /\ Done(p)
    /\ UNCHANGED <<scenario, repositoryVars>>

InOrder(loadout) ==
    SortedBy(loadout, {p \in loadout \X loadout :
                           MemoryOrder[Memory(p[1])] < MemoryOrder[Memory(p[2])]})

\* BuildContext of internal/loadout: the loadout pins the current heads now; then
\* every memory is retrieved by its id.
BuildContext(p, loadout, request) ==
    /\ call[p].at = "idle" /\ LastRecord < scenario.records
    /\ loadout \in loadouts /\ Verified /\ Current(loadout)
    /\ Becomes(p, [NoCall EXCEPT !.at = "load", !.op = "loadout", !.loadout = loadout,
           !.request = [request EXCEPT !.limit = 1, !.memory = Memory(Head(InOrder(loadout)))],
           !.memories = InOrder(loadout)])
    /\ UNCHANGED <<evidence, scenario, repositoryVars>>

\* renderContext: the whole loadout, or nothing.
ContextSize(loadout) ==
    FoldLeft(LAMBDA s, r : Plus(s, Plus(SizeOf[Text(r)], BlockSize)), FrameSize, InOrder(loadout))

\* appendReceipt
AppendReceipt(p) ==
    /\ call[p].at = "receipt"
    /\ IF Within(ContextSize(call[p].loadout), call[p].request)
       THEN Appends(ContextEvent(call[p].loadout, call[p].request, call[p].receipts,
                                 InOrder(call[p].loadout)))
       ELSE UNCHANGED evidence
    /\ Done(p)
    /\ UNCHANGED <<scenario, repositoryVars>>

\* RecordAdoption: what it checks is in an append-only ledger and stays true.
RecordAdoption(q, thread) ==
    /\ Adoptable(evidence, q, thread)
    /\ Appends(AdoptionEvent(q, evidence[q.retrieval].thread))
    /\ UNCHANGED <<call, scenario, repositoryVars>>

\* The reader is killed.
Vanish(p) ==
    /\ call[p].at # "idle"
    /\ Done(p)
    /\ UNCHANGED <<evidence, scenario, repositoryVars>>

\* An agent works: its events follow from earlier ones.
Work(kind, thread, parents) ==
    /\ Appends(AgentEvent(kind, thread, parents))
    /\ UNCHANGED <<call, scenario, repositoryVars>>

AdoptionRequests ==
    [retrieval : Kinds(evidence, "retrieval"), injection : Kinds(evidence, "injection") \cup {None},
     items : Items, outcomes : {{}} \cup {{o} : o \in DOMAIN evidence}]

DeliveryNext ==
    \/ \E p \in scenario.readers :
          \/ \E request \in scenario.requests :
                \/ \E op \in {"search", "context"} : Ask(p, op, request)
                \/ Process(p, request)
                \/ \E l \in loadouts : BuildContext(p, l, request)
          \/ LoadActiveRevisions(p)
          \/ AppendRetrieval(p) \/ AppendInjection(p) \/ AppendReceipt(p)
          \/ AppendFails(p) \/ AppendGap(p) \/ Vanish(p)
    \/ \E q \in AdoptionRequests, thread \in Threads \cup {""} : RecordAdoption(q, thread)
    \/ \E kind \in scenario.work, thread \in Threads,
          parents \in {{}} \cup {{i} : i \in DOMAIN evidence} :
          Work(kind, thread, parents)
    \/ RepositoryNext /\ UNCHANGED deliveryVars

DeliverySpec == DeliveryInit /\ [][DeliveryNext]_<<repositoryVars, deliveryVars>>

-----------------------------------------------------------------------------
(* Properties.                                                             *)

\* Everything the readers, the hook and RecordAdoption write is accepted by the
\* verifications of internal/retrieval and internal/loadout, on which studies and
\* native runs depend, although the repository changes while a context is put
\* together and any call may end after any of its appends.
DeliveriesVerify == ContextsVerify(evidence)

\* A claim that a memory helped or harmed rests on a result of the same thread that
\* was recorded after exactly this revision had been injected there and that
\* follows from the injection by a chain of recorded parents (validateAdoptionRequest,
\* verifyOutcomeEvidence, eventDescendsFrom).
ClaimsRestOnDelivery ==
    \A a \in Kinds(evidence, "adoption") : \A item \in Claims(evidence[a].items) :
        \E i \in Kinds(evidence, "injection") :
        \E o \in Kinds(evidence, "tool_result") \cup Kinds(evidence, "file_change") :
            /\ i < o /\ o < a
            /\ item.revision \in Range(evidence[i].memories)
            /\ evidence[i].thread = evidence[o].thread
            /\ \E n \in 1..(o - i) : \E chain \in [0..n -> i..o] :
                  /\ chain[0] = i /\ chain[n] = o
                  /\ \A k \in 1..n : chain[k - 1] \in evidence[chain[k]].parents

\* A retrieval that has been accounted for stays accounted for: no later injection
\* or adoption opens it again (Verify, open_retrieval_ids).
ClosedStaysClosed ==
    [][\A r \in Kinds(evidence, "retrieval") \ OpenRetrievals(evidence) :
          r \notin OpenRetrievals(evidence')]_deliveryVars
=============================================================================
