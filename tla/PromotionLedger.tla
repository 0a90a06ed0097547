-------------------------- MODULE PromotionLedger --------------------------
(***************************************************************************)
(* The promotion ledger (internal/promotion): Apply turns a candidate with *)
(* a current validation into an active revision of a memory, supersedes    *)
(* the revision of a memory, or revokes it.  Apply holds the promotion     *)
(* lock and the evidence writer lock, but not the review lock.             *)
(*                                                                         *)
(* A revision is identified by its place in the ledger (its id is a hash   *)
(* that covers its time), a memory by the text and the scope of the first  *)
(* revision.  Evidence is the number of records of the evidence ledger and *)
(* the prefix that each candidate generation was derived from.             *)
(***************************************************************************)
EXTENDS ReviewLedger

CONSTANTS
    Promoters,      \* processes that run memory promotion
    TextOf,         \* redacted text of each candidate
    KeyOf           \* SemanticKeySHA256 of each candidate

ASSUME PromotionAssumption ==
    /\ DOMAIN TextOf = Candidates
    /\ DOMAIN KeyOf = Candidates

VARIABLES
    evidence,       \* number of records of the evidence ledger
    evidenceLock,   \* state/ledger-writer.lock is held by a promotion
    covers,         \* evidence prefix of each generation, 0 until it is built
    promotions,     \* complete records of learning/promotion-events.jsonl
    promotionTorn,  \* the file ends with a partial record
    promotionLock,  \* state/memory-promotion.lock exists
    promotionPc,    \* where each promoter is in Apply
    promotionDraft  \* the request, then the revision, of each promoter

promotionVars == <<evidence, evidenceLock, covers, promotions, promotionTorn,
                   promotionLock, promotionPc, promotionDraft>>
evidenceVars == <<evidence, evidenceLock, covers>>

\* expectedMemoryID: a memory is named by its first text and scope.
Memories == {<<TextOf[c], s>> : c \in Candidates, s \in Scopes}

\* replay: the revisions of memory m among the first n records.
RevisionsOf(ps, n, m) == {i \in 1..n : ps[i].memory = m}

\* state.current: the latest revision of a memory, 0 if there is none.
CurrentRevision(ps, n, m) ==
    IF RevisionsOf(ps, n, m) = {} THEN 0 ELSE Latest(RevisionsOf(ps, n, m))

IsActive(ps, i) == i > 0 /\ ps[i].action # "revoke"

\* resolveValidation: record r of the review records rs validates candidate c of
\* generation g with the given scope.
Validates(rs, r, g, c, scope) ==
    /\ r \in 1..Len(rs)
    /\ rs[r].gen = g
    /\ c \in DOMAIN rs[r].trs
    /\ rs[r].trs[c].action = "validate"
    /\ rs[r].trs[c].scope = scope

\* ResolveCurrentValidation: the record is also the latest decision.
ValidatesNow(r, g, c, scope) ==
    /\ Validates(reviews, r, g, c, scope)
    /\ r = Latest(Decisions(reviews, Len(reviews), ContentOf[g], c))

\* RequireCurrentEvidence: the evidence ledger ends where the generation's
\* prefix ends, or with the audit record of that generation.
RequireCurrentEvidence(g) == covers[g] > 0 /\ evidence = covers[g] + 1

\* The memories that already hold the semantic key of c in a scope.
SameMeaning(ps, n, c, scope) ==
    {m \in Memories : /\ m[2] = scope
                      /\ IsActive(ps, CurrentRevision(ps, n, m))
                      /\ KeyOf[ps[CurrentRevision(ps, n, m)].cand] = KeyOf[c]}

\* What replay and prepareRevision require of a revision that follows the
\* first n records.
Follows(ps, n, r) ==
    LET current == CurrentRevision(ps, n, r.memory)
    IN  CASE r.action = "promote" ->
                 /\ r.parent = 0
                 /\ r.memory = <<TextOf[r.cand], r.scope>>
                 /\ current = 0
                 /\ SameMeaning(ps, n, r.cand, r.scope) = {}
          [] r.action = "supersede" ->
                 /\ IsActive(ps, current)
                 /\ r.parent = current
                 /\ ps[current].scope = r.scope
                 /\ KeyOf[ps[current].cand] = KeyOf[r.cand]
          [] r.action = "revoke" ->
                 /\ IsActive(ps, current)
                 /\ r.parent = current
                 /\ ps[current].scope = r.scope

\* replayVerified: every record follows the ones before it and is bound to a
\* validation that exists, is about the same thing and is not younger.
PromotionsReplay(ps, rs) ==
    \A i \in 1..Len(ps) :
        /\ Follows(ps, i - 1, ps[i])
        /\ ps[i].action # "revoke" =>
              /\ Validates(rs, ps[i].review, ps[i].gen, ps[i].cand, ps[i].scope)
              /\ rs[ps[i].review].at <= ps[i].at

\* The records of the file.
Revision ==
    [action : {"promote", "supersede", "revoke"}, memory : Memories, scope : Scopes,
     gen : Generations, cand : Candidates, review : Nat, parent : Nat, at : Nat]

\* What is on record at the start replays and is not of the future.
ASSUME PromotionProfileAssumption ==
    \A b \in Profiles :
        /\ b.promoters \subseteq Promoters
        /\ b.captured \in Nat /\ b.covered \in Nat
        /\ b.promoted \in Seq(Revision)
        /\ PromotionsReplay(b.promoted, b.reviewed)
        /\ \A i \in 1..Len(b.promoted) : b.promoted[i].at < b.started

PromotionsVerified ==
    /\ ~promotionTorn
    /\ (\E i \in 1..Len(promotions) : promotions[i].action # "revoke") => ReviewsVerified
    /\ PromotionsReplay(promotions, reviews)

\* GetStatus: the current revision is active and its validation is current.
ExportEligible(m) ==
    LET i == CurrentRevision(promotions, Len(promotions), m)
    IN  /\ IsActive(promotions, i)
        /\ ReviewsVerified
        /\ ValidatesNow(promotions[i].review, promotions[i].gen, promotions[i].cand,
                        promotions[i].scope)

-----------------------------------------------------------------------------
PromotionInit ==
    /\ ReviewInit
    /\ evidence = bound.captured
    /\ evidenceLock = FALSE
    /\ covers = [g \in Generations |-> IF g \in bound.generations THEN bound.covered ELSE 0]
    /\ promotions = bound.promoted
    /\ promotionTorn = FALSE
    /\ promotionLock = FALSE
    /\ promotionPc = [p \in Promoters |-> "idle"]
    /\ promotionDraft = [p \in Promoters |-> NoDraft]

\* A capture appends an evidence record.
AppendEvidence ==
    /\ ~evidenceLock
    /\ evidence < bound.evidence
    /\ evidence' = evidence + 1
    /\ UNCHANGED <<evidenceLock, covers, promotions, promotionTorn, promotionLock,
                   promotionPc, promotionDraft, clock, reviewVars>>

\* Episodes and candidates are derived: the attempt is recorded, the prefix
\* that ends with it is covered, and the audit is recorded after it.
BuildGeneration(g) ==
    /\ ~evidenceLock
    /\ covers[g] = 0
    /\ evidence + 2 <= bound.evidence
    /\ covers' = [covers EXCEPT ![g] = evidence + 1]
    /\ evidence' = evidence + 2
    /\ UNCHANGED <<evidenceLock, promotions, promotionTorn, promotionLock,
                   promotionPc, promotionDraft, clock, reviewVars>>

\* A request names a validation record and the current revision of a memory.
revisionRequest(action, m, c, g, r) ==
    [action |-> action, memory |-> m, scope |-> m[2], gen |-> g, cand |-> c, review |-> r,
     parent |-> IF action = "promote" THEN 0 ELSE CurrentRevision(promotions, Len(promotions), m),
     at |-> clock]

\* A revocation has no candidate: the fields repeat those of its parent.
MayRequest(action, m, c, g, r) ==
    LET current == CurrentRevision(promotions, Len(promotions), m)
    IN  /\ action = "promote" => m = <<TextOf[c], m[2]>>
        /\ action # "promote" => current > 0
        /\ action = "revoke" => /\ g = promotions[current].gen
                                /\ c = promotions[current].cand
                                /\ r = promotions[current].review
        /\ Validates(reviews, r, g, c, m[2])

\* A promoter writes a request from what it sees.
DraftPromotion(p) ==
    /\ promotionPc[p] = "idle"
    /\ Len(promotions) < bound.promotions
    /\ PromotionsVerified
    /\ \E m \in Memories, c \in Candidates, g \in bound.generations, r \in 1..Len(reviews),
          action \in {"promote", "supersede", "revoke"} :
          /\ MayRequest(action, m, c, g, r)
          /\ promotionDraft' = [promotionDraft EXCEPT ![p] = revisionRequest(action, m, c, g, r)]
    /\ promotionPc' = [promotionPc EXCEPT ![p] = "drafted"]
    /\ UNCHANGED <<evidenceVars, promotions, promotionTorn, promotionLock, clock, reviewVars>>

\* The lock file is created with O_EXCL.
acquirePromotionLock == ~promotionLock /\ promotionLock' = TRUE

\* Apply takes the time and the promotion lock.
BeginPromotion(p) ==
    /\ promotionPc[p] = "drafted"
    /\ clock < bound.clock
    /\ acquirePromotionLock
    /\ clock' = clock + 1
    /\ promotionDraft' = [promotionDraft EXCEPT ![p].at = clock]
    /\ promotionPc' = [promotionPc EXCEPT ![p] = "locked"]
    /\ UNCHANGED <<evidenceVars, promotions, promotionTorn, reviewVars>>

\* Mutation: the evidence ledger is not locked while a promotion is prepared.
GuardEvidence_notHeld(p) ==
    /\ promotionPc[p] = "locked"
    /\ ~evidenceLock
    /\ promotionPc' = [promotionPc EXCEPT ![p] = "guarded"]
    /\ UNCHANGED <<evidenceVars, promotions, promotionTorn, promotionLock, promotionDraft,
                   clock, reviewVars>>

\* NewAppenderAfterVisit: Apply takes the evidence writer lock.
GuardEvidence(p) ==
    /\ promotionPc[p] = "locked"
    /\ ~evidenceLock
    /\ evidenceLock' = TRUE
    /\ promotionPc' = [promotionPc EXCEPT ![p] = "guarded"]
    /\ UNCHANGED <<evidence, covers, promotions, promotionTorn, promotionLock, promotionDraft,
                   clock, reviewVars>>

\* Mutation: an initial promotion is only compared with its own memory.
Prepared_sameMemoryOnly(r) ==
    /\ CurrentRevision(promotions, Len(promotions), r.memory) = (IF r.action = "promote" THEN 0 ELSE r.parent)
    /\ r.action # "revoke" =>
          /\ RequireCurrentEvidence(r.gen)
          /\ ReviewsVerified
          /\ ValidatesNow(r.review, r.gen, r.cand, r.scope)

\* Mutation: the expected revision of the request is not compared.
Prepared_ignoresExpectedRevision(r) ==
    /\ r.action = "promote" => Follows(promotions, Len(promotions), r)
    /\ r.action # "promote" => IsActive(promotions, CurrentRevision(promotions, Len(promotions), r.memory))
    /\ r.action # "revoke" => RequireCurrentEvidence(r.gen) /\ ReviewsVerified
                             /\ ValidatesNow(r.review, r.gen, r.cand, r.scope)

\* prepareRevision accepts a request.
Prepared(r) ==
    /\ Follows(promotions, Len(promotions), r)
    /\ r.action # "revoke" =>
          /\ RequireCurrentEvidence(r.gen)
          /\ ReviewsVerified
          /\ ValidatesNow(r.review, r.gen, r.cand, r.scope)

\* Apply replays the ledger and prepares the revision.
PreparePromotion(p) ==
    /\ promotionPc[p] = "guarded"
    /\ PromotionsVerified
    /\ Prepared(promotionDraft[p])
    /\ promotionPc' = [promotionPc EXCEPT ![p] = "prepared"]
    /\ UNCHANGED <<evidenceVars, promotions, promotionTorn, promotionLock, promotionDraft,
                   clock, reviewVars>>

\* appendRecord succeeds.
AppendPromotion(p) ==
    /\ promotionPc[p] = "prepared"
    /\ Len(promotions) < bound.promotions
    /\ promotions' = Append(promotions, promotionDraft[p])
    /\ promotionPc' = [promotionPc EXCEPT ![p] = "appended"]
    /\ UNCHANGED <<evidenceVars, promotionTorn, promotionLock, promotionDraft, clock, reviewVars>>

\* appendRecord fails, having written nothing, a part, or all of the record;
\* the deferred calls release both locks.
AppendPromotionFails(p) ==
    /\ promotionPc[p] = "prepared"
    /\ \/ UNCHANGED <<promotions, promotionTorn>>
       \/ promotionTorn' = TRUE /\ UNCHANGED promotions
       \/ /\ Len(promotions) < bound.promotions
          /\ promotions' = Append(promotions, promotionDraft[p])
          /\ UNCHANGED promotionTorn
    /\ evidenceLock' = FALSE
    /\ promotionLock' = FALSE
    /\ promotionPc' = [promotionPc EXCEPT ![p] = "idle"]
    /\ promotionDraft' = [promotionDraft EXCEPT ![p] = NoDraft]
    /\ UNCHANGED <<evidence, covers, clock, reviewVars>>

\* Apply returns from any other phase, releasing the locks it took.
ReturnPromotion(p) ==
    /\ promotionPc[p] \in {"drafted", "locked", "guarded", "appended"}
    /\ evidenceLock' = (evidenceLock /\ promotionPc[p] \in {"drafted", "locked"})
    /\ promotionLock' = (promotionLock /\ promotionPc[p] = "drafted")
    /\ promotionPc' = [promotionPc EXCEPT ![p] = "idle"]
    /\ promotionDraft' = [promotionDraft EXCEPT ![p] = NoDraft]
    /\ UNCHANGED <<evidence, covers, promotions, promotionTorn, clock, reviewVars>>

\* The promoter's process dies; its lock files stay.
CrashPromotion(p) ==
    /\ promotionPc[p] \in {"locked", "guarded", "prepared", "appended"}
    /\ promotionPc' = [promotionPc EXCEPT ![p] = "idle"]
    /\ promotionDraft' = [promotionDraft EXCEPT ![p] = NoDraft]
    /\ UNCHANGED <<evidenceVars, promotions, promotionTorn, promotionLock, clock, reviewVars>>

\* An operator removes the lock files by hand when nobody is inside Apply.
ClearPromotionLocks ==
    /\ promotionLock \/ evidenceLock
    /\ \A p \in Promoters : promotionPc[p] \in {"idle", "drafted"}
    /\ promotionLock' = FALSE
    /\ evidenceLock' = FALSE
    /\ UNCHANGED <<evidence, covers, promotions, promotionTorn, promotionPc, promotionDraft,
                   clock, reviewVars>>

PromotionStep ==
    \/ AppendEvidence
    \/ \E g \in bound.generations : BuildGeneration(g)
    \/ \E p \in bound.promoters : \/ DraftPromotion(p)
                                  \/ BeginPromotion(p)
                                  \/ GuardEvidence(p)
                                  \/ PreparePromotion(p)
                                  \/ AppendPromotion(p)
                                  \/ AppendPromotionFails(p)
                                  \/ ReturnPromotion(p)
                                  \/ CrashPromotion(p)
    \/ ClearPromotionLocks

PromotionNext == PromotionStep \/ (ReviewNext /\ UNCHANGED promotionVars)

-----------------------------------------------------------------------------
\* Within a scope at most one active memory carries a semantic key, so that
\* two contradicting memories are never both in force, whatever promotions
\* race, fail or supersede each other.
OneActivePerKey ==
    \A c \in Candidates, s \in Scopes :
        Cardinality(SameMeaning(promotions, Len(promotions), c, s)) <= 1

\* No promotion that Apply recorded makes the ledger unreadable later: not by
\* a concurrent promotion, not by review decisions recorded afterwards.
PromotionLedgerReplayable == PromotionsReplay(promotions, reviews)

\* A promotion or supersession is recorded only while its generation covers
\* all evidence: nothing is captured between the check and the append.
PromotedOnCurrentEvidence ==
    [][\A i \in Len(promotions)+1..Len(promotions') :
          promotions'[i].action # "revoke" => RequireCurrentEvidence(promotions'[i].gen)]_promotions
=============================================================================
