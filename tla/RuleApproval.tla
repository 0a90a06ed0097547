---------------------------- MODULE RuleApproval ----------------------------
(***************************************************************************)
(* The rule approval ledger (internal/ruleapproval): a human authorizes    *)
(* the current eligible revision of a memory for a rule surface, or takes  *)
(* an authorization back.  Apply holds only its own lock and reads the     *)
(* promotion and the review ledger while others append to them.            *)
(*                                                                         *)
(* One surface and target: approvals for different ones are independent.   *)
(***************************************************************************)
EXTENDS PromotionLedger

CONSTANT Approvers      \* processes that run rule approval

ASSUME ApprovalAssumption == \A b \in Profiles : b.approvers \subseteq Approvers

VARIABLES
    approvals,      \* records of learning/rule-change-approval-events.jsonl
    approvalTorn,   \* the file ends with a partial record
    approvalLock,   \* state/rule-change-approval.lock exists
    approvalPc,     \* where each approver is in Apply
    approvalDraft   \* the request, then the record, of each approver

approvalVars == <<approvals, approvalTorn, approvalLock, approvalPc, approvalDraft>>

\* RevisionWasCurrentAt: revision i is active and `at' lies between its time
\* and the time of the next revision of its memory.
RevisionWasCurrentAt(i, at) ==
    LET later == {j \in i+1..Len(promotions) : promotions[j].memory = promotions[i].memory}
        next == CHOOSE j \in later : \A k \in later : j <= k
    IN  /\ IsActive(promotions, i)
        /\ promotions[i].at <= at
        /\ later # {} => at < promotions[next].at

\* replay: whether a revision is authorized after the first n records.
Authorized(as, n, revision) ==
    LET decisions == {i \in 1..n : as[i].revision = revision}
    IN  decisions # {} /\ as[Latest(decisions)].action = "authorize"

\* replayVerified of record i: authorizations and revocations alternate, and the
\* revision is on record, active and not younger.
ApprovalFollows(as, i) ==
    /\ Authorized(as, i - 1, as[i].revision) = (as[i].action = "revoke")
    /\ as[i].revision \in 1..Len(promotions)
    /\ IsActive(promotions, as[i].revision)
    /\ promotions[as[i].revision].at <= as[i].at

\* replayVerified of the records alone, and against the promotion ledger.
ApprovalsReplay(as) ==
    \A i \in 1..Len(as) :
        /\ ApprovalFollows(as, i)
        /\ as[i].action = "authorize" => RevisionWasCurrentAt(as[i].revision, as[i].at)

ApprovalsVerified ==
    /\ ~approvalTorn
    /\ approvals # <<>> => PromotionsVerified
    /\ ApprovalsReplay(approvals)

\* GetStatus: the approval counts while its revision is current and eligible.
Effective(revision) ==
    LET m == promotions[revision].memory
    IN  /\ ApprovalsVerified
        /\ Authorized(approvals, Len(approvals), revision)
        /\ PromotionsVerified
        /\ CurrentRevision(promotions, Len(promotions), m) = revision
        /\ ExportEligible(m)

-----------------------------------------------------------------------------
ApprovalInit ==
    /\ PromotionInit
    /\ approvals = <<>>
    /\ approvalTorn = FALSE
    /\ approvalLock = FALSE
    /\ approvalPc = [p \in Approvers |-> "idle"]
    /\ approvalDraft = [p \in Approvers |-> NoDraft]

\* A human writes a request for a revision that exists.
DraftApproval(p) ==
    /\ approvalPc[p] = "idle"
    /\ Len(approvals) < bound.approvals
    /\ \E i \in 1..Len(promotions), action \in {"authorize", "revoke"} :
          approvalDraft' = [approvalDraft EXCEPT ![p] =
              [revision |-> i, action |-> action, at |-> clock]]
    /\ approvalPc' = [approvalPc EXCEPT ![p] = "drafted"]
    /\ UNCHANGED <<approvals, approvalTorn, approvalLock, clock, reviewVars, promotionVars>>

\* The lock file is created with O_EXCL.
acquireApprovalLock == ~approvalLock /\ approvalLock' = TRUE

\* Apply takes the time and the lock.
BeginApproval(p) ==
    /\ approvalPc[p] = "drafted"
    /\ clock < bound.clock
    /\ acquireApprovalLock
    /\ clock' = clock + 1
    /\ approvalDraft' = [approvalDraft EXCEPT ![p].at = clock]
    /\ approvalPc' = [approvalPc EXCEPT ![p] = "locked"]
    /\ UNCHANGED <<approvals, approvalTorn, reviewVars, promotionVars>>

\* The conditions of an authorization.
MayAuthorize(i, at) ==
    /\ PromotionsVerified
    /\ CurrentRevision(promotions, Len(promotions), promotions[i].memory) = i
    /\ ExportEligible(promotions[i].memory)
    /\ RevisionWasCurrentAt(i, at)

\* Apply replays its ledger and checks the request against the others.
CheckApproval(p) ==
    LET r == approvalDraft[p]
    IN  /\ approvalPc[p] = "locked"
        /\ ApprovalsVerified
        /\ Authorized(approvals, Len(approvals), r.revision) = (r.action = "revoke")
        /\ IF r.action = "authorize" THEN MayAuthorize(r.revision, r.at)
           ELSE PromotionsVerified
        /\ approvalPc' = [approvalPc EXCEPT ![p] = "checked"]
        /\ UNCHANGED <<approvals, approvalTorn, approvalLock, approvalDraft, clock,
                       reviewVars, promotionVars>>

\* appendRecord succeeds.
AppendApproval(p) ==
    /\ approvalPc[p] = "checked"
    /\ Len(approvals) < bound.approvals
    /\ approvals' = Append(approvals, approvalDraft[p])
    /\ approvalPc' = [approvalPc EXCEPT ![p] = "appended"]
    /\ UNCHANGED <<approvalTorn, approvalLock, approvalDraft, clock, reviewVars, promotionVars>>

\* appendRecord fails, having written nothing, a part, or all of the record;
\* the deferred release removes the lock.
AppendApprovalFails(p) ==
    /\ approvalPc[p] = "checked"
    /\ \/ UNCHANGED <<approvals, approvalTorn>>
       \/ approvalTorn' = TRUE /\ UNCHANGED approvals
       \/ /\ Len(approvals) < bound.approvals
          /\ approvals' = Append(approvals, approvalDraft[p])
          /\ UNCHANGED approvalTorn
    /\ approvalLock' = FALSE
    /\ approvalPc' = [approvalPc EXCEPT ![p] = "idle"]
    /\ approvalDraft' = [approvalDraft EXCEPT ![p] = NoDraft]
    /\ UNCHANGED <<clock, reviewVars, promotionVars>>

\* Apply returns from any other phase, releasing the lock if it took it.
ReturnApproval(p) ==
    /\ approvalPc[p] \in {"drafted", "locked", "appended"}
    /\ approvalLock' = (approvalLock /\ approvalPc[p] = "drafted")
    /\ approvalPc' = [approvalPc EXCEPT ![p] = "idle"]
    /\ approvalDraft' = [approvalDraft EXCEPT ![p] = NoDraft]
    /\ UNCHANGED <<approvals, approvalTorn, clock, reviewVars, promotionVars>>

\* The approver's process dies; the lock file stays.
CrashApproval(p) ==
    /\ approvalPc[p] \in {"locked", "checked", "appended"}
    /\ approvalPc' = [approvalPc EXCEPT ![p] = "idle"]
    /\ approvalDraft' = [approvalDraft EXCEPT ![p] = NoDraft]
    /\ UNCHANGED <<approvals, approvalTorn, approvalLock, clock, reviewVars, promotionVars>>

\* An operator removes the lock file by hand when nobody is inside Apply.
ClearApprovalLock ==
    /\ approvalLock
    /\ \A p \in Approvers : approvalPc[p] \in {"idle", "drafted"}
    /\ approvalLock' = FALSE
    /\ UNCHANGED <<approvals, approvalTorn, approvalPc, approvalDraft, clock, reviewVars,
                   promotionVars>>

ApprovalStep ==
    \/ \E p \in bound.approvers : \/ DraftApproval(p)
                                  \/ BeginApproval(p)
                                  \/ CheckApproval(p)
                                  \/ AppendApproval(p)
                                  \/ AppendApprovalFails(p)
                                  \/ ReturnApproval(p)
                                  \/ CrashApproval(p)
    \/ ClearApprovalLock

Next ==
    /\ \/ ApprovalStep
       \/ PromotionNext /\ UNCHANGED approvalVars
    /\ UNCHANGED bound

governanceVars == <<clock, reviewVars, promotionVars, approvalVars, bound>>

Spec == ApprovalInit /\ [][Next]_governanceVars

-----------------------------------------------------------------------------
\* Superseding or revoking a revision, or a new review decision, makes its
\* authorization ineffective but never makes the approval ledger unreadable:
\* violated by a promotion that takes its time before an approval and appends
\* after it.
ApprovalLedgerReplayable == ApprovalsReplay(approvals)

\* The complete records of the three ledgers replay, without the comparison that
\* ApprovalLedgerReplayable is about.
LedgersReplay ==
    /\ ReviewLedgerReplayable
    /\ PromotionLedgerReplayable
    /\ \A i \in 1..Len(approvals) : ApprovalFollows(approvals, i)

\* Nothing is recorded behind a torn record.
TornFilesEnd ==
    /\ reviewTorn => reviewTorn' /\ reviews' = reviews
    /\ promotionTorn => promotionTorn' /\ promotions' = promotions
    /\ approvalTorn => approvalTorn' /\ approvals' = approvals

\* No decision that was recorded makes a ledger unreadable later: a decision is
\* never recorded against a status or a revision that changed since it was read,
\* a revoked memory is never revised again, a review that lands between the check
\* of a promotion and its append leaves the promotion bound to a validation, and
\* every approval is about an active revision on record.  Excepted are
\* authorizations overtaken by an earlier revision (ApprovalLedgerReplayable), and
\* files that an append left torn: every command refuses those from then on and
\* none repairs them, so what is promised is that nobody records anything behind
\* the torn record, not even a process that was at work when it was torn.  (The
\* ledgers of a profile replay at the start by the assumptions on profiles.)
GovernanceReplayable ==
    [][ /\ <<reviews, promotions, approvals>>' # <<reviews, promotions, approvals>> => LedgersReplay'
        /\ TornFilesEnd ]_governanceVars
=============================================================================
