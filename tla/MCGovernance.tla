---------------------------- MODULE MCGovernance ----------------------------
(***************************************************************************)
(* One generation with two contradicting candidates and an independent     *)
(* one, and one with two candidates that say the same in different words:  *)
(* they share a semantic key without being in conflict.                    *)
(***************************************************************************)
EXTENDS RuleApproval, TLC

CONSTANTS yes, no, other, terse, wordy, group, disputed, repeated

MCGroupOf == [c \in Candidates |-> IF c \in {yes, no} THEN group ELSE NoGroup]
MCCandidatesOf == disputed :> {yes, no, other} @@ repeated :> {terse, wordy}
MCContentOf == disputed :> "disputed" @@ repeated :> "repeated"
MCTextOf == [c \in Candidates |-> c]
MCKeyOf == [c \in Candidates |-> IF c \in {terse, wordy} THEN "key" ELSE c]
ProcessSymmetry == Permutations(Reviewers) \cup Permutations(Promoters) \cup Permutations(Approvers)

Some(n, processes) == {S \in SUBSET processes : Cardinality(S) = n}

\* Records of an earlier time.
Validated(c, at) ==
    [gen |-> repeated, content |-> "repeated", group |-> NoGroup, at |-> at,
     trs |-> c :> [expected |-> "pending", action |-> "validate", result |-> "validated", scope |-> "global"]]
Promoted(c, review, at) ==
    [action |-> "promote", memory |-> <<c, "global">>, scope |-> "global", gen |-> repeated, cand |-> c,
     review |-> review, parent |-> 0, at |-> at]

Start == [generations |-> {repeated}, reviewers |-> {}, promoters |-> {}, approvers |-> {},
          started |-> 0, reviewed |-> <<>>, captured |-> 1, covered |-> 0, promoted |-> <<>>,
          reviews |-> 0, clock |-> 0, promotions |-> 0, evidence |-> 0, approvals |-> 0]

\* Two reviewers race.
ReviewProfiles ==
    {[Start EXCEPT !.generations = {disputed}, !.reviewers = R, !.reviews = 2, !.clock = 3] : R \in Some(2, Reviewers)}

\* A promotion races with reviews, from the first capture on.
RetractionProfiles ==
    {[Start EXCEPT !.reviewers = R, !.promoters = P, !.reviews = 2, !.clock = 4, !.promotions = 2, !.evidence = 4] :
        R \in Some(1, Reviewers), P \in Some(1, Promoters)}

\* Two candidates are validated, none or one is promoted, and promotions race.
BothValidated == [Start EXCEPT !.started = 2, !.reviewed = <<Validated(terse, 0), Validated(wordy, 1)>>]
PromotionProfiles ==
    {[BothValidated EXCEPT !.promoters = P, !.clock = 4, !.promotions = 2, !.evidence = 4] : P \in Some(2, Promoters)}
RevisionProfiles ==
    {[BothValidated EXCEPT !.promoters = P, !.started = 3, !.promoted = <<Promoted(terse, 1, 2)>>,
                           !.captured = 3, !.covered = 2, !.clock = 6, !.promotions = 3, !.evidence = 4] :
        P \in Some(2, Promoters)}

\* Approvals race with each other and with revisions.
ApprovalProfiles ==
    {[BothValidated EXCEPT !.promoters = P, !.approvers = A, !.started = 3, !.promoted = <<Promoted(terse, 1, 2)>>,
                           !.captured = 3, !.covered = 2, !.clock = 7, !.promotions = 2, !.evidence = 3,
                           !.approvals = 2] :
        P \in Some(1, Promoters), A \in Some(2, Approvers)}

MCProfiles == ReviewProfiles \cup RetractionProfiles \cup PromotionProfiles \cup RevisionProfiles \cup ApprovalProfiles
MCOverlap == {[b EXCEPT !.approvals = 1] : b \in ApprovalProfiles}
=============================================================================
