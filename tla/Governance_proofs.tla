------------------------- MODULE Governance_proofs -------------------------
(***************************************************************************)
(* Proofs about the governance ledgers (ReviewLedger, PromotionLedger and  *)
(* RuleApproval), for any sets of processes, generations, candidates and   *)
(* scopes, and any profiles of the kind their assumptions describe.        *)
(*                                                                         *)
(* The invariant has one layer per ledger: the review layer stands alone,  *)
(* the promotion layer reads the review records, the approval layer reads  *)
(* the promotion records.  A last layer says that whoever is about to      *)
(* append found the file whole.                                            *)
(***************************************************************************)
EXTENDS RuleApproval, FiniteSetTheorems, SequenceTheorems, WellFoundedInduction, TLAPS

\* The records of the review file.
ReviewRecord == UNION {RecordDeciding(decided) : decided \in SUBSET Candidates}

ReviewInside(p) == reviewPc[p] \in {"locked", "prepared", "appended"}

ReviewTypes ==
    /\ clock \in Nat
    /\ bound \in Profiles
    /\ reviews \in Seq(ReviewRecord)
    /\ reviewTorn \in BOOLEAN
    /\ reviewLock \in BOOLEAN
    /\ reviewPc \in [Reviewers -> {"idle", "drafted", "locked", "prepared", "appended"}]
    /\ reviewDraft \in [Reviewers -> ReviewRecord \cup {NoDraft}]
    /\ \A p \in Reviewers : reviewPc[p] # "idle" => reviewDraft[p] \in ReviewRecord

\* At most one reviewer is between taking the lock and releasing it.
ReviewersExclude ==
    \A p \in Reviewers : ReviewInside(p) =>
        reviewLock /\ \A q \in Reviewers : ReviewInside(q) => q = p

\* Records and requests that hold a time of Apply are older than the clock.
ReviewsInTime ==
    /\ \A i \in 1..Len(reviews) : reviews[i].at < clock
    /\ \A p \in Reviewers : ReviewInside(p) => reviewDraft[p].at < clock

\* A prepared request is still acceptable.
ReviewsPrepared ==
    \A p \in Reviewers :
        /\ reviewPc[p] # "idle" => ContentOf[reviewDraft[p].gen] = reviewDraft[p].content
        /\ reviewPc[p] = "prepared" =>
              prepareTransitions(reviewDraft[p].group, reviewDraft[p].trs,
                                 StatusIn(reviews, Len(reviews), reviewDraft[p].content))

ReviewInv ==
    /\ ReviewTypes
    /\ ReviewersExclude
    /\ ReviewsInTime
    /\ ReviewsPrepared
    /\ ReviewLedgerReplayable

-----------------------------------------------------------------------------
PromotionInside(p) == promotionPc[p] \in {"locked", "guarded", "prepared", "appended"}

PromotionTypes ==
    /\ evidence \in Nat
    /\ evidenceLock \in BOOLEAN
    /\ covers \in [Generations -> Nat]
    /\ promotions \in Seq(Revision)
    /\ promotionTorn \in BOOLEAN
    /\ promotionLock \in BOOLEAN
    /\ promotionPc \in [Promoters -> {"idle", "drafted", "locked", "guarded", "prepared", "appended"}]
    /\ promotionDraft \in [Promoters -> Revision \cup {NoDraft}]
    /\ \A p \in Promoters : promotionPc[p] # "idle" => promotionDraft[p] \in Revision

\* At most one promoter is inside Apply, and evidence stays locked from the
\* guard until it leaves.
PromotersExclude ==
    \A p \in Promoters :
        /\ PromotionInside(p) =>
              promotionLock /\ \A q \in Promoters : PromotionInside(q) => q = p
        /\ promotionPc[p] \in {"guarded", "prepared", "appended"} => evidenceLock

\* A revision is bound to a validation that is on record and is not younger.
BoundToValidation(r) ==
    /\ Validates(reviews, r.review, r.gen, r.cand, r.scope)
    /\ reviews[r.review].at <= r.at

PromotionsInTime ==
    /\ \A i \in 1..Len(promotions) : promotions[i].at < clock
    /\ \A p \in Promoters :
          /\ promotionPc[p] # "idle" => BoundToValidation(promotionDraft[p]) /\ promotionDraft[p].at <= clock
          /\ PromotionInside(p) => promotionDraft[p].at < clock

\* A prepared revision still follows the ledger, on evidence that is current.
PromotionsPrepared ==
    \A p \in Promoters : promotionPc[p] = "prepared" =>
        /\ Follows(promotions, Len(promotions), promotionDraft[p])
        /\ promotionDraft[p].action # "revoke" => RequireCurrentEvidence(promotionDraft[p].gen)

PromotionInv ==
    /\ PromotionTypes
    /\ PromotersExclude
    /\ PromotionsInTime
    /\ PromotionsPrepared
    /\ PromotionLedgerReplayable

-----------------------------------------------------------------------------
ApprovalInside(p) == approvalPc[p] \in {"locked", "checked", "appended"}

ApprovalRecord == [revision : Nat, action : {"authorize", "revoke"}, at : Nat]

ApprovalTypes ==
    /\ approvals \in Seq(ApprovalRecord)
    /\ approvalTorn \in BOOLEAN
    /\ approvalLock \in BOOLEAN
    /\ approvalPc \in [Approvers -> {"idle", "drafted", "locked", "checked", "appended"}]
    /\ approvalDraft \in [Approvers -> ApprovalRecord \cup {NoDraft}]
    /\ \A p \in Approvers : approvalPc[p] # "idle" => approvalDraft[p] \in ApprovalRecord

\* At most one approver is inside Apply.
ApproversExclude ==
    \A p \in Approvers : ApprovalInside(p) =>
        approvalLock /\ \A q \in Approvers : ApprovalInside(q) => q = p

\* A request is about a revision that exists and is not younger.
ApprovalsInTime ==
    /\ \A i \in 1..Len(approvals) : approvals[i].at < clock
    /\ \A p \in Approvers :
          /\ approvalPc[p] # "idle" =>
                /\ approvalDraft[p].revision \in 1..Len(promotions)
                /\ promotions[approvalDraft[p].revision].at <= approvalDraft[p].at
                /\ approvalDraft[p].at <= clock
          /\ ApprovalInside(p) => approvalDraft[p].at < clock

\* What an approval requires of the records before it.
Approvable(ds, n, r) ==
    /\ Authorized(ds, n, r.revision) = (r.action = "revoke")
    /\ r.revision \in 1..Len(promotions)
    /\ IsActive(promotions, r.revision)
    /\ promotions[r.revision].at <= r.at

\* A checked request is still acceptable.
ApprovalsChecked ==
    \A p \in Approvers : approvalPc[p] = "checked" =>
        Approvable(approvals, Len(approvals), approvalDraft[p])

ApprovalsFollow == \A i \in 1..Len(approvals) : ApprovalFollows(approvals, i)

ApprovalInv ==
    /\ ApprovalTypes
    /\ ApproversExclude
    /\ ApprovalsInTime
    /\ ApprovalsChecked
    /\ ApprovalsFollow

-----------------------------------------------------------------------------
\* Whoever is about to append found no torn record at the end of the file.
ReviewWhole == \A p \in Reviewers : reviewPc[p] = "prepared" => ~reviewTorn
PromotionWhole == \A p \in Promoters : promotionPc[p] = "prepared" => ~promotionTorn
ApprovalWhole == \A p \in Approvers : approvalPc[p] = "checked" => ~approvalTorn

WholeInv == ReviewWhole /\ PromotionWhole /\ ApprovalWhole

-----------------------------------------------------------------------------
\* Every non-empty set of natural numbers has a least element: the induction
\* on the length of a ledger below looks for the first record that fails.
LEMMA LeastNumber ==
    ASSUME NEW S \in SUBSET Nat, S # {}
    PROVE  \E m \in S : \A n \in S : m <= n
<1> DEFINE R == OpToRel(<, Nat)
<1>1. IsWellFoundedOn(R, Nat)
  BY NatLessThanWellFounded
<1>2. R = {ss \in Nat \X Nat : ss[1] < ss[2]}
  BY DEF OpToRel
<1> HIDE DEF R
<1>3. PICK m \in S : \A n \in S : ~(<<n, m>> \in R)
  BY <1>1, WFMin
<1>4. ASSUME NEW n \in S PROVE m <= n
  <2>1. m \in Nat /\ n \in Nat
    OBVIOUS
  <2>2. ~(n < m)
    BY <1>2, <1>3, <2>1
  <2> QED  BY <2>1, <2>2
<1> QED  BY <1>4

\* Latest picks the greatest of a non-empty set of record numbers.
LEMMA LatestOf ==
    ASSUME NEW n \in Nat, NEW S \in SUBSET (1..n), S # {}
    PROVE  Latest(S) \in S /\ \A j \in S : j <= Latest(S)
<1> DEFINE T == {n - k : k \in S}
<1>1. PICK d \in T : \A t \in T : d <= t
  <2>1. \A k \in S : k \in 1..n /\ n - k \in Nat
    OBVIOUS
  <2>2. T \subseteq Nat
    BY <2>1
  <2>3. T # {}
    <3>1. PICK k \in S : TRUE
      OBVIOUS
    <3>2. n - k \in T
      OBVIOUS
    <3> QED  BY <3>2
  <2> HIDE DEF T
  <2> QED  BY <2>2, <2>3, LeastNumber
<1>2. PICK m \in S : d = n - m
  OBVIOUS
<1>3. ASSUME NEW k \in S PROVE k <= m
  <2>1. n - k \in T /\ k \in 1..n /\ m \in 1..n
    OBVIOUS
  <2>2. d <= n - k
    BY <2>1, <1>1
  <2> QED  BY <2>1, <2>2, <1>2
<1> QED  BY <1>3 DEF Latest

\* Latest, once a greatest element is known.
LEMMA LatestIs ==
    ASSUME NEW n \in Nat, NEW S \in SUBSET (1..n), NEW m \in S, \A j \in S : j <= m
    PROVE  Latest(S) = m
<1>1. Latest(S) \in S /\ m <= Latest(S) /\ Latest(S) <= m
  BY LatestOf
<1>2. Latest(S) \in 1..n /\ m \in 1..n
  BY <1>1
<1> QED  BY <1>1, <1>2

\* A set without two different elements has a cardinality of at most one.
LEMMA NoTwo ==
    ASSUME NEW S, \A a, b \in S : a = b
    PROVE  Cardinality(S) <= 1
<1>1. CASE S = {}
  BY <1>1, FS_EmptySet
<1>2. CASE S # {}
  <2>1. PICK a \in S : TRUE
    BY <1>2
  <2>2. S = {a}
    BY <2>1
  <2> QED  BY <2>2, FS_Singleton
<1> QED  BY <1>1, <1>2

\* ... and conversely, for finite sets.
LEMMA AtMostOne ==
    ASSUME NEW S, IsFiniteSet(S), Cardinality(S) <= 1, NEW a \in S, NEW b \in S
    PROVE  a = b
<1>1. /\ Cardinality(S) \in Nat
      /\ Cardinality(S \ {a}) = Cardinality(S) - 1
      /\ IsFiniteSet(S \ {a})
  BY FS_CardinalityType, FS_RemoveElement
<1>2. Cardinality(S \ {a}) \in Nat
  BY <1>1, FS_CardinalityType
<1>3. Cardinality(S \ {a}) = 0
  BY <1>1, <1>2
<1>4. S \ {a} = {}
  BY <1>1, <1>3, FS_EmptySet
<1> QED  BY <1>4

\* A record appended to a ledger.
LEMMA Appending ==
    ASSUME NEW S, NEW s \in Seq(S), NEW r \in S
    PROVE  /\ Append(s, r) \in Seq(S)
           /\ Len(s) \in Nat
           /\ Len(Append(s, r)) = Len(s) + 1
           /\ \A i \in 1..Len(s) : Append(s, r)[i] = s[i]
           /\ Append(s, r)[Len(s) + 1] = r
  OBVIOUS

-----------------------------------------------------------------------------
\* The statuses after n records are those after n - 1 records, except for the
\* candidates that record n decides.
LEMMA StatusStep ==
    ASSUME NEW rs, NEW n \in Nat \ {0}, NEW k, NEW c \in Candidates
    PROVE  StatusIn(rs, n, k)[c] =
              IF rs[n].content = k /\ c \in DOMAIN rs[n].trs THEN rs[n].trs[c].result
              ELSE StatusIn(rs, n - 1, k)[c]
<1>1. CASE rs[n].content = k /\ c \in DOMAIN rs[n].trs
  <2>1. n \in Decisions(rs, n, k, c) /\ Decisions(rs, n, k, c) \subseteq 1..n
    BY <1>1 DEF Decisions
  <2>2. \A j \in Decisions(rs, n, k, c) : j <= n
    BY DEF Decisions
  <2>3. Latest(Decisions(rs, n, k, c)) = n
    BY <2>1, <2>2, LatestIs
  <2> QED  BY <1>1, <2>1, <2>3 DEF StatusIn
<1>2. CASE ~(rs[n].content = k /\ c \in DOMAIN rs[n].trs)
  <2>1. Decisions(rs, n, k, c) = Decisions(rs, n - 1, k, c)
    BY <1>2 DEF Decisions
  <2> QED  BY <1>2, <2>1 DEF StatusIn
<1> QED  BY <1>1, <1>2

\* The statuses after n records depend on those records alone.
LEMMA StatusAgree ==
    ASSUME NEW rs, NEW ss, NEW n \in Nat, \A i \in 1..n : rs[i] = ss[i], NEW k
    PROVE  StatusIn(rs, n, k) = StatusIn(ss, n, k)
<1>1. ASSUME NEW c PROVE Decisions(rs, n, k, c) = Decisions(ss, n, k, c)
  BY DEF Decisions
<1>2. ASSUME NEW c, Decisions(rs, n, k, c) # {}
      PROVE  rs[Latest(Decisions(rs, n, k, c))] = ss[Latest(Decisions(rs, n, k, c))]
  <2>1. Decisions(rs, n, k, c) \subseteq 1..n
    BY DEF Decisions
  <2>2. Latest(Decisions(rs, n, k, c)) \in 1..n
    BY <1>2, <2>1, LatestOf
  <2> QED  BY <2>2
<1> QED  BY <1>1, <1>2 DEF StatusIn

\* A review record is what its fields say.
LEMMA RecordType ==
    ASSUME NEW r \in ReviewRecord
    PROVE  /\ r.gen \in Generations /\ r.content \in Contents
           /\ r.group \in Groups \cup {NoGroup}
           /\ r.at \in Nat
           /\ DOMAIN r.trs \subseteq Candidates
           /\ \A c \in DOMAIN r.trs : r.trs[c] \in Transition
  BY DEF ReviewRecord, RecordDeciding

\* Every candidate has one of the four statuses.
LEMMA StatusType ==
    ASSUME NEW rs \in Seq(ReviewRecord), NEW n \in 0..Len(rs), NEW k
    PROVE  StatusIn(rs, n, k) \in [Candidates -> Status]
<1>1. ASSUME NEW c \in Candidates, Decisions(rs, n, k, c) # {}
      PROVE  rs[Latest(Decisions(rs, n, k, c))].trs[c].result \in Status
  <2>1. Decisions(rs, n, k, c) \subseteq 1..n /\ n \in Nat
    BY DEF Decisions
  <2>2. Latest(Decisions(rs, n, k, c)) \in Decisions(rs, n, k, c)
    BY <1>1, <2>1, LatestOf
  <2> DEFINE i == Latest(Decisions(rs, n, k, c))
  <2>3. i \in 1..Len(rs) /\ c \in DOMAIN rs[i].trs
    BY <2>2 DEF Decisions
  <2> HIDE DEF i
  <2>4. rs[i] \in ReviewRecord
    BY <2>3
  <2>5. rs[i].trs[c] \in Transition
    BY <2>3, <2>4, RecordType
  <2> QED  BY <2>5 DEF Transition, i
<1> QED  BY <1>1 DEF StatusIn, initialStatus, Status

\* No two members of a conflict group are validated after n records.
NoContradiction(rs, n) ==
    \A k \in Contents, g \in Groups : \A a, b \in Members(g) :
        /\ StatusIn(rs, n, k)[a] = "validated"
        /\ StatusIn(rs, n, k)[b] = "validated"
        => a = b

\* One acceptable record keeps it that way: a decision outside a resolution
\* cannot validate a member, and a resolution decides the whole group.
LEMMA RecordKeepsApart ==
    ASSUME NEW rs \in Seq(ReviewRecord), NEW n \in 1..Len(rs), ReviewsReplay(rs),
           NoContradiction(rs, n - 1)
    PROVE  NoContradiction(rs, n)
<1> SUFFICES ASSUME NEW k \in Contents, NEW g \in Groups, NEW a \in Members(g), NEW b \in Members(g),
                    StatusIn(rs, n, k)[a] = "validated", StatusIn(rs, n, k)[b] = "validated",
                    a # b
             PROVE  FALSE
  BY DEF NoContradiction
<1> DEFINE r == rs[n]
           st == StatusIn(rs, n - 1, r.content)
<1>1. /\ n \in Nat \ {0}
      /\ r \in ReviewRecord
      /\ a \in Candidates /\ GroupOf[a] = g
      /\ b \in Candidates /\ GroupOf[b] = g
      /\ g # NoGroup
  BY ReviewAssumption DEF Members
<1>2. prepareTransitions(r.group, r.trs, st)
  BY DEF ReviewsReplay
<1>3. DOMAIN r.trs \subseteq Candidates /\ \A c \in DOMAIN r.trs : r.trs[c] \in Transition
  BY <1>1, RecordType
<1>4. \A c \in Candidates :
         StatusIn(rs, n, k)[c] = IF r.content = k /\ c \in DOMAIN r.trs THEN r.trs[c].result
                                 ELSE StatusIn(rs, n - 1, k)[c]
  BY <1>1, StatusStep
<1> HIDE DEF r, st
<1>5. \A c \in DOMAIN r.trs : r.trs[c].result = "validated" => r.trs[c].action = "validate"
  <2> SUFFICES ASSUME NEW c \in DOMAIN r.trs, r.trs[c].action # "validate"
               PROVE  r.trs[c].result # "validated"
    OBVIOUS
  <2>1. r.trs[c].action \in Action /\ r.trs[c].result = resultingStatus(r.trs[c].action, initialStatus(c))
    BY <1>2, <1>3 DEF prepareTransitions, Transition
  <2> QED  BY <2>1 DEF Action, resultingStatus, initialStatus
<1>6. \A c \in DOMAIN r.trs : r.trs[c].action = "validate" => GroupOf[c] \in {NoGroup, r.group}
  BY <1>2 DEF prepareTransitions
<1>7. CASE r.content = k /\ r.group = g
  <2>1. /\ DOMAIN r.trs = Members(g)
        /\ Cardinality({c \in DOMAIN r.trs : r.trs[c].action = "validate"}) <= 1
    BY <1>1, <1>2, <1>7 DEF prepareTransitions, WholeGroup
  <2> DEFINE V == {c \in DOMAIN r.trs : r.trs[c].action = "validate"}
  <2>2. a \in V /\ b \in V
    BY <1>1, <1>4, <1>5, <1>7, <2>1
  <2>3. IsFiniteSet(V)
    BY <1>3, ReviewAssumption, FS_Subset
  <2>4. Cardinality(V) <= 1
    BY <2>1
  <2> HIDE DEF V
  <2> QED  BY <2>2, <2>3, <2>4, AtMostOne
<1>8. CASE ~(r.content = k /\ r.group = g)
  <2>1. ASSUME NEW c \in Candidates, GroupOf[c] = g, StatusIn(rs, n, k)[c] = "validated"
        PROVE  StatusIn(rs, n - 1, k)[c] = "validated"
    <3>1. CASE r.content = k /\ c \in DOMAIN r.trs
      <4>1. r.trs[c].action = "validate"
        BY <1>4, <1>5, <2>1, <3>1
      <4>2. g \in {NoGroup, r.group}
        BY <1>6, <2>1, <3>1, <4>1
      <4> QED  BY <1>1, <1>8, <3>1, <4>2
    <3>2. CASE ~(r.content = k /\ c \in DOMAIN r.trs)
      BY <1>4, <2>1, <3>2
    <3> QED  BY <3>1, <3>2
  <2>2. StatusIn(rs, n - 1, k)[a] = "validated" /\ StatusIn(rs, n - 1, k)[b] = "validated"
    BY <1>1, <2>1
  <2> QED  BY <2>2 DEF NoContradiction
<1> QED  BY <1>7, <1>8

\* A ledger that replays never validates two members of a conflict group.
LEMMA ReplayKeepsApart ==
    ASSUME NEW rs \in Seq(ReviewRecord), ReviewsReplay(rs)
    PROVE  NoContradiction(rs, Len(rs))
<1> DEFINE Bad == {n \in 0..Len(rs) : ~NoContradiction(rs, n)}
<1> SUFFICES ASSUME Bad # {}
             PROVE  FALSE
  OBVIOUS
<1>1. PICK m \in Bad : \A n \in Bad : m <= n
  <2>1. Bad \in SUBSET Nat
    OBVIOUS
  <2> HIDE DEF Bad
  <2> QED  BY <2>1, LeastNumber
<1>2. m \in 0..Len(rs) /\ ~NoContradiction(rs, m)
  OBVIOUS
<1>3. m # 0
  <2>1. \A k, c : Decisions(rs, 0, k, c) = {}
    BY DEF Decisions
  <2>2. ASSUME NEW k \in Contents, NEW c \in Candidates PROVE StatusIn(rs, 0, k)[c] # "validated"
    BY <2>1 DEF StatusIn, initialStatus
  <2>3. NoContradiction(rs, 0)
    BY <2>2 DEF NoContradiction, Members
  <2> QED  BY <1>2, <2>3
<1>4. NoContradiction(rs, m - 1)
  <2>1. m - 1 \in 0..Len(rs) /\ ~(m <= m - 1)
    BY <1>2, <1>3
  <2>2. m - 1 \notin Bad
    BY <1>1, <2>1
  <2> QED  BY <2>1, <2>2
<1>5. NoContradiction(rs, m)
  <2>1. m \in 1..Len(rs)
    BY <1>2, <1>3
  <2> HIDE DEF Bad
  <2> QED  BY <1>4, <2>1, RecordKeepsApart
<1> QED  BY <1>2, <1>5

-----------------------------------------------------------------------------
\* The request a reviewer writes has the form of a record.
LEMMA RequestType ==
    ASSUME NEW g \in Generations, NEW st \in [Candidates -> Status], NEW req \in Requests(g, st),
           NEW at \in Nat
    PROVE  [gen |-> g, content |-> ContentOf[g], group |-> req[1], trs |-> req[2], at |-> at]
               \in ReviewRecord
<1> DEFINE tr(c, a, s) == [expected |-> st[c], action |-> a,
                           scope |-> IF a = "validate" THEN s ELSE NoScope,
                           result |-> resultingStatus(a, initialStatus(c))]
<1>1. ASSUME NEW c \in Candidates, NEW a \in Action, NEW s \in Scopes
      PROVE  tr(c, a, s) \in Transition
  BY DEF Transition, Action, Status, resultingStatus, initialStatus
<1>2. CandidatesOf[g] \subseteq Candidates
  BY ReviewAssumption
<1> HIDE DEF tr
<1>3. \/ \E x \in {NoGroup} \cup Groups, c \in CandidatesOf[g], a \in Action, s \in Scopes :
             req = <<x, [y \in {c} |-> tr(c, a, s)]>>
      \/ \E x \in {GroupOf[c] : c \in CandidatesOf[g]} \ {NoGroup} :
             \E a \in [Members(x) -> {"validate", "reject"}], s \in Scopes :
                req = <<x, [c \in Members(x) |-> tr(c, a[c], s)]>>
  BY DEF Requests, tr
<1>4. ASSUME NEW x \in {NoGroup} \cup Groups, NEW c \in CandidatesOf[g], NEW a \in Action, NEW s \in Scopes,
             req = <<x, [y \in {c} |-> tr(c, a, s)]>>
      PROVE  \E decided \in SUBSET Candidates : req[2] \in [decided -> Transition]
  <2>1. req[2] \in [{c} -> Transition]
    BY <1>1, <1>2, <1>4
  <2> QED  BY <1>2, <2>1
<1>5. ASSUME NEW x, NEW a \in [Members(x) -> {"validate", "reject"}], NEW s \in Scopes,
             req = <<x, [c \in Members(x) |-> tr(c, a[c], s)]>>
      PROVE  \E decided \in SUBSET Candidates : req[2] \in [decided -> Transition]
  <2>1. \A c \in Members(x) : c \in Candidates /\ a[c] \in Action
    BY DEF Members, Action
  <2>2. req[2] \in [Members(x) -> Transition]
    BY <1>1, <1>5, <2>1
  <2> QED  BY <2>2 DEF Members
<1>6. \A c \in CandidatesOf[g] : GroupOf[c] \in Groups \cup {NoGroup}
  BY <1>2, ReviewAssumption
<1>7. PICK decided \in SUBSET Candidates : req[2] \in [decided -> Transition]
  <2>1. CASE \E x \in {NoGroup} \cup Groups, c \in CandidatesOf[g], a \in Action, s \in Scopes :
                req = <<x, [y \in {c} |-> tr(c, a, s)]>>
    BY <1>4, <2>1
  <2>2. CASE \E x \in {GroupOf[c] : c \in CandidatesOf[g]} \ {NoGroup} :
                \E a \in [Members(x) -> {"validate", "reject"}], s \in Scopes :
                   req = <<x, [c \in Members(x) |-> tr(c, a[c], s)]>>
    BY <1>5, <2>2
  <2> QED  BY <1>3, <2>1, <2>2
<1>8. req[1] \in Groups \cup {NoGroup}
  <2>1. CASE \E x \in {NoGroup} \cup Groups, c \in CandidatesOf[g], a \in Action, s \in Scopes :
                req = <<x, [y \in {c} |-> tr(c, a, s)]>>
    <3>1. PICK x \in {NoGroup} \cup Groups, c \in CandidatesOf[g], a \in Action, s \in Scopes :
                  req = <<x, [y \in {c} |-> tr(c, a, s)]>>
      BY <2>1
    <3> QED  BY <3>1
  <2>2. CASE \E x \in {GroupOf[c] : c \in CandidatesOf[g]} \ {NoGroup} :
                \E a \in [Members(x) -> {"validate", "reject"}], s \in Scopes :
                   req = <<x, [c \in Members(x) |-> tr(c, a[c], s)]>>
    <3>1. PICK x \in {GroupOf[c] : c \in CandidatesOf[g]} \ {NoGroup} :
                  \E a \in [Members(x) -> {"validate", "reject"}], s \in Scopes :
                     req = <<x, [c \in Members(x) |-> tr(c, a[c], s)]>>
      BY <2>2
    <3>2. req[1] = x
      BY <3>1
    <3> QED  BY <1>6, <3>2
  <2> QED  BY <1>3, <2>1, <2>2
<1>9. ContentOf[g] \in Contents
  BY DEF Contents
<1>10. [gen |-> g, content |-> ContentOf[g], group |-> req[1], trs |-> req[2], at |-> at]
          \in RecordDeciding(decided)
  BY <1>7, <1>8, <1>9 DEF RecordDeciding
<1> QED  BY <1>10 DEF ReviewRecord

\* A record that is acceptable after the others leaves a ledger that replays.
LEMMA ReviewAppended ==
    ASSUME NEW rs \in Seq(ReviewRecord), NEW r \in ReviewRecord, ReviewsReplay(rs),
           ContentOf[r.gen] = r.content,
           prepareTransitions(r.group, r.trs, StatusIn(rs, Len(rs), r.content))
    PROVE  ReviewsReplay(Append(rs, r))
<1> DEFINE ss == Append(rs, r)
<1>1. Len(ss) = Len(rs) + 1 /\ Len(rs) \in Nat /\ (\A i \in 1..Len(rs) : ss[i] = rs[i]) /\ ss[Len(rs) + 1] = r
  BY Appending
<1> HIDE DEF ss
<1> SUFFICES ASSUME NEW i \in 1..Len(ss)
             PROVE  /\ ContentOf[ss[i].gen] = ss[i].content
                    /\ prepareTransitions(ss[i].group, ss[i].trs, StatusIn(ss, i - 1, ss[i].content))
  BY DEF ReviewsReplay, ss
<1>2. StatusIn(ss, i - 1, ss[i].content) = StatusIn(rs, i - 1, ss[i].content)
  <2> DEFINE n == i - 1
             k == ss[i].content
  <2>1. n \in Nat /\ \A j \in 1..n : ss[j] = rs[j]
    BY <1>1
  <2> HIDE DEF n, k
  <2>2. StatusIn(ss, n, k) = StatusIn(rs, n, k)
    BY <2>1, StatusAgree
  <2> QED  BY <2>2 DEF n, k
<1>3. CASE i = Len(rs) + 1
  BY <1>1, <1>2, <1>3
<1>4. CASE i # Len(rs) + 1
  <2>1. i \in 1..Len(rs) /\ ss[i] = rs[i]
    BY <1>1, <1>4
  <2> QED  BY <1>2, <2>1 DEF ReviewsReplay
<1> QED  BY <1>3, <1>4

\* What the other ledgers see of a step of the review ledger.
ReviewsGrow ==
    /\ clock <= clock' /\ clock' \in Nat
    /\ \/ reviews' = reviews
       \/ \E r \in ReviewRecord : reviews' = Append(reviews, r)

\* A reviewer who appends its prepared request, whether or not Apply then
\* reports success.
LEMMA ReviewAppends ==
    ASSUME ReviewInv, NEW p \in Reviewers, reviewPc[p] = "prepared",
           reviews' = Append(reviews, reviewDraft[p])
    PROVE  /\ reviews' \in Seq(ReviewRecord)
           /\ \E r \in ReviewRecord : reviews' = Append(reviews, r)
           /\ \A i \in 1..Len(reviews') : reviews'[i].at < clock
           /\ ReviewLedgerReplayable'
<1>1. reviews \in Seq(ReviewRecord) /\ reviewDraft[p] \in ReviewRecord /\ reviewDraft[p].at < clock
  BY DEF ReviewInv, ReviewTypes, ReviewsInTime, ReviewInside
<1>2. /\ reviews' \in Seq(ReviewRecord) /\ Len(reviews') = Len(reviews) + 1 /\ Len(reviews) \in Nat
      /\ \A i \in 1..Len(reviews) : reviews'[i] = reviews[i]
      /\ reviews'[Len(reviews) + 1] = reviewDraft[p]
  BY <1>1, Appending
<1>3. \A i \in 1..Len(reviews) : reviews[i].at < clock
  BY DEF ReviewInv, ReviewsInTime
<1>4. \A i \in 1..Len(reviews') : i \in 1..Len(reviews) \/ i = Len(reviews) + 1
  BY <1>2
<1>5. ReviewsReplay(reviews')
  BY <1>1, ReviewAppended DEF ReviewInv, ReviewsPrepared, ReviewLedgerReplayable
<1> QED  BY <1>1, <1>2, <1>3, <1>4, <1>5 DEF ReviewLedgerReplayable

\* Every step of a reviewer, and the removal of the lock file, keep the
\* review layer.
LEMMA ReviewStep ==
    ASSUME ReviewInv, ReviewNext, bound' = bound
    PROVE  ReviewInv' /\ ReviewsGrow
<1> USE DEF ReviewInv
<1>0. /\ bound.reviewers \subseteq Reviewers /\ bound.generations \subseteq Generations
      /\ clock \in Nat /\ reviews \in Seq(ReviewRecord) /\ Len(reviews) \in Nat
  <2>1. bound \in Profiles /\ clock \in Nat /\ reviews \in Seq(ReviewRecord)
    BY DEF ReviewTypes
  <2>2. Len(reviews) \in Nat
    BY <2>1
  <2> QED  BY <2>1, <2>2, ReviewProfileAssumption
<1>1. ASSUME NEW p \in Reviewers, DraftReview(p) PROVE ReviewInv' /\ ReviewsGrow
  <2>1. PICK g \in bound.generations : \E req \in Requests(g, StatusIn(reviews, Len(reviews), ContentOf[g])) :
          reviewDraft' = [reviewDraft EXCEPT ![p] =
              [gen |-> g, content |-> ContentOf[g], group |-> req[1], trs |-> req[2], at |-> clock]]
    BY <1>1 DEF DraftReview
  <2>2. PICK req \in Requests(g, StatusIn(reviews, Len(reviews), ContentOf[g])) :
          reviewDraft' = [reviewDraft EXCEPT ![p] =
              [gen |-> g, content |-> ContentOf[g], group |-> req[1], trs |-> req[2], at |-> clock]]
    BY <2>1
  <2> DEFINE r == [gen |-> g, content |-> ContentOf[g], group |-> req[1], trs |-> req[2], at |-> clock]
  <2>3. StatusIn(reviews, Len(reviews), ContentOf[g]) \in [Candidates -> Status]
    BY <1>0, StatusType
  <2>4. r \in ReviewRecord /\ ContentOf[r.gen] = r.content
    BY <1>0, <2>3, RequestType
  <2> HIDE DEF r
  <2>5. /\ reviewDraft' = [reviewDraft EXCEPT ![p] = r]
        /\ reviewPc' = [reviewPc EXCEPT ![p] = "drafted"]
        /\ reviewPc[p] = "idle"
        /\ UNCHANGED <<clock, reviews, reviewTorn, reviewLock>>
    BY <1>1, <2>2 DEF DraftReview, r
  <2>6. ReviewTypes'
    BY <2>4, <2>5 DEF ReviewTypes
  <2>7. \A q \in Reviewers : q # p => reviewPc'[q] = reviewPc[q] /\ reviewDraft'[q] = reviewDraft[q]
    BY <2>5 DEF ReviewTypes
  <2>8. reviewPc'[p] = "drafted" /\ reviewDraft'[p] = r
    BY <2>5 DEF ReviewTypes
  <2>9. ReviewersExclude' /\ ReviewsInTime'
    BY <2>5, <2>7, <2>8 DEF ReviewersExclude, ReviewsInTime, ReviewInside
  <2>10. ReviewsPrepared' /\ ReviewLedgerReplayable'
    BY <2>4, <2>5, <2>7, <2>8 DEF ReviewsPrepared, ReviewLedgerReplayable
  <2> QED  BY <1>0, <2>5, <2>6, <2>9, <2>10 DEF ReviewsGrow
<1>2. ASSUME NEW p \in Reviewers, BeginReview(p) PROVE ReviewInv' /\ ReviewsGrow
  <2>1. /\ reviewDraft' = [reviewDraft EXCEPT ![p].at = clock]
        /\ reviewPc' = [reviewPc EXCEPT ![p] = "locked"]
        /\ reviewPc[p] = "drafted"
        /\ clock' = clock + 1
        /\ ~reviewLock /\ reviewLock'
        /\ UNCHANGED <<reviews, reviewTorn>>
    BY <1>2 DEF BeginReview, acquireReviewLock
  <2>2. \A q \in Reviewers : q # p => reviewPc'[q] = reviewPc[q] /\ reviewDraft'[q] = reviewDraft[q]
    BY <2>1 DEF ReviewTypes
  <2>3. reviewPc'[p] = "locked" /\ reviewDraft'[p] = [reviewDraft[p] EXCEPT !.at = clock]
    BY <2>1 DEF ReviewTypes
  <2>4. reviewDraft[p] \in ReviewRecord
    BY <2>1 DEF ReviewTypes
  <2>5. /\ reviewDraft'[p] \in ReviewRecord /\ reviewDraft'[p].at = clock
        /\ reviewDraft'[p].gen = reviewDraft[p].gen /\ reviewDraft'[p].content = reviewDraft[p].content
    BY <1>0, <2>3, <2>4 DEF ReviewRecord, RecordDeciding
  <2>6. ReviewTypes'
    BY <1>0, <1>2, <2>1, <2>2, <2>3, <2>5 DEF ReviewTypes, BeginReview, acquireReviewLock
  <2>7. ReviewersExclude'
    BY <2>1, <2>2, <2>3 DEF ReviewersExclude, ReviewInside
  <2>8. \A i \in 1..Len(reviews) : reviews[i].at < clock /\ reviews[i].at \in Nat
    BY <1>0, RecordType DEF ReviewsInTime
  <2>9. \A q \in Reviewers : ReviewInside(q) => reviewDraft[q].at < clock /\ reviewDraft[q].at \in Nat
    BY RecordType DEF ReviewsInTime, ReviewTypes, ReviewInside
  <2>10. ReviewsInTime'
    BY <1>0, <2>1, <2>2, <2>3, <2>5, <2>8, <2>9 DEF ReviewsInTime, ReviewInside
  <2>11. ReviewsPrepared' /\ ReviewLedgerReplayable'
    BY <2>1, <2>2, <2>3, <2>5 DEF ReviewsPrepared, ReviewLedgerReplayable
  <2> QED  BY <1>0, <2>1, <2>6, <2>7, <2>10, <2>11 DEF ReviewsGrow
<1>3. ASSUME NEW p \in Reviewers, PrepareReview(p) PROVE ReviewInv' /\ ReviewsGrow
  <2>1. /\ reviewPc' = [reviewPc EXCEPT ![p] = "prepared"]
        /\ reviewPc[p] = "locked"
        /\ UNCHANGED <<clock, reviews, reviewTorn, reviewLock, reviewDraft>>
        /\ prepareTransitions(reviewDraft[p].group, reviewDraft[p].trs,
                              StatusIn(reviews, Len(reviews), reviewDraft[p].content))
    BY <1>3 DEF PrepareReview
  <2>2. reviewPc'[p] = "prepared" /\ \A q \in Reviewers : q # p => reviewPc'[q] = reviewPc[q]
    BY <2>1 DEF ReviewTypes
  <2>3. ReviewTypes' /\ ReviewersExclude' /\ ReviewsInTime'
    BY <2>1, <2>2 DEF ReviewTypes, ReviewersExclude, ReviewsInTime, ReviewInside
  <2>4. ReviewsPrepared' /\ ReviewLedgerReplayable'
    BY <2>1, <2>2 DEF ReviewsPrepared, ReviewLedgerReplayable
  <2> QED  BY <1>0, <2>1, <2>3, <2>4 DEF ReviewsGrow
<1>4. ASSUME NEW p \in Reviewers, AppendReview(p) PROVE ReviewInv' /\ ReviewsGrow
  <2>1. /\ reviewPc' = [reviewPc EXCEPT ![p] = "appended"]
        /\ reviewPc[p] = "prepared"
        /\ reviews' = Append(reviews, reviewDraft[p])
        /\ UNCHANGED <<clock, reviewTorn, reviewLock, reviewDraft>>
    BY <1>4 DEF AppendReview
  <2>2. reviewPc'[p] = "appended" /\ \A q \in Reviewers : q # p => reviewPc'[q] = reviewPc[q]
    BY <2>1 DEF ReviewTypes
  <2>3. /\ reviews' \in Seq(ReviewRecord)
        /\ \E r \in ReviewRecord : reviews' = Append(reviews, r)
        /\ \A i \in 1..Len(reviews') : reviews'[i].at < clock
        /\ ReviewLedgerReplayable'
    BY <2>1, ReviewAppends
  <2>4. ReviewTypes'
    BY <2>1, <2>2, <2>3 DEF ReviewTypes
  <2>5. ReviewersExclude' /\ ReviewsInTime'
    BY <2>1, <2>2, <2>3 DEF ReviewersExclude, ReviewsInTime, ReviewInside
  <2>6. \A q \in Reviewers : reviewPc'[q] # "prepared"
    BY <2>1, <2>2 DEF ReviewersExclude, ReviewInside
  <2>7. ReviewsPrepared'
    BY <2>1, <2>2, <2>6 DEF ReviewsPrepared
  <2> QED  BY <1>0, <2>1, <2>3, <2>4, <2>5, <2>7 DEF ReviewsGrow
<1>5. ASSUME NEW p \in Reviewers, AppendReviewFails(p) PROVE ReviewInv' /\ ReviewsGrow
  <2>1. /\ reviewPc' = [reviewPc EXCEPT ![p] = "idle"]
        /\ reviewPc[p] = "prepared"
        /\ reviewDraft' = [reviewDraft EXCEPT ![p] = NoDraft]
        /\ reviewLock' = FALSE /\ reviewTorn' \in BOOLEAN /\ clock' = clock
        /\ reviews' = reviews \/ reviews' = Append(reviews, reviewDraft[p])
    BY <1>5 DEF AppendReviewFails, ReviewTypes
  <2>2. /\ reviewPc'[p] = "idle"
        /\ \A q \in Reviewers : q # p => reviewPc'[q] = reviewPc[q] /\ reviewDraft'[q] = reviewDraft[q]
    BY <2>1 DEF ReviewTypes
  <2>3. \A q \in Reviewers : ~ReviewInside(q)'
    BY <2>1, <2>2 DEF ReviewersExclude, ReviewInside
  <2>4. /\ reviews' \in Seq(ReviewRecord)
        /\ reviews' = reviews \/ \E r \in ReviewRecord : reviews' = Append(reviews, r)
        /\ \A i \in 1..Len(reviews') : reviews'[i].at < clock
        /\ ReviewLedgerReplayable'
    <3>1. CASE reviews' = reviews
      BY <3>1 DEF ReviewTypes, ReviewsInTime, ReviewLedgerReplayable
    <3>2. CASE reviews' = Append(reviews, reviewDraft[p])
      BY <2>1, <3>2, ReviewAppends
    <3> QED  BY <2>1, <3>1, <3>2
  <2>5. ReviewTypes'
    BY <2>1, <2>2, <2>4 DEF ReviewTypes
  <2>6. ReviewersExclude' /\ ReviewsInTime'
    BY <2>1, <2>3, <2>4 DEF ReviewersExclude, ReviewsInTime
  <2>7. ReviewsPrepared'
    BY <2>2, <2>3 DEF ReviewsPrepared, ReviewInside
  <2> QED  BY <1>0, <2>1, <2>4, <2>5, <2>6, <2>7 DEF ReviewsGrow
<1>6. ASSUME NEW p \in Reviewers, ReturnReview(p) \/ CrashReview(p) PROVE ReviewInv' /\ ReviewsGrow
  <2>1. /\ reviewPc' = [reviewPc EXCEPT ![p] = "idle"]
        /\ reviewDraft' = [reviewDraft EXCEPT ![p] = NoDraft]
        /\ reviewLock' \in BOOLEAN
        /\ reviewLock' = reviewLock \/ ReviewInside(p)
        /\ UNCHANGED <<clock, reviews, reviewTorn>>
    BY <1>6 DEF ReturnReview, CrashReview, ReviewTypes, ReviewInside
  <2>2. /\ reviewPc'[p] = "idle"
        /\ \A q \in Reviewers : q # p => reviewPc'[q] = reviewPc[q] /\ reviewDraft'[q] = reviewDraft[q]
    BY <2>1 DEF ReviewTypes
  <2>3. ReviewTypes'
    BY <2>1, <2>2 DEF ReviewTypes
  <2>4. ReviewersExclude' /\ ReviewsInTime'
    BY <2>1, <2>2 DEF ReviewersExclude, ReviewsInTime, ReviewInside
  <2>5. ReviewsPrepared' /\ ReviewLedgerReplayable'
    BY <2>1, <2>2 DEF ReviewsPrepared, ReviewLedgerReplayable
  <2> QED  BY <1>0, <2>1, <2>3, <2>4, <2>5 DEF ReviewsGrow
<1>7. ASSUME ClearReviewLock PROVE ReviewInv' /\ ReviewsGrow
  <2>1. \A p \in Reviewers : ~ReviewInside(p)
    BY <1>7 DEF ClearReviewLock, ReviewInside
  <2>2. ReviewTypes' /\ ReviewersExclude' /\ ReviewsInTime' /\ ReviewsPrepared' /\ ReviewLedgerReplayable'
    BY <1>7, <2>1 DEF ClearReviewLock, ReviewTypes, ReviewersExclude, ReviewsInTime, ReviewsPrepared,
                      ReviewInside, ReviewLedgerReplayable
  <2> QED  BY <1>0, <1>7, <2>2 DEF ClearReviewLock, ReviewsGrow
<1> QED  BY <1>0, <1>1, <1>2, <1>3, <1>4, <1>5, <1>6, <1>7 DEF ReviewNext

\* Steps of the other ledgers only let the clock advance.
LEMMA ReviewUntouched ==
    ASSUME ReviewInv, UNCHANGED <<reviewVars, bound>>, clock <= clock', clock' \in Nat
    PROVE  ReviewInv' /\ ReviewsGrow
<1>1. /\ reviews' = reviews /\ reviewTorn' = reviewTorn /\ reviewLock' = reviewLock
      /\ reviewPc' = reviewPc /\ reviewDraft' = reviewDraft /\ bound' = bound
  BY DEF reviewVars
<1>2. /\ ReviewTypes' /\ ReviewersExclude' /\ ReviewsPrepared' /\ ReviewLedgerReplayable'
  BY <1>1 DEF ReviewInv, ReviewTypes, ReviewersExclude, ReviewsPrepared, ReviewLedgerReplayable, ReviewInside
<1>3. ReviewsInTime'
  <2>1. clock \in Nat /\ \A p \in Reviewers : ReviewInside(p) => reviewDraft[p].at \in Nat
    BY RecordType DEF ReviewInv, ReviewTypes, ReviewInside
  <2>2. \A i \in 1..Len(reviews) : reviews[i].at \in Nat
    BY RecordType DEF ReviewInv, ReviewTypes
  <2> QED  BY <1>1, <2>1, <2>2 DEF ReviewInv, ReviewsInTime, ReviewInside
<1> QED  BY <1>1, <1>2, <1>3 DEF ReviewInv, ReviewsGrow

-----------------------------------------------------------------------------
\* The current revision of a memory after n records.
LEMMA CurrentStep ==
    ASSUME NEW ps, NEW n \in Nat \ {0}, NEW m
    PROVE  CurrentRevision(ps, n, m) = IF ps[n].memory = m THEN n ELSE CurrentRevision(ps, n - 1, m)
<1>1. CASE ps[n].memory = m
  <2>1. n \in RevisionsOf(ps, n, m) /\ RevisionsOf(ps, n, m) \subseteq 1..n
    BY <1>1 DEF RevisionsOf
  <2>2. \A j \in RevisionsOf(ps, n, m) : j <= n
    BY DEF RevisionsOf
  <2>3. Latest(RevisionsOf(ps, n, m)) = n
    BY <2>1, <2>2, LatestIs
  <2> QED  BY <1>1, <2>1, <2>3 DEF CurrentRevision
<1>2. CASE ps[n].memory # m
  <2>1. RevisionsOf(ps, n, m) = RevisionsOf(ps, n - 1, m)
    BY <1>2 DEF RevisionsOf
  <2> QED  BY <1>2, <2>1 DEF CurrentRevision
<1> QED  BY <1>1, <1>2

\* It is one of the n records, or none.
LEMMA CurrentType ==
    ASSUME NEW ps, NEW n \in Nat, NEW m
    PROVE  CurrentRevision(ps, n, m) \in 0..n
<1>1. CASE RevisionsOf(ps, n, m) = {}
  BY <1>1 DEF CurrentRevision
<1>2. CASE RevisionsOf(ps, n, m) # {}
  <2>1. RevisionsOf(ps, n, m) \subseteq 1..n
    BY DEF RevisionsOf
  <2>2. Latest(RevisionsOf(ps, n, m)) \in 1..n
    BY <1>2, <2>1, LatestOf
  <2> QED  BY <1>2, <2>2 DEF CurrentRevision
<1> QED  BY <1>1, <1>2

\* It depends on those records alone, ...
LEMMA CurrentAgree ==
    ASSUME NEW ps, NEW ss, NEW n \in Nat, \A i \in 1..n : ps[i] = ss[i], NEW m
    PROVE  CurrentRevision(ps, n, m) = CurrentRevision(ss, n, m)
<1>1. RevisionsOf(ps, n, m) = RevisionsOf(ss, n, m)
  BY DEF RevisionsOf
<1> QED  BY <1>1 DEF CurrentRevision

\* ... and so does whether it is active and what it says.
LEMMA ActiveAgree ==
    ASSUME NEW ps, NEW ss, NEW n \in Nat, \A i \in 1..n : ps[i] = ss[i], NEW m
    PROVE  LET i == CurrentRevision(ps, n, m)
               j == CurrentRevision(ss, n, m)
           IN  i = j /\ IsActive(ps, i) = IsActive(ss, j) /\ (IsActive(ps, i) => ps[i] = ss[j])
<1> DEFINE i == CurrentRevision(ps, n, m)
<1>1. i = CurrentRevision(ss, n, m)
  BY CurrentAgree
<1>2. i \in 0..n
  BY CurrentType
<1> HIDE DEF i
<1>3. i > 0 => ps[i] = ss[i]
  BY <1>2
<1>4. IsActive(ps, i) = IsActive(ss, i)
  BY <1>2, <1>3 DEF IsActive
<1>5. IsActive(ps, i) => ps[i] = ss[i]
  BY <1>3 DEF IsActive
<1> QED  BY <1>1, <1>4, <1>5 DEF i

\* The memories that share a semantic key depend on the first n records alone, ...
LEMMA MeaningAgree ==
    ASSUME NEW ps, NEW ss, NEW n \in Nat, \A i \in 1..n : ps[i] = ss[i], NEW c, NEW scope
    PROVE  SameMeaning(ps, n, c, scope) = SameMeaning(ss, n, c, scope)
  BY ActiveAgree DEF SameMeaning

\* ... and so does whether a revision follows them.
LEMMA FollowsAgree ==
    ASSUME NEW ps, NEW ss, NEW n \in Nat, \A i \in 1..n : ps[i] = ss[i], NEW r
    PROVE  Follows(ps, n, r) = Follows(ss, n, r)
<1> DEFINE i == CurrentRevision(ps, n, r.memory)
<1>1. /\ i = CurrentRevision(ss, n, r.memory)
      /\ IsActive(ps, i) = IsActive(ss, i)
      /\ IsActive(ps, i) => ps[i] = ss[i]
  BY ActiveAgree
<1>2. SameMeaning(ps, n, r.cand, r.scope) = SameMeaning(ss, n, r.cand, r.scope)
  BY MeaningAgree
<1> HIDE DEF i
<1> QED  BY <1>1, <1>2 DEF Follows, i

\* After n records no two memories hold one semantic key in one scope.
KeysApart(ps, n) ==
    \A c \in Candidates, s \in Scopes : \A a, b \in SameMeaning(ps, n, c, s) : a = b

\* One revision that follows keeps it that way: a first revision needs a key
\* that is free, a superseding one keeps the key of the memory it revises.
LEMMA RevisionKeepsApart ==
    ASSUME NEW ps \in Seq(Revision), NEW n \in 1..Len(ps), Follows(ps, n - 1, ps[n]),
           KeysApart(ps, n - 1)
    PROVE  KeysApart(ps, n)
<1> SUFFICES ASSUME NEW c \in Candidates, NEW s \in Scopes,
                    NEW a \in SameMeaning(ps, n, c, s), NEW b \in SameMeaning(ps, n, c, s), a # b
             PROVE  FALSE
  BY DEF KeysApart
<1> DEFINE r == ps[n]
           was(m) == CurrentRevision(ps, n - 1, m)
           now(m) == CurrentRevision(ps, n, m)
<1>1. n \in Nat \ {0} /\ r \in Revision
  OBVIOUS
<1>2. r.action \in {"promote", "supersede", "revoke"} /\ r.cand \in Candidates /\ r.scope \in Scopes
  BY <1>1 DEF Revision
<1>3. \A m : now(m) = IF r.memory = m THEN n ELSE was(m)
  BY <1>1, CurrentStep
<1>4. \A m : was(m) \in 0..(n - 1)
  <2>1. n - 1 \in Nat
    BY <1>1
  <2> QED  BY <2>1, CurrentType
<1>5. \A m \in SameMeaning(ps, n, c, s) :
         /\ m \in Memories /\ m[2] = s
         /\ IsActive(ps, now(m)) /\ KeyOf[ps[now(m)].cand] = KeyOf[c]
  BY DEF SameMeaning
<1>6. ASSUME NEW m \in SameMeaning(ps, n, c, s), m # r.memory
      PROVE  m \in SameMeaning(ps, n - 1, c, s)
  BY <1>3, <1>5, <1>6 DEF SameMeaning
<1> HIDE DEF was, now
<1>7. CASE a # r.memory /\ b # r.memory
  <2>1. a \in SameMeaning(ps, n - 1, c, s) /\ b \in SameMeaning(ps, n - 1, c, s)
    BY <1>6, <1>7
  <2> QED  BY <2>1 DEF KeysApart
<1>8. ASSUME NEW x \in SameMeaning(ps, n, c, s), NEW y \in SameMeaning(ps, n, c, s),
             x = r.memory, y # r.memory
      PROVE  FALSE
  <2>1. y \in SameMeaning(ps, n - 1, c, s)
    BY <1>6, <1>8
  <2>2. now(x) = n /\ IsActive(ps, n) /\ KeyOf[r.cand] = KeyOf[c] /\ x[2] = s /\ x \in Memories
    BY <1>3, <1>5, <1>8
  <2>3. CASE r.action = "promote"
    <3>1. r.memory = <<TextOf[r.cand], r.scope>> /\ SameMeaning(ps, n - 1, r.cand, r.scope) = {}
      BY <2>3 DEF Follows
    <3>2. r.scope = s
      BY <1>8, <2>2, <3>1
    <3>3. y \in SameMeaning(ps, n - 1, r.cand, r.scope)
      BY <2>1, <2>2, <3>2 DEF SameMeaning
    <3> QED  BY <3>1, <3>3
  <2>4. CASE r.action = "supersede"
    <3>1. IsActive(ps, was(x)) /\ KeyOf[ps[was(x)].cand] = KeyOf[r.cand]
      BY <1>8, <2>4 DEF Follows, was
    <3>2. x \in SameMeaning(ps, n - 1, c, s)
      BY <2>2, <3>1 DEF SameMeaning, was
    <3> QED  BY <1>8, <2>1, <3>2 DEF KeysApart
  <2>5. CASE r.action = "revoke"
    BY <2>2, <2>5 DEF IsActive
  <2> QED  BY <1>2, <2>3, <2>4, <2>5
<1> QED  BY <1>7, <1>8

\* A ledger that replays has at most one active memory per key and scope.
LEMMA ReplayKeepsKeysApart ==
    ASSUME NEW ps \in Seq(Revision), NEW rs, PromotionsReplay(ps, rs)
    PROVE  KeysApart(ps, Len(ps))
<1> DEFINE Bad == {n \in 0..Len(ps) : ~KeysApart(ps, n)}
<1> SUFFICES ASSUME Bad # {}
             PROVE  FALSE
  OBVIOUS
<1>1. PICK m \in Bad : \A n \in Bad : m <= n
  <2>1. Bad \in SUBSET Nat
    OBVIOUS
  <2> HIDE DEF Bad
  <2> QED  BY <2>1, LeastNumber
<1>2. m \in 0..Len(ps) /\ ~KeysApart(ps, m)
  OBVIOUS
<1>3. m # 0
  <2>1. \A k : CurrentRevision(ps, 0, k) = 0
    BY DEF CurrentRevision, RevisionsOf
  <2>2. KeysApart(ps, 0)
    BY <2>1 DEF KeysApart, SameMeaning, IsActive
  <2> QED  BY <1>2, <2>2
<1>4. KeysApart(ps, m - 1)
  <2>1. m - 1 \in 0..Len(ps) /\ ~(m <= m - 1)
    BY <1>2, <1>3
  <2>2. m - 1 \notin Bad
    BY <1>1, <2>1
  <2> QED  BY <2>1, <2>2
<1>5. KeysApart(ps, m)
  <2>1. m \in 1..Len(ps)
    BY <1>2, <1>3
  <2>2. Follows(ps, m - 1, ps[m])
    BY <2>1 DEF PromotionsReplay
  <2> HIDE DEF Bad
  <2> QED  BY <1>4, <2>1, <2>2, RevisionKeepsApart
<1> QED  BY <1>2, <1>5

-----------------------------------------------------------------------------
\* A validation stays on record when reviews are appended.
LEMMA StillBound ==
    ASSUME reviews \in Seq(ReviewRecord), ReviewsGrow, NEW r, BoundToValidation(r)
    PROVE  BoundToValidation(r)'
<1>1. CASE reviews' = reviews
  BY <1>1 DEF BoundToValidation
<1>2. CASE \E x \in ReviewRecord : reviews' = Append(reviews, x)
  <2>1. PICK x \in ReviewRecord : reviews' = Append(reviews, x)
    BY <1>2
  <2>2. /\ Len(reviews') = Len(reviews) + 1 /\ Len(reviews) \in Nat
        /\ \A i \in 1..Len(reviews) : reviews'[i] = reviews[i]
    BY <2>1, Appending
  <2>3. r.review \in 1..Len(reviews)
    BY DEF BoundToValidation, Validates
  <2>4. r.review \in 1..Len(reviews') /\ reviews'[r.review] = reviews[r.review]
    BY <2>2, <2>3
  <2> QED  BY <2>4 DEF BoundToValidation, Validates
<1> QED  BY <1>1, <1>2 DEF ReviewsGrow

\* A revision that follows and is bound to a validation leaves a ledger that
\* replays.
LEMMA PromotionAppended ==
    ASSUME NEW ps \in Seq(Revision), NEW r \in Revision, PromotionsReplay(ps, reviews),
           Follows(ps, Len(ps), r), BoundToValidation(r)
    PROVE  PromotionsReplay(Append(ps, r), reviews)
<1> DEFINE ss == Append(ps, r)
<1>1. Len(ss) = Len(ps) + 1 /\ Len(ps) \in Nat /\ (\A i \in 1..Len(ps) : ss[i] = ps[i]) /\ ss[Len(ps) + 1] = r
  BY Appending
<1> HIDE DEF ss
<1> SUFFICES ASSUME NEW i \in 1..Len(ss)
             PROVE  /\ Follows(ss, i - 1, ss[i])
                    /\ ss[i].action # "revoke" =>
                          /\ Validates(reviews, ss[i].review, ss[i].gen, ss[i].cand, ss[i].scope)
                          /\ reviews[ss[i].review].at <= ss[i].at
  BY DEF PromotionsReplay, ss
<1>2. Follows(ss, i - 1, ss[i]) = Follows(ps, i - 1, ss[i])
  <2> DEFINE n == i - 1
             x == ss[i]
  <2>1. n \in Nat /\ \A j \in 1..n : ss[j] = ps[j]
    BY <1>1
  <2> HIDE DEF n, x
  <2>2. Follows(ss, n, x) = Follows(ps, n, x)
    BY <2>1, FollowsAgree
  <2> QED  BY <2>2 DEF n, x
<1>3. CASE i = Len(ps) + 1
  <2>1. ss[i] = r /\ i - 1 = Len(ps)
    BY <1>1, <1>3
  <2> QED  BY <1>2, <2>1 DEF BoundToValidation
<1>4. CASE i # Len(ps) + 1
  <2>1. i \in 1..Len(ps) /\ ss[i] = ps[i]
    BY <1>1, <1>4
  <2> QED  BY <1>2, <2>1 DEF PromotionsReplay
<1> QED  BY <1>3, <1>4

\* What the approval ledger sees of a step of the promotion ledger: a revision
\* comes from a promoter inside Apply, and one who goes in takes the time.
PromotionsGrow ==
    /\ clock <= clock' /\ clock' \in Nat
    /\ \/ promotions' = promotions
       \/ \E p \in Promoters : PromotionInside(p) /\ promotions' = Append(promotions, promotionDraft[p])
    /\ \A p \in Promoters : PromotionInside(p)' =>
          \/ PromotionInside(p) /\ promotionDraft'[p] = promotionDraft[p]
          \/ promotionDraft'[p].at = clock

\* Review decisions and the clock leave the promotion layer as it is.
LEMMA PromotionUntouched ==
    ASSUME ReviewInv, PromotionInv, ReviewsGrow, UNCHANGED promotionVars
    PROVE  PromotionInv' /\ PromotionsGrow
<1>1. /\ evidence' = evidence /\ evidenceLock' = evidenceLock /\ covers' = covers
      /\ promotions' = promotions /\ promotionTorn' = promotionTorn /\ promotionLock' = promotionLock
      /\ promotionPc' = promotionPc /\ promotionDraft' = promotionDraft
  BY DEF promotionVars
<1>2. /\ reviews \in Seq(ReviewRecord) /\ clock \in Nat /\ clock' \in Nat /\ clock <= clock'
  BY DEF ReviewInv, ReviewTypes, ReviewsGrow
<1>3. PromotionTypes' /\ PromotersExclude'
  BY <1>1 DEF PromotionInv, PromotionTypes, PromotersExclude, PromotionInside
<1>4. PromotionsInTime'
  <2>1. \A i \in 1..Len(promotions) : promotions[i].at \in Nat
    <3>1. promotions \in Seq(Revision)
      BY DEF PromotionInv, PromotionTypes
    <3>2. \A i \in 1..Len(promotions) : promotions[i] \in Revision
      BY <3>1
    <3> QED  BY <3>2 DEF Revision
  <2>2. \A p \in Promoters : promotionPc[p] # "idle" => promotionDraft[p].at \in Nat
    BY DEF PromotionInv, PromotionTypes, Revision
  <2>3. ASSUME NEW p \in Promoters, promotionPc[p] # "idle"
        PROVE  BoundToValidation(promotionDraft[p])'
    <3>1. PICK r : r = promotionDraft[p]
      OBVIOUS
    <3>2. BoundToValidation(r)
      BY <2>3, <3>1 DEF PromotionInv, PromotionsInTime
    <3>3. promotionDraft'[p] = r
      BY <1>1, <3>1
    <3>4. BoundToValidation(r)'
      BY <1>2, <3>2, StillBound
    <3> QED  BY <3>3, <3>4 DEF BoundToValidation
  <2> QED  BY <1>1, <1>2, <2>1, <2>2, <2>3 DEF PromotionInv, PromotionsInTime, PromotionInside
<1>5. PromotionsPrepared'
  BY <1>1 DEF PromotionInv, PromotionsPrepared, RequireCurrentEvidence
<1>6. PromotionLedgerReplayable'
  <2> SUFFICES ASSUME NEW i \in 1..Len(promotions)
               PROVE  /\ Follows(promotions, i - 1, promotions[i])
                      /\ promotions[i].action # "revoke" => BoundToValidation(promotions[i])'
    BY <1>1 DEF PromotionLedgerReplayable, PromotionsReplay, BoundToValidation
  <2>1. /\ Follows(promotions, i - 1, promotions[i])
        /\ promotions[i].action # "revoke" => BoundToValidation(promotions[i])
    BY DEF PromotionInv, PromotionLedgerReplayable, PromotionsReplay, BoundToValidation
  <2>2. PICK r : r = promotions[i]
    OBVIOUS
  <2>3. BoundToValidation(r) => BoundToValidation(r)'
    BY <1>2, StillBound
  <2>4. promotions'[i] = r
    BY <1>1, <2>2
  <2> QED  BY <2>1, <2>2, <2>3, <2>4 DEF BoundToValidation
<1> QED  BY <1>1, <1>2, <1>3, <1>4, <1>5, <1>6 DEF PromotionInv, PromotionsGrow, PromotionInside

\* A promoter who appends its prepared revision, whether or not Apply then
\* reports success.
LEMMA PromotionAppends ==
    ASSUME PromotionInv, NEW p \in Promoters, promotionPc[p] = "prepared",
           promotions' = Append(promotions, promotionDraft[p]), reviews' = reviews
    PROVE  /\ promotions' \in Seq(Revision)
           /\ \A i \in 1..Len(promotions') : promotions'[i].at < clock
           /\ PromotionLedgerReplayable'
<1>1. /\ promotions \in Seq(Revision) /\ promotionDraft[p] \in Revision
      /\ promotionDraft[p].at < clock
      /\ BoundToValidation(promotionDraft[p])
      /\ Follows(promotions, Len(promotions), promotionDraft[p])
  BY DEF PromotionInv, PromotionTypes, PromotionsInTime, PromotionsPrepared, PromotionInside
<1>2. /\ promotions' \in Seq(Revision) /\ Len(promotions') = Len(promotions) + 1 /\ Len(promotions) \in Nat
      /\ \A i \in 1..Len(promotions) : promotions'[i] = promotions[i]
      /\ promotions'[Len(promotions) + 1] = promotionDraft[p]
  BY <1>1, Appending
<1>3. \A i \in 1..Len(promotions) : promotions[i].at < clock
  BY DEF PromotionInv, PromotionsInTime
<1>4. \A i \in 1..Len(promotions') : i \in 1..Len(promotions) \/ i = Len(promotions) + 1
  BY <1>2
<1>5. PromotionsReplay(promotions', reviews)
  BY <1>1, PromotionAppended DEF PromotionInv, PromotionLedgerReplayable
<1> QED  BY <1>1, <1>2, <1>3, <1>4, <1>5 DEF PromotionLedgerReplayable

\* Writing a request, and everything before the append, leaves the ledger.
LEMMA LedgerLeft ==
    ASSUME PromotionInv, UNCHANGED <<promotions, reviews>>
    PROVE  PromotionLedgerReplayable'
  BY DEF PromotionInv, PromotionLedgerReplayable

\* The request a promoter writes from what it sees is a revision bound to a
\* validation that is on record.
LEMMA PromotionDrafted ==
    ASSUME ReviewInv, PromotionInv, NEW p \in Promoters, DraftPromotion(p)
    PROVE  \E r \in Revision : /\ promotionDraft' = [promotionDraft EXCEPT ![p] = r]
                               /\ BoundToValidation(r) /\ r.at = clock
<1>1. PICK m \in Memories, c \in Candidates, g \in bound.generations, v \in 1..Len(reviews),
           action \in {"promote", "supersede", "revoke"} :
              /\ MayRequest(action, m, c, g, v)
              /\ promotionDraft' = [promotionDraft EXCEPT ![p] = revisionRequest(action, m, c, g, v)]
  BY DEF DraftPromotion
<1>10. Validates(reviews, v, g, c, m[2])
  BY <1>1 DEF MayRequest
<1> DEFINE r == revisionRequest(action, m, c, g, v)
<1>2. clock \in Nat /\ bound.generations \subseteq Generations /\ reviews \in Seq(ReviewRecord)
  BY ReviewProfileAssumption DEF ReviewInv, ReviewTypes
<1>3. promotions \in Seq(Revision)
  BY DEF PromotionInv, PromotionTypes
<1>4. CurrentRevision(promotions, Len(promotions), m) \in Nat
  <2>1. Len(promotions) \in Nat
    BY <1>3
  <2> QED  BY <2>1, CurrentType
<1>5. m[2] \in Scopes
  BY DEF Memories
<1>6. r \in Revision
  BY <1>2, <1>4, <1>5 DEF Revision, revisionRequest
<1>7. reviews[v].at < clock /\ reviews[v].at \in Nat
  <2>1. reviews[v] \in ReviewRecord
    BY <1>2
  <2> QED  BY <2>1, RecordType DEF ReviewInv, ReviewsInTime
<1>8. BoundToValidation(r)
  BY <1>2, <1>7, <1>10 DEF BoundToValidation, revisionRequest
<1>9. r.at = clock
  BY DEF revisionRequest
<1> QED  BY <1>1, <1>6, <1>8, <1>9

\* Captures, builds, every step of a promoter and the removal of the lock files
\* keep the promotion layer.
LEMMA PromotionStepKeeps ==
    ASSUME ReviewInv, PromotionInv, PromotionStep, UNCHANGED bound
    PROVE  PromotionInv' /\ PromotionsGrow /\ UNCHANGED reviewVars
<1> USE DEF PromotionInv
<1>0. /\ bound.promoters \subseteq Promoters /\ bound.generations \subseteq Generations
      /\ clock \in Nat /\ evidence \in Nat
      /\ \A p \in Promoters : promotionPc[p] # "idle" => promotionDraft[p].at \in Nat
  <2>1. bound \in Profiles /\ clock \in Nat
    BY DEF ReviewInv, ReviewTypes
  <2>2. \A p \in Promoters : promotionPc[p] # "idle" => promotionDraft[p] \in Revision
    BY DEF PromotionTypes
  <2>3. evidence \in Nat
    BY DEF PromotionTypes
  <2> QED  BY <2>1, <2>2, <2>3, ReviewProfileAssumption, PromotionProfileAssumption DEF Revision
<1>1. ASSUME AppendEvidence \/ \E g \in bound.generations : BuildGeneration(g)
      PROVE  PromotionInv' /\ PromotionsGrow /\ UNCHANGED reviewVars
  <2>1. /\ ~evidenceLock
        /\ evidence' \in Nat /\ covers' \in [Generations -> Nat]
        /\ UNCHANGED <<evidenceLock, promotions, promotionTorn, promotionLock, promotionPc, promotionDraft,
                       clock, reviewVars>>
    <3>1. CASE AppendEvidence
      BY <1>0, <3>1 DEF AppendEvidence, PromotionTypes
    <3>2. CASE \E g \in bound.generations : BuildGeneration(g)
      BY <1>0, <3>2 DEF BuildGeneration, PromotionTypes
    <3> QED  BY <1>1, <3>1, <3>2
  <2>2. \A p \in Promoters : promotionPc[p] # "prepared"
    BY <2>1 DEF PromotersExclude
  <2>3. PromotionTypes' /\ PromotersExclude' /\ PromotionsPrepared'
    BY <2>1, <2>2 DEF PromotionTypes, PromotersExclude, PromotionsPrepared, PromotionInside
  <2>4. PromotionsInTime' /\ PromotionLedgerReplayable'
    BY <2>1 DEF PromotionsInTime, PromotionInside, BoundToValidation, PromotionLedgerReplayable, reviewVars
  <2> QED  BY <1>0, <2>1, <2>3, <2>4 DEF PromotionsGrow, PromotionInside
<1>2. ASSUME NEW p \in Promoters, DraftPromotion(p)
      PROVE  PromotionInv' /\ PromotionsGrow /\ UNCHANGED reviewVars
  <2>1. PICK r \in Revision : /\ promotionDraft' = [promotionDraft EXCEPT ![p] = r]
                              /\ BoundToValidation(r) /\ r.at = clock
    BY <1>2, PromotionDrafted
  <2>2. /\ promotionPc[p] = "idle" /\ promotionPc' = [promotionPc EXCEPT ![p] = "drafted"]
        /\ UNCHANGED <<evidence, evidenceLock, covers, promotions, promotionTorn, promotionLock, clock, reviewVars>>
    BY <1>2 DEF DraftPromotion, evidenceVars
  <2>3. /\ promotionPc'[p] = "drafted" /\ promotionDraft'[p] = r
        /\ \A q \in Promoters : q # p => promotionPc'[q] = promotionPc[q] /\ promotionDraft'[q] = promotionDraft[q]
    BY <2>1, <2>2 DEF PromotionTypes
  <2>4. PromotionTypes' /\ PromotersExclude' /\ PromotionsPrepared'
    BY <2>1, <2>2, <2>3 DEF PromotionTypes, PromotersExclude, PromotionsPrepared, PromotionInside, RequireCurrentEvidence
  <2>5. PromotionsInTime' /\ PromotionLedgerReplayable'
    BY <1>0, <2>1, <2>2, <2>3 DEF PromotionsInTime, PromotionInside, BoundToValidation, PromotionLedgerReplayable, reviewVars
  <2> QED  BY <1>0, <2>2, <2>3, <2>4, <2>5 DEF PromotionsGrow, PromotionInside
<1>3. ASSUME NEW p \in Promoters, BeginPromotion(p)
      PROVE  PromotionInv' /\ PromotionsGrow /\ UNCHANGED reviewVars
  <2>1. /\ promotionPc[p] = "drafted" /\ promotionPc' = [promotionPc EXCEPT ![p] = "locked"]
        /\ ~promotionLock /\ promotionLock' = TRUE
        /\ clock' = clock + 1
        /\ promotionDraft' = [promotionDraft EXCEPT ![p].at = clock]
        /\ UNCHANGED <<evidence, evidenceLock, covers, promotions, promotionTorn, reviewVars>>
    BY <1>3 DEF BeginPromotion, evidenceVars, acquirePromotionLock
  <2>2. /\ promotionPc'[p] = "locked" /\ promotionDraft'[p] = [promotionDraft[p] EXCEPT !.at = clock]
        /\ \A q \in Promoters : q # p => promotionPc'[q] = promotionPc[q] /\ promotionDraft'[q] = promotionDraft[q]
    BY <2>1 DEF PromotionTypes
  <2>3. promotionDraft[p] \in Revision /\ BoundToValidation(promotionDraft[p]) /\ promotionDraft[p].at <= clock
    BY <2>1 DEF PromotionTypes, PromotionsInTime
  <2>4. /\ promotionDraft'[p] \in Revision /\ promotionDraft'[p].at = clock
        /\ promotionDraft'[p].review = promotionDraft[p].review
        /\ promotionDraft'[p].gen = promotionDraft[p].gen
        /\ promotionDraft'[p].cand = promotionDraft[p].cand
        /\ promotionDraft'[p].scope = promotionDraft[p].scope
    BY <1>0, <2>2, <2>3 DEF Revision
  <2>5. BoundToValidation(promotionDraft[p])' /\ reviews' = reviews
    <3>1. reviews[promotionDraft[p].review].at < clock /\ reviews[promotionDraft[p].review].at \in Nat
      <4>1. promotionDraft[p].review \in 1..Len(reviews) /\ reviews \in Seq(ReviewRecord)
        BY <2>3 DEF BoundToValidation, Validates, ReviewInv, ReviewTypes
      <4>2. reviews[promotionDraft[p].review] \in ReviewRecord
        BY <4>1
      <4> QED  BY <4>1, <4>2, RecordType DEF ReviewInv, ReviewsInTime
    <3> QED  BY <1>0, <2>1, <2>3, <2>4, <3>1 DEF BoundToValidation, reviewVars
  <2>6. PromotionTypes' /\ PromotersExclude' /\ PromotionsPrepared'
    BY <2>1, <2>2, <2>4 DEF PromotionTypes, PromotersExclude, PromotionsPrepared, PromotionInside, RequireCurrentEvidence
  <2>7. PromotionsInTime'
    <3>1. \A i \in 1..Len(promotions) : promotions[i].at \in Nat
      <4>1. promotions \in Seq(Revision)
        BY DEF PromotionTypes
      <4>2. \A i \in 1..Len(promotions) : promotions[i] \in Revision
        BY <4>1
      <4> QED  BY <4>2 DEF Revision
    <3>2. \A i \in 1..Len(promotions) : promotions[i].at < clock
      BY DEF PromotionsInTime
    <3>3. \A q \in Promoters : q # p => /\ promotionPc[q] # "idle" => BoundToValidation(promotionDraft[q])'
                                        /\ promotionPc[q] # "idle" => promotionDraft[q].at <= clock
                                        /\ PromotionInside(q) => promotionDraft[q].at < clock
      BY <2>1, <2>2 DEF PromotionsInTime, BoundToValidation, reviewVars
    <3> QED  BY <1>0, <2>1, <2>2, <2>4, <2>5, <3>1, <3>2, <3>3 DEF PromotionsInTime, PromotionInside
  <2>8. PromotionLedgerReplayable'
    BY <2>1, <2>5, LedgerLeft
  <2> QED  BY <1>0, <2>1, <2>2, <2>4, <2>6, <2>7, <2>8 DEF PromotionsGrow, PromotionInside
<1>4. ASSUME NEW p \in Promoters, GuardEvidence(p) \/ PreparePromotion(p)
      PROVE  PromotionInv' /\ PromotionsGrow /\ UNCHANGED reviewVars
  <2>1. /\ promotionPc[p] \in {"locked", "guarded"}
        /\ promotionPc'[p] \in {"guarded", "prepared"}
        /\ promotionPc' = [promotionPc EXCEPT ![p] = promotionPc'[p]]
        /\ evidenceLock' = TRUE
        /\ promotionPc'[p] = "prepared" => Prepared(promotionDraft[p])
        /\ UNCHANGED <<evidence, covers, promotions, promotionTorn, promotionLock, promotionDraft, clock, reviewVars>>
    <3>1. CASE GuardEvidence(p)
      BY <3>1 DEF GuardEvidence, PromotionTypes
    <3>2. CASE PreparePromotion(p)
      <4>1. evidenceLock
        BY <3>2 DEF PreparePromotion, PromotersExclude
      <4> QED  BY <3>2, <4>1 DEF PreparePromotion, PromotionTypes, evidenceVars
    <3> QED  BY <1>4, <3>1, <3>2
  <2>2. \A q \in Promoters : q # p => promotionPc'[q] = promotionPc[q]
    BY <2>1 DEF PromotionTypes
  <2>3. PromotionTypes'
    BY <2>1, <2>2 DEF PromotionTypes
  <2>4. PromotersExclude'
    BY <2>1, <2>2 DEF PromotersExclude, PromotionInside
  <2>5. PromotionsPrepared'
    BY <2>1, <2>2 DEF PromotionsPrepared, Prepared, RequireCurrentEvidence
  <2>6. PromotionsInTime' /\ PromotionLedgerReplayable'
    BY <2>1, <2>2 DEF PromotionsInTime, PromotionInside, BoundToValidation, PromotionLedgerReplayable, reviewVars
  <2> QED  BY <1>0, <2>1, <2>2, <2>3, <2>4, <2>5, <2>6 DEF PromotionsGrow, PromotionInside
<1>5. ASSUME NEW p \in Promoters, AppendPromotion(p)
      PROVE  PromotionInv' /\ PromotionsGrow /\ UNCHANGED reviewVars
  <2>1. /\ promotionPc[p] = "prepared" /\ promotionPc' = [promotionPc EXCEPT ![p] = "appended"]
        /\ promotions' = Append(promotions, promotionDraft[p])
        /\ UNCHANGED <<evidence, evidenceLock, covers, promotionTorn, promotionLock, promotionDraft, clock, reviewVars>>
    BY <1>5 DEF AppendPromotion, evidenceVars
  <2>2. promotionPc'[p] = "appended" /\ \A q \in Promoters : q # p => promotionPc'[q] = promotionPc[q]
    BY <2>1 DEF PromotionTypes
  <2>3. /\ promotions' \in Seq(Revision)
        /\ \A i \in 1..Len(promotions') : promotions'[i].at < clock
        /\ PromotionLedgerReplayable'
    BY <2>1, PromotionAppends DEF reviewVars
  <2>4. PromotionTypes' /\ PromotersExclude'
    BY <2>1, <2>2, <2>3 DEF PromotionTypes, PromotersExclude, PromotionInside
  <2>5. \A q \in Promoters : promotionPc'[q] # "prepared"
    BY <2>1, <2>2 DEF PromotersExclude, PromotionInside
  <2>6. PromotionsPrepared'
    BY <2>5 DEF PromotionsPrepared
  <2>7. PromotionsInTime'
    BY <2>1, <2>2, <2>3 DEF PromotionsInTime, PromotionInside, BoundToValidation, reviewVars
  <2> QED  BY <1>0, <2>1, <2>2, <2>3, <2>4, <2>6, <2>7 DEF PromotionsGrow, PromotionInside
<1>6. ASSUME NEW p \in Promoters, AppendPromotionFails(p)
      PROVE  PromotionInv' /\ PromotionsGrow /\ UNCHANGED reviewVars
  <2>1. /\ promotionPc[p] = "prepared" /\ promotionPc' = [promotionPc EXCEPT ![p] = "idle"]
        /\ promotionDraft' = [promotionDraft EXCEPT ![p] = NoDraft]
        /\ promotions' = promotions \/ promotions' = Append(promotions, promotionDraft[p])
        /\ promotionTorn' \in BOOLEAN /\ evidenceLock' = FALSE /\ promotionLock' = FALSE
        /\ UNCHANGED <<evidence, covers, clock, reviewVars>>
    BY <1>6 DEF AppendPromotionFails, PromotionTypes
  <2>2. /\ promotionPc'[p] = "idle"
        /\ \A q \in Promoters : q # p => promotionPc'[q] = promotionPc[q] /\ promotionDraft'[q] = promotionDraft[q]
    BY <2>1 DEF PromotionTypes
  <2>3. \A q \in Promoters : ~PromotionInside(q)'
    BY <2>1, <2>2 DEF PromotersExclude, PromotionInside
  <2>4. /\ promotions' \in Seq(Revision)
        /\ \A i \in 1..Len(promotions') : promotions'[i].at < clock
        /\ PromotionLedgerReplayable'
    <3>1. CASE promotions' = promotions
      BY <2>1, <3>1 DEF PromotionTypes, PromotionsInTime, PromotionLedgerReplayable, reviewVars
    <3>2. CASE promotions' = Append(promotions, promotionDraft[p])
      BY <2>1, <3>2, PromotionAppends DEF reviewVars
    <3> QED  BY <2>1, <3>1, <3>2
  <2>5. PromotionTypes'
    BY <2>1, <2>2, <2>4 DEF PromotionTypes
  <2>6. PromotersExclude' /\ PromotionsPrepared'
    BY <2>3 DEF PromotersExclude, PromotionsPrepared, PromotionInside
  <2>7. PromotionsInTime'
    BY <2>1, <2>2, <2>3, <2>4 DEF PromotionsInTime, BoundToValidation, reviewVars
  <2>8. PromotionInside(p)
    BY <2>1 DEF PromotionInside
  <2> QED  BY <1>0, <2>1, <2>3, <2>4, <2>5, <2>6, <2>7, <2>8 DEF PromotionsGrow
<1>7. ASSUME NEW p \in Promoters, ReturnPromotion(p) \/ CrashPromotion(p)
      PROVE  PromotionInv' /\ PromotionsGrow /\ UNCHANGED reviewVars
  <2>1. /\ promotionPc' = [promotionPc EXCEPT ![p] = "idle"]
        /\ promotionDraft' = [promotionDraft EXCEPT ![p] = NoDraft]
        /\ evidenceLock' \in BOOLEAN /\ promotionLock' \in BOOLEAN
        /\ evidenceLock' = evidenceLock \/ PromotionInside(p)
        /\ promotionLock' = promotionLock \/ PromotionInside(p)
        /\ UNCHANGED <<evidence, covers, promotions, promotionTorn, clock, reviewVars>>
    <3>1. CASE ReturnPromotion(p)
      BY <3>1 DEF ReturnPromotion, PromotionTypes, PromotionInside
    <3>2. CASE CrashPromotion(p)
      BY <3>2 DEF CrashPromotion, PromotionTypes, evidenceVars
    <3> QED  BY <1>7, <3>1, <3>2
  <2>2. /\ promotionPc'[p] = "idle"
        /\ \A q \in Promoters : q # p => promotionPc'[q] = promotionPc[q] /\ promotionDraft'[q] = promotionDraft[q]
    BY <2>1 DEF PromotionTypes
  <2>3. PromotionTypes'
    BY <2>1, <2>2 DEF PromotionTypes
  <2>4. PromotersExclude'
    BY <2>1, <2>2 DEF PromotersExclude, PromotionInside
  <2>5. PromotionsPrepared' /\ PromotionLedgerReplayable'
    BY <2>1, <2>2 DEF PromotionsPrepared, PromotionLedgerReplayable, RequireCurrentEvidence, reviewVars
  <2>6. PromotionsInTime'
    BY <2>1, <2>2 DEF PromotionsInTime, PromotionInside, BoundToValidation, reviewVars
  <2> QED  BY <1>0, <2>1, <2>2, <2>3, <2>4, <2>5, <2>6 DEF PromotionsGrow, PromotionInside
<1>8. ASSUME ClearPromotionLocks
      PROVE  PromotionInv' /\ PromotionsGrow /\ UNCHANGED reviewVars
  <2>1. \A p \in Promoters : ~PromotionInside(p)
    BY <1>8 DEF ClearPromotionLocks, PromotionInside
  <2>2. /\ promotionLock' = FALSE /\ evidenceLock' = FALSE
        /\ UNCHANGED <<evidence, covers, promotions, promotionTorn, promotionPc, promotionDraft, clock, reviewVars>>
    BY <1>8 DEF ClearPromotionLocks
  <2>3. PromotionTypes' /\ PromotersExclude' /\ PromotionsPrepared'
    BY <2>1, <2>2 DEF PromotionTypes, PromotersExclude, PromotionsPrepared, PromotionInside
  <2>4. PromotionsInTime' /\ PromotionLedgerReplayable'
    BY <2>2 DEF PromotionsInTime, PromotionInside, BoundToValidation, PromotionLedgerReplayable, reviewVars
  <2> QED  BY <1>0, <2>1, <2>2, <2>3, <2>4 DEF PromotionsGrow, PromotionInside
<1> QED  BY <1>0, <1>1, <1>2, <1>3, <1>4, <1>5, <1>6, <1>7, <1>8 DEF PromotionStep

-----------------------------------------------------------------------------
\* Whether a revision is authorized after n records depends on them alone.
LEMMA AuthorizedAgree ==
    ASSUME NEW ds, NEW bs, NEW n \in Nat, \A i \in 1..n : ds[i] = bs[i], NEW v
    PROVE  Authorized(ds, n, v) = Authorized(bs, n, v)
<1> DEFINE D == {i \in 1..n : ds[i].revision = v}
<1>1. D = {i \in 1..n : bs[i].revision = v}
  OBVIOUS
<1>2. D # {} => ds[Latest(D)] = bs[Latest(D)]
  <2>1. D \subseteq 1..n
    OBVIOUS
  <2> HIDE DEF D
  <2>2. D # {} => Latest(D) \in 1..n
    BY <2>1, LatestOf
  <2> QED  BY <2>2
<1> QED  BY <1>1, <1>2 DEF Authorized

\* An authorized revision was authorized by a record.
LEMMA AuthorizedOnRecord ==
    ASSUME NEW ds, NEW n \in Nat, NEW v, Authorized(ds, n, v)
    PROVE  \E i \in 1..n : ds[i].revision = v
  BY DEF Authorized

\* An acceptable record leaves an approval ledger that replays.
LEMMA ApprovalAppended ==
    ASSUME NEW rs \in Seq(ApprovalRecord), NEW r \in ApprovalRecord,
           \A i \in 1..Len(rs) : ApprovalFollows(rs, i), Approvable(rs, Len(rs), r)
    PROVE  \A i \in 1..Len(Append(rs, r)) : ApprovalFollows(Append(rs, r), i)
<1> DEFINE ss == Append(rs, r)
<1>1. Len(ss) = Len(rs) + 1 /\ Len(rs) \in Nat /\ (\A i \in 1..Len(rs) : ss[i] = rs[i]) /\ ss[Len(rs) + 1] = r
  BY Appending
<1> HIDE DEF ss
<1> SUFFICES ASSUME NEW i \in 1..Len(ss)
             PROVE  Approvable(ss, i - 1, ss[i])
  BY DEF ApprovalFollows, Approvable, ss
<1>2. Authorized(ss, i - 1, ss[i].revision) = Authorized(rs, i - 1, ss[i].revision)
  <2> DEFINE n == i - 1
             v == ss[i].revision
  <2>1. n \in Nat /\ \A j \in 1..n : ss[j] = rs[j]
    BY <1>1
  <2> HIDE DEF n, v
  <2>2. Authorized(ss, n, v) = Authorized(rs, n, v)
    BY <2>1, AuthorizedAgree
  <2> QED  BY <2>2 DEF n, v
<1>3. CASE i = Len(rs) + 1
  <2>1. ss[i] = r /\ i - 1 = Len(rs)
    BY <1>1, <1>3
  <2> QED  BY <1>2, <2>1 DEF Approvable
<1>4. CASE i # Len(rs) + 1
  <2>1. i \in 1..Len(rs) /\ ss[i] = rs[i]
    BY <1>1, <1>4
  <2> QED  BY <1>2, <2>1 DEF ApprovalFollows, Approvable
<1> QED  BY <1>3, <1>4

\* Steps of the other ledgers keep the approval layer: revisions are only added.
LEMMA ApprovalUntouched ==
    ASSUME PromotionInv, ApprovalInv, PromotionsGrow, UNCHANGED approvalVars,
           clock \in Nat
    PROVE  ApprovalInv'
<1>1. /\ approvals' = approvals /\ approvalTorn' = approvalTorn /\ approvalLock' = approvalLock
      /\ approvalPc' = approvalPc /\ approvalDraft' = approvalDraft
  BY DEF approvalVars
<1>2. promotions \in Seq(Revision) /\ Len(promotions) \in Nat
  <2>1. promotions \in Seq(Revision)
    BY DEF PromotionInv, PromotionTypes
  <2> QED  BY <2>1
<1>3. /\ Len(promotions') >= Len(promotions) /\ Len(promotions') \in Nat
      /\ \A i \in 1..Len(promotions) : promotions'[i] = promotions[i]
  <2>1. CASE promotions' = promotions
    BY <1>2, <2>1
  <2>2. ASSUME NEW p \in Promoters, PromotionInside(p), promotions' = Append(promotions, promotionDraft[p])
        PROVE  /\ Len(promotions') = Len(promotions) + 1
               /\ \A i \in 1..Len(promotions) : promotions'[i] = promotions[i]
    <3>1. promotionDraft[p] \in Revision
      BY <2>2 DEF PromotionInv, PromotionTypes, PromotionInside
    <3> QED  BY <1>2, <2>2, <3>1, Appending
  <2> QED  BY <1>2, <2>1, <2>2 DEF PromotionsGrow
<1>4. ApprovalTypes'
  BY <1>1 DEF ApprovalInv, ApprovalTypes
<1>5. ApproversExclude'
  BY <1>1 DEF ApprovalInv, ApproversExclude, ApprovalInside
<1>7. /\ \A i \in 1..Len(approvals) : approvals[i].at \in Nat /\ approvals[i].at < clock
      /\ \A p \in Approvers : approvalPc[p] # "idle" => approvalDraft[p].at \in Nat
  <2>1. approvals \in Seq(ApprovalRecord)
    BY DEF ApprovalInv, ApprovalTypes
  <2>2. \A i \in 1..Len(approvals) : approvals[i] \in ApprovalRecord
    BY <2>1
  <2>3. \A p \in Approvers : approvalPc[p] # "idle" => approvalDraft[p] \in ApprovalRecord
    BY DEF ApprovalInv, ApprovalTypes
  <2> QED  BY <2>2, <2>3 DEF ApprovalInv, ApprovalsInTime, ApprovalRecord
<1>8. ApprovalsInTime'
  <2>1. \A p \in Approvers : approvalPc[p] # "idle" =>
           /\ approvalDraft[p].revision \in 1..Len(promotions)
           /\ promotions[approvalDraft[p].revision].at <= approvalDraft[p].at
           /\ approvalDraft[p].at <= clock
    BY DEF ApprovalInv, ApprovalsInTime
  <2>2. \A p \in Approvers : ApprovalInside(p) => approvalDraft[p].at < clock /\ approvalPc[p] # "idle"
    BY DEF ApprovalInv, ApprovalsInTime, ApprovalInside
  <2>3. clock <= clock' /\ clock' \in Nat
    BY DEF PromotionsGrow
  <2>4. \A i \in 1..Len(approvals) : approvals[i].at < clock'
    BY <1>7, <2>3
  <2>5. \A p \in Approvers : approvalPc[p] # "idle" =>
           /\ approvalDraft[p].revision \in 1..Len(promotions')
           /\ promotions'[approvalDraft[p].revision].at <= approvalDraft[p].at
           /\ approvalDraft[p].at <= clock'
    BY <1>2, <1>3, <1>7, <2>1, <2>3
  <2>6. \A p \in Approvers : ApprovalInside(p) => approvalDraft[p].at < clock'
    BY <1>7, <2>2, <2>3
  <2> QED  BY <1>1, <2>4, <2>5, <2>6 DEF ApprovalsInTime, ApprovalInside
<1>9. ASSUME NEW n, NEW r, Approvable(approvals, n, r)
      PROVE  Approvable(approvals, n, r)'
  <2>1. PICK v : v = r.revision
    OBVIOUS
  <2>2. v \in 1..Len(promotions') /\ promotions'[v] = promotions[v]
    BY <1>2, <1>3, <1>9, <2>1 DEF Approvable
  <2> QED  BY <1>1, <1>9, <2>1, <2>2 DEF Approvable, IsActive
<1>10. ApprovalsChecked'
  <2> SUFFICES ASSUME NEW p \in Approvers, approvalPc[p] = "checked"
               PROVE  Approvable(approvals, Len(approvals), approvalDraft[p])'
    BY <1>1 DEF ApprovalsChecked
  <2>1. PICK n, r : n = Len(approvals) /\ r = approvalDraft[p]
    OBVIOUS
  <2>2. Approvable(approvals, n, r)
    BY <2>1 DEF ApprovalInv, ApprovalsChecked
  <2>3. Approvable(approvals, n, r)'
    BY <1>9, <2>2
  <2> QED  BY <1>1, <2>1, <2>3
<1>11. ApprovalsFollow'
  <2>1. ASSUME NEW i \in 1..Len(approvals)
        PROVE  Approvable(approvals, i - 1, approvals[i])'
    <3>1. PICK n, r : n = i - 1 /\ r = approvals[i]
      OBVIOUS
    <3>2. Approvable(approvals, n, r)
      BY <3>1 DEF ApprovalInv, ApprovalsFollow, ApprovalFollows, Approvable
    <3>3. Approvable(approvals, n, r)'
      BY <1>9, <3>2
    <3> QED  BY <1>1, <3>1, <3>3
  <2> QED  BY <1>1, <2>1 DEF ApprovalsFollow, ApprovalFollows, Approvable
<1> QED  BY <1>4, <1>5, <1>8, <1>10, <1>11 DEF ApprovalInv

\* What a step of an approver leaves alone.
OnlyApprovals == UNCHANGED <<reviewVars, promotionVars>> /\ clock <= clock' /\ clock' \in Nat

\* While the promotion ledger stays, what was acceptable and what replays stays.
LEMMA ApprovalsLeft ==
    ASSUME ApprovalInv, UNCHANGED <<approvals, promotions>>
    PROVE  /\ ApprovalsFollow'
           /\ \A r : Approvable(approvals, Len(approvals), r) => Approvable(approvals, Len(approvals), r)'
<1>1. ApprovalsFollow'
  BY DEF ApprovalInv, ApprovalsFollow, ApprovalFollows
<1> QED  BY <1>1 DEF Approvable

\* An approver who appends its checked request, whether or not Apply then
\* reports success.
LEMMA ApprovalAppends ==
    ASSUME ApprovalInv, NEW p \in Approvers, approvalPc[p] = "checked",
           approvals' = Append(approvals, approvalDraft[p]), promotions' = promotions
    PROVE  /\ approvals' \in Seq(ApprovalRecord)
           /\ \A i \in 1..Len(approvals') : approvals'[i].at < clock
           /\ ApprovalsFollow'
<1>1. /\ approvals \in Seq(ApprovalRecord) /\ approvalDraft[p] \in ApprovalRecord
      /\ approvalDraft[p].at < clock
      /\ Approvable(approvals, Len(approvals), approvalDraft[p])
      /\ \A i \in 1..Len(approvals) : ApprovalFollows(approvals, i)
  BY DEF ApprovalInv, ApprovalTypes, ApprovalsInTime, ApprovalsChecked, ApprovalInside, ApprovalsFollow
<1>2. /\ approvals' \in Seq(ApprovalRecord) /\ Len(approvals') = Len(approvals) + 1 /\ Len(approvals) \in Nat
      /\ \A i \in 1..Len(approvals) : approvals'[i] = approvals[i]
      /\ approvals'[Len(approvals) + 1] = approvalDraft[p]
  BY <1>1, Appending
<1>3. \A i \in 1..Len(approvals) : approvals[i].at < clock
  BY DEF ApprovalInv, ApprovalsInTime
<1>4. \A i \in 1..Len(approvals') : i \in 1..Len(approvals) \/ i = Len(approvals) + 1
  BY <1>2
<1>5. \A i \in 1..Len(approvals') : ApprovalFollows(approvals', i)
  BY <1>1, ApprovalAppended
<1>6. ApprovalsFollow'
  BY <1>5 DEF ApprovalsFollow, ApprovalFollows
<1> QED  BY <1>1, <1>2, <1>3, <1>4, <1>6

\* Every step of an approver and the removal of the lock file keep the
\* approval layer.
LEMMA ApprovalStepKeeps ==
    ASSUME ReviewInv, PromotionInv, ApprovalInv, ApprovalStep, UNCHANGED bound
    PROVE  ApprovalInv' /\ OnlyApprovals
<1> USE DEF ApprovalInv
<1>0. /\ bound.approvers \subseteq Approvers
      /\ clock \in Nat
      /\ \A p \in Approvers : approvalPc[p] # "idle" => approvalDraft[p].at \in Nat
  <2>1. bound \in Profiles /\ clock \in Nat
    BY DEF ReviewInv, ReviewTypes
  <2>2. \A p \in Approvers : approvalPc[p] # "idle" => approvalDraft[p] \in ApprovalRecord
    BY DEF ApprovalTypes
  <2> QED  BY <2>1, <2>2, ApprovalAssumption DEF ApprovalRecord
<1>1. ASSUME NEW p \in Approvers, DraftApproval(p) PROVE ApprovalInv' /\ OnlyApprovals
  <2>1. PICK i \in 1..Len(promotions), action \in {"authorize", "revoke"} :
          approvalDraft' = [approvalDraft EXCEPT ![p] = [revision |-> i, action |-> action, at |-> clock]]
    BY <1>1 DEF DraftApproval
  <2>2. PICK r \in ApprovalRecord : r.revision = i /\ r.at = clock /\ approvalDraft' = [approvalDraft EXCEPT ![p] = r]
    <3>1. [revision |-> i, action |-> action, at |-> clock] \in ApprovalRecord
      BY <1>0 DEF ApprovalRecord
    <3> QED  BY <2>1, <3>1
  <2>3. /\ approvalPc[p] = "idle" /\ approvalPc' = [approvalPc EXCEPT ![p] = "drafted"]
        /\ UNCHANGED <<approvals, approvalTorn, approvalLock, clock, reviewVars, promotionVars>>
    BY <1>1 DEF DraftApproval
  <2>4. /\ approvalPc'[p] = "drafted" /\ approvalDraft'[p] = r
        /\ \A q \in Approvers : q # p => approvalPc'[q] = approvalPc[q] /\ approvalDraft'[q] = approvalDraft[q]
    BY <2>2, <2>3 DEF ApprovalTypes
  <2>5. promotions' = promotions /\ promotionPc' = promotionPc /\ promotionDraft' = promotionDraft
    BY <2>3 DEF promotionVars
  <2>6. ApprovalTypes'
    BY <2>2, <2>3, <2>4 DEF ApprovalTypes
  <2>7. ApproversExclude'
    BY <2>3, <2>4, <2>5 DEF ApproversExclude, ApprovalInside
  <2>8. promotions[i].at <= clock
    <3>1. promotions \in Seq(Revision)
      BY DEF PromotionInv, PromotionTypes
    <3>2. promotions[i] \in Revision
      BY <3>1
    <3> QED  BY <1>0, <3>2 DEF PromotionInv, PromotionsInTime, Revision
  <2>9. ApprovalsInTime'
    BY <1>0, <2>2, <2>3, <2>4, <2>5, <2>8 DEF ApprovalsInTime, ApprovalInside
  <2>10. ApprovalsChecked' /\ ApprovalsFollow'
    <3>1. ASSUME NEW q \in Approvers, approvalPc'[q] = "checked"
          PROVE  Approvable(approvals, Len(approvals), approvalDraft[q])'
      <4>1. PICK o : o = approvalDraft[q]
        OBVIOUS
      <4>2. q # p /\ Approvable(approvals, Len(approvals), o)
        BY <2>4, <3>1, <4>1 DEF ApprovalsChecked
      <4>3. Approvable(approvals, Len(approvals), o)'
        BY <2>3, <2>5, <4>2, ApprovalsLeft
      <4> QED  BY <2>4, <4>1, <4>2, <4>3
    <3> QED  BY <2>3, <2>5, <3>1, ApprovalsLeft DEF ApprovalsChecked
  <2> QED  BY <1>0, <2>3, <2>6, <2>7, <2>9, <2>10 DEF OnlyApprovals
<1>2. ASSUME NEW p \in Approvers, BeginApproval(p) PROVE ApprovalInv' /\ OnlyApprovals
  <2>1. /\ approvalPc[p] = "drafted" /\ approvalPc' = [approvalPc EXCEPT ![p] = "locked"]
        /\ ~approvalLock /\ approvalLock' = TRUE
        /\ clock' = clock + 1
        /\ approvalDraft' = [approvalDraft EXCEPT ![p].at = clock]
        /\ UNCHANGED <<approvals, approvalTorn, reviewVars, promotionVars>>
    BY <1>2 DEF BeginApproval, acquireApprovalLock
  <2>2. /\ approvalPc'[p] = "locked" /\ approvalDraft'[p] = [approvalDraft[p] EXCEPT !.at = clock]
        /\ \A q \in Approvers : q # p => approvalPc'[q] = approvalPc[q] /\ approvalDraft'[q] = approvalDraft[q]
    BY <2>1 DEF ApprovalTypes
  <2>3. approvalDraft[p] \in ApprovalRecord
    BY <2>1 DEF ApprovalTypes
  <2>4. /\ approvalDraft'[p] \in ApprovalRecord /\ approvalDraft'[p].at = clock
        /\ approvalDraft'[p].revision = approvalDraft[p].revision
    BY <1>0, <2>2, <2>3 DEF ApprovalRecord
  <2>5. promotions' = promotions /\ promotionPc' = promotionPc /\ promotionDraft' = promotionDraft
    BY <2>1 DEF promotionVars
  <2>6. ApprovalTypes'
    BY <2>1, <2>2, <2>4 DEF ApprovalTypes
  <2>8. \A q \in Approvers : ~ApprovalInside(q)
    BY <2>1 DEF ApproversExclude
  <2>9. ApproversExclude'
    BY <2>1, <2>2, <2>8 DEF ApproversExclude, ApprovalInside
  <2>10. ApprovalsInTime'
    <3>1. approvals \in Seq(ApprovalRecord)
      BY DEF ApprovalTypes
    <3>2. \A i \in 1..Len(approvals) : approvals[i] \in ApprovalRecord
      BY <3>1
    <3>3. \A i \in 1..Len(approvals) : approvals[i].at < clock'
      BY <1>0, <2>1, <3>2 DEF ApprovalsInTime, ApprovalRecord
    <3>4. /\ approvalDraft[p].revision \in 1..Len(promotions)
          /\ promotions[approvalDraft[p].revision].at <= clock
      <4>1. /\ approvalDraft[p].revision \in 1..Len(promotions)
            /\ promotions[approvalDraft[p].revision].at <= approvalDraft[p].at
            /\ approvalDraft[p].at <= clock /\ approvalDraft[p].at \in Nat
        BY <1>0, <2>1 DEF ApprovalsInTime
      <4>2. promotions \in Seq(Revision)
        BY DEF PromotionInv, PromotionTypes
      <4>3. promotions[approvalDraft[p].revision] \in Revision
        BY <4>1, <4>2
      <4> QED  BY <1>0, <4>1, <4>3 DEF Revision
    <3>5. \A q \in Approvers : q # p => /\ approvalPc[q] # "idle" =>
                                              /\ approvalDraft[q].revision \in 1..Len(promotions)
                                              /\ promotions[approvalDraft[q].revision].at <= approvalDraft[q].at
                                              /\ approvalDraft[q].at <= clock'
      BY <1>0, <2>1 DEF ApprovalsInTime
    <3> QED  BY <1>0, <2>1, <2>2, <2>4, <2>5, <2>8, <3>3, <3>4, <3>5 DEF ApprovalsInTime, ApprovalInside
  <2>11. ApprovalsChecked' /\ ApprovalsFollow'
    BY <2>1, <2>2, <2>5, <2>8, ApprovalsLeft DEF ApprovalsChecked, ApprovalInside
  <2> QED  BY <1>0, <2>1, <2>6, <2>9, <2>10, <2>11 DEF OnlyApprovals
<1>3. ASSUME NEW p \in Approvers, CheckApproval(p) PROVE ApprovalInv' /\ OnlyApprovals
  <2>1. /\ approvalPc[p] = "locked" /\ approvalPc' = [approvalPc EXCEPT ![p] = "checked"]
        /\ UNCHANGED <<approvals, approvalTorn, approvalLock, approvalDraft, clock, reviewVars, promotionVars>>
    BY <1>3 DEF CheckApproval
  <2>2. approvalPc'[p] = "checked" /\ \A q \in Approvers : q # p => approvalPc'[q] = approvalPc[q]
    BY <2>1 DEF ApprovalTypes
  <2>3. promotions' = promotions /\ promotionPc' = promotionPc /\ promotionDraft' = promotionDraft
    BY <2>1 DEF promotionVars
  <2>4. ApprovalTypes' /\ ApproversExclude' /\ ApprovalsInTime'
    BY <2>1, <2>2, <2>3 DEF ApprovalTypes, ApproversExclude, ApprovalsInTime,
                            ApprovalInside
  <2>5. Approvable(approvals, Len(approvals), approvalDraft[p])
    <3> DEFINE r == approvalDraft[p]
    <3>1. /\ r \in ApprovalRecord
          /\ r.revision \in 1..Len(promotions) /\ promotions[r.revision].at <= r.at
      BY <2>1 DEF ApprovalTypes, ApprovalsInTime
    <3>2. /\ ApprovalsReplay(approvals)
          /\ Authorized(approvals, Len(approvals), r.revision) = (r.action = "revoke")
          /\ r.action = "authorize" => MayAuthorize(r.revision, r.at)
      BY <1>3 DEF CheckApproval, ApprovalsVerified
    <3> HIDE DEF r
    <3>3. ASSUME r.action = "authorize" PROVE Approvable(approvals, Len(approvals), r)
      <4>1. RevisionWasCurrentAt(r.revision, r.at)
        BY <3>2, <3>3 DEF MayAuthorize
      <4>2. IsActive(promotions, r.revision)
        BY <4>1 DEF RevisionWasCurrentAt
      <4> QED  BY <3>1, <3>2, <4>2 DEF Approvable
    <3>4. ASSUME r.action = "revoke" PROVE Approvable(approvals, Len(approvals), r)
      <4>1. Authorized(approvals, Len(approvals), r.revision)
        BY <3>2, <3>4
      <4>2. approvals \in Seq(ApprovalRecord)
        BY DEF ApprovalTypes
      <4>3. Len(approvals) \in Nat
        BY <4>2
      <4>4. PICK i \in 1..Len(approvals) : approvals[i].revision = r.revision
        BY <4>1, <4>3, AuthorizedOnRecord
      <4>5. IsActive(promotions, r.revision)
        BY <3>2, <4>4 DEF ApprovalsReplay, ApprovalFollows
      <4> QED  BY <3>1, <3>2, <4>5 DEF Approvable
    <3> QED  BY <3>1, <3>3, <3>4 DEF ApprovalRecord, r
  <2>6. ApprovalsChecked' /\ ApprovalsFollow'
    <3>1. ASSUME NEW q \in Approvers, approvalPc'[q] = "checked"
          PROVE  Approvable(approvals, Len(approvals), approvalDraft[q])'
      <4>1. PICK r : r = approvalDraft[q]
        OBVIOUS
      <4>2. Approvable(approvals, Len(approvals), r)
        BY <2>2, <2>5, <3>1, <4>1 DEF ApprovalsChecked
      <4>3. Approvable(approvals, Len(approvals), r)'
        BY <2>1, <2>3, <4>2, ApprovalsLeft
      <4> QED  BY <2>1, <4>1, <4>3
    <3> QED  BY <2>1, <2>3, <3>1, ApprovalsLeft DEF ApprovalsChecked
  <2> QED  BY <1>0, <2>1, <2>4, <2>6 DEF OnlyApprovals
<1>4. ASSUME NEW p \in Approvers, AppendApproval(p) PROVE ApprovalInv' /\ OnlyApprovals
  <2>1. /\ approvalPc[p] = "checked" /\ approvalPc' = [approvalPc EXCEPT ![p] = "appended"]
        /\ approvals' = Append(approvals, approvalDraft[p])
        /\ UNCHANGED <<approvalTorn, approvalLock, approvalDraft, clock, reviewVars, promotionVars>>
    BY <1>4 DEF AppendApproval
  <2>2. approvalPc'[p] = "appended" /\ \A q \in Approvers : q # p => approvalPc'[q] = approvalPc[q]
    BY <2>1 DEF ApprovalTypes
  <2>3. promotions' = promotions /\ promotionPc' = promotionPc /\ promotionDraft' = promotionDraft
    BY <2>1 DEF promotionVars
  <2>4. /\ approvals' \in Seq(ApprovalRecord)
        /\ \A i \in 1..Len(approvals') : approvals'[i].at < clock
        /\ ApprovalsFollow'
    BY <2>1, <2>3, ApprovalAppends
  <2>5. ApprovalInside(p)
    BY <2>1 DEF ApproversExclude, ApprovalInside
  <2>6. ApprovalTypes' /\ ApproversExclude' /\ ApprovalsInTime'
    BY <2>1, <2>2, <2>3, <2>4 DEF ApprovalTypes, ApproversExclude, ApprovalsInTime,
                                  ApprovalInside
  <2>7. ApprovalsChecked'
    BY <2>1, <2>2, <2>3, <2>5 DEF ApproversExclude, ApprovalsChecked, ApprovalInside
  <2> QED  BY <1>0, <2>1, <2>4, <2>6, <2>7 DEF OnlyApprovals
<1>5. ASSUME NEW p \in Approvers, AppendApprovalFails(p) PROVE ApprovalInv' /\ OnlyApprovals
  <2>1. /\ approvalPc[p] = "checked" /\ approvalPc' = [approvalPc EXCEPT ![p] = "idle"]
        /\ approvalDraft' = [approvalDraft EXCEPT ![p] = NoDraft]
        /\ approvals' = approvals \/ approvals' = Append(approvals, approvalDraft[p])
        /\ approvalTorn' \in BOOLEAN /\ approvalLock' = FALSE
        /\ UNCHANGED <<clock, reviewVars, promotionVars>>
    BY <1>5 DEF AppendApprovalFails, ApprovalTypes
  <2>2. /\ approvalPc'[p] = "idle"
        /\ \A q \in Approvers : q # p => approvalPc'[q] = approvalPc[q] /\ approvalDraft'[q] = approvalDraft[q]
    BY <2>1 DEF ApprovalTypes
  <2>3. promotions' = promotions /\ promotionPc' = promotionPc /\ promotionDraft' = promotionDraft
    BY <2>1 DEF promotionVars
  <2>4. /\ approvals' \in Seq(ApprovalRecord)
        /\ \A i \in 1..Len(approvals') : approvals'[i].at < clock
        /\ ApprovalsFollow'
    <3>1. CASE approvals' = approvals
      BY <2>3, <3>1, ApprovalsLeft DEF ApprovalTypes, ApprovalsInTime
    <3>2. CASE approvals' = Append(approvals, approvalDraft[p])
      BY <2>1, <2>3, <3>2, ApprovalAppends
    <3> QED  BY <2>1, <3>1, <3>2
  <2>5. (\A q \in Approvers : ~ApprovalInside(q)')
    BY <2>1, <2>2 DEF ApproversExclude, ApprovalInside
  <2>6. ApprovalTypes'
    BY <2>1, <2>2, <2>4 DEF ApprovalTypes
  <2>7. ApprovalsInTime'
    BY <2>1, <2>2, <2>3, <2>4, <2>5 DEF ApprovalsInTime
  <2>8. ApproversExclude' /\ ApprovalsChecked'
    BY <2>3, <2>5 DEF ApproversExclude, ApprovalsChecked, ApprovalInside
  <2> QED  BY <1>0, <2>1, <2>4, <2>6, <2>7, <2>8 DEF OnlyApprovals
<1>6. ASSUME NEW p \in Approvers, ReturnApproval(p) \/ CrashApproval(p) PROVE ApprovalInv' /\ OnlyApprovals
  <2>1. /\ approvalPc' = [approvalPc EXCEPT ![p] = "idle"]
        /\ approvalDraft' = [approvalDraft EXCEPT ![p] = NoDraft]
        /\ approvalLock' \in BOOLEAN
        /\ approvalLock' = approvalLock \/ ApprovalInside(p)
        /\ UNCHANGED <<approvals, approvalTorn, clock, reviewVars, promotionVars>>
    <3>1. CASE ReturnApproval(p)
      BY <3>1 DEF ReturnApproval, ApprovalTypes, ApprovalInside
    <3>2. CASE CrashApproval(p)
      BY <3>2 DEF CrashApproval, ApprovalTypes
    <3> QED  BY <1>6, <3>1, <3>2
  <2>2. /\ approvalPc'[p] = "idle"
        /\ \A q \in Approvers : q # p => approvalPc'[q] = approvalPc[q] /\ approvalDraft'[q] = approvalDraft[q]
    BY <2>1 DEF ApprovalTypes
  <2>3. promotions' = promotions /\ promotionPc' = promotionPc /\ promotionDraft' = promotionDraft
    BY <2>1 DEF promotionVars
  <2>4. ApprovalTypes' /\ ApproversExclude' /\ ApprovalsInTime'
    BY <2>1, <2>2, <2>3 DEF ApprovalTypes, ApproversExclude, ApprovalsInTime,
                            ApprovalInside
  <2>5. ApprovalsChecked' /\ ApprovalsFollow'
    <3>1. ASSUME NEW q \in Approvers, approvalPc'[q] = "checked"
          PROVE  Approvable(approvals, Len(approvals), approvalDraft[q])'
      <4>1. PICK r : r = approvalDraft[q]
        OBVIOUS
      <4>2. q # p /\ Approvable(approvals, Len(approvals), r)
        BY <2>2, <3>1, <4>1 DEF ApprovalsChecked
      <4>3. Approvable(approvals, Len(approvals), r)'
        BY <2>1, <2>3, <4>2, ApprovalsLeft
      <4> QED  BY <2>2, <4>1, <4>2, <4>3
    <3> QED  BY <2>1, <2>3, <3>1, ApprovalsLeft DEF ApprovalsChecked
  <2> QED  BY <1>0, <2>1, <2>4, <2>5 DEF OnlyApprovals
<1>7. ASSUME ClearApprovalLock PROVE ApprovalInv' /\ OnlyApprovals
  <2>1. \A p \in Approvers : ~ApprovalInside(p)
    BY <1>7 DEF ClearApprovalLock, ApprovalInside
  <2>2. /\ approvalLock' = FALSE
        /\ UNCHANGED <<approvals, approvalTorn, approvalPc, approvalDraft, clock, reviewVars, promotionVars>>
        /\ promotions' = promotions /\ promotionPc' = promotionPc /\ promotionDraft' = promotionDraft
    BY <1>7 DEF ClearApprovalLock, promotionVars
  <2>3. ApprovalTypes' /\ ApproversExclude' /\ ApprovalsInTime' /\ ApprovalsChecked'
    BY <2>1, <2>2 DEF ApprovalTypes, ApproversExclude, ApprovalsInTime, ApprovalsChecked,
                      ApprovalInside
  <2>4. ApprovalsFollow'
    BY <2>2, ApprovalsLeft
  <2> QED  BY <1>0, <2>2, <2>3, <2>4 DEF OnlyApprovals
<1> QED  BY <1>0, <1>1, <1>2, <1>3, <1>4, <1>5, <1>6, <1>7 DEF ApprovalStep

-----------------------------------------------------------------------------
\* A step of an approver changes nothing of the other ledgers.
LEMMA ApprovalsOnly ==
    ASSUME clock \in Nat, ApprovalStep
    PROVE  OnlyApprovals
<1> DEFINE Left == UNCHANGED <<reviewVars, promotionVars>> /\ clock' \in {clock, clock + 1}
<1>1. ASSUME NEW p, DraftApproval(p) PROVE Left
  BY <1>1 DEF DraftApproval
<1>2. ASSUME NEW p, BeginApproval(p) PROVE Left
  BY <1>2 DEF BeginApproval
<1>3. ASSUME NEW p, CheckApproval(p) PROVE Left
  BY <1>3 DEF CheckApproval
<1>4. ASSUME NEW p, AppendApproval(p) PROVE Left
  BY <1>4 DEF AppendApproval
<1>5. ASSUME NEW p, AppendApprovalFails(p) PROVE Left
  BY <1>5 DEF AppendApprovalFails
<1>6. ASSUME NEW p, ReturnApproval(p) PROVE Left
  BY <1>6 DEF ReturnApproval
<1>7. ASSUME NEW p, CrashApproval(p) PROVE Left
  BY <1>7 DEF CrashApproval
<1>8. ASSUME ClearApprovalLock PROVE Left
  BY <1>8 DEF ClearApprovalLock
<1>9. Left
  BY <1>1, <1>2, <1>3, <1>4, <1>5, <1>6, <1>7, <1>8 DEF ApprovalStep
<1> QED  BY <1>9 DEF OnlyApprovals

\* The records a profile starts with.
LEMMA LedgersAtStart ==
    ASSUME NEW b \in Profiles
    PROVE  /\ b.reviewed \in Seq(ReviewRecord)
           /\ \A i \in 1..Len(b.reviewed) : b.reviewed[i].at < b.started
           /\ ReviewsReplay(b.reviewed)
<1>1. /\ b.reviewed \in Seq({b.reviewed[i] : i \in 1..Len(b.reviewed)})
      /\ \A i \in 1..Len(b.reviewed) :
            /\ \E decided \in SUBSET Candidates : b.reviewed[i] \in RecordDeciding(decided)
            /\ b.reviewed[i].at < b.started
      /\ ReviewsReplay(b.reviewed)
  BY ReviewProfileAssumption
<1>2. \A i \in 1..Len(b.reviewed) : b.reviewed[i] \in ReviewRecord
  BY <1>1 DEF ReviewRecord
<1> DEFINE rs == b.reviewed
<1>3. rs \in Seq({rs[i] : i \in 1..Len(rs)}) /\ \A i \in 1..Len(rs) : rs[i] \in ReviewRecord
  BY <1>1, <1>2
<1> HIDE DEF rs
<1>4. rs \in Seq(ReviewRecord)
  BY <1>3
<1> QED  BY <1>1, <1>4 DEF rs

\* Nobody is inside and the records of the profile replay.
LEMMA GovernanceInit ==
    ASSUME ApprovalInit
    PROVE  ReviewInv /\ PromotionInv /\ ApprovalInv /\ WholeInv
<1> USE DEF ApprovalInit, PromotionInit, ReviewInit
<1>1. bound \in Profiles /\ clock = bound.started /\ reviews = bound.reviewed /\ clock \in Nat
  BY ReviewProfileAssumption
<1>2. /\ \A p \in Reviewers : reviewPc[p] = "idle"
      /\ \A p \in Promoters : promotionPc[p] = "idle"
      /\ \A p \in Approvers : approvalPc[p] = "idle"
  OBVIOUS
<1>3. ReviewInv
  <2>1. ReviewTypes
    BY <1>1, <1>2, LedgersAtStart DEF ReviewTypes
  <2>2. ReviewersExclude /\ ReviewsInTime
    BY <1>1, <1>2, LedgersAtStart DEF ReviewersExclude, ReviewsInTime, ReviewInside
  <2>3. ReviewsPrepared /\ ReviewLedgerReplayable
    BY <1>1, <1>2, LedgersAtStart DEF ReviewsPrepared, ReviewLedgerReplayable
  <2> QED  BY <2>1, <2>2, <2>3 DEF ReviewInv
<1>4. PromotionInv
  <2>1. /\ promotions = bound.promoted /\ bound.promoted \in Seq(Revision)
        /\ bound.captured \in Nat /\ bound.covered \in Nat
        /\ PromotionsReplay(bound.promoted, bound.reviewed)
        /\ \A i \in 1..Len(bound.promoted) : bound.promoted[i].at < bound.started
    BY <1>1, PromotionProfileAssumption
  <2>2. PromotionTypes
    BY <1>2, <2>1 DEF PromotionTypes
  <2>3. PromotersExclude /\ PromotionsInTime
    BY <1>1, <1>2, <2>1 DEF PromotersExclude, PromotionsInTime, PromotionInside
  <2>4. PromotionsPrepared /\ PromotionLedgerReplayable
    BY <1>1, <1>2, <2>1 DEF PromotionsPrepared, PromotionLedgerReplayable
  <2> QED  BY <2>2, <2>3, <2>4 DEF PromotionInv
<1>5. ApprovalInv
  <2>1. approvals = <<>> /\ Len(approvals) = 0
    OBVIOUS
  <2>2. ApprovalTypes
    <3>1. <<>> \in Seq(ApprovalRecord)
      OBVIOUS
    <3>2. approvals \in Seq(ApprovalRecord)
      BY <2>1, <3>1
    <3>3. /\ approvalTorn = FALSE /\ approvalLock = FALSE
          /\ approvalPc = [p \in Approvers |-> "idle"]
          /\ approvalDraft = [p \in Approvers |-> NoDraft]
      OBVIOUS
    <3>4. /\ approvalPc \in [Approvers -> {"idle", "drafted", "locked", "checked", "appended"}]
          /\ approvalDraft \in [Approvers -> ApprovalRecord \cup {NoDraft}]
      BY <3>3
    <3> QED  BY <1>2, <3>2, <3>3, <3>4 DEF ApprovalTypes
  <2>3. ApproversExclude /\ ApprovalsInTime /\ ApprovalsChecked
    BY <1>2, <2>1 DEF ApproversExclude, ApprovalsInTime, ApprovalsChecked, ApprovalInside
  <2>4. ApprovalsFollow
    BY <2>1 DEF ApprovalsFollow
  <2> QED  BY <2>2, <2>3, <2>4 DEF ApprovalInv
<1>6. WholeInv
  BY DEF WholeInv, ReviewWhole, PromotionWhole, ApprovalWhole
<1> QED  BY <1>3, <1>4, <1>5, <1>6

\* The review and the promotion layer stand without the approval layer.
LEMMA LedgersNext ==
    ASSUME ReviewInv, PromotionInv, [Next]_governanceVars
    PROVE  ReviewInv' /\ PromotionInv' /\ PromotionsGrow
<1>0. clock \in Nat /\ clock <= clock
  BY DEF ReviewInv, ReviewTypes
<1>1. CASE ReviewNext /\ UNCHANGED <<promotionVars, bound>>
  BY <1>1, ReviewStep, PromotionUntouched
<1>2. CASE PromotionStep /\ UNCHANGED bound
  <2>1. PromotionInv' /\ PromotionsGrow /\ UNCHANGED reviewVars
    BY <1>2, PromotionStepKeeps
  <2>2. ReviewInv'
    BY <1>2, <2>1, ReviewUntouched DEF PromotionsGrow
  <2> QED  BY <2>1, <2>2
<1>3. CASE ApprovalStep /\ UNCHANGED bound
  <2>1. OnlyApprovals
    BY <1>0, <1>3, ApprovalsOnly
  <2>2. ReviewInv' /\ ReviewsGrow
    BY <1>3, <2>1, ReviewUntouched DEF OnlyApprovals
  <2> QED  BY <2>1, <2>2, PromotionUntouched DEF OnlyApprovals
<1>4. CASE UNCHANGED governanceVars
  <2>1. ReviewInv' /\ ReviewsGrow
    BY <1>0, <1>4, ReviewUntouched DEF governanceVars
  <2> QED  BY <1>4, <2>1, PromotionUntouched DEF governanceVars
<1> QED  BY <1>1, <1>2, <1>3, <1>4 DEF Next, PromotionNext

\* So does the approval layer, on top of them.
LEMMA ApprovalsNext ==
    ASSUME ReviewInv, PromotionInv, ApprovalInv, [Next]_governanceVars
    PROVE  ApprovalInv'
<1>1. PromotionsGrow /\ clock \in Nat
  BY LedgersNext DEF ReviewInv, ReviewTypes
<1>2. CASE PromotionNext /\ UNCHANGED approvalVars
  BY <1>1, <1>2, ApprovalUntouched
<1>3. CASE ApprovalStep /\ UNCHANGED bound
  BY <1>3, ApprovalStepKeeps
<1>4. CASE UNCHANGED governanceVars
  BY <1>1, <1>4, ApprovalUntouched DEF governanceVars
<1> QED  BY <1>2, <1>3, <1>4 DEF Next

-----------------------------------------------------------------------------
\* Only the process that is about to append can tear a file, and it leaves.
LEMMA ReviewStaysWhole ==
    ASSUME ReviewInv, ReviewWhole, ReviewNext
    PROVE  ReviewWhole' /\ (reviewTorn => reviewTorn' /\ reviews' = reviews)
<1> DEFINE Keeps == ReviewWhole' /\ (reviewTorn => reviewTorn' /\ reviews' = reviews)
<1>0. bound.reviewers \subseteq Reviewers
  BY ReviewProfileAssumption DEF ReviewInv, ReviewTypes
<1> USE DEF ReviewInv, ReviewTypes, ReviewWhole
<1>1. ASSUME NEW p \in Reviewers, DraftReview(p) \/ BeginReview(p) \/ ReturnReview(p) \/ CrashReview(p) PROVE Keeps
  BY <1>1 DEF DraftReview, BeginReview, ReturnReview, CrashReview
<1>2. ASSUME NEW p \in Reviewers, PrepareReview(p) PROVE Keeps
  BY <1>2 DEF PrepareReview, ReviewsVerified
<1>3. ASSUME NEW p \in Reviewers, AppendReview(p) PROVE Keeps
  BY <1>3 DEF AppendReview
<1>4. ASSUME NEW p \in Reviewers, AppendReviewFails(p) PROVE Keeps
  <2>1. /\ reviewPc[p] = "prepared" /\ reviewPc' = [reviewPc EXCEPT ![p] = "idle"]
        /\ ~reviewTorn
    BY <1>4 DEF AppendReviewFails
  <2>2. \A q \in Reviewers : reviewPc'[q] # "prepared"
    BY <2>1 DEF ReviewersExclude, ReviewInside
  <2> QED  BY <2>1, <2>2
<1>5. ASSUME ClearReviewLock PROVE Keeps
  BY <1>5 DEF ClearReviewLock
<1> QED  BY <1>0, <1>1, <1>2, <1>3, <1>4, <1>5 DEF ReviewNext

LEMMA PromotionStaysWhole ==
    ASSUME ReviewInv, PromotionInv, PromotionWhole, PromotionStep
    PROVE  PromotionWhole' /\ (promotionTorn => promotionTorn' /\ promotions' = promotions)
<1> DEFINE Keeps == PromotionWhole' /\ (promotionTorn => promotionTorn' /\ promotions' = promotions)
<1>0. bound.promoters \subseteq Promoters
  BY PromotionProfileAssumption DEF ReviewInv, ReviewTypes
<1> USE DEF PromotionInv, PromotionTypes, PromotionWhole
<1>1. ASSUME NEW g, AppendEvidence \/ BuildGeneration(g) \/ ClearPromotionLocks PROVE Keeps
  BY <1>1 DEF AppendEvidence, BuildGeneration, ClearPromotionLocks
<1>2. ASSUME NEW p \in Promoters, DraftPromotion(p) \/ BeginPromotion(p) \/ GuardEvidence(p) PROVE Keeps
  BY <1>2 DEF DraftPromotion, BeginPromotion, GuardEvidence
<1>3. ASSUME NEW p \in Promoters, ReturnPromotion(p) \/ CrashPromotion(p) PROVE Keeps
  BY <1>3 DEF ReturnPromotion, CrashPromotion
<1>4. ASSUME NEW p \in Promoters, PreparePromotion(p) PROVE Keeps
  BY <1>4 DEF PreparePromotion, PromotionsVerified
<1>5. ASSUME NEW p \in Promoters, AppendPromotion(p) PROVE Keeps
  BY <1>5 DEF AppendPromotion
<1>6. ASSUME NEW p \in Promoters, AppendPromotionFails(p) PROVE Keeps
  <2>1. /\ promotionPc[p] = "prepared" /\ promotionPc' = [promotionPc EXCEPT ![p] = "idle"]
        /\ ~promotionTorn
    BY <1>6 DEF AppendPromotionFails
  <2>2. \A q \in Promoters : promotionPc'[q] # "prepared"
    BY <2>1 DEF PromotersExclude, PromotionInside
  <2> QED  BY <2>1, <2>2
<1> QED  BY <1>0, <1>1, <1>2, <1>3, <1>4, <1>5, <1>6 DEF PromotionStep

LEMMA ApprovalStaysWhole ==
    ASSUME ReviewInv, ApprovalInv, ApprovalWhole, ApprovalStep
    PROVE  ApprovalWhole' /\ (approvalTorn => approvalTorn' /\ approvals' = approvals)
<1> DEFINE Keeps == ApprovalWhole' /\ (approvalTorn => approvalTorn' /\ approvals' = approvals)
<1>0. bound.approvers \subseteq Approvers
  BY ApprovalAssumption DEF ReviewInv, ReviewTypes
<1> USE DEF ApprovalInv, ApprovalTypes, ApprovalWhole
<1>1. ASSUME NEW p \in Approvers, DraftApproval(p) \/ BeginApproval(p) \/ ReturnApproval(p) \/ CrashApproval(p)
      PROVE  Keeps
  BY <1>1 DEF DraftApproval, BeginApproval, ReturnApproval, CrashApproval
<1>2. ASSUME NEW p \in Approvers, CheckApproval(p) PROVE Keeps
  BY <1>2 DEF CheckApproval, ApprovalsVerified
<1>3. ASSUME NEW p \in Approvers, AppendApproval(p) PROVE Keeps
  BY <1>3 DEF AppendApproval
<1>4. ASSUME NEW p \in Approvers, AppendApprovalFails(p) PROVE Keeps
  <2>1. /\ approvalPc[p] = "checked" /\ approvalPc' = [approvalPc EXCEPT ![p] = "idle"]
        /\ ~approvalTorn
    BY <1>4 DEF AppendApprovalFails
  <2>2. \A q \in Approvers : approvalPc'[q] # "checked"
    BY <2>1 DEF ApproversExclude, ApprovalInside
  <2> QED  BY <2>1, <2>2
<1>5. ASSUME ClearApprovalLock PROVE Keeps
  BY <1>5 DEF ClearApprovalLock
<1> QED  BY <1>0, <1>1, <1>2, <1>3, <1>4, <1>5 DEF ApprovalStep

\* A step of one ledger leaves the files of the others alone.
LEMMA FilesStayWhole ==
    ASSUME ReviewInv, PromotionInv, ApprovalInv, WholeInv, [Next]_governanceVars
    PROVE  WholeInv' /\ TornFilesEnd
<1> USE DEF WholeInv, TornFilesEnd
<1>0. clock \in Nat
  BY DEF ReviewInv, ReviewTypes
<1>1. (UNCHANGED reviewVars) => ReviewWhole' /\ (reviewTorn => reviewTorn' /\ reviews' = reviews)
  BY DEF reviewVars, ReviewWhole
<1>2. (UNCHANGED promotionVars) => PromotionWhole' /\ (promotionTorn => promotionTorn' /\ promotions' = promotions)
  BY DEF promotionVars, PromotionWhole
<1>3. (UNCHANGED approvalVars) => ApprovalWhole' /\ (approvalTorn => approvalTorn' /\ approvals' = approvals)
  BY DEF approvalVars, ApprovalWhole
<1>4. CASE ReviewNext /\ UNCHANGED promotionVars /\ UNCHANGED approvalVars
  BY <1>2, <1>3, <1>4, ReviewStaysWhole
<1>5. CASE PromotionStep /\ UNCHANGED bound /\ UNCHANGED approvalVars
  <2>1. UNCHANGED reviewVars
    BY <1>5, PromotionStepKeeps
  <2> QED  BY <1>1, <1>3, <1>5, <2>1, PromotionStaysWhole
<1>6. CASE ApprovalStep
  BY <1>0, <1>1, <1>2, <1>6, ApprovalsOnly, ApprovalStaysWhole DEF OnlyApprovals
<1>7. CASE UNCHANGED governanceVars
  BY <1>1, <1>2, <1>3, <1>7 DEF governanceVars
<1> QED  BY <1>4, <1>5, <1>6, <1>7 DEF Next, PromotionNext

-----------------------------------------------------------------------------
\* Whatever reviewers, promoters and approvers do, however they race, fail or
\* crash, two members of a conflict group are never validated together.
THEOREM GovernanceNoContradiction == Spec => []OneValidatedPerConflict
<1>1. ReviewInv => OneValidatedPerConflict
  <2> SUFFICES ASSUME ReviewInv, NEW k \in Contents, NEW g \in Groups
               PROVE  Cardinality({c \in Members(g) : StatusIn(reviews, Len(reviews), k)[c] = "validated"}) <= 1
    BY DEF OneValidatedPerConflict
  <2>1. NoContradiction(reviews, Len(reviews))
    BY ReplayKeepsApart DEF ReviewInv, ReviewTypes, ReviewLedgerReplayable
  <2> DEFINE V == {c \in Members(g) : StatusIn(reviews, Len(reviews), k)[c] = "validated"}
  <2>2. \A a, b \in V : a = b
    BY <2>1 DEF NoContradiction
  <2> HIDE DEF V
  <2>3. Cardinality(V) <= 1
    BY <2>2, NoTwo
  <2> QED  BY <2>3 DEF V
<1> QED  BY <1>1, GovernanceInit, LedgersNext, PTL DEF Spec, governanceVars

\* Two memories that hold one semantic key are never active together in a
\* scope: nobody promotes what another promoter just put in force.
THEOREM GovernanceOneActive == Spec => []OneActivePerKey
<1>1. PromotionInv => OneActivePerKey
  <2> SUFFICES ASSUME PromotionInv, NEW c \in Candidates, NEW s \in Scopes
               PROVE  Cardinality(SameMeaning(promotions, Len(promotions), c, s)) <= 1
    BY DEF OneActivePerKey
  <2>1. KeysApart(promotions, Len(promotions))
    BY ReplayKeepsKeysApart DEF PromotionInv, PromotionTypes, PromotionLedgerReplayable
  <2> QED  BY <2>1, NoTwo DEF KeysApart
<1> QED  BY <1>1, GovernanceInit, LedgersNext, PTL DEF Spec, governanceVars

\* No recorded decision makes any of the three ledgers unreadable, except for
\* the times of authorizations, and nothing is recorded behind a torn record.
THEOREM GovernanceReplays == Spec => GovernanceReplayable
<1> DEFINE Inv == ReviewInv /\ PromotionInv /\ ApprovalInv /\ WholeInv
<1>1. Inv => LedgersReplay
  BY DEF ReviewInv, PromotionInv, ApprovalInv, ApprovalsFollow, LedgersReplay
<1>2. Inv /\ [Next]_governanceVars => Inv' /\ [TornFilesEnd]_governanceVars
  BY LedgersNext, ApprovalsNext, FilesStayWhole
<1>3. ApprovalInit => Inv
  BY GovernanceInit DEF Inv
<1> HIDE DEF Inv
<1>4. Inv' => LedgersReplay'
  BY <1>1, PTL
<1> DEFINE Records == <<reviews, promotions, approvals>>
<1>5. Inv /\ [Next]_governanceVars =>
         Inv' /\ [(Records' # Records => LedgersReplay') /\ TornFilesEnd]_governanceVars
  BY <1>2, <1>4
<1> QED  BY <1>3, <1>5, PTL DEF Spec, GovernanceReplayable

\* A memory is promoted or superseded only while its generation covers all
\* evidence: nothing is captured between the check and the append.
THEOREM GovernanceOnCurrentEvidence == Spec => PromotedOnCurrentEvidence
<1> DEFINE Current == \A i \in Len(promotions)+1..Len(promotions') :
               promotions'[i].action # "revoke" => RequireCurrentEvidence(promotions'[i].gen)
<1>1. ReviewInv /\ PromotionInv /\ [Next]_governanceVars => [Current]_promotions
  <2> SUFFICES ASSUME ReviewInv, PromotionInv, [Next]_governanceVars, promotions' # promotions
               PROVE  Current
    OBVIOUS
  <2>1. PromotionStep
    BY DEF Next, PromotionNext, ApprovalStep, DraftApproval, BeginApproval, CheckApproval, AppendApproval,
           AppendApprovalFails, ReturnApproval, CrashApproval, ClearApprovalLock, promotionVars, governanceVars
  <2>2. PICK p \in bound.promoters : /\ promotionPc[p] = "prepared"
                                     /\ promotions' = Append(promotions, promotionDraft[p])
    BY <2>1 DEF PromotionStep, AppendEvidence, BuildGeneration, DraftPromotion, BeginPromotion, GuardEvidence,
                PreparePromotion, AppendPromotion, AppendPromotionFails, ReturnPromotion, CrashPromotion,
                ClearPromotionLocks, evidenceVars
  <2>3. p \in Promoters
    BY PromotionProfileAssumption DEF ReviewInv, ReviewTypes
  <2>4. /\ promotions \in Seq(Revision) /\ promotionDraft[p] \in Revision
        /\ promotionDraft[p].action # "revoke" => RequireCurrentEvidence(promotionDraft[p].gen)
    BY <2>2, <2>3 DEF PromotionInv, PromotionTypes, PromotionsPrepared
  <2>5. /\ Len(promotions') = Len(promotions) + 1 /\ Len(promotions) \in Nat
        /\ promotions'[Len(promotions) + 1] = promotionDraft[p]
    BY <2>2, <2>4, Appending
  <2>6. \A i \in Len(promotions)+1..Len(promotions') : i = Len(promotions) + 1
    BY <2>5
  <2> QED  BY <2>4, <2>5, <2>6
<1> QED  BY <1>1, GovernanceInit, LedgersNext, PTL DEF Spec, governanceVars, PromotedOnCurrentEvidence
=============================================================================
