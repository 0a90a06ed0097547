---------------------------- MODULE ReviewLedger ----------------------------
(***************************************************************************)
(* The candidate review ledger (internal/review): reviewers run Apply,     *)
(* which takes a lock file, replays every record, prepares the transitions *)
(* of one request against the replayed statuses and appends one record.    *)
(*                                                                         *)
(* A review record is identified by its sequence number (its hash covers   *)
(* it and everything before).  Statuses are kept per candidates file: two  *)
(* generations with the same content hash share them.  Evidence, reviewer  *)
(* and basis checks depend on the request and the immutable generation     *)
(* alone; the requests considered here are the ones that pass them.        *)
(***************************************************************************)
EXTENDS Integers, Sequences, FiniteSets

CONSTANTS
    Reviewers,      \* processes that run review apply
    Generations,    \* names of candidate generations
    ContentOf,      \* CandidatesSHA256 of each generation
    Candidates,     \* candidates of all generations
    CandidatesOf,   \* the candidates of each generation
    Groups,         \* semantic conflict groups
    NoGroup,        \* ConflictGroupID = ""
    GroupOf,        \* the conflict group of each candidate
    Scopes,         \* scopes a reviewer may confirm
    NoScope,        \* transition.Scope = nil
    NoDraft,        \* no request is under way
    Profiles        \* bounds: which processes act on which generations, what is on
                    \* record already, and how many records and clock readings there are

ASSUME ReviewAssumption ==
    /\ DOMAIN ContentOf = Generations
    /\ IsFiniteSet(Candidates)
    /\ GroupOf \in [Candidates -> Groups \cup {NoGroup}]
    /\ NoGroup \notin Groups
    /\ NoScope \notin Scopes
    /\ CandidatesOf \in [Generations -> SUBSET Candidates]
    /\ \A g \in Generations, c, d \in Candidates :
          (GroupOf[c] # NoGroup /\ GroupOf[c] = GroupOf[d] /\ c \in CandidatesOf[g]) => d \in CandidatesOf[g]

VARIABLES
    clock,          \* readings of time.Now so far: no two are equal
    reviews,        \* complete records of learning/review-events.jsonl
    reviewTorn,     \* the file ends with a partial record
    reviewLock,     \* state/candidate-review.lock exists
    reviewPc,       \* where each reviewer is in Apply
    reviewDraft,    \* the request, then the record, of each reviewer
    bound           \* the profile

reviewVars == <<reviews, reviewTorn, reviewLock, reviewPc, reviewDraft>>

Action == {"validate", "reject", "quarantine", "reopen"}
Contents == {ContentOf[g] : g \in Generations}
Members(group) == {c \in Candidates : GroupOf[c] = group}

\* A candidate in a conflict group is derived as quarantined.
initialStatus(c) == IF GroupOf[c] # NoGroup THEN "quarantined" ELSE "pending"

\* The records among the first n that decide candidate c of content k.
Decisions(rs, n, k, c) == {i \in 1..n : rs[i].content = k /\ c \in DOMAIN rs[i].trs}

Latest(S) == CHOOSE i \in S : \A j \in S : j <= i

\* replay: the status of every candidate of content k after n records.
StatusIn(rs, n, k) ==
    [c \in Candidates |->
        IF Decisions(rs, n, k, c) = {} THEN initialStatus(c)
        ELSE rs[Latest(Decisions(rs, n, k, c))].trs[c].result]

\* resultingStatus: which statuses an action may start from, ...
ActionAllowed(action, current, base, conflictResolution) ==
    CASE action = "validate" -> \/ current = "pending"
                                \/ conflictResolution /\ current = "quarantined"
      [] action = "reject" -> current # "rejected"
      [] action = "quarantine" -> current \in {"pending", "validated"}
      [] action = "reopen" -> current \in {"rejected", "quarantined"} /\ current # base

\* ... and where it leads.
resultingStatus(action, base) ==
    CASE action = "validate" -> "validated"
      [] action = "reject" -> "rejected"
      [] action = "quarantine" -> "quarantined"
      [] action = "reopen" -> base

\* Mutation: a conflict resolution may leave out members.
WholeGroup_subset(group, decided) == decided \subseteq Members(group)

\* A conflict resolution decides every candidate of the group.
WholeGroup(group, decided) == decided = Members(group)

\* prepareTransitions accepts the transitions trs of a request for `group'
\* when the candidates have the statuses st.
prepareTransitions(group, trs, st) ==
    /\ IF group = NoGroup THEN Cardinality(DOMAIN trs) = 1
       ELSE /\ WholeGroup(group, DOMAIN trs)
            /\ \A c \in DOMAIN trs : /\ GroupOf[c] = group
                                     /\ st[c] = "quarantined"
                                     /\ trs[c].action \in {"validate", "reject"}
            /\ Cardinality({c \in DOMAIN trs : trs[c].action = "validate"}) <= 1
    /\ \A c \in DOMAIN trs :
          /\ trs[c].expected = st[c]
          /\ ActionAllowed(trs[c].action, st[c], initialStatus(c), group # NoGroup)
          /\ trs[c].result = resultingStatus(trs[c].action, initialStatus(c))
          /\ trs[c].action = "validate" => GroupOf[c] \in {NoGroup, group}
          /\ (trs[c].action = "validate") = (trs[c].scope # NoScope)

\* replayVerified: every record is a request that was acceptable when it was
\* appended.
ReviewsReplay(rs) ==
    \A i \in 1..Len(rs) :
        /\ ContentOf[rs[i].gen] = rs[i].content
        /\ prepareTransitions(rs[i].group, rs[i].trs, StatusIn(rs, i - 1, rs[i].content))

Status == {"pending", "validated", "rejected", "quarantined"}
Transition == [expected : Status, action : Action, result : Status, scope : Scopes \cup {NoScope}]

\* The records of the file that decide the candidates in `decided'.
RecordDeciding(decided) ==
    [gen : Generations, content : Contents, group : Groups \cup {NoGroup}, at : Nat,
     trs : [decided -> Transition]]

\* What is on record at the start replays and is not of the future.
ASSUME ReviewProfileAssumption ==
    \A b \in Profiles :
        /\ b.reviewers \subseteq Reviewers
        /\ b.generations \subseteq Generations
        /\ b.started \in Nat
        /\ b.reviewed \in Seq({b.reviewed[i] : i \in 1..Len(b.reviewed)})
        /\ \A i \in 1..Len(b.reviewed) :
              /\ \E decided \in SUBSET Candidates : b.reviewed[i] \in RecordDeciding(decided)
              /\ b.reviewed[i].at < b.started
        /\ ReviewsReplay(b.reviewed)

ReviewsVerified == ~reviewTorn /\ ReviewsReplay(reviews)

\* The transitions of the requests a reviewer of generation g may write who saw
\* the statuses st: one decision, or the decisions of a conflict resolution.
Requests(g, st) ==
    LET tr(c, a, s) == [expected |-> st[c], action |-> a,
                        scope |-> IF a = "validate" THEN s ELSE NoScope,
                        result |-> resultingStatus(a, initialStatus(c))]
    IN  {<<x, [y \in {c} |-> tr(c, a, s)]>> : x \in {NoGroup} \cup Groups, c \in CandidatesOf[g], a \in Action, s \in Scopes}
        \cup UNION {{<<x, [c \in Members(x) |-> tr(c, a[c], s)]>> :
                        a \in [Members(x) -> {"validate", "reject"}], s \in Scopes} :
                    x \in {GroupOf[c] : c \in CandidatesOf[g]} \ {NoGroup}}

-----------------------------------------------------------------------------
ReviewInit ==
    /\ bound \in Profiles
    /\ clock = bound.started
    /\ reviews = bound.reviewed
    /\ reviewTorn = FALSE
    /\ reviewLock = FALSE
    /\ reviewPc = [p \in Reviewers |-> "idle"]
    /\ reviewDraft = [p \in Reviewers |-> NoDraft]

\* A reviewer reads the statuses (GetStatus) and writes a request against them.
DraftReview(p) ==
    /\ reviewPc[p] = "idle"
    /\ Len(reviews) < bound.reviews
    /\ ReviewsVerified
    /\ \E g \in bound.generations : \E req \in Requests(g, StatusIn(reviews, Len(reviews), ContentOf[g])) :
          reviewDraft' = [reviewDraft EXCEPT ![p] =
              [gen |-> g, content |-> ContentOf[g], group |-> req[1], trs |-> req[2], at |-> clock]]
    /\ reviewPc' = [reviewPc EXCEPT ![p] = "drafted"]
    /\ UNCHANGED <<clock, reviews, reviewTorn, reviewLock>>

\* The lock file is created with O_EXCL.
acquireReviewLock == ~reviewLock /\ reviewLock' = TRUE

\* Apply takes the time and the lock.
BeginReview(p) ==
    /\ reviewPc[p] = "drafted"
    /\ clock < bound.clock
    /\ acquireReviewLock
    /\ clock' = clock + 1
    /\ reviewDraft' = [reviewDraft EXCEPT ![p].at = clock]
    /\ reviewPc' = [reviewPc EXCEPT ![p] = "locked"]
    /\ UNCHANGED <<reviews, reviewTorn>>

\* Apply replays the ledger and prepares the transitions.
PrepareReview(p) ==
    /\ reviewPc[p] = "locked"
    /\ ReviewsVerified
    /\ prepareTransitions(reviewDraft[p].group, reviewDraft[p].trs,
                          StatusIn(reviews, Len(reviews), reviewDraft[p].content))
    /\ reviewPc' = [reviewPc EXCEPT ![p] = "prepared"]
    /\ UNCHANGED <<clock, reviews, reviewTorn, reviewLock, reviewDraft>>

\* appendRecord succeeds.
AppendReview(p) ==
    /\ reviewPc[p] = "prepared"
    /\ Len(reviews) < bound.reviews
    /\ reviews' = Append(reviews, reviewDraft[p])
    /\ reviewPc' = [reviewPc EXCEPT ![p] = "appended"]
    /\ UNCHANGED <<clock, reviewTorn, reviewLock, reviewDraft>>

\* appendRecord fails, having written nothing, a part, or all of the record;
\* the deferred release removes the lock.
AppendReviewFails(p) ==
    /\ reviewPc[p] = "prepared"
    /\ \/ UNCHANGED <<reviews, reviewTorn>>
       \/ reviewTorn' = TRUE /\ UNCHANGED reviews
       \/ /\ Len(reviews) < bound.reviews
          /\ reviews' = Append(reviews, reviewDraft[p])
          /\ UNCHANGED reviewTorn
    /\ reviewLock' = FALSE
    /\ reviewDraft' = [reviewDraft EXCEPT ![p] = NoDraft]
    /\ reviewPc' = [reviewPc EXCEPT ![p] = "idle"]
    /\ UNCHANGED clock

\* Apply returns: the lock was taken by another, the request was refused, or
\* the record is appended.  It removes only a lock of its own.
ReturnReview(p) ==
    /\ reviewPc[p] \in {"drafted", "locked", "appended"}
    /\ reviewLock' = (reviewLock /\ reviewPc[p] = "drafted")
    /\ reviewDraft' = [reviewDraft EXCEPT ![p] = NoDraft]
    /\ reviewPc' = [reviewPc EXCEPT ![p] = "idle"]
    /\ UNCHANGED <<clock, reviews, reviewTorn>>

\* The reviewer's process dies; the lock file stays.
CrashReview(p) ==
    /\ reviewPc[p] \in {"locked", "prepared", "appended"}
    /\ reviewPc' = [reviewPc EXCEPT ![p] = "idle"]
    /\ reviewDraft' = [reviewDraft EXCEPT ![p] = NoDraft]
    /\ UNCHANGED <<clock, reviews, reviewTorn, reviewLock>>

\* An operator removes a lock file by hand after checking that nobody is
\* inside Apply; no command does it.
ClearReviewLock ==
    /\ reviewLock
    /\ \A p \in Reviewers : reviewPc[p] \in {"idle", "drafted"}
    /\ reviewLock' = FALSE
    /\ UNCHANGED <<clock, reviews, reviewTorn, reviewPc, reviewDraft>>

ReviewNext ==
    \/ \E p \in bound.reviewers : \/ DraftReview(p)
                                  \/ BeginReview(p)
                                  \/ PrepareReview(p)
                                  \/ AppendReview(p)
                                  \/ AppendReviewFails(p)
                                  \/ ReturnReview(p)
                                  \/ CrashReview(p)
    \/ ClearReviewLock

-----------------------------------------------------------------------------
\* Every record Apply put in the file can be replayed, so that no later apply,
\* status or verify is refused because of an earlier decision: a decision is
\* never recorded against a status that another reviewer has changed since it
\* was read.
ReviewLedgerReplayable == ReviewsReplay(reviews)

\* Whatever sequence of resolutions, rejections, quarantines and reopenings
\* is applied, two conflicting candidates are never validated together.
OneValidatedPerConflict ==
    \A k \in Contents, g \in Groups :
        LET st == StatusIn(reviews, Len(reviews), k)
        IN  Cardinality({c \in Members(g) : st[c] = "validated"}) <= 1
=============================================================================
