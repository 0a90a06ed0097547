SPECIFICATION Spec
CONSTANTS
    Reviewers = {r1, r2}
    Promoters = {p1, p2}
    Approvers = {a1, a2}
    Profiles <- MCOverlap
    disputed = disputed
    repeated = repeated
    Generations = {disputed, repeated}
    ContentOf <- MCContentOf
    yes = yes
    no = no
    other = other
    terse = terse
    wordy = wordy
    Candidates = {yes, no, other, terse, wordy}
    CandidatesOf <- MCCandidatesOf
    group = group
    Groups = {group}
    NoGroup = NoGroup
    GroupOf <- MCGroupOf
    TextOf <- MCTextOf
    KeyOf <- MCKeyOf
    Scopes = {"global"}
    NoScope = "none"
    NoDraft = NoDraft
SYMMETRY ProcessSymmetry
INVARIANT ApprovalLedgerReplayable
CHECK_DEADLOCK FALSE
