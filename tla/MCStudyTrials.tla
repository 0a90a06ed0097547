---------------------------- MODULE MCStudyTrials ----------------------------
(***************************************************************************)
(* Two drafts that share a task id; each has one task per arm.  Codex      *)
(* prints a right answer, a wrong one, or nothing usable.                  *)
(***************************************************************************)
EXTENDS StudyTrials, TLC

MCDrafts == {"first", "second"}
MCTasksOf == "first" :> <<"t1", "t2">> @@ "second" :> <<"t2", "t3">>
MCSeedOf == "first" :> 3 @@ "second" :> 10
Right == <<"thread.started", "wrong", "right", "turn.completed">>
Wrong == <<"thread.started", "wrong", "turn.completed">>
Failed == <<"thread.started", "right", "turn.failed">>

One == {CHOOSE p \in Procs : TRUE}

\* Two processes that race; one process with every way a run may go; one whose
\* directory is edited; two that finish a study (14 records at least) and go on,
\* with a plan from elsewhere or with a run of Codex on a task of the study; and
\* two that register plans.
Base == [procs |-> One, drafts |-> {"first"}, records |-> 7, contexts |-> 7, heads |-> 0,
         edits |-> 0, days |-> 0, direct |-> 0, trouble |-> 0, mishaps |-> TRUE,
         streams |-> {Right}, statuses |-> {0}, contents |-> {}]

MCProfiles ==
    {[Base EXCEPT !.procs = Procs, !.heads = 1],
     [Base EXCEPT !.drafts = MCDrafts, !.contexts = 2, !.heads = 1, !.direct = 1, !.trouble = 1,
                  !.statuses = {0, 1, 124}],
     [Base EXCEPT !.records = 6, !.edits = 1, !.statuses = {0, 1}],
     [Base EXCEPT !.records = 15, !.contexts = 1, !.days = 1, !.streams = {Right, Wrong, Failed},
                  !.mishaps = FALSE, !.contents = {"one"}],
     [Base EXCEPT !.records = 16, !.contexts = 1, !.days = 1, !.direct = 1, !.mishaps = FALSE],
     [Base EXCEPT !.procs = Procs, !.records = 2, !.streams = {}, !.statuses = {},
                  !.contents = {"one", "other"}]}
=============================================================================
