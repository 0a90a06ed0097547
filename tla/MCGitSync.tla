----------------------------- MODULE MCGitSync -----------------------------
(***************************************************************************)
(* Two devices.  They share one memory that both decide about, alone or    *)
(* with an outside Git client, or they have memories of their own that     *)
(* never conflict, while runs fail and die.                                *)
(***************************************************************************)
EXTENDS GitSync

CONSTANTS u, v

MCContents == {u, v}
OwnMemory == [c \in MCContents |-> c]

MCProfiles ==
    {[promoted |-> {<<u>>}, contents |-> {u}, roots |-> 1, decisions |-> 1,
      commits |-> 4, foreign |-> 1, faults |-> 0],
     [promoted |-> {<<u>>}, contents |-> {u}, roots |-> 1, decisions |-> 2,
      commits |-> 5, foreign |-> 0, faults |-> 0],
     [promoted |-> {}, contents |-> {u, v}, roots |-> 2, decisions |-> 2,
      commits |-> 8, foreign |-> 0, faults |-> 1]}
=============================================================================
