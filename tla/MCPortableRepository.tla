------------------------ MODULE MCPortableRepository ------------------------
(***************************************************************************)
(* Two wordings of one meaning, by the same agent, and another memory.  The*)
(* second wording has the lower memory id.                                 *)
(***************************************************************************)
EXTENDS PortableRepository, TLC

CONSTANTS terse, wordy, other

MCContents == {terse, wordy, other}
MCMemoryOf == [c \in MCContents |-> c]
MCMeaningOf == terse :> "meaning" @@ wordy :> "meaning" @@ other :> "another"
MCKeyOf == MCMeaningOf
MCRankOf == wordy :> 1 @@ terse :> 2 @@ other :> 3
ProcSymmetry == Permutations(Procs)
=============================================================================
