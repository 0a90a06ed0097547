--------------------------- MODULE AppendOnlyLog ---------------------------
(***************************************************************************)
(* What the evidence ledger promises its callers: a log that is only ever  *)
(* extended, of which a committed prefix survives everything and the rest  *)
(* may be lost from its end.                                               *)
(***************************************************************************)
EXTENDS Naturals, Sequences

CONSTANT Entries

VARIABLES log, committed

Init == log = <<>> /\ committed = 0

IsPrefixOf(s, t) ==
    /\ Len(s) <= Len(t)
    /\ \A i \in 1..Len(s) : t[i] = s[i]

\* Entries are added at the end; nothing before them changes.
Extend ==
    /\ log' \in Seq(Entries)
    /\ IsPrefixOf(log, log')
    /\ UNCHANGED committed

\* A longer prefix becomes permanent.
Commit ==
    /\ committed' \in committed..Len(log)
    /\ UNCHANGED log

\* A failure drops entries from the end, never a committed one.
Lose ==
    /\ IsPrefixOf(log', log)
    /\ Len(log') >= committed
    /\ UNCHANGED committed

Next == Extend \/ Commit \/ Lose

Spec == Init /\ [][Next]_<<log, committed>>
=============================================================================
