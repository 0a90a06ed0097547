-------------------------- MODULE PortableHistory --------------------------
(***************************************************************************)
(* The immutable revisions of portable memory (internal/portable) and what *)
(* repository verification requires of a set of them.                      *)
(*                                                                         *)
(* The id of a revision is a hash of its content and of its parent's id,   *)
(* so a revision IS the sequence of contents from the root of its memory   *)
(* to itself: the same sequence exported by two devices is the same file.  *)
(* A content stands for the text, scope, kind and evidence basis of an     *)
(* active revision; Revoked is the content of every revocation.            *)
(***************************************************************************)
EXTENDS Naturals, Sequences, FiniteSets

CONSTANTS
    Contents,   \* contents of active revisions
    Revoked,    \* the content of a revocation
    MemoryOf,   \* memory id derived from a root content (text and scope)
    MeaningOf,  \* portable semantic identity of a content (scope and core)
    KeyOf       \* local semantic key of a content (scope, core and agent)

ASSUME HistoryAssumption ==
    /\ Revoked \notin Contents
    /\ DOMAIN MemoryOf = Contents
    /\ DOMAIN MeaningOf = Contents
    /\ DOMAIN KeyOf = Contents

\* validateRevision: a root is active, nothing follows a revocation.
IsRevision(r) ==
    /\ r \in Seq(Contents \cup {Revoked})
    /\ Len(r) > 0
    /\ \A i \in 1..Len(r) : r[i] = Revoked => i > 1 /\ i = Len(r)

Parent(r) == SubSeq(r, 1, Len(r) - 1)
Memory(r) == MemoryOf[r[1]]
Active(r) == r[Len(r)] # Revoked
Meaning(r) == MeaningOf[r[Len(r)]]

Children(files, r) == {s \in files : Len(s) > 1 /\ Parent(s) = r}
Heads(files) == {r \in files : Children(files, r) = {}}
ActiveHeads(files) == {r \in Heads(files) : Active(r)}

ParentsPresent(files) ==
    \A r \in files : Len(r) > 1 => Parent(r) \in files /\ Active(Parent(r))

\* Mutation: divergent children of one revision are not reported.
Unforked_rootsOnly(files) ==
    \A r, s \in files : Len(r) = 1 /\ Len(s) = 1 /\ Memory(r) = Memory(s) => r = s

\* root_conflict, revision_fork and head_conflict.
Unforked(files) ==
    /\ \A r, s \in files : Len(r) = 1 /\ Len(s) = 1 /\ Memory(r) = Memory(s) => r = s
    /\ \A r \in files : Cardinality(Children(files, r)) <= 1
    /\ \A r, s \in Heads(files) : Memory(r) = Memory(s) => r = s

\* validateSemanticHeads: duplicate_semantic_memory and semantic_conflict.
Unambiguous(files) ==
    \A r, s \in ActiveHeads(files) : Meaning(r) = Meaning(s) => r = s

\* validateRepositoryState: the revisions form one line per memory, and no two
\* current memories mean the same.
Consistent(files) == ParentsPresent(files) /\ Unforked(files) /\ Unambiguous(files)

\* projectHistory: the portable revisions of a local history, whose last
\* revision is h.
Projection(h) == {SubSeq(h, 1, i) : i \in 1..Len(h)}
Projections(hs) == UNION {Projection(h) : h \in hs}

-----------------------------------------------------------------------------
(***************************************************************************)
(* Local histories, one per memory and each given by its last revision, as *)
(* the promotion ledger lets them grow: it knows a semantic key that, other*)
(* than Meaning, tells the agents apart that stated the memory.            *)
(***************************************************************************)
Key(h) == KeyOf[h[Len(h)]]

Promotable(hs) ==
    {c \in Contents : \A h \in hs : /\ Memory(h) # MemoryOf[c]
                                    /\ Active(h) => Key(h) # KeyOf[c]}

Promoted(hs) == {hs \cup {<<c>>} : c \in Promotable(hs)}

Superseded(hs) ==
    UNION {{(hs \ {h}) \cup {Append(h, c)} : c \in {d \in Contents : KeyOf[d] = Key(h)}} :
               h \in {k \in hs : Active(k)}}

Withdrawn(hs) == {(hs \ {h}) \cup {Append(h, Revoked)} : h \in {k \in hs : Active(k)}}

\* The histories after one more local decision.
Grown(hs) == Promoted(hs) \cup Superseded(hs) \cup Withdrawn(hs)
=============================================================================
