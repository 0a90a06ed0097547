-------------------------- MODULE MCEvidenceLedger --------------------------
(***************************************************************************)
(* Small instances of EvidenceLedger: one event without a payload blob and *)
(* one that refers to a blob.                                              *)
(***************************************************************************)
EXTENDS EvidenceLedger, TLC

CONSTANTS plain, attached, blob

MCBlobOf == (plain :> {}) @@ (attached :> {blob})

WriterSymmetry == Permutations(Writers)
=============================================================================
