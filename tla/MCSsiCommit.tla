----------------------------- MODULE MCSsiCommit -----------------------------
(* Model-checking instances of SsiCommit. *)
EXTENDS SsiCommit, TLC

Symmetry == Permutations(Txn)
=============================================================================
