------------------------------- MODULE MCMvcc -------------------------------
(* Instances of Mvcc for TLC. *)
EXTENDS Mvcc, TLC

\* An overwrite, a delete, two keys at once, and one key twice in a batch.
MCBatches ==
  LET M(k, v) == [key |-> k, val |-> v]
  IN  {<<M(1, "put")>>, <<M(1, "put"), M(2, "put")>>, <<M(1, "put"), M(1, "del")>>}
\* Readers run the same code.
Symmetry == Permutations(Reader)
=============================================================================
