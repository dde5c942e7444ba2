---------------------------- MODULE MCDurability ----------------------------
(* Instances of Durability for TLC. *)
EXTENDS Durability, TLC

\* Keys are only compared for equality, and flushers run the same code.
Symmetry == Permutations(Key) \cup Permutations(Flusher)
=============================================================================
