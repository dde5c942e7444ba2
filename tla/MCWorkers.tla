------------------------------ MODULE MCWorkers ------------------------------
(* Model-checking instances of Workers. *)
EXTENDS Workers

MCKeyRange == {<<1, 1>>, <<2, 2>>}
=============================================================================
