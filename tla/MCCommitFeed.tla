---------------------------- MODULE MCCommitFeed -----------------------------
(* Model-checking instances of CommitFeed. *)
EXTENDS CommitFeed
=============================================================================
