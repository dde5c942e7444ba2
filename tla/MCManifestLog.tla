---------------------------- MODULE MCManifestLog ----------------------------
(* Instances of ManifestLog for TLC. *)
EXTENDS ManifestLog
=============================================================================
