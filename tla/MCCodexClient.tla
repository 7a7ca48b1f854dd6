---------------------------- MODULE MCCodexClient ----------------------------
(* Instances of CodexClient for TLC. *)
EXTENDS CodexClient
=============================================================================
