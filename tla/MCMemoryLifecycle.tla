-------------------------- MODULE MCMemoryLifecycle --------------------------
(* Small stores for MemoryLifecycle.                                       *)
EXTENDS MemoryLifecycle
=============================================================================
