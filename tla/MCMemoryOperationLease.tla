----------------------- MODULE MCMemoryOperationLease -----------------------
(* The lease of one store for a handful of concurrent calls.               *)
EXTENDS MemoryOperationLease

MCClients == {"add", "delete", "toggle", "recovery"}

=============================================================================
