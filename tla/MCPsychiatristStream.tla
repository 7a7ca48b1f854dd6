------------------------ MODULE MCPsychiatristStream ------------------------
(* Instances of PsychiatristStream for TLC.  Liveness is checked: no symmetry. *)
EXTENDS PsychiatristStream, TLC
=============================================================================
