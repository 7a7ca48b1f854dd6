------------------------- MODULE MCPsychiatristDock -------------------------
(* Instances of PsychiatristDock for TLC. *)
EXTENDS PsychiatristDock
=============================================================================
