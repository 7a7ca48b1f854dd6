------------------------- MODULE MCPsychiatristTurn -------------------------
(* Instances of PsychiatristTurn for TLC. *)
EXTENDS PsychiatristTurn, TLC

\* Turn ids, threads and readers are only compared.
Symmetry == Permutations(Turns) \cup Permutations(Threads) \cup Permutations(Readers)
=============================================================================
