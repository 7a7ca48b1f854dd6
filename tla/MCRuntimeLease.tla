--------------------------- MODULE MCRuntimeLease ---------------------------
EXTENDS RuntimeLease, TLC

\* Leases and resources are interchangeable.
Symmetry == Permutations(Leases) \cup Permutations(Resources)
=============================================================================
