-------------------------- MODULE MCBackupFailsafe --------------------------
EXTENDS BackupFailsafe

\* Locations and remotes are interchangeable: the first ones are named, which
\* leaves out only states that differ in the names.
MCInit ==
    /\ Init
    /\ LET first == CHOOSE l \in Locations : TRUE IN
       IF stamp = None THEN configured = first
       ELSE stamp = [location |-> first, url |-> CHOOSE u \in Remotes : TRUE]

MCSpec == MCInit /\ [][Next]_vars /\ Fairness
=============================================================================
