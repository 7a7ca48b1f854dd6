---------------------------- MODULE MemoryCatalog ----------------------------
(***************************************************************************)
(* What the memory store promises, with none of its files, journals, jobs  *)
(* or crashes: a memory is listed only while its text is kept somewhere,   *)
(* leaves the list once and for good, and (with git backup) only after its *)
(* text entered the history of the repository.  MemoryLifecycle implements *)
(* this specification across every crash and failed call it models.        *)
(***************************************************************************)
CONSTANTS
    Memories,     \* memory ids
    KeepsHistory  \* git backup is enabled

VARIABLES
    catalog,      \* "absent", "listed" or "deleted"
    kept,         \* memories whose text is in the store
    history       \* memories whose text some commit contains

vars == <<catalog, kept, history>>

TypeOK ==
    /\ catalog \in [Memories -> {"absent", "listed", "deleted"}]
    /\ kept \subseteq Memories
    /\ history \subseteq Memories

Init ==
    /\ catalog = [m \in Memories |-> "absent"]
    /\ kept = {}
    /\ history = {}

\* The text of a memory is published before the memory is listed.
Draft(m) ==
    /\ catalog[m] = "absent"
    /\ m \notin kept
    /\ kept' = kept \cup {m}
    /\ UNCHANGED <<catalog, history>>

List(m) ==
    /\ catalog[m] = "absent"
    /\ m \in kept
    /\ catalog' = [catalog EXCEPT ![m] = "listed"]
    /\ UNCHANGED <<kept, history>>

Archive(m) ==
    /\ m \in kept
    /\ history' = history \cup {m}
    /\ UNCHANGED <<catalog, kept>>

\* A memory leaves the list while its text is still there.
Delete(m) ==
    /\ catalog[m] = "listed"
    /\ KeepsHistory => m \in history
    /\ catalog' = [catalog EXCEPT ![m] = "deleted"]
    /\ UNCHANGED <<kept, history>>

\* Only the text of an unlisted memory is thrown away.
Discard(m) ==
    /\ catalog[m] # "listed"
    /\ m \in kept
    /\ kept' = kept \ {m}
    /\ UNCHANGED <<catalog, history>>

Next ==
    \E m \in Memories :
        Draft(m) \/ List(m) \/ Archive(m) \/ Delete(m) \/ Discard(m)

Spec == Init /\ [][Next]_vars

-----------------------------------------------------------------------------

\* A listed memory has its text (the invariant behind "Once both CONTENT.md and
\* the memory row are durable", docs/architecture/flows.md, Add Memory).
ListedIsKept == \A m \in Memories : catalog[m] = "listed" => m \in kept

\* A deleted memory's text is never the only copy.
DeletedIsInHistory ==
    KeepsHistory => \A m \in Memories : catalog[m] = "deleted" => m \in history

=============================================================================
