--------------------------- MODULE MemoryLifecycle ---------------------------
(***************************************************************************)
(* Adding, deleting and recovering memories: what server/memories does to  *)
(* the four places a memory lives in (the SQLite row, its directory in the *)
(* file store, the operation journal, the git repository), with requests   *)
(* that interleave at every await, failing file, database and git calls,   *)
(* and crashes of the process at every point.                              *)
(*                                                                         *)
(* SQLite calls are synchronous behind async functions: what follows one   *)
(* up to the next file, git or network call is the same step.  A file call *)
(* and the directory sync after it are one step that may fail with or      *)
(* without its effect.                                                     *)
(***************************************************************************)
EXTENDS Integers, FiniteSets

CONSTANTS
    Memories,     \* memory ids
    Keyed,        \* ids that clients send as Idempotency-Key; the server mints the others
    GitEnabled,   \* config.backup.git.enabled
    Chatting,     \* memories with a Psychiatrist turn, the writer of artifacts
    Faults,       \* calls that may fail without effect
    LateFaults,   \* calls that may take effect and still report a failure
    MaxCrashes,   \* bound on the crashes of the process
    NoMemory      \* no memory is being worked on

\* The calls that may fail.  "loss" is the operator removing a memory's
\* directory behind the application's back.
Calls == {"env", "import", "journal", "clear", "content", "undo", "db", "git",
          "stage", "restore", "clean", "loss"}

ASSUME LifecycleAssumption ==
    /\ Keyed \subseteq Memories
    /\ Chatting \subseteq Memories
    /\ GitEnabled \in BOOLEAN
    /\ Faults \subseteq Calls
    /\ LateFaults \subseteq Calls
    /\ MaxCrashes \in Nat
    /\ NoMemory \notin Memories

VARIABLES
    \* what survives a crash
    rows,         \* memories with a row in SQLite
    status,       \* backup_status of the rows
    reserved,     \* keys in memory_creation_idempotency
    journal,      \* the kind of .operations/{id}.json, if there is one
    canonical,    \* files in memories/{id}; {} when there is no directory
    staged,       \* files in .delete-staging/{id}-*; {} when there is none
    head,         \* files of the memory in the HEAD commit
    \* what the process holds in memory
    add,          \* where the add of each memory is
    created,      \* adds that inserted their reservation
    del,          \* where the delete of each memory is
    chat,         \* where the artifact writer of each memory is
    rec,          \* where the recovery of the store is
    recTodo,      \* journals the recovery listed and has not handled
    recCur,       \* the memory whose journal it handles
    intent,       \* memories whose artifacts are a durable backup intent
    boot,         \* where the startup scan of the backup queue is
    bootTodo,     \* rows the scan found and has not enqueued
    job,          \* files named by the queued backup job of each memory
    run,          \* the job the worker has run and not yet recorded
    \* history
    crashes,      \* crashes so far
    minted,       \* ids the server generated
    deleted,      \* memories whose row was deleted
    archived,     \* files of each memory that some commit contains
    lost          \* memories whose directory the operator removed

durable  == <<rows, status, reserved, journal, canonical, staged, head>>
requests == <<add, created, del>>
recovery == <<rec, recTodo, recCur>>
queue    == <<intent, boot, bootTodo, job, run>>
history  == <<crashes, minted, deleted, archived, lost>>
vars     == <<durable, requests, chat, recovery, queue, history>>

Files == {"content", "thread"}

Statuses == {"none", "pending", "queued", "success", "failed", "disabled"}

AddSteps == {"idle", "recovering", "importing", "journaling", "publishing",
             "inserting", "undoContent", "undoJournal", "clearing"}

\* Steps of an add under the mutation lease.
AddSection == {"journaling", "publishing", "inserting", "undoContent",
               "undoJournal", "clearing"}

DelSteps == {"idle", "recovering", "waiting", "checking", "leasing", "journaling",
             "staging", "committing", "erasing", "restore", "restoreGit",
             "recommitting", "cleaning", "clearing"}

\* Steps of a delete under the mutation lease.
DelSection == {"journaling", "staging", "committing", "erasing", "restore",
               "restoreGit", "recommitting", "cleaning", "clearing"}

\* Steps at which a delete holds the deletion reservation.
DelReserved == DelSteps \ {"idle", "recovering"}

\* Steps of an artifact writer, and those at which it is inside
\* withMemoryArtifactMutation.
ChatSteps  == {"idle", "open", "publishing", "answered", "saving", "saved", "finalizing"}
Publishing == {"publishing", "saving", "finalizing"}

RecSteps == {"idle", "waiting", "scanning", "unlinking", "rmStaging", "marking",
             "committing", "erasing"}

InitialStatus == IF GitEnabled THEN "pending" ELSE "disabled"

Init ==
    /\ rows = {} /\ reserved = {}
    /\ status = [m \in Memories |-> "none"]
    /\ journal = [m \in Memories |-> "none"]
    /\ canonical = [m \in Memories |-> {}]
    /\ staged = [m \in Memories |-> {}]
    /\ head = [m \in Memories |-> {}]
    /\ add = [m \in Memories |-> "idle"] /\ created = {}
    /\ del = [m \in Memories |-> "idle"]
    /\ chat = [m \in Memories |-> "idle"]
    /\ rec = "idle" /\ recTodo = {} /\ recCur = NoMemory
    /\ intent = {} /\ boot = "cold" /\ bootTodo = {}
    /\ job = [m \in Memories |-> {}]
    /\ run = [memory |-> NoMemory, ok |-> TRUE]
    /\ crashes = 0 /\ minted = {} /\ deleted = {} /\ lost = {}
    /\ archived = [m \in Memories |-> {}]

-----------------------------------------------------------------------------
(* Calls that fail.                                                        *)

\* A call is done; or fails and did nothing; or fails after its effect (the
\* directory sync, or the push, came back with an error).
Outcomes(call) ==
    {"done"} \cup (IF call \in Faults THEN {"undone"} ELSE {})
             \cup (IF call \in LateFaults THEN {"unsure"} ELSE {})

Took(o) == o # "undone"

Succeeded(o) == o = "done"

\* The git job of a memory: git add of the paths, and a commit if one of them
\* differs from HEAD.  A path that is the memory's directory covers every file
\* in it for git add and git commit, but is never the name of a changed file.
Committed(m, paths, directory) ==
    LET scope == IF directory THEN Files ELSE paths
    IN  IF \A f \in paths : f \in head[m] <=> f \in canonical[m]
        THEN head[m]
        ELSE (head[m] \ scope) \cup (canonical[m] \cap scope)

\* Git jobs run one after the other; the worker's is over when it is recorded.
GitIdle == run.memory = NoMemory

RunGitBackupJob(m, paths, directory, o) ==
    /\ GitIdle
    /\ IF Took(o)
       THEN /\ head' = [head EXCEPT ![m] = Committed(m, paths, directory)]
            /\ archived' = [archived EXCEPT ![m] = @ \cup Committed(m, paths, directory)]
       ELSE UNCHANGED <<head, archived>>

\* The jobs of a deletion name CONTENT.md and the directory.
RunDeletionJob(m, o) == RunGitBackupJob(m, {"content"}, TRUE, o)

-----------------------------------------------------------------------------
(* The mutation lease, as MemoryOperationLease grants it: a recovery alone, *)
(* or any number of mutations.                                             *)

RecoveryHoldsLease == rec \notin {"idle", "waiting"}

MutationHoldsLease ==
    \E m \in Memories : add[m] \in AddSection \/ del[m] \in DelSection

\* recoverInterruptedMemoryOperations: start a recovery or join the one that
\* is under way.
JoinRecovery == rec' = IF rec = "idle" THEN "waiting" ELSE rec

-----------------------------------------------------------------------------
(* Add (add-memory.ts).                                                    *)

\* releaseCreationIdempotency; its own failure is swallowed.
ReleaseReservations(S) ==
    \E kept \in SUBSET S :
        /\ "db" \notin Faults => kept = {}
        /\ reserved' = (reserved \ S) \cup kept

\* The add fails with retainReservationForRecovery unset.
FailAdd(m) ==
    /\ ReleaseReservations(created \cap {m})
    /\ created' = created \ {m}
    /\ add' = [add EXCEPT ![m] = "idle"]

\* The add ends and leaves its reservation in place.
EndAdd(m) ==
    /\ add' = [add EXCEPT ![m] = "idle"]
    /\ created' = created \ {m}
    /\ UNCHANGED reserved

StepAdd(m, step) ==
    /\ add' = [add EXCEPT ![m] = step]
    /\ UNCHANGED <<created, reserved>>

\* A request with a key reserves the key; a request without one has a fresh
\* id.  A request that finds its row, or a key bound to another URL, or a row
\* nobody reserved, answers at once and changes nothing; a request for an add
\* in flight shares its promise.  The route has made the backup queue first.
AddRequest(m) ==
    /\ boot # "cold"
    /\ add[m] = "idle"
    /\ m \notin rows
    /\ m \in Keyed \/ m \notin minted
    /\ reserved' = reserved \cup ({m} \cap Keyed)
    /\ created' = created \cup (({m} \cap Keyed) \ reserved)
    /\ minted' = minted \cup ({m} \ Keyed)
    /\ add' = [add EXCEPT ![m] = "recovering"]
    /\ JoinRecovery
    /\ UNCHANGED <<rows, status, journal, canonical, staged, head, del, chat,
                   recTodo, recCur, queue, crashes, deleted, archived, lost>>

\* The backup environment is not ready, or the import fails.
AddImportFails(m) ==
    /\ add[m] = "importing"
    /\ Faults \cap {"env", "import"} # {}
    /\ FailAdd(m)
    /\ UNCHANGED <<rows, status, journal, canonical, staged, head, del, chat,
                   recovery, queue, history>>

AddAcquireLease(m) ==
    /\ add[m] = "importing"
    /\ ~RecoveryHoldsLease
    /\ StepAdd(m, "journaling")
    /\ UNCHANGED <<rows, status, journal, canonical, staged, head, del, chat,
                   recovery, queue, history>>

AddPersistJournal(m) ==
    /\ add[m] = "journaling"
    /\ \E o \in Outcomes("journal") :
          /\ journal' = IF Took(o) THEN [journal EXCEPT ![m] = "creation"] ELSE journal
          /\ IF Succeeded(o) THEN StepAdd(m, "publishing") ELSE FailAdd(m)
    /\ UNCHANGED <<rows, status, canonical, staged, head, del, chat, recovery,
                   queue, history>>

\* writeMemoryContent with overwrite: false.  It does not replace a file; it
\* takes a publication back that it could not make durable, and reports
\* content_cleanup_failed when that fails too.
AddPublishContent(m) ==
    /\ add[m] = "publishing"
    /\ \/ /\ "content" \notin canonical[m]
          /\ canonical' = [canonical EXCEPT ![m] = @ \cup {"content"}]
          /\ StepAdd(m, "inserting")
       \/ /\ "content" \in canonical[m] \/ "content" \in Faults
          /\ canonical' = canonical
          /\ StepAdd(m, "undoJournal")
       \/ /\ "content" \notin canonical[m] /\ "content" \in LateFaults
          /\ canonical' = [canonical EXCEPT ![m] = {}]
          /\ StepAdd(m, "undoJournal")
       \/ /\ "content" \notin canonical[m] /\ "content" \in LateFaults
          /\ \E files \in {{}, canonical[m] \cup {"content"}} :
                canonical' = [canonical EXCEPT ![m] = files]
          /\ StepAdd(m, "undoContent")
    /\ UNCHANGED <<rows, status, journal, staged, head, del, chat, recovery,
                   queue, history>>

AddInsertRow(m) ==
    /\ add[m] = "inserting"
    /\ \/ /\ m \notin rows
          /\ rows' = rows \cup {m}
          /\ status' = [status EXCEPT ![m] = InitialStatus]
          /\ StepAdd(m, "clearing")
       \/ /\ m \in rows \/ "db" \in Faults
          /\ UNCHANGED <<rows, status>>
          /\ StepAdd(m, "undoContent")
    /\ UNCHANGED <<journal, canonical, staged, head, del, chat, recovery, queue,
                   history>>

\* Faulty form: the journal is cleared whether or not the content is gone.
AddUndoContentHoping(m) ==
    /\ add[m] = "undoContent"
    /\ \E o \in Outcomes("undo") :
          canonical' = IF Took(o) THEN [canonical EXCEPT ![m] = {}] ELSE canonical
    /\ StepAdd(m, "undoJournal")
    /\ UNCHANGED <<rows, status, journal, staged, head, del, chat, recovery,
                   queue, history>>

\* deleteMemoryContent; its failure keeps the journal and the reservation.
AddUndoContent(m) ==
    /\ add[m] = "undoContent"
    /\ \E o \in Outcomes("undo") :
          /\ canonical' = IF Took(o) THEN [canonical EXCEPT ![m] = {}] ELSE canonical
          /\ IF Succeeded(o) THEN StepAdd(m, "undoJournal") ELSE EndAdd(m)
    /\ UNCHANGED <<rows, status, journal, staged, head, del, chat, recovery,
                   queue, history>>

AddUndoJournal(m) ==
    /\ add[m] = "undoJournal"
    /\ \E o \in Outcomes("clear") :
          /\ journal' = IF Took(o) THEN [journal EXCEPT ![m] = "none"] ELSE journal
          /\ IF Succeeded(o) THEN FailAdd(m) ELSE EndAdd(m)
    /\ UNCHANGED <<rows, status, canonical, staged, head, del, chat, recovery,
                   queue, history>>

\* enqueue records "queued" in the row and merges the paths, and those of a
\* durable intent, into the memory's pending job.
Enqueue(m, files) ==
    /\ m \in rows
    /\ status' = [status EXCEPT ![m] = "queued"]
    /\ job' = [job EXCEPT ![m] = @ \cup files \cup (IF m \in intent THEN {"thread"} ELSE {})]
    /\ intent' = intent \ {m}

\* It throws when the row is gone or cannot be written; the caller records
\* "failed" if it can.
EnqueueFails(m) ==
    /\ m \notin rows \/ "db" \in Faults
    /\ \/ status' = status
       \/ m \in rows /\ status' = [status EXCEPT ![m] = "failed"]
    /\ UNCHANGED <<job, intent>>

\* The journal of a completed creation is cleared at best effort, and the
\* backup of CONTENT.md enqueued.
AddFinish(m) ==
    /\ add[m] = "clearing"
    /\ \E o \in Outcomes("clear") :
          journal' = IF Took(o) THEN [journal EXCEPT ![m] = "none"] ELSE journal
    /\ IF GitEnabled THEN Enqueue(m, {"content"}) \/ EnqueueFails(m)
                     ELSE UNCHANGED <<status, job, intent>>
    /\ EndAdd(m)
    /\ UNCHANGED <<rows, canonical, staged, head, del, chat, recovery, boot, bootTodo,
                   run, history>>

\* The steps that wait for nobody.
AddGoesOn(m) ==
    \/ AddPersistJournal(m) \/ AddPublishContent(m) \/ AddInsertRow(m)
    \/ AddUndoContent(m) \/ AddUndoJournal(m) \/ AddFinish(m)

Add(m) ==
    AddRequest(m) \/ AddImportFails(m) \/ AddAcquireLease(m) \/ AddGoesOn(m)

-----------------------------------------------------------------------------
(* Delete (delete-memory.ts).                                              *)

GoDel(m, step) == del' = [del EXCEPT ![m] = step]

DelRequest(m) ==
    /\ del[m] = "idle"
    /\ GoDel(m, "recovering")
    /\ JoinRecovery
    /\ UNCHANGED <<durable, add, created, chat, recTodo, recCur, queue, history>>

\* The deletion is reserved: look the row up, or find nothing to delete.
TargetStep(m) == IF m \in rows THEN "checking" ELSE "idle"

\* Faulty form: the deletion does not wait for the admitted writers.
WritersIgnored(m) == m \in Memories

\* Faulty form: it waits for the whole turn of a writer.
WholeTurnOver(m) == chat[m] = "idle"

\* waitForActiveWriters: the writers admitted before the reservation are done.
NoActiveWriter(m) == chat[m] \notin Publishing

DelWritersDone(m) ==
    /\ del[m] = "waiting"
    /\ NoActiveWriter(m)
    /\ GoDel(m, TargetStep(m))
    /\ UNCHANGED <<durable, add, created, chat, recovery, queue, history>>

\* The backup environment is not ready.
DelRefused(m) ==
    /\ del[m] = "checking"
    /\ "env" \in Faults
    /\ GoDel(m, "idle")
    /\ UNCHANGED <<durable, add, created, chat, recovery, queue, history>>

\* Before anything is moved, the artifacts are committed locally, without push.
DelBackUpContent(m) ==
    /\ del[m] = "checking"
    /\ IF GitEnabled
       THEN \E o \in Outcomes("git") \ {"unsure"} :
               /\ RunDeletionJob(m, o)
               /\ GoDel(m, IF Succeeded(o) THEN "leasing" ELSE "idle")
       ELSE GoDel(m, "leasing") /\ UNCHANGED <<head, archived>>
    /\ UNCHANGED <<rows, status, reserved, journal, canonical, staged, add,
                   created, chat, recovery, queue, crashes, minted, deleted, lost>>

DelAcquireLease(m) ==
    /\ del[m] = "leasing"
    /\ ~RecoveryHoldsLease
    /\ GoDel(m, "journaling")
    /\ UNCHANGED <<durable, add, created, chat, recovery, queue, history>>

DelPersistJournal(m) ==
    /\ del[m] = "journaling"
    /\ \E o \in Outcomes("journal") :
          /\ journal' = IF Took(o) THEN [journal EXCEPT ![m] = "deletion"] ELSE journal
          /\ GoDel(m, IF Succeeded(o) THEN "staging" ELSE "idle")
    /\ UNCHANGED <<rows, status, reserved, canonical, staged, head, add, created,
                   chat, recovery, queue, history>>

\* Faulty form: the row goes before the removal is committed.
RowFirst == "erasing"

\* Faulty form: the staged content goes before the row.
ContentFirst == "cleaning"

AfterStaging == IF GitEnabled THEN "committing" ELSE "erasing"

\* The directory is renamed into delete staging.  A missing directory (ENOENT)
\* goes on unstaged; a failed rename keeps the journal; a failed directory
\* sync is rolled back.
DelStage(m) ==
    /\ del[m] = "staging"
    /\ IF canonical[m] = {}
       THEN /\ UNCHANGED <<canonical, staged>>
            /\ GoDel(m, AfterStaging)
       ELSE \E o \in Outcomes("stage") :
               /\ IF Took(o)
                  THEN /\ staged' = [staged EXCEPT ![m] = canonical[m]]
                       /\ canonical' = [canonical EXCEPT ![m] = {}]
                  ELSE UNCHANGED <<canonical, staged>>
               /\ GoDel(m, IF Succeeded(o) THEN AfterStaging
                           ELSE IF Took(o) THEN "restore" ELSE "idle")
    /\ UNCHANGED <<rows, status, reserved, journal, head, add, created, chat,
                   recovery, queue, history>>

\* The removal is committed before the row goes.
DelCommitRemoval(m) ==
    /\ del[m] = "committing"
    /\ \E o \in Outcomes("git") :
          /\ RunDeletionJob(m, o)
          /\ GoDel(m, IF Succeeded(o) THEN "erasing"
                      ELSE IF staged[m] # {} THEN "restoreGit" ELSE "clearing")
    /\ UNCHANGED <<rows, status, reserved, journal, canonical, staged, add,
                   created, chat, recovery, queue, crashes, minted, deleted, lost>>

\* A row that cannot be deleted, or is gone, rolls the deletion back.
DelEraseRow(m) ==
    /\ del[m] = "erasing"
    /\ \/ /\ m \in rows
          /\ rows' = rows \ {m}
          /\ deleted' = deleted \cup {m}
          /\ GoDel(m, "cleaning")
       \/ /\ m \notin rows \/ "db" \in Faults
          /\ UNCHANGED <<rows, deleted>>
          /\ GoDel(m, IF staged[m] # {} THEN IF GitEnabled THEN "restoreGit" ELSE "restore"
                      ELSE IF GitEnabled THEN "recommitting" ELSE "clearing")
    /\ UNCHANGED <<status, reserved, journal, canonical, staged, head, add,
                   created, chat, recovery, queue, crashes, minted, archived, lost>>

\* Faulty form: a restored directory is not committed again.
NeverRecommitted(m) == IF m \in Memories THEN "clearing" ELSE "idle"

\* A restored directory is committed again if the removal may have been.
AfterRestore(m) == IF del[m] = "restoreGit" THEN "recommitting" ELSE "clearing"

\* restoreStagedContent; when it fails the journal stays.
DelRestore(m) ==
    /\ del[m] \in {"restore", "restoreGit"}
    /\ \E o \in IF canonical[m] = {} THEN Outcomes("restore") ELSE {"undone"} :
          /\ IF Took(o)
             THEN /\ canonical' = [canonical EXCEPT ![m] = staged[m]]
                  /\ staged' = [staged EXCEPT ![m] = {}]
             ELSE UNCHANGED <<canonical, staged>>
          /\ GoDel(m, IF Succeeded(o) THEN AfterRestore(m) ELSE "idle")
    /\ UNCHANGED <<rows, status, reserved, journal, head, add, created, chat,
                   recovery, queue, history>>

\* restoreDeletionBackupState; when it fails the journal stays.
DelRecommit(m) ==
    /\ del[m] = "recommitting"
    /\ \E o \in Outcomes("git") :
          /\ RunDeletionJob(m, o)
          /\ GoDel(m, IF Succeeded(o) THEN "clearing" ELSE "idle")
    /\ UNCHANGED <<rows, status, reserved, journal, canonical, staged, add,
                   created, chat, recovery, queue, crashes, minted, deleted, lost>>

\* Staged content goes after the row; when that fails the journal stays.
DelCleanStaging(m) ==
    /\ del[m] = "cleaning"
    /\ \E o \in IF staged[m] = {} THEN {"done"} ELSE Outcomes("clean") :
          /\ staged' = IF Took(o) THEN [staged EXCEPT ![m] = {}] ELSE staged
          /\ GoDel(m, IF Succeeded(o) THEN "clearing" ELSE "idle")
    /\ UNCHANGED <<rows, status, reserved, journal, canonical, head, add, created,
                   chat, recovery, queue, history>>

\* The end of a completed or rolled-back deletion: clear the journal at best
\* effort, release the lease and the reservation.
DelClearJournal(m) ==
    /\ del[m] = "clearing"
    /\ \E o \in Outcomes("clear") :
          journal' = IF Took(o) THEN [journal EXCEPT ![m] = "none"] ELSE journal
    /\ GoDel(m, "idle")
    /\ UNCHANGED <<rows, status, reserved, canonical, staged, head, add, created,
                   chat, recovery, queue, history>>

DelGoesOn(m) ==
    \/ DelPersistJournal(m) \/ DelStage(m) \/ DelEraseRow(m) \/ DelRestore(m)
    \/ DelCleanStaging(m) \/ DelClearJournal(m)

Delete(m) ==
    \/ DelRequest(m) \/ DelWritersDone(m) \/ DelRefused(m) \/ DelBackUpContent(m)
    \/ DelAcquireLease(m) \/ DelCommitRemoval(m) \/ DelRecommit(m) \/ DelGoesOn(m)

-----------------------------------------------------------------------------
(* Recovery (operation-journal.ts).                                        *)

GoRec(step) == rec' = step /\ UNCHANGED <<recTodo, recCur>>

\* Faulty form: a replayed key is only matched with the rows that are there.
EndsIfListed(m) == m \in Keyed /\ m \in rows

EndsAfterRecovery(m) == m \in Keyed /\ (m \in rows \/ m \notin created)

\* The adds, deletes and startup scans that share the recovery's promise go on
\* in the same step.  An add that finds its row now, or whose key was already
\* reserved, ends; a deletion is reserved and waits for the writers or looks
\* its row up.
JoinersGoOn ==
    LET ends == {m \in Memories : add[m] = "recovering" /\ EndsAfterRecovery(m)}
    IN  /\ add' = [m \in Memories |->
                      IF add[m] # "recovering" THEN add[m]
                      ELSE IF m \in ends THEN "idle" ELSE "importing"]
        /\ created' = created \ ends
        /\ reserved' = reserved
        /\ del' = [m \in Memories |->
                      IF del[m] # "recovering" THEN del[m]
                      ELSE IF NoActiveWriter(m) THEN TargetStep(m) ELSE "waiting"]
        /\ boot' = IF boot # "recovering" THEN boot
                   ELSE IF GitEnabled THEN "scanning" ELSE "done"

\* They fail with it: the adds give back the reservations they inserted; the
\* scan is not repeated, and without git backup the next page load starts over.
JoinersFail ==
    LET adds == {m \in Memories : add[m] = "recovering"}
    IN  /\ ReleaseReservations(created \cap adds)
        /\ created' = created \ adds
        /\ add' = [m \in Memories |-> IF m \in adds THEN "idle" ELSE add[m]]
        /\ del' = [m \in Memories |-> IF del[m] = "recovering" THEN "idle" ELSE del[m]]
        /\ boot' = IF boot # "recovering" THEN boot
                   ELSE IF GitEnabled THEN "done" ELSE "cold"

EndRecovery == rec' = "idle" /\ recTodo' = {} /\ recCur' = NoMemory

\* An error of one journal ends the whole recovery and leaves the journals.
FailRecovery == EndRecovery /\ JoinersFail

StayJoined == UNCHANGED <<reserved, add, created, del, boot>>

\* Under the recovery lease, list the journals.
RecAcquireLease ==
    /\ rec = "waiting"
    /\ ~MutationHoldsLease
    /\ rec' = "scanning"
    /\ recTodo' = {m \in Memories : journal[m] # "none"}
    /\ UNCHANGED <<durable, requests, chat, recCur, queue, history>>

RecFinish ==
    /\ rec = "scanning"
    /\ recTodo = {}
    /\ EndRecovery
    /\ JoinersGoOn
    /\ UNCHANGED <<rows, status, journal, canonical, staged, head, chat, intent,
                   bootTodo, job, run, history>>

\* recoverCreation: content without a row gets the journaled row; a row
\* without content is an integrity failure.
RecoverCreation(m) ==
    /\ rec = "scanning"
    /\ m \in recTodo
    /\ journal[m] = "creation"
    /\ \/ /\ m \in rows \/ "content" \notin canonical[m]
          /\ m \in rows => "content" \in canonical[m]
          /\ UNCHANGED <<rows, status>>
          /\ rec' = "unlinking" /\ recCur' = m /\ recTodo' = recTodo
          /\ StayJoined
       \/ /\ m \notin rows /\ "content" \in canonical[m]
          /\ rows' = rows \cup {m}
          /\ status' = [status EXCEPT ![m] = InitialStatus]
          /\ rec' = "unlinking" /\ recCur' = m /\ recTodo' = recTodo
          /\ StayJoined
       \/ /\ \/ m \in rows /\ "content" \notin canonical[m]
             \/ m \notin rows /\ "content" \in canonical[m] /\ "db" \in Faults
          /\ UNCHANGED <<rows, status>>
          /\ FailRecovery
    /\ UNCHANGED <<journal, canonical, staged, head, chat, intent, bootTodo,
                   job, run, history>>

\* The first step of recoverDeletion, by what is left of the memory.
RecoverDeletion(m) ==
    /\ rec = "scanning"
    /\ m \in recTodo
    /\ journal[m] = "deletion"
    /\ \/ /\ m \notin rows                       \* finish: remove both directories
          /\ \E o \in IF canonical[m] = {} THEN {"done"} ELSE Outcomes("clean") :
                /\ canonical' = IF Took(o) THEN [canonical EXCEPT ![m] = {}] ELSE canonical
                /\ IF Succeeded(o)
                   THEN rec' = "rmStaging" /\ recCur' = m /\ recTodo' = recTodo /\ StayJoined
                   ELSE FailRecovery
          /\ UNCHANGED <<status, staged>>
       \/ /\ m \in rows /\ canonical[m] = {} /\ staged[m] = {}   \* nothing to restore
          /\ IF GitEnabled
             THEN /\ status' = [status EXCEPT ![m] = "pending"]
                  /\ rec' = "committing"
             ELSE UNCHANGED status /\ rec' = "erasing"
          /\ recCur' = m /\ recTodo' = recTodo /\ StayJoined
          /\ UNCHANGED <<canonical, staged>>
       \/ /\ m \in rows /\ canonical[m] # {} /\ staged[m] # {}   \* ambiguous
          /\ FailRecovery
          /\ UNCHANGED <<status, canonical, staged>>
       \/ /\ m \in rows /\ canonical[m] = {} /\ staged[m] # {}   \* restore
          /\ \E o \in Outcomes("restore") :
                /\ IF Took(o)
                   THEN /\ canonical' = [canonical EXCEPT ![m] = staged[m]]
                        /\ staged' = [staged EXCEPT ![m] = {}]
                   ELSE UNCHANGED <<canonical, staged>>
                /\ IF Succeeded(o)
                   THEN rec' = "marking" /\ recCur' = m /\ recTodo' = recTodo /\ StayJoined
                   ELSE FailRecovery
          /\ UNCHANGED status
       \/ /\ m \in rows /\ canonical[m] # {} /\ staged[m] = {}   \* nothing moved
          /\ rec' = "marking" /\ recCur' = m /\ recTodo' = recTodo /\ StayJoined
          /\ UNCHANGED <<status, canonical, staged>>
    /\ UNCHANGED <<rows, journal, head, chat, intent, bootTodo, job, run,
                   history>>

RecRemoveStaging ==
    /\ rec = "rmStaging"
    /\ \E o \in IF staged[recCur] = {} THEN {"done"} ELSE Outcomes("clean") :
          /\ staged' = IF Took(o) THEN [staged EXCEPT ![recCur] = {}] ELSE staged
          /\ IF Succeeded(o) THEN GoRec("unlinking") /\ StayJoined ELSE FailRecovery
    /\ UNCHANGED <<rows, status, journal, canonical, head, chat, intent, bootTodo, job,
                   run, history>>

\* Faulty form: the status of a restored memory is left as it was.
RecLeaveStatus ==
    /\ rec = "marking"
    /\ GoRec("unlinking") /\ StayJoined
    /\ UNCHANGED <<rows, status, journal, canonical, staged, head, chat, intent,
                   bootTodo, job, run, history>>

\* A restored memory waits for the next startup scan to back it up.
RecMarkPending ==
    /\ rec = "marking"
    /\ \/ /\ status' = IF GitEnabled THEN [status EXCEPT ![recCur] = "pending"] ELSE status
          /\ GoRec("unlinking") /\ StayJoined
       \/ /\ GitEnabled /\ "db" \in Faults
          /\ status' = status
          /\ FailRecovery
    /\ UNCHANGED <<rows, journal, canonical, staged, head, chat, intent, bootTodo, job,
                   run, history>>

\* completeMissingDeletionBackup: validate the environment, commit the removal.
RecCommitRemoval ==
    /\ rec = "committing"
    /\ \E o \in Outcomes("git") \cup (Outcomes("env") \ {"unsure"}) :
          /\ RunDeletionJob(recCur, o)
          /\ IF Succeeded(o) THEN GoRec("erasing") /\ StayJoined ELSE FailRecovery
    /\ UNCHANGED <<rows, status, journal, canonical, staged, chat, intent, bootTodo, job,
                   run, crashes, minted, deleted, lost>>

RecEraseRow ==
    /\ rec = "erasing"
    /\ \/ /\ rows' = rows \ {recCur}
          /\ deleted' = deleted \cup {recCur}
          /\ GoRec("unlinking") /\ StayJoined
       \/ /\ "db" \in Faults
          /\ UNCHANGED <<rows, deleted>>
          /\ FailRecovery
    /\ UNCHANGED <<status, journal, canonical, staged, head, chat, intent, bootTodo, job,
                   run, crashes, minted, archived, lost>>

RecUnlink ==
    /\ rec = "unlinking"
    /\ \E o \in Outcomes("clear") :
          /\ journal' = IF Took(o) THEN [journal EXCEPT ![recCur] = "none"] ELSE journal
          /\ IF Succeeded(o)
             THEN /\ rec' = "scanning"
                  /\ recTodo' = recTodo \ {recCur}
                  /\ recCur' = NoMemory
                  /\ StayJoined
             ELSE FailRecovery
    /\ UNCHANGED <<rows, status, canonical, staged, head, chat, intent, bootTodo,
                   job, run, history>>

Recover ==
    \/ RecAcquireLease \/ RecFinish \/ RecRemoveStaging \/ RecMarkPending
    \/ RecCommitRemoval \/ RecEraseRow \/ RecUnlink
    \/ \E m \in Memories : RecoverCreation(m) \/ RecoverDeletion(m)

-----------------------------------------------------------------------------
(* Artifact writers (psychiatrist), under withMemoryArtifactMutation.      *)

GoChat(m, step) ==
    /\ chat' = [chat EXCEPT ![m] = step]
    /\ UNCHANGED <<rows, reserved, journal, staged, head, requests, recovery,
                   boot, bootTodo, run, history>>

\* A request reads the memory's row and its content and starts a turn; its
\* route has made the backup queue.
ChatOpen(m) ==
    /\ boot # "cold"
    /\ chat[m] = "idle"
    /\ m \in rows /\ "content" \in canonical[m]
    /\ GoChat(m, "open")
    /\ UNCHANGED <<status, canonical, job, intent>>

\* A publication is admitted unless the deletion of the memory is reserved.
Admitted(m) == del[m] \notin DelReserved

ChatAdmit(m) ==
    /\ chat[m] \in {"open", "answered"}
    /\ Admitted(m)
    /\ GoChat(m, IF chat[m] = "open" THEN "publishing" ELSE "saving")
    /\ UNCHANGED <<status, canonical, job, intent>>

\* It makes the directories it needs and never looks for the row.
ChatPublish(m) ==
    /\ chat[m] \in {"publishing", "saving"}
    /\ GoChat(m, IF chat[m] = "publishing" THEN "open" ELSE "saved")
    /\ canonical' = [canonical EXCEPT ![m] = @ \cup {"thread"}]
    /\ UNCHANGED <<status, job, intent>>

\* persistIntent: the row is pending before the answer is stored.
ChatAnswer(m) ==
    /\ chat[m] = "open"
    /\ IF GitEnabled
       THEN /\ m \in rows
            /\ status' = [status EXCEPT ![m] = "pending"]
            /\ intent' = intent \cup {m}
       ELSE UNCHANGED <<status, intent>>
    /\ GoChat(m, "answered")
    /\ UNCHANGED <<canonical, job>>

\* enqueue with a finalizer: "queued" is stored, the terminal event published,
\* and only then the job put in the queue.  A finalizer that is refused leaves
\* the durable intent, and the row pending unless a job of it is about.
KeepIntent(m) ==
    /\ intent' = intent \cup {m}
    /\ status' = IF m \in rows
                 THEN [status EXCEPT ![m] = IF job[m] # {} \/ run.memory = m
                                            THEN "queued" ELSE "pending"]
                 ELSE status

ChatQueue(m) ==
    /\ chat[m] = "saved"
    /\ \/ /\ GitEnabled /\ m \in rows /\ Admitted(m)
          /\ status' = [status EXCEPT ![m] = "queued"]
          /\ intent' = intent \ {m}
          /\ GoChat(m, "finalizing")
       \/ /\ GitEnabled /\ m \in rows /\ ~Admitted(m)
          /\ KeepIntent(m)
          /\ GoChat(m, "idle")
       \/ /\ ~GitEnabled \/ m \notin rows
          /\ UNCHANGED <<status, intent>>
          /\ GoChat(m, "idle")
    /\ UNCHANGED <<canonical, job>>

ChatFinalize(m) ==
    /\ chat[m] = "finalizing"
    /\ \/ /\ canonical' = [canonical EXCEPT ![m] = @ \cup {"thread"}]
          /\ job' = [job EXCEPT ![m] = @ \cup {"thread"}]
          /\ UNCHANGED <<status, intent>>
       \/ /\ "content" \in Faults
          /\ KeepIntent(m)
          /\ UNCHANGED <<canonical, job>>
    /\ GoChat(m, "idle")

\* The turn fails, is refused or is closed.
ChatClose(m) ==
    /\ chat[m] \in {"open", "answered"}
    /\ GoChat(m, "idle")
    /\ UNCHANGED <<status, canonical, job, intent>>

Chat(m) ==
    \/ ChatOpen(m) \/ ChatAdmit(m) \/ ChatPublish(m) \/ ChatAnswer(m)
    \/ ChatQueue(m) \/ ChatFinalize(m) \/ ChatClose(m)

-----------------------------------------------------------------------------
(* The backup queue and its startup scan (backup/index.ts).                *)

\* Faulty form: the first use of the queue only starts the retry scan.
BootWithoutRecovery ==
    /\ boot = "cold"
    /\ boot' = "scanning"
    /\ UNCHANGED <<durable, requests, chat, recovery, intent, bootTodo, job, run,
                   history>>

\* The first use of the queue starts recovery and the retry scan.
BootStart ==
    /\ boot = "cold"
    /\ boot' = "recovering"
    /\ JoinRecovery
    /\ UNCHANGED <<durable, requests, chat, recTodo, recCur, intent, bootTodo, job,
                   run, history>>

\* Faulty form: "queued" is taken for the state of a job that still exists.
EligibleUnlessQueued == {"pending", "failed"}

EligibleForRetry == {"pending", "queued", "failed"}

BootScan ==
    /\ boot = "scanning"
    /\ \/ /\ boot' = "enqueueing"
          /\ bootTodo' = {m \in rows : status[m] \in EligibleForRetry}
       \/ /\ "env" \in Faults
          /\ boot' = "done"
          /\ UNCHANGED bootTodo
    /\ UNCHANGED <<durable, requests, chat, recovery, intent, job, run, history>>

\* Enqueue everything the memory has, unless a job of it is pending or running.
BootEnqueue(m) ==
    /\ boot = "enqueueing"
    /\ m \in bootTodo
    /\ bootTodo' = bootTodo \ {m}
    /\ IF job[m] # {} \/ run.memory = m
       THEN UNCHANGED <<status, job, intent>>
       ELSE Enqueue(m, {"content"} \cup canonical[m]) \/ EnqueueFails(m)
    /\ UNCHANGED <<rows, reserved, journal, canonical, staged, head, requests, chat,
                   recovery, boot, run, history>>

\* The worker runs one job at a time; the job takes in what was merged into it.
WorkerRun(m) ==
    /\ job[m] # {}
    /\ \A n \in Memories : chat[n] # "finalizing"
    /\ \E o \in Outcomes("git") :
          /\ RunGitBackupJob(m, job[m], FALSE, o)
          /\ run' = [memory |-> m, ok |-> Succeeded(o)]
    /\ job' = [job EXCEPT ![m] = {}]
    /\ UNCHANGED <<rows, status, reserved, journal, canonical, staged, requests, chat,
                   recovery, intent, boot, bootTodo, crashes, minted, deleted, lost>>

\* Faulty form: the row gets the outcome of the job, which is no BackupStatus.
ReportedOutcome(m) == IF run.memory = m /\ run.ok THEN "done" ELSE "failed"

\* What a finished job leaves in the row: work that was asked for meanwhile is
\* not successful yet.
ReportedStatus(m) ==
    IF ~run.ok THEN "failed"
    ELSE IF chat[m] = "finalizing" THEN "queued"
    ELSE IF m \in intent THEN "pending"
    ELSE IF job[m] # {} THEN "queued"
    ELSE "success"

\* Its end is recorded in the row if there is one.
WorkerReport(m) ==
    /\ run.memory = m
    /\ run' = [memory |-> NoMemory, ok |-> TRUE]
    /\ \/ /\ m \in rows
          /\ status' = [status EXCEPT ![m] = ReportedStatus(m)]
       \/ /\ m \in rows /\ "db" \in Faults
          /\ \E s \in {status[m], "failed"} : status' = [status EXCEPT ![m] = s]
       \/ /\ m \notin rows
          /\ status' = status
    /\ UNCHANGED <<rows, reserved, journal, canonical, staged, head, requests, chat,
                   recovery, intent, boot, bootTodo, job, history>>

Backup ==
    \/ BootStart \/ BootScan
    \/ \E m \in Memories : BootEnqueue(m) \/ WorkerRun(m) \/ WorkerReport(m)

-----------------------------------------------------------------------------
(* Crash, loss, and the specification.                                     *)

\* The process dies and a new one starts: everything it held is gone.
Crash ==
    /\ crashes < MaxCrashes
    /\ crashes' = crashes + 1
    /\ add' = [m \in Memories |-> "idle"] /\ created' = {}
    /\ del' = [m \in Memories |-> "idle"]
    /\ chat' = [m \in Memories |-> "idle"]
    /\ EndRecovery
    /\ intent' = {} /\ boot' = "cold" /\ bootTodo' = {}
    /\ job' = [m \in Memories |-> {}]
    /\ run' = [memory |-> NoMemory, ok |-> TRUE]
    /\ UNCHANGED <<durable, minted, deleted, archived, lost>>

\* The operator removes the directory of a memory.
Lose(m) ==
    /\ "loss" \in Faults
    /\ m \notin lost /\ canonical[m] # {}
    /\ lost' = lost \cup {m}
    /\ canonical' = [canonical EXCEPT ![m] = {}]
    /\ UNCHANGED <<rows, status, reserved, journal, staged, head, requests, chat,
                   recovery, queue, crashes, minted, deleted, archived>>

Next ==
    \/ \E m \in Memories : Add(m) \/ Delete(m) \/ Lose(m)
    \/ \E m \in Chatting : Chat(m)
    \/ Recover
    \/ Backup
    \/ Crash

Spec == Init /\ [][Next]_vars

\* What has begun goes on: the event loop runs every continuation, file and git
\* calls return, and the leases are fair queues (MemoryOperationLease), which
\* only strong fairness says here, where recoveries may come again and again.
\* Nobody has to send a request, and the process need not crash.
Fairness ==
    /\ \A m \in Memories :
          /\ WF_vars(AddGoesOn(m)) /\ SF_vars(AddAcquireLease(m))
          /\ WF_vars(DelGoesOn(m)) /\ SF_vars(DelAcquireLease(m))
          /\ WF_vars(DelWritersDone(m)) /\ SF_vars(DelBackUpContent(m))
          /\ SF_vars(DelCommitRemoval(m)) /\ SF_vars(DelRecommit(m))
          /\ WF_vars(BootEnqueue(m)) /\ SF_vars(WorkerRun(m)) /\ WF_vars(WorkerReport(m))
    /\ \A m \in Chatting : WF_vars(ChatPublish(m) \/ ChatFinalize(m))
    /\ WF_vars(Recover) /\ SF_vars(RecCommitRemoval)
    /\ WF_vars(BootStart) /\ WF_vars(BootScan)

FairSpec == Spec /\ Fairness

-----------------------------------------------------------------------------
(* Properties.                                                             *)

\* Rows, files, journals and commits (db/schema, store/, backup/ types).
DurableOK ==
    /\ rows \subseteq Memories /\ reserved \subseteq Keyed
    /\ status \in [Memories -> Statuses]
    /\ journal \in [Memories -> {"none", "creation", "deletion"}]
    /\ canonical \in [Memories -> SUBSET Files]
    /\ staged \in [Memories -> SUBSET Files]
    /\ head \in [Memories -> SUBSET Files]

RequestsOK ==
    /\ add \in [Memories -> AddSteps] /\ created \subseteq Keyed
    /\ del \in [Memories -> DelSteps]
    /\ chat \in [Memories -> ChatSteps]

RecoveryOK ==
    /\ rec \in RecSteps /\ recTodo \subseteq Memories
    /\ recCur \in Memories \cup {NoMemory}
    /\ rec \notin {"idle", "waiting", "scanning"} => recCur \in Memories

QueueOK ==
    /\ intent \subseteq Memories
    /\ boot \in {"cold", "recovering", "scanning", "enqueueing", "done"}
    /\ bootTodo \subseteq Memories
    /\ job \in [Memories -> SUBSET Files]
    /\ run \in [memory : Memories \cup {NoMemory}, ok : BOOLEAN]

HistoryOK ==
    /\ crashes \in 0..MaxCrashes
    /\ minted \subseteq Memories \ Keyed
    /\ deleted \subseteq Memories /\ lost \subseteq Memories
    /\ archived \in [Memories -> SUBSET Files]

\* Every variable has its type; BackupStatus and the journal kinds are closed
\* sets the schema and the journal parser reject anything else for.
TypeOK == DurableOK /\ RequestsOK /\ RecoveryOK /\ QueueOK /\ HistoryOK

\* A memory with a row has its CONTENT.md: in its directory, or in delete
\* staging under a deletion journal from which recovery can put it back.
RowHasContent ==
    \A m \in rows \ lost :
        \/ "content" \in canonical[m]
        \/ "content" \in staged[m] /\ journal[m] = "deletion"

\* Whatever a crash leaves half done is named by a journal of the right kind:
\* content whose row was never inserted, content in delete staging.
HalfDoneIsJournaled ==
    \A m \in Memories :
        /\ "content" \in canonical[m] /\ m \notin rows => journal[m] = "creation"
        /\ staged[m] # {} => journal[m] = "deletion"

\* A deleted memory never comes back, and its key stays bound, so that a
\* replay is refused instead of importing the page again.
DeletedStaysDeleted ==
    /\ deleted \cap rows = {}
    /\ deleted \cap Keyed \subseteq reserved

\* A reservation is released only by an add that left nothing durable.
ReservationCoversMemory ==
    \A m \in Keyed : m \in rows \/ "content" \in canonical[m] => m \in reserved

\* Recovery is never faced with content both in place and in staging, which it
\* cannot decide and which blocks every later add and delete of the store: the
\* deletion "rejects new translation, Flashback, and Psychiatrist writes until
\* deletion either completes or restores the memory after failure"
\* (docs/architecture/flows.md, Delete Memory).
NothingAmbiguous ==
    \A m \in rows : ~(canonical[m] # {} /\ staged[m] # {})

\* With git backup, CONTENT.md of a deleted memory is in the history of the
\* repository.
DeletedContentIsArchived ==
    GitEnabled => \A m \in deleted \ lost : "content" \in archived[m]

\* With git backup, the row goes only after HEAD has let the content go.
RemovalIsCommittedFirst ==
    [][GitEnabled => \A m \in rows \ rows' : "content" \notin head[m]]_vars

\* A memory that nothing is happening to and that is marked as backed up has
\* its content in HEAD: status "success" is believed by the readiness check of
\* every later write, and no retry looks at such a row again.
SuccessIsHonest ==
    \A m \in rows \ lost :
        status[m] = "success" /\ journal[m] = "none" /\ del[m] = "idle"
        => "content" \in head[m]

\* A deletion journal is cleared only when row, content and HEAD agree
\* (docs/architecture/data-and-storage.md: "A deletion journal is cleared only
\* after content, backup, and SQLite state have been reconciled").
ClearedOnlyReconciled ==
    [][\A m \in rows \ lost :
          journal[m] = "deletion" /\ journal'[m] = "none" /\ status[m] = "success"
          => "content" \in head[m]]_vars

\* The catalog a client sees, implemented over rows, files and commits.
Catalog == INSTANCE MemoryCatalog WITH
    KeepsHistory <- GitEnabled,
    catalog <- [m \in Memories |-> IF m \in rows THEN "listed"
                                   ELSE IF m \in deleted THEN "deleted" ELSE "absent"],
    kept    <- {m \in Memories : "content" \in canonical[m] \cup staged[m]},
    history <- {m \in Memories : "content" \in archived[m]}

\* Adding, deleting and recovering memories implements the catalog: a memory
\* is listed only with its text, deleted for good, and archived first.
ImplementsCatalog == Catalog!Spec

\* Every journal is resolved: by the operation that wrote it or, after a crash,
\* by the recovery that the first use of the backup queue starts.
EveryJournalIsResolved ==
    \A m \in Memories : journal[m] # "none" ~> journal[m] = "none"

\* Every deletion ends: lease, recovery, reservation and artifact writers never
\* wait for one another in a circle.
EveryDeletionEnds == \A m \in Memories : del[m] # "idle" ~> del[m] = "idle"

\* Every memory nobody chats about is backed up, however its add and its job
\* were interrupted.  (A job that names only thread files may make the startup
\* scan pass over the memory until the next start.)
EveryMemoryIsBackedUp ==
    \A m \in Memories :
       [](chat[m] = "idle") => (m \in rows ~> m \notin rows \/ status[m] = "success")

=============================================================================
