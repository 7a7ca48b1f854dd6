----------------------- MODULE MemoryLifecycleInvariant -----------------------
(***************************************************************************)
(* The inductive invariant of MemoryLifecycle: what every step of an add,  *)
(* a delete and a recovery may rely on.  The safety invariants of the      *)
(* lifecycle follow from it, and none of them is inductive alone.          *)
(***************************************************************************)
EXTENDS MemoryLifecycle

HasContent(m) == "content" \in canonical[m]

\* The memory is listed or was.
Known(m) == m \in rows \cup deleted

\* The id of the memory is bound: no request can begin to add it anew.
Claimed(m) == m \in reserved \cup minted

\* An add that will go on: it holds the reservation it inserted, or has an id
\* of its own.
Fresh(m) == add[m] # "idle" /\ (m \in Keyed => m \in created)

\* The row, the content and the journal of a memory agree: what an operation
\* may leave behind when it ends.
Settled(m) ==
    /\ staged[m] = {}
    /\ m \in rows \ lost => HasContent(m)
    /\ m \notin rows => ~HasContent(m)

\* The lease: no recovery beside a mutation.
LeaseInv == ~(RecoveryHoldsLease /\ MutationHoldsLease)

\* Ids: what exists is claimed, and only an add that is in flight and has
\* nothing yet may give a claim back.
IdInv(m) ==
    /\ m \in created => add[m] # "idle" /\ m \in reserved
    /\ Known(m) \/ HasContent(m) => Claimed(m)
    /\ add[m] # "idle" /\ m \notin Keyed => m \in minted
    /\ m \notin rows \cap deleted

\* Adds: until its row is in, an add works on a memory nobody else knows.
AddInv(m) ==
    /\ add[m] \notin {"idle", "recovering"} => Fresh(m)
    /\ Fresh(m) /\ add[m] # "clearing" => ~Known(m)
    /\ add[m] = "clearing" => m \in rows /\ del[m] \in {"idle", "recovering"}
    /\ Fresh(m) /\ add[m] \in {"recovering", "importing", "journaling", "publishing",
                               "undoJournal"}
       => ~HasContent(m)
    /\ add[m] \in {"publishing", "inserting", "undoContent", "undoJournal", "clearing"}
       => journal[m] = "creation"
    /\ add[m] = "inserting" => HasContent(m) \/ m \in lost

\* Deletes: a reserved deletion works on a memory that was listed; recovery
\* left it no journal, and from its own journal on it is known what is where.
DelInv(m) ==
    /\ del[m] = "waiting" \/ chat[m] # "idle" => Known(m)
    /\ del[m] \in {"checking", "leasing", "journaling", "staging", "committing",
                   "erasing", "restore", "restoreGit", "recommitting"}
       => m \in rows
    /\ del[m] \in {"waiting", "checking", "leasing", "journaling"} => journal[m] = "none"
    /\ del[m] \in DelSection \ {"journaling"} => journal[m] = "deletion"
    /\ del[m] = "staging" => staged[m] = {}
    /\ del[m] \in {"committing", "erasing", "restore", "restoreGit", "cleaning"}
       => ~HasContent(m)
    /\ del[m] = "cleaning" => m \notin rows
    /\ del[m] \in {"recommitting", "clearing"} => Settled(m)

\* Journals name what is half done, and are of the right kind.
JournalInv(m) ==
    /\ journal[m] = "creation" => m \notin deleted
    /\ journal[m] = "deletion" => Known(m)
    /\ HasContent(m) /\ m \notin rows => journal[m] = "creation"
    /\ staged[m] # {} => journal[m] = "deletion"
    /\ m \in rows \ lost => HasContent(m) \/ "content" \in staged[m]

\* Recovery: every journal is on its list, and what it has found out about the
\* memory it works on stays true.
RecInv ==
    /\ RecoveryHoldsLease => \A m \in Memories : journal[m] # "none" => m \in recTodo
    /\ rec = "unlinking" => journal[recCur] # "none" /\ Settled(recCur)
    /\ rec \in {"rmStaging", "marking", "committing", "erasing"}
       => journal[recCur] = "deletion"
    /\ rec = "rmStaging" => recCur \notin rows /\ ~HasContent(recCur)
    /\ rec = "marking" => recCur \in rows /\ Settled(recCur)
    /\ rec \in {"committing", "erasing"}
       => recCur \in rows /\ ~HasContent(recCur) /\ staged[recCur] = {}

\* The history of the repository: HEAD is in it, a deletion adds the content
\* before it moves it, and the removal is in HEAD before the row goes.
ArchiveInv(m) ==
    /\ "content" \in head[m] => "content" \in archived[m]
    /\ GitEnabled /\ m \in deleted \ lost => "content" \in archived[m]
    /\ GitEnabled /\ m \notin lost
       /\ del[m] \in {"leasing", "journaling", "staging", "committing", "erasing",
                      "restore", "restoreGit", "recommitting"}
       => "content" \in archived[m]
    /\ GitEnabled /\ (del[m] = "erasing" \/ (rec = "erasing" /\ recCur = m))
       => "content" \notin head[m]

MemoryInv(m) == IdInv(m) /\ AddInv(m) /\ DelInv(m) /\ JournalInv(m) /\ ArchiveInv(m)

IInv == TypeOK /\ LeaseInv /\ RecInv /\ \A m \in Memories : MemoryInv(m)

\* Writers: past its wait a deletion runs beside no publication; and unless a
\* restore may fail, a listed memory that is in staging is nowhere else, and
\* only its deletion or a crash stands between it and the turns about it.
Secluded(m) ==
    /\ canonical[m] = {}
    /\ chat[m] \notin Publishing
    /\ del[m] \in DelReserved \ {"waiting"} \/ chat[m] = "idle"

WriterInv(m) ==
    /\ del[m] \in DelReserved \ {"waiting"} => chat[m] \notin Publishing
    /\ "restore" \notin Faults /\ m \in rows /\ staged[m] # {} => Secluded(m)

\* With the reservation of the memories added: the invariant behind
\* NothingAmbiguous.
WInv == IInv /\ \A m \in Memories : WriterInv(m)

\* What a rollback relies on: the directory of a memory that was moved can be
\* moved back, and a move that is reported as failed was not made.
RollbackWorks == "restore" \notin Faults \cup LateFaults /\ "stage" \notin LateFaults

\* Backup statuses.  For a memory without turns, whose every job names its
\* content, as long as a staged directory can be put back:
\* every job of it is about a listed memory and names the content, and
\* without git backup there is none;
JobInv(m) ==
    /\ m \notin intent /\ chat[m] = "idle"
    /\ job[m] # {} => "content" \in job[m]
    /\ job[m] # {} \/ run.memory = m \/ m \in bootTodo => Known(m)
    /\ ~GitEnabled => job[m] = {} /\ run.memory # m

\* the rollback of a staging that was not committed happens without git only,
\* and what a deletion left in staging no job can take for removed;
StagingInv(m) ==
    /\ GitEnabled => del[m] # "restore"
    /\ m \in rows /\ staged[m] # {} /\ del[m] \notin DelSection
       => job[m] = {} /\ run.memory # m /\ boot \notin {"scanning", "enqueueing"}

\* a deletion has still to commit the content again, or its recovery has
\* still to mark the row;
Unreconciled(m) ==
    /\ journal[m] = "deletion"
    /\ del[m] # "clearing"
    /\ ~(rec = "unlinking" /\ recCur = m)

\* and a success, recorded or about to be, has the content in HEAD unless a
\* deletion is answerable for it.
SuccessInv(m) ==
    m \in rows \ lost =>
        /\ status[m] = "success" => GitEnabled /\ ("content" \in head[m] \/ Unreconciled(m))
        /\ run.memory = m /\ run.ok
           => "content" \in head[m]
              \/ del[m] \in {"committing", "erasing", "restoreGit", "recommitting"}

BackupInv(m) == JobInv(m) /\ StagingInv(m) /\ SuccessInv(m)

NoScanWithoutGit == ~GitEnabled => boot \notin {"scanning", "enqueueing"}

\* With the state of the backups added: the invariant behind SuccessIsHonest
\* and ClearedOnlyReconciled.
HInv == WInv /\ NoScanWithoutGit /\ \A m \in Memories \ Chatting : BackupInv(m)

=============================================================================
