--------------------------- MODULE TranslationJob ---------------------------
(***************************************************************************)
(* The translation jobs of one memory and one language: a start request    *)
(* that resolves, reuses or creates a job, the serial in-process runner     *)
(* that claims it, translates its chunks and publishes the result, the      *)
(* cancel request that races it, and a crash of the process.  The rows of   *)
(* SQLite are the only lock between them: every change of a status names    *)
(* the status it expects, except the one that marks a completed job         *)
(* unavailable.                                                             *)
(*                                                                          *)
(* Two steps are separate exactly where the code awaits and another actor   *)
(* could change what the second one uses.                                   *)
(***************************************************************************)
EXTENDS Integers, Sequences, FiniteSets

CONSTANTS
    Jobs,        \* the supply of job ids
    Sources,     \* the versions (hashes) of the source CONTENT.md
    Clients,     \* the start and snapshot requests under way at a time
    Cancelers,   \* the cancel requests under way at a time
    ChunkCount,  \* the chunks of a job
    MaxRetries,  \* BRILLIANT_MAX_RETRIES
    MaxCrashes,  \* bound: how often the process dies
    MaxEdits,    \* bound: how often the source changes
    MaxSpoils,   \* bound: how often somebody removes the translated file
    None         \* no job, no file

ASSUME JobAssumption ==
    /\ None \notin Jobs
    /\ Sources # {}
    /\ ChunkCount \in Nat \ {0}
    /\ MaxRetries \in Nat
    /\ MaxCrashes \in Nat
    /\ MaxEdits \in Nat
    /\ MaxSpoils \in Nat

VARIABLES
    \* durable: the source file, the rows and the published files
    source,     \* the version of the source on disk
    status,     \* translation_jobs.status, "absent" before the insert
    src,        \* translation_jobs.source_hash
    chunk,      \* translation_chunks.status
    file,       \* the job whose output is {lang}/CONTENT.md, or None
    spans,      \* the jobs with translation_projection_spans
    intents,    \* the jobs whose files a persisted backup intent names
    reconcile,  \* the jobs with a Flashback export reconciliation intent
    exported,   \* the jobs FLASHBACKS.json was written for
    \* of the process
    queue,      \* the promise chain of the runner: the jobs not begun yet
    scheduled,  \* scheduledTranslationJobIds
    run,        \* the run of the head of the chain
    client,     \* the start and snapshot requests
    canceler,   \* the cancel requests
    \* the bounds
    crashes, edits, spoils

rows == <<status, src, chunk>>
files == <<source, file>>
published == <<spans, intents, reconcile, exported>>
runner == <<queue, scheduled, run>>
bounds == <<crashes, edits, spoils>>
vars == <<rows, files, published, runner, client, canceler, bounds>>

Indexes == 1 .. ChunkCount

Running == {"running", "stitching", "committing"}
Active == Running \cup {"pending", "cancel_requested"}
Ended == {"complete", "canceled", "failed", "stale", "unavailable"}
JobStatus == Active \cup Ended \cup {"absent"}
ChunkStatus ==
    {"pending", "running", "retrying", "validating", "complete", "failed", "purged"}

\* Where runTranslationJob and what it calls may be waiting.
CommitPcs == {"reload", "intent", "write", "spans", "reconcile", "complete"}
RunPcs ==
    {"idle", "claim", "load", "chunk", "attempt", "turn", "validate", "stitch",
     "toCommit", "commitStale", "export", "purge", "loadStale", "recheck",
     "cancel", "fail", "markFailed", "finish"} \cup CommitPcs

IdleRun == [pc |-> "idle", job |-> None, active |-> "running", at |-> 1, attempt |-> 0]
IdleClient == [pc |-> "idle", kind |-> "start", src |-> CHOOSE s \in Sources : TRUE,
               job |-> None]
IdleCancel == [pc |-> "idle", job |-> None, seen |-> "pending", retry |-> TRUE]

Runs ==
    [pc : RunPcs, job : Jobs \cup {None}, active : Running, at : 1 .. ChunkCount + 1,
     attempt : 0 .. MaxRetries]
Requests ==
    [pc : {"idle", "resolve", "compare", "repair", "active", "create", "schedule"},
     kind : {"start", "snapshot"}, src : Sources, job : Jobs \cup {None}]
Cancels ==
    [pc : {"idle", "act", "reread"}, job : Jobs \cup {None},
     seen : {"pending", "running"}, retry : BOOLEAN]

RowsOK ==
    /\ status \in [Jobs -> JobStatus]
    /\ src \in [Jobs -> Sources]
    /\ chunk \in [Jobs -> [Indexes -> ChunkStatus]]

FilesOK ==
    /\ source \in Sources
    /\ file \in Jobs \cup {None}
    /\ spans \subseteq Jobs
    /\ intents \subseteq Jobs
    /\ reconcile \subseteq Jobs
    /\ exported \subseteq Jobs

RunnerOK ==
    /\ queue \in Seq(Jobs)
    /\ scheduled \subseteq Jobs
    /\ run \in Runs
    /\ run.pc # "idle" => run.job \in Jobs
    /\ run.pc \in {"attempt", "turn", "validate"} => run.at \in Indexes

RequestsOK ==
    /\ client \in [Clients -> Requests]
    /\ \A c \in Clients :
          client[c].pc \in {"compare", "repair", "schedule"} => client[c].job \in Jobs
    /\ canceler \in [Cancelers -> Cancels]
    /\ \A x \in Cancelers : canceler[x].pc # "idle" => canceler[x].job \in Jobs

TypeOK ==
    /\ RowsOK /\ FilesOK /\ RunnerOK /\ RequestsOK
    /\ crashes \in 0 .. MaxCrashes
    /\ edits \in 0 .. MaxEdits
    /\ spoils \in 0 .. MaxSpoils

Init ==
    /\ source \in Sources
    /\ status = [j \in Jobs |-> "absent"]
    /\ src = [j \in Jobs |-> source]
    /\ chunk = [j \in Jobs |-> [i \in Indexes |-> "pending"]]
    /\ file = None
    /\ spans = {} /\ intents = {} /\ reconcile = {} /\ exported = {}
    /\ queue = <<>> /\ scheduled = {} /\ run = IdleRun
    /\ client = [c \in Clients |-> IdleClient]
    /\ canceler = [x \in Cancelers |-> IdleCancel]
    /\ crashes = 0 /\ edits = 0 /\ spoils = 0

-----------------------------------------------------------------------------
(* The rows. *)

\* A compare-and-set of the status of a job hits.
Hit(j, expected, next) ==
    /\ status[j] = expected
    /\ status' = [status EXCEPT ![j] = next]

\* The row no longer has the expected status; nothing is written.
Miss(j, expected) ==
    /\ status[j] # expected
    /\ UNCHANGED status

ActiveFor(s) == {j \in Jobs : status[j] \in Active /\ src[j] = s}
CompleteFor(s) == {j \in Jobs : status[j] = "complete" /\ src[j] = s}

CancelRequested(j) == status[j] = "cancel_requested"

SetChunk(j, i, s) == chunk' = [chunk EXCEPT ![j] = [chunk[j] EXCEPT ![i] = s]]

\* enqueueTranslationJobRun: a job is on the chain once.
Enqueue(j) ==
    /\ scheduled' = scheduled \cup {j}
    /\ queue' = IF j \in scheduled THEN queue ELSE Append(queue, j)

-----------------------------------------------------------------------------
(* startTranslationJob, and the snapshot that repairs as it reads. *)

BeginStart(c) ==
    /\ client[c].pc = "idle"
    /\ client' = [client EXCEPT ![c] =
          [pc |-> "resolve", kind |-> "start", src |-> source, job |-> None]]
    /\ UNCHANGED <<rows, files, published, runner, canceler, bounds>>

BeginSnapshot(c) ==
    /\ client[c].pc = "idle"
    /\ \E j \in Jobs : status[j] = "complete"
    /\ client' = [client EXCEPT ![c] =
          [pc |-> "resolve", kind |-> "snapshot", src |-> source, job |-> None]]
    /\ UNCHANGED <<rows, files, published, runner, canceler, bounds>>

\* A snapshot is done where a start goes on.
After(c, pc) ==
    IF client[c].kind = "start" THEN [client[c] EXCEPT !.pc = pc, !.job = None]
                                ELSE IdleClient

\* findCompleteTranslationRecord.
Resolve(c) ==
    /\ client[c].pc = "resolve"
    /\ \/ \E j \in CompleteFor(client[c].src) :
             client' = [client EXCEPT ![c] = [client[c] EXCEPT !.pc = "compare", !.job = j]]
       \/ /\ CompleteFor(client[c].src) = {}
          /\ client' = [client EXCEPT ![c] = After(c, "active")]
    /\ UNCHANGED <<rows, files, published, runner, canceler, bounds>>

\* The bytes on disk are hashed and compared with the row read before.
Compare(c) ==
    /\ client[c].pc = "compare"
    /\ client' = [client EXCEPT ![c] =
          IF file = client[c].job THEN IdleClient
                                  ELSE [client[c] EXCEPT !.pc = "repair"]]
    /\ UNCHANGED <<rows, files, published, runner, canceler, bounds>>

\* markTranslationUnavailable expects no status.
Repair(c) ==
    /\ client[c].pc = "repair"
    /\ status' = [status EXCEPT ![client[c].job] = "unavailable"]
    /\ client' = [client EXCEPT ![c] = After(c, "active")]
    /\ UNCHANGED <<src, chunk, files, published, runner, canceler, bounds>>

\* An active job is scheduled again, unless its cancellation is being finalized.
FindActive(c) ==
    /\ client[c].pc = "active"
    /\ \/ /\ ActiveFor(client[c].src) = {}
          /\ client' = [client EXCEPT ![c] = [client[c] EXCEPT !.pc = "create"]]
          /\ UNCHANGED <<queue, scheduled>>
       \/ \E j \in ActiveFor(client[c].src) :
             /\ client' = [client EXCEPT ![c] = IdleClient]
             /\ IF CancelRequested(j) THEN UNCHANGED <<queue, scheduled>>
                                      ELSE Enqueue(j)
    /\ UNCHANGED <<rows, files, published, run, canceler, bounds>>

\* The probe or the selection of the model fails.
ProbeFails(c) ==
    /\ client[c].pc = "create"
    /\ client' = [client EXCEPT ![c] = IdleClient]
    /\ UNCHANGED <<rows, files, published, runner, canceler, bounds>>

\* createTranslationJobWithChunks after the probe; the unique index over the
\* active jobs of a source decides races, and the loser schedules nothing.
Create(c) ==
    /\ client[c].pc = "create"
    /\ \/ /\ ActiveFor(client[c].src) # {}
          /\ client' = [client EXCEPT ![c] = IdleClient]
          /\ UNCHANGED rows
       \/ /\ ActiveFor(client[c].src) = {}
          /\ \E j \in Jobs :
                /\ status[j] = "absent"
                /\ status' = [status EXCEPT ![j] = "pending"]
                /\ src' = [src EXCEPT ![j] = client[c].src]
                /\ chunk' = [chunk EXCEPT ![j] = [i \in Indexes |-> "pending"]]
                /\ client' = [client EXCEPT ![c] =
                      [client[c] EXCEPT !.pc = "schedule", !.job = j]]
    /\ UNCHANGED <<files, published, runner, canceler, bounds>>

\* The probing client is closed before the job is scheduled.
Schedule(c) ==
    /\ client[c].pc = "schedule"
    /\ Enqueue(client[c].job)
    /\ client' = [client EXCEPT ![c] = IdleClient]
    /\ UNCHANGED <<rows, files, published, run, canceler, bounds>>

ClientStep(c) ==
    \/ Resolve(c) \/ Compare(c) \/ Repair(c) \/ FindActive(c)
    \/ ProbeFails(c) \/ Create(c) \/ Schedule(c)

-----------------------------------------------------------------------------
(* The cancel route. *)

OpenCancel(x, j) ==
    /\ canceler[x].pc = "idle"
    /\ status[j] \in {"pending", "running"}
    /\ canceler' = [canceler EXCEPT ![x] =
          [pc |-> "act", job |-> j, seen |-> status[j], retry |-> TRUE]]
    /\ UNCHANGED <<rows, files, published, runner, client, bounds>>

\* A pending job is canceled, a running one is asked to; the interrupt of its
\* turn shows as a turn that fails.
ActOnCancel(x) ==
    LET j == canceler[x].job
        seen == canceler[x].seen
    IN  /\ canceler[x].pc = "act"
        /\ \/ /\ Hit(j, seen, IF seen = "pending" THEN "canceled" ELSE "cancel_requested")
              /\ canceler' = [canceler EXCEPT ![x] = IdleCancel]
           \/ /\ Miss(j, seen)
              /\ canceler' = [canceler EXCEPT ![x] =
                    IF canceler[x].retry THEN [canceler[x] EXCEPT !.pc = "reread"]
                                         ELSE IdleCancel]
        /\ UNCHANGED <<src, chunk, files, published, runner, client, bounds>>

\* retryCancelAfterCasMiss looks once more.
RereadForCancel(x) ==
    LET j == canceler[x].job
    IN  /\ canceler[x].pc = "reread"
        /\ canceler' = [canceler EXCEPT ![x] =
              IF status[j] # canceler[x].seen /\ status[j] \in {"pending", "running"}
              THEN [pc |-> "act", job |-> j, seen |-> status[j], retry |-> FALSE]
              ELSE IdleCancel]
        /\ UNCHANGED <<rows, files, published, runner, client, bounds>>

CancelStep(x) == ActOnCancel(x) \/ RereadForCancel(x)

-----------------------------------------------------------------------------
(* runTranslationJob, one job at a time. *)

Goto(pc) == run' = [run EXCEPT !.pc = pc]

\* Faulty form: a job interrupted while finalizing is not resumed.
TakeRunningOnly ==
    /\ run.pc = "idle"
    /\ queue # <<>>
    /\ LET j == Head(queue)
           at(pc, active) == [IdleRun EXCEPT !.pc = pc, !.job = j, !.active = active]
       IN  run' = IF CancelRequested(j) THEN at("cancel", "running")
                  ELSE IF status[j] = "running" THEN at("load", "running")
                  ELSE at("claim", "running")
    /\ queue' = Tail(queue)
    /\ UNCHANGED <<rows, files, published, scheduled, client, canceler, bounds>>

\* The next job of the chain is read: a cancellation is finalized, an
\* interrupted job resumes where it was, a pending one is claimed.
TakeJob ==
    /\ run.pc = "idle"
    /\ queue # <<>>
    /\ LET j == Head(queue)
           at(pc, active) == [IdleRun EXCEPT !.pc = pc, !.job = j, !.active = active]
       IN  run' = IF CancelRequested(j) THEN at("cancel", "running")
                  ELSE IF status[j] \in Running THEN at("load", status[j])
                  ELSE at("claim", "running")
    /\ queue' = Tail(queue)
    /\ UNCHANGED <<rows, files, published, scheduled, client, canceler, bounds>>

Claim ==
    /\ run.pc = "claim"
    /\ \/ Hit(run.job, "pending", "running") /\ Goto("load")
       \/ Miss(run.job, "pending") /\ Goto("finish")
    /\ UNCHANGED <<src, chunk, files, published, queue, scheduled, client, canceler, bounds>>

\* The source is read again; chunks already purged cannot be resumed.
Load ==
    /\ run.pc = "load"
    /\ Goto(IF source # src[run.job] THEN "loadStale"
            ELSE IF \E i \in Indexes : chunk[run.job][i] = "purged" THEN "fail"
            ELSE "chunk")
    /\ UNCHANGED <<rows, files, published, queue, scheduled, client, canceler, bounds>>

\* A missing source, an admission limit or another version of the chunker.
LoadFails ==
    /\ run.pc = "load"
    /\ Goto("fail")
    /\ UNCHANGED <<rows, files, published, queue, scheduled, client, canceler, bounds>>

MarkStale ==
    /\ run.pc = "loadStale"
    /\ \/ Hit(run.job, run.active, "stale") /\ Goto("finish")
       \/ Miss(run.job, run.active) /\ Goto("recheck")
    /\ UNCHANGED <<src, chunk, files, published, queue, scheduled, client, canceler, bounds>>

\* The checks before a chunk and after the last one.
ChunkCanceled ==
    /\ run.pc = "chunk"
    /\ CancelRequested(run.job)
    /\ Goto("cancel")
    /\ UNCHANGED <<rows, files, published, queue, scheduled, client, canceler, bounds>>

SkipChunk ==
    /\ run.pc = "chunk" /\ run.at \in Indexes
    /\ ~CancelRequested(run.job)
    /\ chunk[run.job][run.at] = "complete"
    /\ run' = [run EXCEPT !.at = run.at + 1]
    /\ UNCHANGED <<rows, files, published, queue, scheduled, client, canceler, bounds>>

\* Faulty form: a chunk that is complete is attempted again.
BeginAnyAttempt ==
    /\ \/ run.pc = "chunk" /\ run.at \in Indexes
       \/ run.pc = "attempt"
    /\ ~CancelRequested(run.job)
    /\ SetChunk(run.job, run.at, IF run.pc = "chunk" THEN "running" ELSE "retrying")
    /\ Goto("turn")
    /\ UNCHANGED <<status, src, files, published, queue, scheduled, client, canceler, bounds>>

\* translateAndPersistChunk: check for a cancellation, mark the chunk, ask Codex.
BeginAttempt ==
    /\ \/ run.pc = "chunk" /\ run.at \in Indexes /\ chunk[run.job][run.at] # "complete"
       \/ run.pc = "attempt"
    /\ ~CancelRequested(run.job)
    /\ SetChunk(run.job, run.at, IF run.pc = "chunk" THEN "running" ELSE "retrying")
    /\ Goto("turn")
    /\ UNCHANGED <<status, src, files, published, queue, scheduled, client, canceler, bounds>>

\* The attempt sees the cancellation before the turn, while it runs (the grace
\* period expired), when its answer arrives or when it has failed.
AttemptCanceled ==
    /\ run.pc \in {"attempt", "turn", "validate"}
    /\ CancelRequested(run.job)
    /\ Goto("cancel")
    /\ UNCHANGED <<rows, files, published, queue, scheduled, client, canceler, bounds>>

Answered ==
    /\ run.pc = "turn"
    /\ ~CancelRequested(run.job)
    /\ SetChunk(run.job, run.at, "validating")
    /\ Goto("validate")
    /\ UNCHANGED <<status, src, files, published, queue, scheduled, client, canceler, bounds>>

\* The answer is valid: no check for a cancellation before it is stored.
StoreChunk ==
    /\ run.pc = "validate"
    /\ SetChunk(run.job, run.at, "complete")
    /\ run' = [run EXCEPT !.pc = "chunk", !.at = run.at + 1, !.attempt = 0]
    /\ UNCHANGED <<status, src, files, published, queue, scheduled, client, canceler, bounds>>

\* Faulty form: the attempts are not counted against the limit.
RetryAlways ==
    /\ run.pc \in {"turn", "validate"}
    /\ ~CancelRequested(run.job)
    /\ SetChunk(run.job, run.at, "retrying")
    /\ run' = [run EXCEPT !.pc = "attempt", !.attempt = run.attempt + 1]
    /\ UNCHANGED <<status, src, files, published, queue, scheduled, client, canceler, bounds>>

\* The turn or the validation failed, and another attempt is left.
Retry ==
    /\ run.pc \in {"turn", "validate"}
    /\ ~CancelRequested(run.job)
    /\ run.attempt < MaxRetries
    /\ SetChunk(run.job, run.at, "retrying")
    /\ run' = [run EXCEPT !.pc = "attempt", !.attempt = run.attempt + 1]
    /\ UNCHANGED <<status, src, files, published, queue, scheduled, client, canceler, bounds>>

\* The last attempt failed, or an error that is not retried.
GiveUpChunk ==
    /\ run.pc \in {"turn", "validate"}
    /\ ~CancelRequested(run.job)
    /\ SetChunk(run.job, run.at, "failed")
    /\ Goto("fail")
    /\ UNCHANGED <<status, src, files, published, queue, scheduled, client, canceler, bounds>>

\* All chunks are there: go on from the status the run began with.
ChunksDone ==
    /\ run.pc = "chunk" /\ run.at = ChunkCount + 1
    /\ ~CancelRequested(run.job)
    /\ Goto(IF run.active = "running" THEN "stitch"
            ELSE IF run.active = "stitching" THEN "toCommit" ELSE "reload")
    /\ UNCHANGED <<rows, files, published, queue, scheduled, client, canceler, bounds>>

StartStitching ==
    /\ run.pc = "stitch"
    /\ \/ /\ Hit(run.job, "running", "stitching")
          /\ run' = [run EXCEPT !.pc = "toCommit", !.active = "stitching"]
       \/ Miss(run.job, "running") /\ Goto("recheck")
    /\ UNCHANGED <<src, chunk, files, published, queue, scheduled, client, canceler, bounds>>

StartCommitting ==
    /\ run.pc = "toCommit"
    /\ \/ /\ Hit(run.job, "stitching", "committing")
          /\ run' = [run EXCEPT !.pc = "reload", !.active = "committing"]
       \/ Miss(run.job, "stitching") /\ Goto("recheck")
    /\ UNCHANGED <<src, chunk, files, published, queue, scheduled, client, canceler, bounds>>

-----------------------------------------------------------------------------
(* commitTranslatedContent, under the lock of the variant and a reservation  *)
(* of the memory; this module has no other user of either.                   *)

\* The source is read a last time, the chunks are stitched.
Reload ==
    /\ run.pc = "reload"
    /\ Goto(IF source # src[run.job] THEN "commitStale"
            ELSE IF \E i \in Indexes : chunk[run.job][i] # "complete" THEN "fail"
            ELSE "intent")
    /\ UNCHANGED <<rows, files, published, queue, scheduled, client, canceler, bounds>>

CommitStale ==
    /\ run.pc = "commitStale"
    /\ \/ Hit(run.job, "committing", "stale") /\ Goto("finish")
       \/ Miss(run.job, "committing") /\ Goto("recheck")
    /\ UNCHANGED <<src, chunk, files, published, queue, scheduled, client, canceler, bounds>>

PersistIntent ==
    /\ run.pc = "intent"
    /\ intents' = intents \cup {run.job}
    /\ Goto("write")
    /\ UNCHANGED <<rows, files, spans, reconcile, exported, queue, scheduled, client,
                   canceler, bounds>>

\* writeTranslatedContentAtomically: the rename replaces whatever was there.
WriteOutput ==
    /\ run.pc = "write"
    /\ file' = run.job
    /\ Goto("spans")
    /\ UNCHANGED <<source, rows, published, queue, scheduled, client, canceler, bounds>>

\* TRANSLATION_MAP.json and the rows it exports.
ReplaceSpans ==
    /\ run.pc = "spans"
    /\ spans' = spans \cup {run.job}
    /\ Goto("reconcile")
    /\ UNCHANGED <<rows, files, intents, reconcile, exported, queue, scheduled, client,
                   canceler, bounds>>

PersistReconciliation ==
    /\ run.pc = "reconcile"
    /\ reconcile' = reconcile \cup {run.job}
    /\ Goto("complete")
    /\ UNCHANGED <<rows, files, spans, intents, exported, queue, scheduled, client,
                   canceler, bounds>>

\* The unique index over the complete jobs of a source makes the update throw
\* when another job is complete already.
Complete ==
    /\ run.pc = "complete"
    /\ IF status[run.job] = "committing" /\ CompleteFor(src[run.job]) # {}
       THEN UNCHANGED status /\ Goto("fail")
       ELSE \/ Hit(run.job, "committing", "complete") /\ Goto("export")
            \/ Miss(run.job, "committing") /\ Goto("recheck")
    /\ UNCHANGED <<src, chunk, files, published, queue, scheduled, client, canceler, bounds>>

\* Any call before the completion fails, or the reservation is revoked.
CommitFails ==
    /\ run.pc \in CommitPcs \cup {"commitStale"}
    /\ Goto("fail")
    /\ UNCHANGED <<rows, files, published, queue, scheduled, client, canceler, bounds>>

\* Faulty form: the intent is cleared although the export failed.
ExportOrForget ==
    /\ run.pc = "export"
    /\ \/ reconcile' = reconcile \ {run.job} /\ UNCHANGED exported
       \/ /\ exported' = exported \cup {run.job}
          /\ reconcile' \in {reconcile, reconcile \ {run.job}}
    /\ Goto("purge")
    /\ UNCHANGED <<rows, files, spans, intents, queue, scheduled, client, canceler, bounds>>

\* FLASHBACKS.json is written and its intent cleared; either may fail.
Export ==
    /\ run.pc = "export"
    /\ \/ UNCHANGED <<reconcile, exported>>
       \/ /\ exported' = exported \cup {run.job}
          /\ reconcile' \in {reconcile, reconcile \ {run.job}}
    /\ Goto("purge")
    /\ UNCHANGED <<rows, files, spans, intents, queue, scheduled, client, canceler, bounds>>

\* purgeCompletedTranslationChunks, best effort; the backup is enqueued.
Purge ==
    /\ run.pc = "purge"
    /\ \/ UNCHANGED chunk
       \/ chunk' = [chunk EXCEPT ![run.job] =
             [i \in Indexes |-> IF chunk[run.job][i] = "complete" THEN "purged"
                                ELSE chunk[run.job][i]]]
    /\ Goto("finish")
    /\ UNCHANGED <<status, src, files, published, queue, scheduled, client, canceler, bounds>>

-----------------------------------------------------------------------------
(* The ends of a run. *)

\* failRunningJob reads the job again ...
FailJob ==
    /\ run.pc = "fail"
    /\ run' = IF CancelRequested(run.job) THEN [run EXCEPT !.pc = "cancel"]
              ELSE IF status[run.job] \in Running
              THEN [run EXCEPT !.pc = "markFailed", !.active = status[run.job]]
              ELSE [run EXCEPT !.pc = "finish"]
    /\ UNCHANGED <<rows, files, published, queue, scheduled, client, canceler, bounds>>

\* Faulty form: the failure is written whatever the status is by now.
MarkFailedAnyway ==
    /\ run.pc = "markFailed"
    /\ status' = [status EXCEPT ![run.job] = "failed"]
    /\ Goto("finish")
    /\ UNCHANGED <<src, chunk, files, published, queue, scheduled, client, canceler, bounds>>

\* ... and expects the status it read.
MarkFailed ==
    /\ run.pc = "markFailed"
    /\ \/ Hit(run.job, run.active, "failed") /\ Goto("finish")
       \/ Miss(run.job, run.active) /\ Goto("recheck")
    /\ UNCHANGED <<src, chunk, files, published, queue, scheduled, client, canceler, bounds>>

\* cancelIfRequestedAfterFinalizationRace.
Recheck ==
    /\ run.pc = "recheck"
    /\ Goto(IF CancelRequested(run.job) THEN "cancel" ELSE "finish")
    /\ UNCHANGED <<rows, files, published, queue, scheduled, client, canceler, bounds>>

CancelJob ==
    /\ run.pc = "cancel"
    /\ \/ Hit(run.job, "cancel_requested", "canceled")
       \/ Miss(run.job, "cancel_requested")
    /\ Goto("finish")
    /\ UNCHANGED <<src, chunk, files, published, queue, scheduled, client, canceler, bounds>>

Finish ==
    /\ run.pc = "finish"
    /\ scheduled' = scheduled \ {run.job}
    /\ run' = IdleRun
    /\ UNCHANGED <<rows, files, published, queue, client, canceler, bounds>>

RunStep ==
    \/ TakeJob \/ Claim \/ Load \/ LoadFails \/ MarkStale
    \/ ChunkCanceled \/ SkipChunk \/ BeginAttempt \/ AttemptCanceled \/ Answered
    \/ StoreChunk \/ Retry \/ GiveUpChunk \/ ChunksDone
    \/ StartStitching \/ StartCommitting
    \/ Reload \/ CommitStale \/ PersistIntent \/ WriteOutput \/ ReplaceSpans
    \/ PersistReconciliation \/ Complete \/ CommitFails \/ Export \/ Purge
    \/ FailJob \/ MarkFailed \/ Recheck \/ CancelJob \/ Finish

-----------------------------------------------------------------------------
(* The environment. *)

EditSource ==
    /\ edits < MaxEdits
    /\ \E s \in Sources \ {source} : source' = s
    /\ edits' = edits + 1
    /\ UNCHANGED <<rows, file, published, runner, client, canceler, crashes, spoils>>

\* Somebody removes the translated file.
SpoilOutput ==
    /\ spoils < MaxSpoils
    /\ file # None
    /\ file' = None
    /\ spoils' = spoils + 1
    /\ UNCHANGED <<source, rows, published, runner, client, canceler, crashes, edits>>

\* Nothing is scheduled again at the next start of the process.
Crash ==
    /\ crashes < MaxCrashes
    /\ crashes' = crashes + 1
    /\ queue' = <<>> /\ scheduled' = {} /\ run' = IdleRun
    /\ client' = [c \in Clients |-> IdleClient]
    /\ canceler' = [x \in Cancelers |-> IdleCancel]
    /\ UNCHANGED <<rows, files, published, edits, spoils>>

Next ==
    \/ RunStep
    \/ \E c \in Clients : BeginStart(c) \/ BeginSnapshot(c) \/ ClientStep(c)
    \/ \E x \in Cancelers : CancelStep(x) \/ \E j \in Jobs : OpenCancel(x, j)
    \/ EditSource \/ SpoilOutput \/ Crash

Spec == Init /\ [][Next]_vars

\* What has begun goes on: Codex turns end, file and database calls return.
Fairness ==
    /\ WF_vars(RunStep)
    /\ \A c \in Clients : WF_vars(ClientStep(c))
    /\ \A x \in Cancelers : WF_vars(CancelStep(x))

FairSpec == Spec /\ Fairness

\* The same with users that never stop asking for the translation.
Persistence == \A c \in Clients : WF_vars(BeginStart(c))
PatientSpec == FairSpec /\ Persistence

-----------------------------------------------------------------------------
(* Properties. *)

\* What may become of a status, whoever changes it: a cancellation that was
\* accepted ends canceled and nothing else (no completion, failure or staleness
\* of the run it raced overwrites it), an ended job stays as it ended, except
\* that a completed one may be found unavailable.  Five compare-and-sets of the
\* runner race two of the cancel route and one update that expects nothing.
Successors ==
    [absent |-> {"pending"},
     pending |-> {"running", "canceled"},
     running |-> {"cancel_requested", "stitching", "stale", "failed"},
     stitching |-> {"committing", "stale", "failed"},
     committing |-> {"complete", "stale", "failed"},
     cancel_requested |-> {"canceled"},
     complete |-> {"unavailable"},
     canceled |-> {}, failed |-> {}, stale |-> {}, unavailable |-> {}]

CancellationWins ==
    [][\A j \in Jobs : status'[j] # status[j] => status'[j] \in Successors[status[j]]]_vars

\* A job past its translation keeps every chunk until it is complete, so that a
\* crash in the middle of stitching or publishing can be replayed, and chunks
\* are purged of no other job (data-and-storage.md, "A durable committing job
\* keeps its chunks").
FinalizingKeepsChunks ==
    \A j \in Jobs :
        /\ status[j] \in {"stitching", "committing"} =>
              \A i \in Indexes : chunk[j][i] = "complete"
        /\ (\E i \in Indexes : chunk[j][i] = "purged") =>
              status[j] \in {"complete", "unavailable"}

\* A complete job has all it is read with: its projection spans, a backup
\* intent that names its files (also if its output is on disk and it did not get
\* further), and its Flashback export or the intent that replays it.
CompleteIsPublished ==
    \A j \in Jobs :
        /\ status[j] = "complete" =>
              j \in spans /\ j \in intents /\ j \in reconcile \cup exported
        /\ file = j => j \in intents

\* Until the process dies, an active job is on the chain of the runner or the
\* request that created it is about to put it there: no end of a run leaves a
\* job active, and no request is told of a job that nobody will run (errors of
\* SQLite inside the runner are not modelled).
NoLostJob ==
    crashes = 0 =>
        \A j \in Jobs : status[j] \in Active =>
            \/ j \in scheduled
            \/ \E c \in Clients : client[c].pc = "schedule" /\ client[c].job = j

\* A chunk that was translated is not translated again, by whatever run resumes
\* the job.
TranslatedOnce ==
    [][\A j \in Jobs, i \in Indexes :
          chunk[j][i] = "complete" => chunk'[j][i] \in {"complete", "purged"}]_vars

\* A scheduled job ends, also when it was interrupted and resumed: after the last
\* crash nothing keeps the runner from one of the terminal statuses.
EveryScheduledJobEnds ==
    \A j \in Jobs : (j \in scheduled /\ crashes = MaxCrashes) ~> status[j] \notin Active
=============================================================================
