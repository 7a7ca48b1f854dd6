------------------------ MODULE TranslationJobProofs ------------------------
(***************************************************************************)
(* Theorems about TranslationJob, for any supply of jobs, any number of    *)
(* requests, chunks, retries and crashes: the inductive invariant that     *)
(* says what a run knows about the job it works on, and what follows.      *)
(***************************************************************************)
EXTENDS TranslationJob, TLAPS

-----------------------------------------------------------------------------
(* The inductive invariant.                                                *)

\* A job somebody refers to exists, a translation somebody found is complete or
\* was found unavailable since, and a job that does not exist has no chunks.
ReferenceInv ==
    /\ \A j \in Jobs : status[j] = "absent" => \A i \in Indexes : chunk[j][i] = "pending"
    /\ \A k \in 1 .. Len(queue) : status[queue[k]] # "absent"
    /\ \A c \in Clients :
          /\ client[c].pc = "schedule" => status[client[c].job] # "absent"
          /\ client[c].pc \in {"compare", "repair"} =>
                status[client[c].job] \in {"complete", "unavailable"}

\* The steps that work under the status the run began with or has reached.
Working ==
    {"load", "loadStale", "chunk", "attempt", "turn", "validate", "stitch", "toCommit",
     "commitStale", "markFailed"} \cup CommitPcs

\* What a run knows of the status of its job: nobody but a cancel request has
\* touched it.
StatusInv ==
    LET s == status[run.job]
    IN  /\ run.pc # "idle" => s # "absent"
        /\ run.pc = "claim" => run.active = "running" /\ s \in {"pending"} \cup Ended
        /\ run.pc \in Working => s \in {run.active, "cancel_requested"}
        /\ run.pc = "stitch" => run.active = "running"
        /\ run.pc = "toCommit" => run.active = "stitching"
        /\ run.pc \in CommitPcs \cup {"commitStale"} => run.active = "committing"
        /\ run.pc = "fail" => s \in Running \cup {"cancel_requested"}
        /\ run.pc \in {"recheck", "cancel"} => s = "cancel_requested"
        /\ run.pc \in {"export", "purge"} => s \in {"complete", "unavailable"}
        /\ run.pc = "finish" => s \in Ended

\* The chunks before the one at work are complete, that one is not.
ChunkInv ==
    /\ run.pc \in {"claim", "load"} => run.at = 1
    /\ run.pc \in {"chunk", "attempt", "turn", "validate", "stitch", "toCommit"} =>
          \A i \in Indexes : i < run.at => chunk[run.job][i] = "complete"
    /\ run.pc \in {"attempt", "turn", "validate"} => chunk[run.job][run.at] # "complete"
    /\ run.pc \in {"stitch", "toCommit"} => run.at = ChunkCount + 1

\* What the commit has published so far.
PublishInv ==
    /\ run.pc \in {"write", "spans", "reconcile", "complete"} => run.job \in intents
    /\ run.pc \in {"reconcile", "complete"} => run.job \in spans
    /\ run.pc = "complete" => run.job \in reconcile

JInv ==
    /\ TypeOK
    /\ ReferenceInv
    /\ StatusInv
    /\ ChunkInv
    /\ PublishInv
    /\ FinalizingKeepsChunks
    /\ CompleteIsPublished
    /\ NoLostJob
-----------------------------------------------------------------------------
(* Types.                                                                  *)

LEMMA IdleRecords ==
    /\ IdleRun \in Runs /\ IdleRun.pc = "idle"
    /\ IdleClient \in Requests /\ IdleClient.pc = "idle"
    /\ IdleCancel \in Cancels /\ IdleCancel.pc = "idle"
BY JobAssumption DEF IdleRun, IdleClient, IdleCancel, Runs, RunPcs, Running, Requests,
   Cancels

LEMMA TypeInit ==
    ASSUME Init
    PROVE  TypeOK
<1>1. RowsOK /\ FilesOK
  BY DEF Init, RowsOK, FilesOK, JobStatus, ChunkStatus
<1>2. RunnerOK /\ RequestsOK
  BY IdleRecords DEF Init, RunnerOK, RequestsOK
<1> QED
  BY <1>1, <1>2, JobAssumption DEF Init, TypeOK

LEMMA EnqueueTyped ==
    ASSUME NEW j \in Jobs, queue \in Seq(Jobs), scheduled \subseteq Jobs, Enqueue(j)
    PROVE  queue' \in Seq(Jobs) /\ scheduled' \subseteq Jobs
BY DEF Enqueue

LEMMA ClientsTyped ==
    ASSUME TypeOK, NEW c \in Clients, BeginStart(c) \/ BeginSnapshot(c) \/ ClientStep(c)
    PROVE  TypeOK'
<1>1. FilesOK' /\ UNCHANGED <<run, canceler, bounds>>
  BY DEF TypeOK, FilesOK, BeginStart, BeginSnapshot, ClientStep, Resolve, Compare, Repair,
     FindActive, ProbeFails, Create, Schedule, files, published, runner, bounds
<1>2. RowsOK'
  <2>1. CASE Repair(c)
    BY <2>1 DEF Repair, TypeOK, RowsOK, JobStatus, Ended
  <2>2. CASE Create(c)
    <3>1. client[c].src \in Sources
      BY DEF TypeOK, RequestsOK, Requests
    <3>2. [i \in Indexes |-> "pending"] \in [Indexes -> ChunkStatus]
      BY DEF ChunkStatus
    <3> QED
      BY ZenonT(60), <2>2, <3>1, <3>2 DEF Create, TypeOK, RowsOK, JobStatus, Active, rows
  <2> QED
    BY <2>1, <2>2 DEF TypeOK, RowsOK, BeginStart, BeginSnapshot, ClientStep, Resolve,
       Compare,
       FindActive, ProbeFails, Schedule, rows
<1>3. queue' \in Seq(Jobs) /\ scheduled' \subseteq Jobs
  <2>1. CASE FindActive(c)
    BY <2>1, EnqueueTyped DEF FindActive, ActiveFor, TypeOK, RunnerOK
  <2>2. CASE Schedule(c)
    BY <2>2, EnqueueTyped DEF Schedule, TypeOK, RunnerOK, RequestsOK
  <2> QED
    BY <2>1, <2>2 DEF TypeOK, RunnerOK, BeginStart, BeginSnapshot, ClientStep, Resolve,
       Compare,
       Repair, ProbeFails, Create, runner
<1>4. /\ client' = [client EXCEPT ![c] = client'[c]]
      /\ client'[c] \in Requests
      /\ client'[c].pc \in {"compare", "repair", "schedule"} => client'[c].job \in Jobs
  <2> USE IdleRecords DEF TypeOK, FilesOK, RequestsOK, Requests
  <2>1. CASE BeginStart(c) \/ BeginSnapshot(c)
    BY <2>1 DEF BeginStart, BeginSnapshot
  <2>2. After(c, "active") \in Requests
        /\ After(c, "active").pc \notin {"compare", "repair", "schedule"}
    BY DEF After
  <2>3. CASE Resolve(c)
    <3>1. CASE CompleteFor(client[c].src) = {}
      BY <2>2, <2>3, <3>1 DEF Resolve
    <3>2. CASE CompleteFor(client[c].src) # {}
      <4>1. PICK j \in CompleteFor(client[c].src) :
               client' = [client EXCEPT ![c] = [client[c] EXCEPT !.pc = "compare", !.job = j]]
        BY <2>3, <3>2 DEF Resolve
      <4> QED
        BY <4>1 DEF CompleteFor
    <3> QED
      BY <3>1, <3>2
  <2>4. CASE Repair(c)
    BY <2>2, <2>4 DEF Repair
  <2>5. CASE Compare(c) \/ ProbeFails(c) \/ Schedule(c)
    BY <2>5 DEF Compare, ProbeFails, Schedule
  <2>6. CASE FindActive(c)
    BY <2>6 DEF FindActive
  <2>7. CASE Create(c)
    <3>1. CASE ActiveFor(client[c].src) # {}
      BY <2>7, <3>1 DEF Create
    <3>2. CASE ActiveFor(client[c].src) = {}
      <4>1. PICK j \in Jobs :
               client' = [client EXCEPT ![c] = [client[c] EXCEPT !.pc = "schedule", !.job = j]]
        BY <2>7, <3>2 DEF Create
      <4> QED
        BY <4>1
    <3> QED
      BY <3>1, <3>2
  <2> QED
    BY <2>1, <2>3, <2>4, <2>5, <2>6, <2>7 DEF ClientStep
<1>5. RequestsOK'
  BY <1>1, <1>4 DEF TypeOK, RequestsOK
<1> QED
  BY <1>1, <1>2, <1>3, <1>5 DEF TypeOK, RunnerOK, bounds

LEMMA CancelersTyped ==
    ASSUME TypeOK, NEW x \in Cancelers, CancelStep(x) \/ \E j \in Jobs : OpenCancel(x, j)
    PROVE  TypeOK'
<1>1. UNCHANGED <<src, chunk, files, published, runner, client, bounds>>
  BY DEF CancelStep, ActOnCancel, RereadForCancel, OpenCancel, rows
<1>2. RowsOK'
  BY <1>1 DEF TypeOK, RowsOK, RequestsOK, CancelStep, ActOnCancel, RereadForCancel,
     OpenCancel,
     Hit, Miss, rows, JobStatus, Active, Ended
<1>3. /\ canceler' = [canceler EXCEPT ![x] = canceler'[x]]
      /\ canceler'[x] \in Cancels
      /\ canceler'[x].pc # "idle" => canceler'[x].job \in Jobs
  <2> USE IdleRecords DEF TypeOK, RequestsOK, Cancels
  <2>1. CASE ActOnCancel(x)
    BY <2>1 DEF ActOnCancel
  <2>2. CASE RereadForCancel(x)
    BY <2>2 DEF RereadForCancel
  <2>3. CASE \E j \in Jobs : OpenCancel(x, j)
    BY <2>3 DEF OpenCancel
  <2> QED
    BY <2>1, <2>2, <2>3 DEF CancelStep
<1> QED
  BY <1>1, <1>2, <1>3 DEF TypeOK, FilesOK, RunnerOK, RequestsOK, files, published,
     runner, bounds

LEMMA RunTyped ==
    ASSUME TypeOK, RunStep
    PROVE  TypeOK'
<1>1. UNCHANGED <<source, client, canceler, bounds>>
  BY DEF RunStep, TakeJob, Claim, Load, LoadFails, MarkStale, ChunkCanceled, SkipChunk,
     BeginAttempt, AttemptCanceled, Answered, StoreChunk, Retry, GiveUpChunk, ChunksDone,
     StartStitching, StartCommitting, Reload, CommitStale, PersistIntent, WriteOutput,
     ReplaceSpans, PersistReconciliation, Complete, CommitFails, Export, Purge, FailJob,
     MarkFailed, Recheck, CancelJob, Finish, files
<1>2. FilesOK'
  BY DEF RunStep, TakeJob, Claim, Load, LoadFails, MarkStale, ChunkCanceled, SkipChunk,
     BeginAttempt, AttemptCanceled, Answered, StoreChunk, Retry, GiveUpChunk, ChunksDone,
     StartStitching, StartCommitting, Reload, CommitStale, PersistIntent, WriteOutput,
     ReplaceSpans, PersistReconciliation, Complete, CommitFails, Export, Purge, FailJob,
     MarkFailed, Recheck, CancelJob, Finish, TypeOK, RunnerOK, FilesOK, files, published
<1>3. RowsOK'
  <2> USE DEF TypeOK, RunnerOK, RowsOK
  <2>1. CASE Claim \/ MarkStale \/ StartStitching \/ StartCommitting \/
          CommitStale \/ Complete \/ MarkFailed \/ CancelJob
    BY <2>1 DEF Claim, MarkStale, StartStitching, StartCommitting, CommitStale,
       Complete, MarkFailed, CancelJob, Hit, Miss, JobStatus, Active, Ended, Running
  <2>2. ASSUME NEW s \in ChunkStatus, run.job \in Jobs, SetChunk(run.job, run.at, s)
        PROVE  chunk' \in [Jobs -> [Indexes -> ChunkStatus]]
    BY <2>2 DEF SetChunk
  <2>4. CASE BeginAttempt \/ Answered
    BY <2>2, <2>4 DEF BeginAttempt, Answered, ChunkStatus
  <2>5. CASE StoreChunk \/ Retry \/ GiveUpChunk
    BY <2>2, <2>5 DEF StoreChunk, Retry, GiveUpChunk, ChunkStatus
  <2>3. CASE Purge
    BY <2>3 DEF Purge, ChunkStatus
  <2> QED
    BY <2>1, <2>3, <2>4, <2>5 DEF RunStep, TakeJob, Load, LoadFails, ChunkCanceled,
       SkipChunk, AttemptCanceled, ChunksDone, Reload, PersistIntent, WriteOutput,
       ReplaceSpans, PersistReconciliation, CommitFails, Export, FailJob, Recheck, Finish,
       rows
<1>4. queue' \in Seq(Jobs) /\ scheduled' \subseteq Jobs
  <2>1. CASE TakeJob
    BY <2>1 DEF TakeJob, TypeOK, RunnerOK
  <2> QED
    BY <2>1 DEF RunStep, Claim, Load, LoadFails, MarkStale, ChunkCanceled, SkipChunk,
       BeginAttempt, AttemptCanceled, Answered, StoreChunk, Retry, GiveUpChunk,
       ChunksDone, StartStitching, StartCommitting, Reload, CommitStale, PersistIntent,
       WriteOutput, ReplaceSpans, PersistReconciliation, Complete, CommitFails, Export,
       Purge, FailJob, MarkFailed, Recheck, CancelJob, Finish, TypeOK, RunnerOK
<1>5. /\ run' \in Runs
      /\ run'.pc # "idle" => run'.job \in Jobs
      /\ run'.pc \in {"attempt", "turn", "validate"} => run'.at \in Indexes
  <2>0. /\ run \in Runs /\ ChunkCount \in Nat /\ MaxRetries \in Nat
        /\ run.pc # "idle" => run.job \in Jobs
        /\ run.pc \in {"attempt", "turn", "validate"} => run.at \in Indexes
    BY JobAssumption DEF TypeOK, RunnerOK
  <2>1. ASSUME NEW pc \in RunPcs, run.pc # "idle", Goto(pc)
        PROVE  run' \in Runs /\ run'.job \in Jobs /\ run'.at = run.at /\ run'.pc = pc
    BY <2>0, <2>1 DEF Goto, Runs
  <2>2. CASE TakeJob
    <3>1. Head(queue) \in Jobs
      BY <2>2 DEF TakeJob, TypeOK, RunnerOK
    <3> QED
      BY <2>2, <3>1, IdleRecords DEF TakeJob, Runs, RunPcs, Running
  <2>3. CASE SkipChunk
    BY <2>0, <2>3 DEF SkipChunk, Indexes, Runs
  <2>4. CASE StoreChunk
    <3>1. run.at + 1 \in 1 .. ChunkCount + 1 /\ 0 \in 0 .. MaxRetries
      BY <2>0, <2>4 DEF StoreChunk, Indexes
    <3> QED
      BY <2>0, <2>4, <3>1 DEF StoreChunk, Runs, RunPcs
  <2>5. CASE Retry
    <3>1. run.attempt + 1 \in 0 .. MaxRetries
      BY <2>0, <2>5 DEF Retry, Runs
    <3> QED
      BY <2>0, <2>5, <3>1 DEF Retry, Runs, RunPcs
  <2>6. CASE StartStitching \/ StartCommitting \/ FailJob
    BY ZenonT(60), <2>0, <2>6 DEF StartStitching, StartCommitting, FailJob, Goto, Runs, RunPcs,
       CommitPcs,
       Running
  <2>7. CASE Finish
    BY <2>7, IdleRecords DEF Finish
  <2>8. CASE MarkStale \/ ChunkCanceled \/ AttemptCanceled \/ Claim \/ Load \/ LoadFails
    BY <2>0, <2>1, <2>8 DEF MarkStale, ChunkCanceled, AttemptCanceled, Claim, Load,
       LoadFails, RunPcs, CommitPcs
  <2>9. CASE GiveUpChunk \/ ChunksDone \/ Recheck \/ MarkFailed \/ CancelJob
    BY <2>0, <2>1, <2>9 DEF GiveUpChunk, ChunksDone, Recheck, MarkFailed, CancelJob,
       RunPcs, CommitPcs
  <2>10. CASE Reload \/ CommitStale \/ PersistIntent \/ WriteOutput \/
          ReplaceSpans \/ PersistReconciliation
    BY <2>0, <2>1, <2>10 DEF Reload, CommitStale, PersistIntent, WriteOutput,
       ReplaceSpans, PersistReconciliation, RunPcs, CommitPcs
  <2>11. CASE Complete \/ CommitFails \/ Export \/ Purge
    BY <2>0, <2>1, <2>11 DEF Complete, CommitFails, Export, Purge, RunPcs, CommitPcs
  <2>12. CASE BeginAttempt
    BY <2>0, <2>1, <2>12 DEF BeginAttempt, RunPcs, CommitPcs
  <2>13. CASE Answered
    BY <2>0, <2>1, <2>13 DEF Answered, RunPcs, CommitPcs
  <2> QED
    BY <2>2, <2>3, <2>4, <2>5, <2>6, <2>7, <2>8, <2>9, <2>10, <2>11, <2>12, <2>13 DEF
       RunStep
<1> QED
  BY <1>1, <1>2, <1>3, <1>4, <1>5 DEF TypeOK, RunnerOK, RequestsOK, bounds

-----------------------------------------------------------------------------
(* The invariant.                                                          *)

LEMMA InvariantInit ==
    ASSUME Init
    PROVE  JInv
<1>1. TypeOK
  BY TypeInit
<1>2. ReferenceInv /\ StatusInv /\ ChunkInv /\ PublishInv
  BY IdleRecords DEF Init, ReferenceInv, StatusInv, ChunkInv, PublishInv, Working, CommitPcs
<1>3. FinalizingKeepsChunks /\ CompleteIsPublished /\ NoLostJob
  BY JobAssumption DEF Init, FinalizingKeepsChunks, CompleteIsPublished, NoLostJob,
     Active, Running
<1> QED
  BY <1>1, <1>2, <1>3 DEF JInv

\* What a start or snapshot request does to the rows: nothing, a completed job
\* becomes unavailable, or a new job is pending.
LEMMA ClientFrame ==
    ASSUME JInv, NEW c \in Clients, BeginStart(c) \/ BeginSnapshot(c) \/ ClientStep(c)
    PROVE  /\ UNCHANGED <<files, published, run, canceler, bounds>>
           /\ scheduled \subseteq scheduled'
           /\ \/ UNCHANGED rows
              \/ /\ UNCHANGED <<src, chunk>>
                 /\ \E j \in Jobs : /\ status[j] \in {"complete", "unavailable"}
                                   /\ status' = [status EXCEPT ![j] = "unavailable"]
              \/ \E j \in Jobs :
                    /\ status[j] = "absent"
                    /\ status' = [status EXCEPT ![j] = "pending"]
                    /\ chunk' = [chunk EXCEPT ![j] = [i \in Indexes |-> "pending"]]
                    /\ client' = [client EXCEPT ![c] =
                          [client[c] EXCEPT !.pc = "schedule", !.job = j]]
<1>1. UNCHANGED <<files, published, run, canceler, bounds>> /\ scheduled \subseteq
        scheduled'
  BY DEF BeginStart, BeginSnapshot, ClientStep, Resolve, Compare, Repair, FindActive,
     ProbeFails, Create, Schedule, Enqueue, runner
<1>2. CASE Repair(c)
  BY <1>1, <1>2 DEF Repair, JInv, ReferenceInv, TypeOK, RequestsOK
<1>3. CASE Create(c)
  BY <1>1, <1>3 DEF Create, rows
<1> QED
  BY <1>1, <1>2, <1>3 DEF BeginStart, BeginSnapshot, ClientStep, Resolve, Compare,
     FindActive, ProbeFails, Schedule, rows

LEMMA ClientsKeepRun ==
    ASSUME JInv, NEW c \in Clients, BeginStart(c) \/ BeginSnapshot(c) \/ ClientStep(c)
    PROVE  StatusInv' /\ ChunkInv' /\ PublishInv' /\ FinalizingKeepsChunks' /\
            CompleteIsPublished'
<1>1. UNCHANGED <<file, spans, intents, reconcile, exported, run>>
  BY ClientFrame DEF files, published
<1>2. /\ status \in [Jobs -> JobStatus] /\ chunk \in [Jobs -> [Indexes -> ChunkStatus]]
      /\ run \in Runs /\ (run.pc # "idle" => run.job \in Jobs)
      /\ StatusInv /\ ChunkInv /\ PublishInv /\ FinalizingKeepsChunks /\ CompleteIsPublished
  BY DEF JInv, TypeOK, RowsOK, RunnerOK
<1>3. PublishInv'
  BY <1>1, <1>2 DEF PublishInv
<1>4. CASE UNCHANGED rows
  BY <1>1, <1>2, <1>3, <1>4 DEF rows, StatusInv, ChunkInv, FinalizingKeepsChunks,
     CompleteIsPublished
<1>5. ASSUME NEW j \in Jobs, status[j] \in {"complete", "unavailable"},
             status' = [status EXCEPT ![j] = "unavailable"], UNCHANGED <<src, chunk>>
      PROVE  StatusInv' /\ ChunkInv' /\ FinalizingKeepsChunks' /\ CompleteIsPublished'
  <2>1. StatusInv'
    BY <1>1, <1>2, <1>5 DEF StatusInv, Ended, Running, Runs, RunPcs, Working, CommitPcs
  <2>2. ChunkInv' /\ FinalizingKeepsChunks' /\ CompleteIsPublished'
    BY <1>1, <1>2, <1>5 DEF ChunkInv, FinalizingKeepsChunks, CompleteIsPublished
  <2> QED
    BY <2>1, <2>2
<1>6. ASSUME NEW j \in Jobs, status[j] = "absent", status' = [status EXCEPT ![j] = "pending"],
             chunk' = [chunk EXCEPT ![j] = [i \in Indexes |-> "pending"]]
      PROVE  StatusInv' /\ ChunkInv' /\ FinalizingKeepsChunks' /\ CompleteIsPublished'
  <2>1. run.pc # "idle" => run.job # j
    BY <1>2, <1>6 DEF StatusInv
  <2>2. run.pc # "idle" => status'[run.job] = status[run.job] /\ chunk'[run.job] = chunk[run.job]
    BY <1>1, <1>2, <1>6, <2>1
  <2>3. StatusInv'
    BY <1>1, <1>2, <2>2 DEF StatusInv, Working, CommitPcs
  <2>4. ChunkInv'
    BY <1>1, <1>2, <2>2 DEF ChunkInv
  <2>5. FinalizingKeepsChunks' /\ CompleteIsPublished'
    BY <1>1, <1>2, <1>6 DEF FinalizingKeepsChunks, CompleteIsPublished
  <2> QED
    BY <2>3, <2>4, <2>5
<1> QED
  BY <1>3, <1>4, <1>5, <1>6, ClientFrame

\* The statuses a start or a snapshot request leaves a job with.
LEMMA ClientStatuses ==
    ASSUME JInv, NEW c \in Clients, BeginStart(c) \/ BeginSnapshot(c) \/ ClientStep(c),
           NEW j \in Jobs
    PROVE  /\ status[j] # "absent" => status'[j] # "absent"
           /\ status'[j] = "absent" => status[j] = "absent" /\ chunk'[j] = chunk[j]
           /\ status[j] \in {"complete", "unavailable"} =>
                 status'[j] \in {"complete", "unavailable"}
           /\ status'[j] \in Active => \/ status[j] \in Active
                                       \/ client' = [client EXCEPT ![c] =
                                             [client[c] EXCEPT !.pc = "schedule", !.job = j]]
<1>1. status \in [Jobs -> JobStatus] /\ chunk \in [Jobs -> [Indexes -> ChunkStatus]]
  BY DEF JInv, TypeOK, RowsOK
<1>2. CASE UNCHANGED rows
  BY <1>2 DEF rows
<1>3. ASSUME NEW k \in Jobs, status[k] \in {"complete", "unavailable"},
             status' = [status EXCEPT ![k] = "unavailable"], UNCHANGED <<src, chunk>>
      PROVE  /\ status[j] # "absent" => status'[j] # "absent"
             /\ status'[j] = "absent" => status[j] = "absent" /\ chunk'[j] = chunk[j]
             /\ status[j] \in {"complete", "unavailable"} =>
                   status'[j] \in {"complete", "unavailable"}
             /\ status'[j] \in Active => status[j] \in Active
  BY <1>1, <1>3 DEF Active, Running
<1>4. ASSUME NEW k \in Jobs, status[k] = "absent", status' = [status EXCEPT ![k] = "pending"],
             chunk' = [chunk EXCEPT ![k] = [i \in Indexes |-> "pending"]]
      PROVE  /\ status[j] # "absent" => status'[j] # "absent"
             /\ status'[j] = "absent" => status[j] = "absent" /\ chunk'[j] = chunk[j]
             /\ status[j] \in {"complete", "unavailable"} =>
                   status'[j] \in {"complete", "unavailable"}
             /\ status'[j] \in Active => status[j] \in Active \/ j = k
  BY <1>1, <1>4 DEF Active, Running
<1> QED
  BY <1>2, <1>3, <1>4, ClientFrame

LEMMA EnqueueKnown ==
    ASSUME queue \in Seq(Jobs), NEW j \in Jobs, Enqueue(j), status' = status,
           status[j] # "absent", \A k \in 1 .. Len(queue) : status[queue[k]] # "absent"
    PROVE  \A k \in 1 .. Len(queue') : status'[queue'[k]] # "absent"
BY DEF Enqueue

LEMMA ClientsKeepReferences ==
    ASSUME JInv, NEW c \in Clients, BeginStart(c) \/ BeginSnapshot(c) \/ ClientStep(c)
    PROVE  ReferenceInv' /\ NoLostJob'
<1>0. \A j \in Jobs :
         /\ status[j] # "absent" => status'[j] # "absent"
         /\ status'[j] = "absent" => status[j] = "absent" /\ chunk'[j] = chunk[j]
         /\ status[j] \in {"complete", "unavailable"} =>
               status'[j] \in {"complete", "unavailable"}
         /\ status'[j] \in Active => \/ status[j] \in Active
                                     \/ client' = [client EXCEPT ![c] =
                                           [client[c] EXCEPT !.pc = "schedule", !.job = j]]
  BY ClientStatuses
<1> USE DEF JInv, TypeOK, RowsOK, RunnerOK, RequestsOK
<1>1. \A j \in Jobs : status'[j] = "absent" => \A i \in Indexes : chunk'[j][i] = "pending"
  <2>1. \A j \in Jobs : status[j] = "absent" => \A i \in Indexes : chunk[j][i] = "pending"
    BY DEF ReferenceInv
  <2> QED
    BY ONLY <1>0, <2>1
<1>2. \A k \in 1 .. Len(queue') : status'[queue'[k]] # "absent"
  <2>1. CASE FindActive(c)
    BY <2>1, EnqueueKnown DEF FindActive, ActiveFor, Active, Running, ReferenceInv, rows
  <2>2. CASE Schedule(c)
    BY <2>2, EnqueueKnown DEF Schedule, ReferenceInv, rows
  <2>3. CASE ~FindActive(c) /\ ~Schedule(c)
    <3>1. queue' = queue
      BY <2>3 DEF BeginStart, BeginSnapshot, ClientStep, Resolve, Compare, Repair,
         FindActive, ProbeFails, Create, Schedule, runner
    <3>2. \A k \in 1 .. Len(queue) : queue[k] \in Jobs /\ status[queue[k]] # "absent"
      BY DEF ReferenceInv
    <3> QED
      BY <3>1, <3>2, <1>0
  <2> QED
    BY <2>1, <2>2, <2>3
<1>3. \A d \in Clients :
          /\ client'[d].pc = "schedule" => status'[client'[d].job] # "absent"
          /\ client'[d].pc \in {"compare", "repair"} =>
                status'[client'[d].job] \in {"complete", "unavailable"}
  <2> TAKE d \in Clients
  <2>1. CASE d # c
    <3>1. client'[d] = client[d]
      BY <2>1 DEF BeginStart, BeginSnapshot, ClientStep, Resolve, Compare, Repair,
         FindActive, ProbeFails, Create, Schedule
    <3>2. /\ client[d].pc = "schedule" => client[d].job \in Jobs /\ status[client[d].job] # "absent"
          /\ client[d].pc \in {"compare", "repair"} =>
                client[d].job \in Jobs /\ status[client[d].job] \in {"complete", "unavailable"}
      BY DEF ReferenceInv
    <3> QED
      BY ONLY <3>1, <3>2, <1>0
  <2>2. CASE d = c
    <3>1. After(c, "active").pc \notin {"compare", "repair", "schedule"}
      BY IdleRecords DEF After, Requests
    <3>2. CASE Resolve(c)
      <4>1. CASE CompleteFor(client[c].src) = {}
        BY <2>2, <3>1, <3>2, <4>1 DEF Resolve
      <4>2. CASE CompleteFor(client[c].src) # {}
        <5>1. PICK j \in CompleteFor(client[c].src) :
                 client' = [client EXCEPT ![c] = [client[c] EXCEPT !.pc = "compare", !.job = j]]
          BY <3>2, <4>2 DEF Resolve
        <5> QED
          BY <2>2, <3>2, <5>1 DEF Resolve, CompleteFor, rows, Requests
      <4> QED
        BY <4>1, <4>2
    <3>4. CASE Repair(c)
      BY <2>2, <3>1, <3>4 DEF Repair
    <3>5. CASE Create(c)
      <4>1. CASE ActiveFor(client[c].src) # {}
        BY <2>2, <3>5, <4>1, IdleRecords DEF Create
      <4>2. CASE ActiveFor(client[c].src) = {}
        <5>1. PICK j \in Jobs :
                 /\ status' = [status EXCEPT ![j] = "pending"]
                 /\ client' = [client EXCEPT ![c] =
                       [client[c] EXCEPT !.pc = "schedule", !.job = j]]
          BY <3>5, <4>2 DEF Create
        <5> QED
          BY <2>2, <5>1 DEF Requests
      <4> QED
        BY <4>1, <4>2
    <3>3. CASE Compare(c)
      BY <2>2, <3>3, IdleRecords DEF Compare, ReferenceInv, rows, Requests
    <3> QED
      BY <2>2, <3>2, <3>3, <3>4, <3>5, IdleRecords DEF BeginStart, BeginSnapshot, ClientStep,
         FindActive,
         ProbeFails, Schedule, Requests
  <2> QED
    BY <2>1, <2>2
<1>4. NoLostJob'
  <2> SUFFICES ASSUME crashes = 0, NEW j \in Jobs, status'[j] \in Active
               PROVE  \/ j \in scheduled'
                      \/ \E d \in Clients : client'[d].pc = "schedule" /\ client'[d].job = j
    BY ClientFrame DEF NoLostJob, bounds
  <2>1. CASE status[j] \in Active /\ j \in scheduled
    BY <2>1, ClientFrame
  <2>2. CASE status[j] \in Active /\ j \notin scheduled
    <3>1. PICK d \in Clients : client[d].pc = "schedule" /\ client[d].job = j
      BY <2>2 DEF NoLostJob
    <3>2. CASE d # c
      <4>1. client'[d] = client[d]
        BY <3>2 DEF BeginStart, BeginSnapshot, ClientStep, Resolve, Compare, Repair,
           FindActive, ProbeFails, Create, Schedule
      <4> QED
        BY <3>1, <4>1
    <3>3. CASE d = c
      <4>1. Schedule(c)
        BY <3>1, <3>3 DEF BeginStart, BeginSnapshot, ClientStep, Resolve, Compare,
           Repair, FindActive, ProbeFails, Create, Schedule
      <4> QED
        BY <3>1, <3>3, <4>1 DEF Schedule, Enqueue
    <3> QED
      BY <3>2, <3>3
  <2>3. CASE status[j] \notin Active
    <3>0. client' = [client EXCEPT ![c] = [client[c] EXCEPT !.pc = "schedule", !.job = j]]
      BY ONLY <2>3, <1>0, status'[j] \in Active, j \in Jobs
    <3>1. client'[c].pc = "schedule" /\ client'[c].job = j
      BY <3>0 DEF Requests
    <3> QED
      BY <3>1
  <2> QED
    BY <2>1, <2>2, <2>3
<1> QED
  BY <1>1, <1>2, <1>3, <1>4 DEF ReferenceInv

\* A cancel request moves a pending job to canceled or a running one to
\* cancel_requested, or changes no row.
LEMMA CancelersKeep ==
    ASSUME JInv, NEW x \in Cancelers, CancelStep(x) \/ \E j \in Jobs : OpenCancel(x, j)
    PROVE  JInv'
<1>1. UNCHANGED <<src, chunk, files, published, runner, client, bounds>>
  BY DEF CancelStep, ActOnCancel, RereadForCancel, OpenCancel, rows
<1>2. TypeOK'
  BY CancelersTyped DEF JInv
<1>3. CASE UNCHANGED status
  BY <1>1, <1>2, <1>3 DEF JInv, ReferenceInv, StatusInv, ChunkInv, PublishInv,
     FinalizingKeepsChunks, CompleteIsPublished, NoLostJob, files, published, runner, bounds
<1>4. CASE status' # status
  <2>1. PICK j \in Jobs : \/ status[j] = "pending" /\ status' = [status EXCEPT ![j] = "canceled"]
                          \/ /\ status[j] = "running"
                             /\ status' = [status EXCEPT ![j] = "cancel_requested"]
    BY <1>4 DEF CancelStep, ActOnCancel, RereadForCancel, OpenCancel, Hit, Miss, rows, JInv,
       TypeOK, RequestsOK, Cancels
  <2>2. /\ status \in [Jobs -> JobStatus]
        /\ run.pc # "idle" => run.job \in Jobs
        /\ run \in Runs
        /\ UNCHANGED <<chunk, queue, scheduled, run, client, file, spans, intents, reconcile,
                      exported, crashes>>
    BY <1>1 DEF JInv, TypeOK, RowsOK, RunnerOK, files, published, runner, bounds
  <2>3. ReferenceInv'
    <3>1. /\ \A k \in 1 .. Len(queue) : queue[k] \in Jobs
          /\ \A c \in Clients :
                client[c].pc \in {"schedule", "compare", "repair"} => client[c].job \in Jobs
      BY DEF JInv, TypeOK, RunnerOK, RequestsOK
    <3> QED
      BY <2>1, <2>2, <3>1 DEF JInv, ReferenceInv
  <2>4. StatusInv'
    BY <2>1, <2>2 DEF JInv, StatusInv, Ended, Running, Runs, Working, CommitPcs
  <2>5. ChunkInv' /\ PublishInv'
    BY <2>2 DEF JInv, ChunkInv, PublishInv
  <2>6. FinalizingKeepsChunks' /\ CompleteIsPublished'
    BY <2>1, <2>2 DEF JInv, FinalizingKeepsChunks, CompleteIsPublished
  <2>7. NoLostJob'
    BY <2>1, <2>2 DEF JInv, NoLostJob, Active, Running
  <2> QED
    BY <1>2, <2>3, <2>4, <2>5, <2>6, <2>7 DEF JInv
<1> QED
  BY <1>3, <1>4

\* Neither an edit, nor the loss of the file, nor a crash touches the rows; after
\* a crash no run knows anything.
LEMMA EnvironmentKeeps ==
    ASSUME JInv, EditSource \/ SpoilOutput \/ Crash \/ UNCHANGED vars
    PROVE  JInv'
<1>1. TypeOK'
  <2>1. CASE EditSource
    BY <2>1, JobAssumption DEF EditSource, JInv, TypeOK, RowsOK, FilesOK, RunnerOK, RequestsOK,
       rows, published, runner
  <2>2. CASE SpoilOutput
    BY <2>2, JobAssumption DEF SpoilOutput, JInv, TypeOK, RowsOK, FilesOK, RunnerOK,
       RequestsOK, rows, published, runner
  <2>3. CASE Crash
    BY <2>3, IdleRecords, JobAssumption DEF Crash, JInv, TypeOK, RowsOK, FilesOK, RunnerOK,
       RequestsOK, rows, files, published
  <2>4. CASE UNCHANGED vars
    BY <2>4 DEF vars, JInv, TypeOK, RowsOK, FilesOK, RunnerOK, RequestsOK, rows, files,
       published, runner, bounds
  <2> QED
    BY <2>1, <2>2, <2>3, <2>4
<1>2. UNCHANGED <<rows, published>> /\ file' \in {file, None}
  BY DEF EditSource, SpoilOutput, Crash, vars, files
<1>3. FinalizingKeepsChunks' /\ CompleteIsPublished'
  BY <1>2, JobAssumption DEF JInv, FinalizingKeepsChunks, CompleteIsPublished, rows, published
<1>4. ReferenceInv' /\ StatusInv' /\ ChunkInv' /\ PublishInv' /\ NoLostJob'
  <2>1. CASE Crash
    <3>1. crashes \in Nat
      BY JobAssumption DEF JInv, TypeOK
    <3> QED
      BY <1>2, <2>1, <3>1, IdleRecords DEF Crash, JInv, ReferenceInv, StatusInv, ChunkInv,
         PublishInv, NoLostJob, Working, CommitPcs, rows, published
  <2>2. CASE ~Crash
    <3>1. UNCHANGED <<runner, client, crashes>>
      BY <2>2 DEF EditSource, SpoilOutput, vars, bounds
    <3> QED
      BY <1>2, <3>1 DEF JInv, ReferenceInv, StatusInv, ChunkInv, PublishInv, NoLostJob, rows,
         published, runner
  <2> QED
    BY <2>1, <2>2
<1> QED
  BY <1>1, <1>3, <1>4 DEF JInv

\* The head of the chain is a job that exists.
LEMMA TakenJob ==
    ASSUME JInv, TakeJob
    PROVE  /\ Head(queue) \in Jobs /\ status[Head(queue)] # "absent"
           /\ run'.job = Head(queue) /\ run'.at = 1
           /\ run'.pc \in {"cancel", "load", "claim"}
<1>1. queue \in Seq(Jobs) /\ queue # <<>> /\ queue[1] = Head(queue) /\ 1 \in 1 .. Len(queue)
  BY DEF TakeJob, JInv, TypeOK, RunnerOK
<1> QED
  BY <1>1, IdleRecords DEF TakeJob, JInv, ReferenceInv, IdleRun, Runs

\* Every status a run expects when it writes is the one StatusInv gives it.
LEMMA RunKeepsStatus ==
    ASSUME JInv, RunStep
    PROVE  StatusInv'
<1>0. /\ status \in [Jobs -> JobStatus]
      /\ chunk \in [Jobs -> [Indexes -> ChunkStatus]]
      /\ run \in Runs
      /\ run.pc # "idle" => run.job \in Jobs
      /\ StatusInv /\ ChunkInv /\ PublishInv /\ FinalizingKeepsChunks
      /\ CompleteIsPublished
  BY DEF JInv, TypeOK, RowsOK, RunnerOK
<1>1. CASE TakeJob
  <2>1. status[Head(queue)] \in JobStatus /\ IdleRun \in Runs /\ UNCHANGED status
    BY <1>0, <1>1, TakenJob, IdleRecords DEF TakeJob, rows
  <2> QED
    BY <1>0, <1>1, <2>1, TakenJob DEF TakeJob, StatusInv, Working, CommitPcs, Running,
       Active, Ended, JobStatus, CancelRequested, Runs
<1>2. CASE Claim
  BY <1>0, <1>2 DEF Claim, Goto, Hit, Miss, rows, StatusInv, ChunkInv, Working, Running,
     Ended, CancelRequested, Indexes, Runs, RunPcs, CommitPcs
<1>3. CASE Load
  BY <1>0, <1>3 DEF Load, Goto, Hit, Miss, rows, StatusInv, ChunkInv, Working, Running,
     Ended, CancelRequested, Indexes, Runs, RunPcs, CommitPcs
<1>4. CASE LoadFails
  BY <1>0, <1>4 DEF LoadFails, Goto, Hit, Miss, rows, StatusInv, ChunkInv, Working, Running,
     Ended, CancelRequested, Indexes, Runs, RunPcs, CommitPcs
<1>5. CASE MarkStale
  BY <1>0, <1>5 DEF MarkStale, Goto, Hit, Miss, rows, StatusInv, ChunkInv, Working, Running,
     Ended, CancelRequested, Indexes, Runs, RunPcs, CommitPcs
<1>6. CASE ChunkCanceled
  BY <1>0, <1>6 DEF ChunkCanceled, Goto, Hit, Miss, rows, StatusInv, ChunkInv, Working,
     Running, Ended, CancelRequested, Indexes, Runs, RunPcs, CommitPcs
<1>7. CASE SkipChunk
  BY <1>0, <1>7 DEF SkipChunk, Goto, Hit, Miss, rows, StatusInv, ChunkInv, Working, Running,
     Ended, CancelRequested, Indexes, Runs, RunPcs, CommitPcs
<1>8. CASE BeginAttempt
  BY <1>0, <1>8 DEF BeginAttempt, Goto, Hit, Miss, rows, StatusInv, ChunkInv, Working,
     Running, Ended, CancelRequested, Indexes, Runs, RunPcs, CommitPcs
<1>9. CASE AttemptCanceled
  BY <1>0, <1>9 DEF AttemptCanceled, Goto, Hit, Miss, rows, StatusInv, ChunkInv, Working,
     Running, Ended, CancelRequested, Indexes, Runs, RunPcs, CommitPcs
<1>10. CASE Answered
  BY <1>0, <1>10 DEF Answered, Goto, Hit, Miss, rows, StatusInv, ChunkInv, Working, Running,
     Ended, CancelRequested, Indexes, Runs, RunPcs, CommitPcs
<1>11. CASE StoreChunk
  BY <1>0, <1>11 DEF StoreChunk, Goto, Hit, Miss, rows, StatusInv, ChunkInv, Working,
     Running, Ended, CancelRequested, Indexes, Runs, RunPcs, CommitPcs
<1>12. CASE Retry
  BY <1>0, <1>12 DEF Retry, Goto, Hit, Miss, rows, StatusInv, ChunkInv, Working, Running,
     Ended, CancelRequested, Indexes, Runs, RunPcs, CommitPcs
<1>13. CASE GiveUpChunk
  BY <1>0, <1>13 DEF GiveUpChunk, Goto, Hit, Miss, rows, StatusInv, ChunkInv, Working,
     Running, Ended, CancelRequested, Indexes, Runs, RunPcs, CommitPcs
<1>14. CASE ChunksDone
  BY <1>0, <1>14 DEF ChunksDone, Goto, Hit, Miss, rows, StatusInv, ChunkInv, Working,
     Running, Ended, CancelRequested, Indexes, Runs, RunPcs, CommitPcs
<1>15. CASE StartStitching
  <2>1. CASE status[run.job] = "running"
    <3>1. /\ status'[run.job] = "stitching" /\ run'.job = run.job
          /\ run'.pc = "toCommit" /\ run'.active = "stitching"
      BY <1>0, <1>15, <2>1 DEF StartStitching, Hit, Miss, Runs
    <3> QED
      BY <3>1 DEF StatusInv, Working, CommitPcs
  <2>2. CASE status[run.job] # "running"
    <3>1. /\ status'[run.job] = "cancel_requested" /\ run'.job = run.job
          /\ run'.pc = "recheck"
      BY <1>0, <1>15, <2>2 DEF StartStitching, Hit, Miss, Goto, Runs, StatusInv, Working
    <3> QED
      BY <3>1 DEF StatusInv, Working, CommitPcs
  <2> QED
    BY <2>1, <2>2
<1>16. CASE StartCommitting
  <2>1. CASE status[run.job] = "stitching"
    <3>1. /\ status'[run.job] = "committing" /\ run'.job = run.job
          /\ run'.pc = "reload" /\ run'.active = "committing"
      BY <1>0, <1>16, <2>1 DEF StartCommitting, Hit, Miss, Runs
    <3> QED
      BY <3>1 DEF StatusInv, Working, CommitPcs
  <2>2. CASE status[run.job] # "stitching"
    <3>1. /\ status'[run.job] = "cancel_requested" /\ run'.job = run.job
          /\ run'.pc = "recheck"
      BY <1>0, <1>16, <2>2 DEF StartCommitting, Hit, Miss, Goto, Runs, StatusInv, Working
    <3> QED
      BY <3>1 DEF StatusInv, Working, CommitPcs
  <2> QED
    BY <2>1, <2>2
<1>17. CASE Reload
  BY <1>0, <1>17 DEF Reload, Goto, Hit, Miss, rows, StatusInv, ChunkInv, Working, Running,
     Ended, CancelRequested, Indexes, Runs, RunPcs, CommitPcs
<1>18. CASE CommitStale
  BY <1>0, <1>18 DEF CommitStale, Goto, Hit, Miss, rows, StatusInv, ChunkInv, Working,
     Running, Ended, CancelRequested, Indexes, Runs, RunPcs, CommitPcs
<1>19. CASE PersistIntent
  BY <1>0, <1>19 DEF PersistIntent, Goto, Hit, Miss, rows, StatusInv, ChunkInv, Working,
     Running, Ended, CancelRequested, Indexes, Runs, RunPcs, CommitPcs
<1>20. CASE WriteOutput
  BY <1>0, <1>20 DEF WriteOutput, Goto, Hit, Miss, rows, StatusInv, ChunkInv, Working,
     Running, Ended, CancelRequested, Indexes, Runs, RunPcs, CommitPcs
<1>21. CASE ReplaceSpans
  BY <1>0, <1>21 DEF ReplaceSpans, Goto, Hit, Miss, rows, StatusInv, ChunkInv, Working,
     Running, Ended, CancelRequested, Indexes, Runs, RunPcs, CommitPcs
<1>22. CASE PersistReconciliation
  BY <1>0, <1>22 DEF PersistReconciliation, Goto, Hit, Miss, rows, StatusInv, ChunkInv,
     Working, Running, Ended, CancelRequested, Indexes, Runs, RunPcs, CommitPcs
<1>23. CASE Complete
  BY <1>0, <1>23 DEF Complete, Goto, Hit, Miss, rows, StatusInv, ChunkInv, Working, Running,
     Ended, CancelRequested, Indexes, Runs, RunPcs, CommitPcs
<1>24. CASE CommitFails
  BY <1>0, <1>24 DEF CommitFails, Goto, Hit, Miss, rows, StatusInv, ChunkInv, Working,
     Running, Ended, CancelRequested, Indexes, Runs, RunPcs, CommitPcs
<1>25. CASE Export
  BY <1>0, <1>25 DEF Export, Goto, Hit, Miss, rows, StatusInv, ChunkInv, Working, Running,
     Ended, CancelRequested, Indexes, Runs, RunPcs, CommitPcs
<1>26. CASE Purge
  BY <1>0, <1>26 DEF Purge, Goto, Hit, Miss, rows, StatusInv, ChunkInv, Working, Running,
     Ended, CancelRequested, Indexes, Runs, RunPcs, CommitPcs
<1>27. CASE FailJob
  BY <1>0, <1>27 DEF FailJob, Goto, Hit, Miss, rows, StatusInv, ChunkInv, Working, Running,
     Ended, CancelRequested, Indexes, Runs, RunPcs, CommitPcs
<1>28. CASE MarkFailed
  BY <1>0, <1>28 DEF MarkFailed, Goto, Hit, Miss, rows, StatusInv, ChunkInv, Working,
     Running, Ended, CancelRequested, Indexes, Runs, RunPcs, CommitPcs
<1>29. CASE Recheck
  BY <1>0, <1>29 DEF Recheck, Goto, Hit, Miss, rows, StatusInv, ChunkInv, Working, Running,
     Ended, CancelRequested, Indexes, Runs, RunPcs, CommitPcs
<1>30. CASE CancelJob
  BY <1>0, <1>30 DEF CancelJob, Goto, Hit, Miss, rows, StatusInv, ChunkInv, Working,
     Running, Ended, CancelRequested, Indexes, Runs, RunPcs, CommitPcs
<1>31. CASE Finish
  BY <1>31, IdleRecords DEF Finish, StatusInv, Working, CommitPcs
<1> QED
  BY <1>1, <1>2, <1>3, <1>4, <1>5, <1>6, <1>7, <1>8, <1>9, <1>10, <1>11, <1>12, <1>13,
     <1>14, <1>15, <1>16, <1>17, <1>18, <1>19, <1>20, <1>21, <1>22, <1>23, <1>24, <1>25,
     <1>26, <1>27, <1>28, <1>29, <1>30, <1>31 DEF RunStep

LEMMA RunKeepsChunks ==
    ASSUME JInv, RunStep
    PROVE  ChunkInv'
<1>0. /\ status \in [Jobs -> JobStatus]
      /\ chunk \in [Jobs -> [Indexes -> ChunkStatus]]
      /\ run \in Runs
      /\ run.pc # "idle" => run.job \in Jobs
      /\ StatusInv /\ ChunkInv /\ PublishInv /\ FinalizingKeepsChunks
      /\ CompleteIsPublished
  BY DEF JInv, TypeOK, RowsOK, RunnerOK
<1>1. CASE TakeJob
  BY <1>1, TakenJob DEF ChunkInv
<1>2. CASE Finish
  BY <1>2, IdleRecords DEF Finish, ChunkInv
<1>3. CASE Claim \/ Load
  BY <1>0, <1>3 DEF Claim, Load, Goto, SetChunk, rows, ChunkInv, Indexes, Runs, RunPcs,
     CommitPcs
<1>4. CASE SkipChunk
  BY <1>0, <1>4 DEF SkipChunk, Goto, SetChunk, rows, ChunkInv, Indexes, Runs, RunPcs,
     CommitPcs
<1>5. CASE BeginAttempt
  BY <1>0, <1>5 DEF BeginAttempt, Goto, SetChunk, rows, ChunkInv, Indexes, Runs, RunPcs,
     CommitPcs
<1>6. CASE Answered
  BY <1>0, <1>6 DEF Answered, Goto, SetChunk, rows, ChunkInv, Indexes, Runs, RunPcs,
     CommitPcs
<1>7. CASE StoreChunk
  <2>1. /\ run'.pc = "chunk" /\ run'.at = run.at + 1 /\ run'.job = run.job
        /\ run.job \in Jobs /\ run.at \in Int
        /\ chunk' = [chunk EXCEPT ![run.job] = [chunk[run.job] EXCEPT ![run.at] = "complete"]]
    BY <1>0, <1>7 DEF StoreChunk, SetChunk, Runs
  <2>2. \A i \in Indexes : i < run.at => chunk[run.job][i] = "complete"
    BY <1>0, <1>7 DEF StoreChunk, ChunkInv
  <2>3. \A i \in Indexes : i < run.at + 1 => i < run.at \/ i = run.at
    BY <2>1 DEF Indexes
  <2>4. chunk'[run.job] = [chunk[run.job] EXCEPT ![run.at] = "complete"]
    BY <1>0, <2>1
  <2>5. \A i \in Indexes : i < run.at + 1 => chunk'[run.job][i] = "complete"
    BY <1>0, <2>1, <2>2, <2>3, <2>4
  <2> QED
    BY <2>1, <2>5 DEF ChunkInv
<1>8. CASE Retry \/ GiveUpChunk
  <2>1. /\ run'.pc \in {"attempt", "fail"} /\ run'.at = run.at /\ run'.job = run.job
        /\ run.job \in Jobs /\ run.at \in Indexes
    BY <1>0, <1>8 DEF Retry, GiveUpChunk, Goto, Runs, JInv, TypeOK, RunnerOK
  <2>2. \A i \in Indexes : i < run.at => chunk[run.job][i] = "complete"
    BY <1>0, <1>8 DEF Retry, GiveUpChunk, ChunkInv
  <2>3. PICK s \in {"retrying", "failed"} :
           chunk' = [chunk EXCEPT ![run.job] = [chunk[run.job] EXCEPT ![run.at] = s]]
    BY <1>8 DEF Retry, GiveUpChunk, SetChunk
  <2>4. chunk'[run.job] = [chunk[run.job] EXCEPT ![run.at] = s]
    BY <1>0, <2>1, <2>3
  <2>5. /\ \A i \in Indexes : i < run.at => i # run.at
        /\ chunk[run.job] \in [Indexes -> ChunkStatus]
    BY <1>0, <2>1 DEF Indexes
  <2>6. /\ \A i \in Indexes : i < run.at => chunk'[run.job][i] = "complete"
        /\ chunk'[run.job][run.at] # "complete"
    BY <2>1, <2>2, <2>4, <2>5
  <2> QED
    BY <2>1, <2>6 DEF ChunkInv
<1>9. CASE ChunksDone
  BY <1>0, <1>9 DEF ChunksDone, Goto, SetChunk, rows, ChunkInv, Indexes, Runs, RunPcs,
     CommitPcs
<1>10. CASE StartStitching \/ StartCommitting
  BY <1>0, <1>10 DEF StartStitching, StartCommitting, Goto, SetChunk, rows, ChunkInv,
     Indexes, Runs, RunPcs, CommitPcs
<1>11. CASE LoadFails \/ MarkStale \/ ChunkCanceled \/ AttemptCanceled \/ Reload \/
          CommitStale \/ PersistIntent \/ WriteOutput
  BY <1>0, <1>11 DEF LoadFails, MarkStale, ChunkCanceled, AttemptCanceled, Reload,
     CommitStale, PersistIntent, WriteOutput, Goto, SetChunk, rows, ChunkInv, Indexes, Runs,
     RunPcs, CommitPcs
<1>12. CASE ReplaceSpans \/ PersistReconciliation \/ Complete \/ CommitFails \/ Export \/
          Purge
  BY <1>0, <1>12 DEF ReplaceSpans, PersistReconciliation, Complete, CommitFails, Export,
     Purge, Goto, SetChunk, rows, ChunkInv, Indexes, Runs, RunPcs, CommitPcs
<1>13. CASE FailJob \/ MarkFailed \/ Recheck \/ CancelJob
  BY <1>0, <1>13 DEF FailJob, MarkFailed, Recheck, CancelJob, Goto, SetChunk, rows,
     ChunkInv, Indexes, Runs, RunPcs, CommitPcs
<1> QED
  BY <1>1, <1>2, <1>3, <1>4, <1>5, <1>6, <1>7, <1>8, <1>9, <1>10, <1>11, <1>12, <1>13 DEF
     RunStep

LEMMA RunKeepsPublication ==
    ASSUME JInv, RunStep
    PROVE  PublishInv' /\ CompleteIsPublished'
<1>0. /\ status \in [Jobs -> JobStatus]
      /\ chunk \in [Jobs -> [Indexes -> ChunkStatus]]
      /\ run \in Runs
      /\ run.pc # "idle" => run.job \in Jobs
      /\ StatusInv /\ ChunkInv /\ PublishInv /\ FinalizingKeepsChunks
      /\ CompleteIsPublished
  BY DEF JInv, TypeOK, RowsOK, RunnerOK
<1>1. CASE PersistIntent
  BY <1>0, <1>1, JobAssumption DEF PersistIntent, Goto, Hit, Miss, rows, files, published,
     StatusInv, PublishInv, CompleteIsPublished, Working, Runs, RunPcs, CommitPcs
<1>2. CASE WriteOutput
  BY <1>0, <1>2, JobAssumption DEF WriteOutput, Goto, Hit, Miss, rows, files, published,
     StatusInv, PublishInv, CompleteIsPublished, Working, Runs, RunPcs, CommitPcs
<1>3. CASE ReplaceSpans
  BY <1>0, <1>3, JobAssumption DEF ReplaceSpans, Goto, Hit, Miss, rows, files, published,
     StatusInv, PublishInv, CompleteIsPublished, Working, Runs, RunPcs, CommitPcs
<1>4. CASE PersistReconciliation
  BY <1>0, <1>4, JobAssumption DEF PersistReconciliation, Goto, Hit, Miss, rows, files,
     published, StatusInv, PublishInv, CompleteIsPublished, Working, Runs, RunPcs, CommitPcs
<1>5. CASE Complete
  BY <1>0, <1>5, JobAssumption DEF Complete, Goto, Hit, Miss, rows, files, published,
     StatusInv, PublishInv, CompleteIsPublished, Working, Runs, RunPcs, CommitPcs
<1>6. CASE Export
  BY <1>0, <1>6, JobAssumption DEF Export, Goto, Hit, Miss, rows, files, published,
     StatusInv, PublishInv, CompleteIsPublished, Working, Runs, RunPcs, CommitPcs
<1>7. CASE TakeJob
  BY <1>0, <1>7, TakenJob DEF TakeJob, rows, files, published, PublishInv,
     CompleteIsPublished
<1>8. CASE Finish
  BY <1>0, <1>8, IdleRecords DEF Finish, rows, files, published, PublishInv,
     CompleteIsPublished
<1>9. CASE Claim \/ Load \/ LoadFails \/ MarkStale
  BY <1>0, <1>9 DEF Claim, Load, LoadFails, MarkStale, Goto, Hit, Miss, rows, files,
     published, PublishInv, CompleteIsPublished, Runs, RunPcs, CommitPcs
<1>10. CASE ChunkCanceled \/ SkipChunk \/ BeginAttempt \/ AttemptCanceled \/ Answered \/
          StoreChunk
  BY <1>0, <1>10 DEF ChunkCanceled, SkipChunk, BeginAttempt, AttemptCanceled, Answered,
     StoreChunk, Goto, Hit, Miss, rows, files, published, PublishInv, CompleteIsPublished,
     Runs, RunPcs, CommitPcs
<1>11. CASE Retry \/ GiveUpChunk \/ ChunksDone
  BY <1>0, <1>11 DEF Retry, GiveUpChunk, ChunksDone, Goto, Hit, Miss, rows, files,
     published, PublishInv, CompleteIsPublished, Runs, RunPcs, CommitPcs
<1>12. CASE StartStitching \/ StartCommitting \/ Reload \/ CommitStale
  BY <1>0, <1>12 DEF StartStitching, StartCommitting, Reload, CommitStale, Goto, Hit, Miss,
     rows, files, published, PublishInv, CompleteIsPublished, Runs, RunPcs, CommitPcs
<1>13. CASE CommitFails \/ Purge \/ FailJob
  BY <1>0, <1>13 DEF CommitFails, Purge, FailJob, Goto, Hit, Miss, rows, files, published,
     PublishInv, CompleteIsPublished, Runs, RunPcs, CommitPcs
<1>14. CASE MarkFailed \/ Recheck \/ CancelJob
  BY <1>0, <1>14 DEF MarkFailed, Recheck, CancelJob, Goto, Hit, Miss, rows, files,
     published, PublishInv, CompleteIsPublished, Runs, RunPcs, CommitPcs
<1> QED
  BY <1>1, <1>2, <1>3, <1>4, <1>5, <1>6, <1>7, <1>8, <1>9, <1>10, <1>11, <1>12, <1>13, <1>14
     DEF RunStep

LEMMA RunKeepsFinalizing ==
    ASSUME JInv, RunStep
    PROVE  FinalizingKeepsChunks'
<1>0. /\ status \in [Jobs -> JobStatus]
      /\ chunk \in [Jobs -> [Indexes -> ChunkStatus]]
      /\ run \in Runs
      /\ run.pc # "idle" => run.job \in Jobs
      /\ StatusInv /\ ChunkInv /\ PublishInv /\ FinalizingKeepsChunks
      /\ CompleteIsPublished
  BY DEF JInv, TypeOK, RowsOK, RunnerOK
<1>1. CASE Claim \/ MarkStale \/ CommitStale
  BY <1>0, <1>1 DEF Claim, MarkStale, CommitStale, Goto, Hit, Miss, SetChunk, rows,
     StatusInv, ChunkInv, FinalizingKeepsChunks, Working, Running, Indexes, Runs, RunPcs,
     CommitPcs
<1>2. CASE MarkFailed \/ CancelJob
  BY <1>0, <1>2 DEF MarkFailed, CancelJob, Goto, Hit, Miss, SetChunk, rows, StatusInv,
     ChunkInv, FinalizingKeepsChunks, Working, Running, Indexes, Runs, RunPcs, CommitPcs
<1>3. CASE StartStitching
  <2>1. /\ \A i \in Indexes : chunk[run.job][i] = "complete"
        /\ status[run.job] # "complete" /\ status[run.job] # "unavailable"
    BY <1>0, <1>3, JobAssumption DEF StartStitching, ChunkInv, StatusInv, Working, Indexes
  <2> QED
    BY <1>0, <1>3, <2>1 DEF StartStitching, Hit, Miss, FinalizingKeepsChunks
<1>4. CASE StartCommitting
  BY <1>0, <1>4 DEF StartCommitting, Goto, Hit, Miss, SetChunk, rows, StatusInv, ChunkInv,
     FinalizingKeepsChunks, Working, Running, Indexes, Runs, RunPcs, CommitPcs
<1>5. CASE Complete
  BY <1>0, <1>5 DEF Complete, Goto, Hit, Miss, SetChunk, rows, StatusInv, ChunkInv,
     FinalizingKeepsChunks, Working, Running, Indexes, Runs, RunPcs, CommitPcs
<1>6. CASE BeginAttempt
  BY <1>0, <1>6 DEF BeginAttempt, Goto, Hit, Miss, SetChunk, rows, StatusInv, ChunkInv,
     FinalizingKeepsChunks, Working, Running, Indexes, Runs, RunPcs, CommitPcs
<1>7. CASE Answered
  BY <1>0, <1>7 DEF Answered, Goto, Hit, Miss, SetChunk, rows, StatusInv, ChunkInv,
     FinalizingKeepsChunks, Working, Running, Indexes, Runs, RunPcs, CommitPcs
<1>8. CASE StoreChunk
  BY <1>0, <1>8 DEF StoreChunk, Goto, Hit, Miss, SetChunk, rows, StatusInv, ChunkInv,
     FinalizingKeepsChunks, Working, Running, Indexes, Runs, RunPcs, CommitPcs
<1>9. CASE Retry
  BY <1>0, <1>9 DEF Retry, Goto, Hit, Miss, SetChunk, rows, StatusInv, ChunkInv,
     FinalizingKeepsChunks, Working, Running, Indexes, Runs, RunPcs, CommitPcs
<1>10. CASE GiveUpChunk
  BY <1>0, <1>10 DEF GiveUpChunk, Goto, Hit, Miss, SetChunk, rows, StatusInv, ChunkInv,
     FinalizingKeepsChunks, Working, Running, Indexes, Runs, RunPcs, CommitPcs
<1>11. CASE Purge
  <2>1. CASE UNCHANGED chunk
    BY <1>0, <1>11, <2>1 DEF Purge, FinalizingKeepsChunks
  <2>2. CASE chunk' = [chunk EXCEPT ![run.job] =
               [i \in Indexes |-> IF chunk[run.job][i] = "complete" THEN "purged"
                                  ELSE chunk[run.job][i]]]
    <3>1. run.job \in Jobs /\ status[run.job] \in {"complete", "unavailable"} /\ UNCHANGED status
      BY <1>0, <1>11 DEF Purge, StatusInv
    <3> QED
      BY <1>0, <2>2, <3>1 DEF FinalizingKeepsChunks
  <2> QED
    BY <1>11, <2>1, <2>2 DEF Purge
<1>12. CASE UNCHANGED <<status, chunk>>
  BY <1>0, <1>12 DEF FinalizingKeepsChunks
<1> QED
  BY <1>1, <1>2, <1>3, <1>4, <1>5, <1>6, <1>7, <1>8, <1>9, <1>10, <1>11, <1>12 DEF RunStep,
     TakeJob, Load, LoadFails, ChunkCanceled, SkipChunk, AttemptCanceled, ChunksDone,
     Reload, PersistIntent, WriteOutput, ReplaceSpans, PersistReconciliation, CommitFails,
     Export, FailJob, Recheck, Finish, rows

\* A run begins with a job that exists, and ends with one that has ended.
LEMMA RunKeepsReferences ==
    ASSUME JInv, RunStep
    PROVE  ReferenceInv' /\ NoLostJob'
<1>0. /\ status \in [Jobs -> JobStatus]
      /\ chunk \in [Jobs -> [Indexes -> ChunkStatus]]
      /\ run \in Runs
      /\ run.pc # "idle" => run.job \in Jobs
      /\ StatusInv /\ ChunkInv /\ PublishInv /\ FinalizingKeepsChunks
      /\ CompleteIsPublished
  BY DEF JInv, TypeOK, RowsOK, RunnerOK
<1>1. UNCHANGED <<client, crashes>> /\ scheduled' \in {scheduled, scheduled \ {run.job}}
  BY DEF RunStep, TakeJob, Claim, Load, LoadFails, MarkStale, ChunkCanceled, SkipChunk,
     BeginAttempt, AttemptCanceled, Answered, StoreChunk, Retry, GiveUpChunk, ChunksDone,
     StartStitching, StartCommitting, Reload, CommitStale, PersistIntent, WriteOutput,
     ReplaceSpans, PersistReconciliation, Complete, CommitFails, Export, Purge, FailJob,
     MarkFailed, Recheck, CancelJob, Finish, bounds
<1>2. \A j \in Jobs : /\ status[j] # "absent" => status'[j] # "absent"
                      /\ status'[j] = "absent" => status[j] = "absent" /\ chunk'[j] = chunk[j]
                      /\ status[j] \in {"complete", "unavailable"} => status'[j] = status[j]
                      /\ status'[j] \in Active => status[j] \in Active
  <2>1. CASE Claim \/ MarkStale \/ CommitStale
    BY <1>0, <2>1 DEF Claim, MarkStale, CommitStale, Hit, Miss, SetChunk, rows, StatusInv,
       Working, Running, Active, CommitPcs, Ended, Runs
  <2>2. CASE MarkFailed \/ CancelJob
    BY <1>0, <2>2 DEF MarkFailed, CancelJob, Hit, Miss, SetChunk, rows, StatusInv, Working,
       Running, Active, CommitPcs, Ended, Runs
  <2>3. CASE StartStitching \/ StartCommitting
    BY <1>0, <2>3 DEF StartStitching, StartCommitting, Hit, Miss, SetChunk, rows, StatusInv,
       Working, Running, Active, CommitPcs, Ended, Runs
  <2>4. CASE Complete
    BY <1>0, <2>4 DEF Complete, Hit, Miss, SetChunk, rows, StatusInv, Working, Running,
       Active, CommitPcs, Ended, Runs
  <2>5. CASE BeginAttempt \/ Answered \/ StoreChunk
    BY <1>0, <2>5 DEF BeginAttempt, Answered, StoreChunk, Hit, Miss, SetChunk, rows,
       StatusInv, Working, Running, Active, CommitPcs, Ended, Runs
  <2>6. CASE Retry \/ GiveUpChunk
    BY <1>0, <2>6 DEF Retry, GiveUpChunk, Hit, Miss, SetChunk, rows, StatusInv, Working,
       Running, Active, CommitPcs, Ended, Runs
  <2>7. CASE Purge
    BY <1>0, <2>7 DEF Purge, Hit, Miss, SetChunk, rows, StatusInv, Working, Running, Active,
       CommitPcs, Ended, Runs
  <2>8. CASE UNCHANGED <<status, chunk>>
    BY <2>8
  <2> QED
    BY <2>1, <2>2, <2>3, <2>4, <2>5, <2>6, <2>7, <2>8 DEF RunStep, TakeJob, Load, LoadFails,
       ChunkCanceled, SkipChunk, AttemptCanceled, ChunksDone, Reload, PersistIntent,
       WriteOutput, ReplaceSpans, PersistReconciliation, CommitFails, Export, FailJob,
       Recheck, Finish, rows
<1>3. \A k \in 1 .. Len(queue') : status'[queue'[k]] # "absent"
  <2>1. queue \in Seq(Jobs) /\ \A k \in 1 .. Len(queue) : status[queue[k]] # "absent"
    BY DEF JInv, TypeOK, RunnerOK, ReferenceInv
  <2>2. CASE TakeJob
    <3>1. queue # <<>> /\ queue' = Tail(queue)
      BY <2>2 DEF TakeJob
    <3>2. \A k \in 1 .. Len(queue') : /\ k + 1 \in 1 .. Len(queue)
                                     /\ queue'[k] = queue[k + 1] /\ queue'[k] \in Jobs
      BY <2>1, <3>1
    <3> QED
      BY <1>2, <2>1, <3>2
  <2>3. CASE queue' = queue
    <3>1. \A k \in 1 .. Len(queue) : queue[k] \in Jobs
      BY <2>1
    <3> QED
      BY <1>2, <2>1, <2>3, <3>1
  <2> QED
    BY <2>2, <2>3 DEF RunStep, Claim, Load, LoadFails, MarkStale, ChunkCanceled, SkipChunk,
       BeginAttempt, AttemptCanceled, Answered, StoreChunk, Retry, GiveUpChunk, ChunksDone,
       StartStitching, StartCommitting, Reload, CommitStale, PersistIntent, WriteOutput,
       ReplaceSpans, PersistReconciliation, Complete, CommitFails, Export, Purge, FailJob,
       MarkFailed, Recheck, CancelJob, Finish
<1>4. ReferenceInv'
  <2>1. \A j \in Jobs : status'[j] = "absent" => \A i \in Indexes : chunk'[j][i] = "pending"
    BY <1>2 DEF JInv, ReferenceInv
  <2>2. \A c \in Clients :
           client[c].pc \in {"schedule", "compare", "repair"} => client[c].job \in Jobs
    BY DEF JInv, TypeOK, RequestsOK
  <2>3. \A c \in Clients :
           /\ client'[c].pc = "schedule" => status'[client'[c].job] # "absent"
           /\ client'[c].pc \in {"compare", "repair"} =>
                 status'[client'[c].job] \in {"complete", "unavailable"}
    BY <1>1, <1>2, <2>2 DEF JInv, ReferenceInv
  <2> QED
    BY <1>3, <2>1, <2>3 DEF ReferenceInv
<1>5. NoLostJob'
  <2>1. CASE Finish
    <3>1. /\ run.job \in Jobs /\ status[run.job] \notin Active /\ UNCHANGED status
          /\ scheduled' = scheduled \ {run.job}
      BY <1>0, <2>1 DEF Finish, StatusInv, Ended, Active, Running, rows
    <3> QED
      BY <1>1, <3>1 DEF JInv, NoLostJob
  <2>2. CASE scheduled' = scheduled
    BY <1>1, <1>2, <2>2 DEF JInv, NoLostJob
  <2> QED
    BY <2>1, <2>2 DEF RunStep, TakeJob, Claim, Load, LoadFails, MarkStale, ChunkCanceled,
       SkipChunk, BeginAttempt, AttemptCanceled, Answered, StoreChunk, Retry, GiveUpChunk,
       ChunksDone, StartStitching, StartCommitting, Reload, CommitStale, PersistIntent,
       WriteOutput, ReplaceSpans, PersistReconciliation, Complete, CommitFails, Export,
       Purge, FailJob, MarkFailed, Recheck, CancelJob
<1> QED
  BY <1>4, <1>5

LEMMA InvariantStep ==
    ASSUME JInv, [Next]_vars
    PROVE  JInv'
<1>1. CASE RunStep
  BY <1>1, RunTyped, RunKeepsStatus, RunKeepsChunks, RunKeepsPublication, RunKeepsFinalizing,
     RunKeepsReferences DEF JInv
<1>2. CASE \E c \in Clients : BeginStart(c) \/ BeginSnapshot(c) \/ ClientStep(c)
  BY <1>2, ClientsTyped, ClientsKeepRun, ClientsKeepReferences DEF JInv
<1>3. CASE \E x \in Cancelers : CancelStep(x) \/ \E j \in Jobs : OpenCancel(x, j)
  BY <1>3, CancelersKeep
<1>4. CASE EditSource \/ SpoilOutput \/ Crash \/ UNCHANGED vars
  BY <1>4, EnvironmentKeeps
<1> QED
  BY <1>1, <1>2, <1>3, <1>4 DEF Next


\* Every write of a status, with the status it expects.
StatusMoves ==
    {<<"absent", "pending">>, <<"pending", "running">>, <<"pending", "canceled">>,
     <<"running", "cancel_requested">>, <<"running", "stitching">>, <<"running", "stale">>,
     <<"running", "failed">>, <<"stitching", "committing">>, <<"stitching", "stale">>,
     <<"stitching", "failed">>, <<"committing", "complete">>, <<"committing", "stale">>,
     <<"committing", "failed">>, <<"cancel_requested", "canceled">>,
     <<"complete", "unavailable">>}

LEMMA MovesAreSuccessors ==
    ASSUME NEW a, NEW b, <<a, b>> \in StatusMoves
    PROVE  b \in Successors[a]
BY DEF StatusMoves, Successors

LEMMA StepMoves ==
    ASSUME JInv, [Next]_vars, NEW j \in Jobs, status'[j] # status[j]
    PROVE  <<status[j], status'[j]>> \in StatusMoves
<1>0. /\ status \in [Jobs -> JobStatus] /\ run \in Runs
      /\ run.pc # "idle" => run.job \in Jobs
      /\ StatusInv
  BY DEF JInv, TypeOK, RowsOK, RunnerOK
<1>1. CASE RunStep
  <2>1. CASE Claim \/ StartStitching \/ StartCommitting \/ CancelJob
    BY <1>0, <2>1 DEF Claim, StartStitching, StartCommitting, CancelJob, Hit, Miss, StatusMoves
  <2>2. CASE MarkStale \/ MarkFailed
    <3>1. run.active \in Running
      BY <1>0 DEF Runs
    <3> QED
      BY <1>0, <2>2, <3>1 DEF MarkStale, MarkFailed, Hit, Miss, Running, StatusMoves
  <2>3. CASE CommitStale \/ Complete
    BY <1>0, <2>3 DEF CommitStale, Complete, Hit, Miss, StatusMoves
  <2> QED
    BY <1>1, <2>1, <2>2, <2>3 DEF RunStep, TakeJob, Load, LoadFails, ChunkCanceled, SkipChunk,
       BeginAttempt, AttemptCanceled, Answered, StoreChunk, Retry, GiveUpChunk, ChunksDone,
       Reload, PersistIntent, WriteOutput, ReplaceSpans, PersistReconciliation, CommitFails,
       Export, Purge, FailJob, Recheck, Finish, rows
<1>2. CASE \E c \in Clients : BeginStart(c) \/ BeginSnapshot(c) \/ ClientStep(c)
  <2>1. PICK c \in Clients : BeginStart(c) \/ BeginSnapshot(c) \/ ClientStep(c)
    BY <1>2
  <2>2. ASSUME NEW k \in Jobs, status[k] \in {"complete", "unavailable"},
               status' = [status EXCEPT ![k] = "unavailable"]
        PROVE  <<status[j], status'[j]>> \in StatusMoves
    BY <1>0, <2>2 DEF StatusMoves
  <2>3. ASSUME NEW k \in Jobs, status[k] = "absent", status' = [status EXCEPT ![k] = "pending"]
        PROVE  <<status[j], status'[j]>> \in StatusMoves
    BY <1>0, <2>3 DEF StatusMoves
  <2> QED
    BY <2>1, <2>2, <2>3, ClientFrame DEF rows
<1>3. CASE \E x \in Cancelers : CancelStep(x) \/ \E k \in Jobs : OpenCancel(x, k)
  <2>1. PICK x \in Cancelers : CancelStep(x) \/ \E k \in Jobs : OpenCancel(x, k)
    BY <1>3
  <2>2. canceler[x].pc # "idle" => canceler[x].job \in Jobs
                                  /\ canceler[x].seen \in {"pending", "running"}
    BY DEF JInv, TypeOK, RequestsOK, Cancels
  <2> QED
    BY <1>0, <2>1, <2>2 DEF CancelStep, ActOnCancel, RereadForCancel, OpenCancel, Hit, Miss,
       rows, StatusMoves
<1> QED
  BY <1>1, <1>2, <1>3 DEF Next, EditSource, SpoilOutput, Crash, vars, rows

LEMMA StepKeepsTranslated ==
    ASSUME JInv, [Next]_vars, NEW j \in Jobs, NEW i \in Indexes, chunk[j][i] = "complete"
    PROVE  chunk'[j][i] \in {"complete", "purged"}
<1>0. /\ chunk \in [Jobs -> [Indexes -> ChunkStatus]] /\ run \in Runs
      /\ run.pc # "idle" => run.job \in Jobs
      /\ run.pc \in {"attempt", "turn", "validate"} => run.at \in Indexes
      /\ ChunkInv /\ ReferenceInv
  BY DEF JInv, TypeOK, RowsOK, RunnerOK
<1>1. CASE RunStep
  <2>1. ASSUME NEW s, run.job \in Jobs, run.at \in Indexes, SetChunk(run.job, run.at, s),
               chunk[run.job][run.at] # "complete"
        PROVE  chunk'[j][i] = "complete"
    BY <1>0, <2>1 DEF SetChunk
  <2>2. CASE BeginAttempt
    BY <1>0, <2>1, <2>2 DEF BeginAttempt, ChunkInv
  <2>3. CASE Answered \/ StoreChunk \/ Retry \/ GiveUpChunk
    BY <1>0, <2>1, <2>3 DEF Answered, StoreChunk, Retry, GiveUpChunk, ChunkInv
  <2>4. CASE Purge
    BY <1>0, <2>4 DEF Purge
  <2> QED
    BY <1>1, <2>2, <2>3, <2>4 DEF RunStep, TakeJob, Claim, Load, LoadFails, MarkStale,
       ChunkCanceled, SkipChunk, AttemptCanceled, ChunksDone, StartStitching, StartCommitting,
       Reload, CommitStale, PersistIntent, WriteOutput, ReplaceSpans, PersistReconciliation,
       Complete, CommitFails, Export, FailJob, MarkFailed, Recheck, CancelJob, Finish, rows
<1>2. CASE \E c \in Clients : BeginStart(c) \/ BeginSnapshot(c) \/ ClientStep(c)
  <2>1. PICK c \in Clients : BeginStart(c) \/ BeginSnapshot(c) \/ ClientStep(c)
    BY <1>2
  <2>2. ASSUME NEW k \in Jobs, status[k] = "absent",
               chunk' = [chunk EXCEPT ![k] = [n \in Indexes |-> "pending"]]
        PROVE  chunk'[j][i] = "complete"
    BY <1>0, <2>2 DEF ReferenceInv
  <2> QED
    BY <2>1, <2>2, ClientFrame DEF rows
<1>3. CASE \E x \in Cancelers : CancelStep(x) \/ \E k \in Jobs : OpenCancel(x, k)
  BY <1>3 DEF CancelStep, ActOnCancel, RereadForCancel, OpenCancel, rows
<1> QED
  BY <1>1, <1>2, <1>3 DEF Next, EditSource, SpoilOutput, Crash, vars, rows

-----------------------------------------------------------------------------
(* The theorems.                                                           *)

\* The inductive invariant holds.
THEOREM TranslationInvariant == Spec => []JInv
<1>1. Init => JInv
  BY InvariantInit
<1>2. JInv /\ [Next]_vars => JInv'
  BY InvariantStep
<1> QED
  BY <1>1, <1>2, PTL DEF Spec

\* Every variable stays in its type: no run works on a job that is not there and
\* no attempt is made beyond MaxRetries.
THEOREM TranslationTypeCorrect == Spec => []TypeOK
<1>1. JInv => TypeOK
  BY DEF JInv
<1> QED
  BY <1>1, TranslationInvariant, PTL

\* A job past its translation keeps its chunks; only completed jobs are purged
\* (commitTranslatedContent, purgeCompletedTranslationChunks).
THEOREM TranslationFinalizingKeepsChunks == Spec => []FinalizingKeepsChunks
<1>1. JInv => FinalizingKeepsChunks
  BY DEF JInv
<1> QED
  BY <1>1, TranslationInvariant, PTL

\* A complete job has its spans, its backup intent and its Flashback export or
\* the intent that replays it (commitTranslatedContent).
THEOREM TranslationCompleteIsPublished == Spec => []CompleteIsPublished
<1>1. JInv => CompleteIsPublished
  BY DEF JInv
<1> QED
  BY <1>1, TranslationInvariant, PTL

\* Without a crash an active job is on the chain of the runner or about to be
\* (startTranslationJob, runTranslationJob).
THEOREM TranslationNoLostJob == Spec => []NoLostJob
<1>1. JInv => NoLostJob
  BY DEF JInv
<1> QED
  BY <1>1, TranslationInvariant, PTL

\* A canceled job is never completed, failed or made stale by the run it raced,
\* and what has ended stays as it ended (transitionTranslationJobStatus).
THEOREM TranslationCancellationWins == Spec => CancellationWins
<1>1. JInv /\ [Next]_vars =>
        [\A j \in Jobs : status'[j] # status[j] => status'[j] \in Successors[status[j]]]_vars
  BY StepMoves, MovesAreSuccessors
<1> QED
  BY <1>1, TranslationInvariant, PTL DEF Spec, CancellationWins

\* No run, also none that resumes a job, translates a chunk twice
\* (translateAndPersistChunk).
THEOREM TranslationTranslatedOnce == Spec => TranslatedOnce
<1>1. JInv /\ [Next]_vars =>
        [\A j \in Jobs, i \in Indexes :
            chunk[j][i] = "complete" => chunk'[j][i] \in {"complete", "purged"}]_vars
  BY StepKeepsTranslated
<1> QED
  BY <1>1, TranslationInvariant, PTL DEF Spec, TranslatedOnce
=============================================================================
