------------------------ MODULE MemoryLifecycleProofs ------------------------
(***************************************************************************)
(* Theorems about MemoryLifecycle, for any set of memories, any choice of  *)
(* failing calls and any number of crashes: its types, its inductive       *)
(* invariant (MemoryLifecycleInvariant), the safety invariants that follow *)
(* from it, and that the lifecycle implements MemoryCatalog.               *)
(***************************************************************************)
EXTENDS MemoryLifecycleInvariant, TLAPS

-----------------------------------------------------------------------------
(* Types.                                                                  *)

\* What a failed or finished recovery does to the calls that joined it keeps
\* their types.
LEMMA RecoveryEndsTyped ==
    ASSUME TypeOK, EndRecovery,
           JoinersGoOn \/ JoinersFail
    PROVE  /\ RecoveryOK'
           /\ reserved' \subseteq Keyed
           /\ add' \in [Memories -> AddSteps]
           /\ created' \subseteq Keyed
           /\ del' \in [Memories -> DelSteps]
           /\ boot' \in {"cold", "recovering", "scanning", "enqueueing", "done"}
<1>1. RecoveryOK'
  BY DEF TypeOK, RecoveryOK, EndRecovery, RecSteps
<1>2. CASE JoinersGoOn
  BY <1>1, <1>2 DEF JoinersGoOn, TypeOK, DurableOK, RequestsOK, QueueOK, AddSteps,
     DelSteps, TargetStep, NoActiveWriter, Publishing
<1>3. CASE JoinersFail
  <2>1. reserved' \subseteq Keyed
    BY <1>3 DEF JoinersFail, ReleaseReservations, TypeOK, DurableOK, RequestsOK
  <2> QED
    BY <1>1, <1>3, <2>1 DEF JoinersFail, TypeOK, DurableOK, RequestsOK, QueueOK,
       AddSteps, DelSteps
<1> QED
  BY <1>2, <1>3

\* Failing, ending and going on with an add keeps the types of its variables.
LEMMA AddStepsTyped ==
    ASSUME TypeOK, NEW m \in Memories,
           FailAdd(m) \/ EndAdd(m) \/ \E step \in AddSteps : StepAdd(m, step)
    PROVE  /\ reserved' \subseteq Keyed
           /\ add' \in [Memories -> AddSteps]
           /\ created' \subseteq Keyed
BY DEF FailAdd, EndAdd, StepAdd, ReleaseReservations, TypeOK, DurableOK,
   RequestsOK, AddSteps

\* Rows, files, requests, queue and history have their types initially and
\* after every step: no interleaving of handlers, failures and crashes brings a
\* value into them that the code does not handle.
LEMMA LifecycleTypeInit ==
    ASSUME Init
    PROVE  TypeOK
BY LifecycleAssumption DEF Init, TypeOK, DurableOK, RequestsOK, RecoveryOK, QueueOK,
   HistoryOK, Statuses, AddSteps, DelSteps, ChatSteps, RecSteps

LEMMA AddTyped ==
    ASSUME TypeOK, NEW m \in Memories, Add(m)
    PROVE  TypeOK'
<1> USE DEF TypeOK, DurableOK, RequestsOK, RecoveryOK, QueueOK, HistoryOK, durable, queue, recovery, history
<1>1. CASE AddRequest(m)
  BY <1>1, LifecycleAssumption DEF AddRequest, JoinRecovery, AddSteps, RecSteps
<1>2. CASE AddImportFails(m)
  BY <1>2, AddStepsTyped DEF AddImportFails
<1>3. CASE AddAcquireLease(m)
  BY <1>3 DEF AddAcquireLease, StepAdd, AddSteps
<1>4. CASE AddPersistJournal(m)
  BY <1>4, AddStepsTyped DEF AddPersistJournal, AddSteps
<1>5. CASE AddPublishContent(m)
  BY <1>5, AddStepsTyped DEF AddPublishContent, AddSteps, Files
<1>6. CASE AddInsertRow(m)
  BY <1>6, AddStepsTyped DEF AddInsertRow, AddSteps, Statuses, InitialStatus
<1>7. CASE AddUndoContent(m)
  BY <1>7, AddStepsTyped DEF AddUndoContent, AddSteps
<1>8. CASE AddUndoJournal(m)
  BY <1>8, AddStepsTyped DEF AddUndoJournal, AddSteps
<1>9. CASE AddFinish(m)
  BY <1>9, AddStepsTyped DEF AddFinish, AddSteps, Enqueue, EnqueueFails, Statuses, Files
<1> QED
  BY <1>1, <1>2, <1>3, <1>4, <1>5, <1>6, <1>7, <1>8, <1>9 DEF Add, AddGoesOn

\* A git job leaves sets of files in HEAD and in the history.
LEMMA GitJobTyped ==
    ASSUME TypeOK, NEW m \in Memories, NEW paths \in SUBSET Files,
           NEW directory \in BOOLEAN, NEW o, RunGitBackupJob(m, paths, directory, o)
    PROVE  /\ head' \in [Memories -> SUBSET Files]
           /\ archived' \in [Memories -> SUBSET Files]
<1>1. Committed(m, paths, directory) \in SUBSET Files
  BY DEF Committed, TypeOK, DurableOK
<1> QED
  BY <1>1 DEF RunGitBackupJob, TypeOK, DurableOK, HistoryOK

LEMMA DeleteTyped ==
    ASSUME TypeOK, NEW m \in Memories, Delete(m)
    PROVE  TypeOK'
<1> USE DEF TypeOK, DurableOK, RequestsOK, RecoveryOK, QueueOK, HistoryOK, durable,
         requests, queue, recovery, history
<1>1. CASE DelRequest(m)
  BY <1>1 DEF DelRequest, GoDel, DelSteps, JoinRecovery, RecSteps
<1>2. CASE DelWritersDone(m)
  BY <1>2 DEF DelWritersDone, GoDel, DelSteps, TargetStep
<1>3. CASE DelRefused(m)
  BY <1>3 DEF DelRefused, GoDel, DelSteps
<1>4. CASE DelBackUpContent(m)
  <2>1. CASE GitEnabled
    <3>1. PICK o \in Outcomes("git") : RunDeletionJob(m, o) /\ GoDel(m, IF Succeeded(o) THEN "leasing" ELSE "idle")
      BY <1>4, <2>1 DEF DelBackUpContent
    <3>2. head' \in [Memories -> SUBSET Files] /\ archived' \in [Memories -> SUBSET Files]
      BY <3>1, GitJobTyped DEF RunDeletionJob, Files
    <3> QED
      BY <1>4, <3>1, <3>2 DEF DelBackUpContent, GoDel, DelSteps
  <2>2. CASE ~GitEnabled
    BY <1>4, <2>2 DEF DelBackUpContent, GoDel, DelSteps
  <2> QED
    BY <2>1, <2>2
<1>5. CASE DelAcquireLease(m)
  BY <1>5 DEF DelAcquireLease, GoDel, DelSteps
<1>6. CASE DelCommitRemoval(m)
  BY <1>6, GitJobTyped DEF DelCommitRemoval, RunDeletionJob, GoDel, DelSteps, Files
<1>7. CASE DelRecommit(m)
  BY <1>7, GitJobTyped DEF DelRecommit, RunDeletionJob, GoDel, DelSteps, Files
<1>8. CASE DelPersistJournal(m)
  BY <1>8 DEF DelPersistJournal, GoDel, DelSteps
<1>9. CASE DelStage(m)
  BY <1>9 DEF DelStage, GoDel, DelSteps, AfterStaging
<1>10. CASE DelEraseRow(m)
  BY <1>10 DEF DelEraseRow, GoDel, DelSteps
<1>11. CASE DelRestore(m)
  BY <1>11 DEF DelRestore, GoDel, DelSteps, AfterRestore
<1>12. CASE DelCleanStaging(m)
  BY <1>12 DEF DelCleanStaging, GoDel, DelSteps
<1>13. CASE DelClearJournal(m)
  BY <1>13 DEF DelClearJournal, GoDel, DelSteps
<1> QED
  BY <1>1, <1>2, <1>3, <1>4, <1>5, <1>6, <1>7, <1>8, <1>9, <1>10, <1>11, <1>12, <1>13 DEF Delete, DelGoesOn

LEMMA RecoverTyped ==
    ASSUME TypeOK, Recover
    PROVE  TypeOK'
<1> USE DEF TypeOK, DurableOK, RequestsOK, RecoveryOK, QueueOK, HistoryOK, durable,
         requests, queue, recovery, history
<1>1. CASE RecAcquireLease
  BY <1>1 DEF RecAcquireLease, RecSteps
<1>2. CASE RecFinish
  BY <1>2, RecoveryEndsTyped DEF RecFinish, FailRecovery, StayJoined, GoRec, RecSteps
<1>3. CASE RecRemoveStaging
  BY <1>3, RecoveryEndsTyped DEF RecRemoveStaging, FailRecovery, StayJoined, GoRec, RecSteps
<1>4. CASE RecMarkPending
  BY <1>4, RecoveryEndsTyped DEF RecMarkPending, FailRecovery, StayJoined, GoRec, RecSteps, Statuses
<1>5. CASE RecCommitRemoval
  BY <1>5, GitJobTyped, RecoveryEndsTyped DEF RecCommitRemoval, FailRecovery, StayJoined, GoRec, RecSteps, RunDeletionJob, Files
<1>6. CASE RecEraseRow
  BY <1>6, RecoveryEndsTyped DEF RecEraseRow, FailRecovery, StayJoined, GoRec, RecSteps
<1>7. CASE RecUnlink
  BY <1>7, RecoveryEndsTyped DEF RecUnlink, FailRecovery, StayJoined, GoRec, RecSteps
<1>8. CASE \E m \in Memories : RecoverCreation(m)
  BY <1>8, RecoveryEndsTyped DEF RecoverCreation, FailRecovery, StayJoined, GoRec, RecSteps, Statuses, InitialStatus
<1>9. CASE \E m \in Memories : RecoverDeletion(m)
  BY <1>9, RecoveryEndsTyped DEF RecoverDeletion, FailRecovery, StayJoined, GoRec, RecSteps, Statuses
<1> QED
  BY <1>1, <1>2, <1>3, <1>4, <1>5, <1>6, <1>7, <1>8, <1>9 DEF Recover

LEMMA ChatTyped ==
    ASSUME TypeOK, NEW m \in Memories, Chat(m)
    PROVE  TypeOK'
<1> USE DEF TypeOK, DurableOK, RequestsOK, RecoveryOK, QueueOK, HistoryOK, durable,
         requests, queue, recovery, history
<1>1. CASE ChatOpen(m)
  BY <1>1 DEF ChatOpen, GoChat, ChatSteps
<1>2. CASE ChatAdmit(m)
  BY <1>2 DEF ChatAdmit, GoChat, ChatSteps
<1>3. CASE ChatPublish(m)
  BY <1>3 DEF ChatPublish, GoChat, ChatSteps, Files
<1>4. CASE ChatAnswer(m)
  BY <1>4 DEF ChatAnswer, GoChat, ChatSteps, Statuses
<1>5. CASE ChatQueue(m)
  BY <1>5 DEF ChatQueue, GoChat, ChatSteps, Statuses, KeepIntent
<1>6. CASE ChatFinalize(m)
  BY <1>6 DEF ChatFinalize, GoChat, ChatSteps, Statuses, KeepIntent, Files
<1>7. CASE ChatClose(m)
  BY <1>7 DEF ChatClose, GoChat, ChatSteps
<1> QED
  BY <1>1, <1>2, <1>3, <1>4, <1>5, <1>6, <1>7 DEF Chat

LEMMA BackupTyped ==
    ASSUME TypeOK, Backup
    PROVE  TypeOK'
<1> USE DEF TypeOK, DurableOK, RequestsOK, RecoveryOK, QueueOK, HistoryOK, durable,
         requests, queue, recovery, history
<1>1. CASE BootStart
  BY <1>1 DEF BootStart, JoinRecovery, RecSteps
<1>2. CASE BootScan
  BY <1>2 DEF BootScan
<1>3. CASE \E m \in Memories : BootEnqueue(m)
  BY <1>3 DEF BootEnqueue, Enqueue, EnqueueFails, Statuses, Files
<1>4. CASE \E m \in Memories : WorkerRun(m)
  <2>1. PICK m \in Memories : WorkerRun(m)
    BY <1>4
  <2>2. PICK o \in Outcomes("git") : /\ RunGitBackupJob(m, job[m], FALSE, o)
                                    /\ run' = [memory |-> m, ok |-> Succeeded(o)]
    BY <2>1 DEF WorkerRun
  <2>3. head' \in [Memories -> SUBSET Files] /\ archived' \in [Memories -> SUBSET Files]
    BY <2>2, GitJobTyped
  <2>4. run' \in [memory : Memories \cup {NoMemory}, ok : BOOLEAN]
    BY <2>2 DEF Succeeded
  <2> QED
    BY <2>1, <2>3, <2>4 DEF WorkerRun
<1>5. CASE \E m \in Memories : WorkerReport(m)
  BY <1>5 DEF WorkerReport, ReportedStatus, Statuses
<1> QED
  BY <1>1, <1>2, <1>3, <1>4, <1>5 DEF Backup

LEMMA LifecycleTypeNext ==
    ASSUME TypeOK, [Next]_vars
    PROVE  TypeOK'
<1>1. CASE UNCHANGED vars
  BY <1>1 DEF vars, durable, requests, recovery, queue, history, TypeOK, DurableOK,
     RequestsOK, RecoveryOK, QueueOK, HistoryOK
<1>2. CASE \E m \in Memories : Add(m) \/ Delete(m)
  BY <1>2, AddTyped, DeleteTyped
<1>3. CASE \E m \in Memories : Lose(m)
  BY <1>3 DEF Lose, requests, recovery, queue, TypeOK, DurableOK, RequestsOK,
     RecoveryOK, QueueOK, HistoryOK
<1>4. CASE \E m \in Chatting : Chat(m)
  BY <1>4, ChatTyped, LifecycleAssumption
<1>5. CASE Recover
  BY <1>5, RecoverTyped
<1>6. CASE Backup
  BY <1>6, BackupTyped
<1>7. CASE Crash
  BY <1>7, LifecycleAssumption DEF Crash, EndRecovery, durable, TypeOK, DurableOK,
     RequestsOK, RecoveryOK, QueueOK, HistoryOK, AddSteps, DelSteps, ChatSteps, RecSteps
<1> QED
  BY <1>1, <1>2, <1>3, <1>4, <1>5, <1>6, <1>7 DEF Next

\* Every variable of the lifecycle keeps its type in every behaviour.
THEOREM LifecycleTypeCorrect == Spec => []TypeOK
<1>1. Init => TypeOK
  BY LifecycleTypeInit
<1>2. TypeOK /\ [Next]_vars => TypeOK'
  BY LifecycleTypeNext
<1> QED
  BY <1>1, <1>2, PTL DEF Spec

-----------------------------------------------------------------------------
(* The inductive invariant: where it starts, and adds.                     *)

\* Under the mutation lease no recovery is at work, so RecInv says nothing.
LEMMA SectionExcludesRecovery ==
    ASSUME IInv, NEW m \in Memories, add[m] \in AddSection \/ del[m] \in DelSection
    PROVE  rec \in {"idle", "waiting"}
BY DEF IInv, LeaseInv, RecoveryHoldsLease, MutationHoldsLease

LEMMA QuietRecovery ==
    ASSUME rec' \in {"idle", "waiting"}
    PROVE  LeaseInv' /\ RecInv'
BY DEF LeaseInv, RecInv, RecoveryHoldsLease

LEMMA InvariantInit ==
    ASSUME Init
    PROVE  IInv
<1>1. TypeOK
  BY LifecycleTypeInit
<1>2. LeaseInv /\ RecInv
  BY DEF Init, LeaseInv, RecInv, RecoveryHoldsLease
<1>3. ASSUME NEW n \in Memories
      PROVE  MemoryInv(n)
  BY LifecycleAssumption DEF Init, MemoryInv, IdInv, AddInv, DelInv, JournalInv, ArchiveInv, Known,
     HasContent, Claimed, Fresh, DelSection
<1> QED
  BY <1>1, <1>2, <1>3 DEF IInv

LEMMA AddKeepsMemories ==
    ASSUME IInv, NEW m \in Memories, Add(m), NEW n \in Memories
    PROVE  MemoryInv(n)'
<1> USE DEF IInv, MemoryInv, IdInv, AddInv, DelInv, JournalInv, ArchiveInv, Known, HasContent,
         Claimed, Fresh, Settled, TypeOK, DurableOK, RequestsOK, recovery, queue, history,
         Took, Succeeded, StepAdd, EndAdd, FailAdd, ReleaseReservations
<1>1. CASE AddRequest(m)
  BY <1>1, LifecycleAssumption DEF AddRequest, JoinRecovery, HistoryOK
<1>2. CASE AddImportFails(m)
  BY <1>2 DEF AddImportFails
<1>3. CASE AddAcquireLease(m)
  BY <1>3 DEF AddAcquireLease
<1>4. CASE AddPersistJournal(m)
  BY <1>4 DEF AddPersistJournal
<1>5. CASE AddPublishContent(m)
  BY <1>5 DEF AddPublishContent, DelSection
<1>6. CASE AddInsertRow(m)
  BY <1>6 DEF AddInsertRow, DelSection, DelSteps
<1>7. CASE AddUndoContent(m)
  BY <1>7 DEF AddUndoContent
<1>8. CASE AddUndoJournal(m)
  BY <1>8 DEF AddUndoJournal
<1>9. CASE AddFinish(m)
  BY <1>9 DEF AddFinish
<1> QED
  BY <1>1, <1>2, <1>3, <1>4, <1>5, <1>6, <1>7, <1>8, <1>9 DEF Add, AddGoesOn

LEMMA AddKeepsRecovery ==
    ASSUME IInv, NEW m \in Memories, Add(m)
    PROVE  LeaseInv' /\ RecInv'
<1> USE DEF TypeOK, DurableOK, RequestsOK, RecoveryOK, recovery, StepAdd, EndAdd, FailAdd
<1>1. CASE AddRequest(m)
  BY <1>1 DEF AddRequest, JoinRecovery, IInv, LeaseInv, RecInv, RecoveryHoldsLease,
     MutationHoldsLease, AddSection, Settled, HasContent, history
<1>2. CASE AddImportFails(m)
  BY <1>2 DEF AddImportFails, IInv, LeaseInv, RecInv, RecoveryHoldsLease,
     MutationHoldsLease, AddSection, Settled, HasContent, history
<1>3. CASE AddAcquireLease(m)
  BY <1>3, QuietRecovery DEF AddAcquireLease, RecoveryHoldsLease
<1>4. CASE AddGoesOn(m)
  <2>1. add[m] \in AddSection /\ rec' = rec
    BY <1>4 DEF AddGoesOn, AddSection, AddPersistJournal, AddPublishContent, AddInsertRow,
       AddUndoContent, AddUndoJournal, AddFinish
  <2> QED
    BY <2>1, SectionExcludesRecovery, QuietRecovery
<1> QED
  BY <1>1, <1>2, <1>3, <1>4 DEF Add

-----------------------------------------------------------------------------
(* Deletes.                                                                *)

\* What a git job does to HEAD and to the history: only content that is in
\* place enters HEAD, and with it the history; nothing leaves the history.
LEMMA GitJobArchives ==
    ASSUME IInv, NEW m \in Memories, NEW paths \in SUBSET Files,
           NEW directory \in BOOLEAN, NEW o, RunGitBackupJob(m, paths, directory, o),
           NEW n \in Memories
    PROVE  /\ "content" \in head'[n] => "content" \in archived'[n]
           /\ "content" \in archived[n] => "content" \in archived'[n]
           /\ "content" \in head'[n] => "content" \in head[n] \/ HasContent(n)
BY DEF IInv, MemoryInv, ArchiveInv, HasContent, RunGitBackupJob, Committed, TypeOK,
   DurableOK, HistoryOK

\* A deletion's job leaves in HEAD what is in place, and in the history.
LEMMA DeletionJobReconciles ==
    ASSUME IInv, NEW m \in Memories, NEW o, Took(o), RunDeletionJob(m, o)
    PROVE  /\ "content" \in head'[m] <=> HasContent(m)
           /\ HasContent(m) => "content" \in archived'[m]
BY DEF IInv, MemoryInv, ArchiveInv, HasContent, RunDeletionJob, RunGitBackupJob, Committed,
   TypeOK, DurableOK, HistoryOK, Files

LEMMA DeleteKeepsMemories ==
    ASSUME IInv, NEW m \in Memories, Delete(m), NEW n \in Memories
    PROVE  MemoryInv(n)'
<1> USE DEF IInv, MemoryInv, IdInv, AddInv, DelInv, JournalInv, ArchiveInv, Known, HasContent,
         Claimed, Fresh, Settled, TypeOK, DurableOK, RequestsOK, durable, recovery, queue,
         history, Took, Succeeded, GoDel
<1>1. CASE DelRequest(m)
  BY <1>1 DEF DelRequest, DelSection, JoinRecovery
<1>2. CASE DelWritersDone(m)
  <2>1. CASE m \in rows
    BY <1>2, <2>1 DEF DelWritersDone, TargetStep, DelSection
  <2>2. CASE m \notin rows
    BY <1>2, <2>2 DEF DelWritersDone, TargetStep, DelSection
  <2> QED
    BY <2>1, <2>2
<1>3. CASE DelRefused(m)
  BY <1>3 DEF DelRefused, DelSection
<1>4. CASE DelBackUpContent(m)
  <2>1. CASE ~GitEnabled
    BY <1>4, <2>1 DEF DelBackUpContent, DelSection
  <2>2. CASE GitEnabled
    <3>1. PICK o \in Outcomes("git") : RunDeletionJob(m, o) /\ GoDel(m, IF Succeeded(o) THEN "leasing" ELSE "idle")
      BY <1>4, <2>2 DEF DelBackUpContent
    <3>2. /\ "content" \in head'[n] => "content" \in archived'[n]
          /\ "content" \in archived[n] => "content" \in archived'[n]
          /\ "content" \in head'[n] => "content" \in head[n] \/ HasContent(n)
      BY <3>1, GitJobArchives, Zenon DEF RunDeletionJob, Files
    <3>3. Took(o) => /\ "content" \in head'[m] <=> HasContent(m)
                     /\ HasContent(m) => "content" \in archived'[m]
      BY <3>1, DeletionJobReconciles
    <3>4. IdInv(n)' /\ AddInv(n)' /\ JournalInv(n)'
      BY <1>4, <3>1 DEF DelBackUpContent, DelSection
    <3>5. DelInv(n)'
      BY <1>4, <3>1 DEF DelBackUpContent, DelSection
    <3>6. ArchiveInv(n)'
      BY <1>4, <3>1, <3>2, <3>3 DEF DelBackUpContent, DelSection, RecInv
    <3> QED
      BY <3>4, <3>5, <3>6
  <2> QED
    BY <2>1, <2>2
<1>5. CASE DelAcquireLease(m)
  BY <1>5 DEF DelAcquireLease, DelSection
<1>6. CASE DelPersistJournal(m)
  BY <1>6 DEF DelPersistJournal, DelSection
<1>7. CASE DelStage(m)
  BY <1>7 DEF DelStage, DelSection, AfterStaging
<1>8. CASE DelCommitRemoval(m)
  <2>1. PICK o \in Outcomes("git") : RunDeletionJob(m, o) /\ GoDel(m, IF Succeeded(o) THEN "erasing"
                                     ELSE IF staged[m] # {} THEN "restoreGit" ELSE "clearing")
    BY <1>8 DEF DelCommitRemoval
  <2>2. /\ "content" \in head'[n] => "content" \in archived'[n]
        /\ "content" \in archived[n] => "content" \in archived'[n]
        /\ "content" \in head'[n] => "content" \in head[n] \/ HasContent(n)
    BY <2>1, GitJobArchives, Zenon DEF RunDeletionJob, Files
  <2>3. Took(o) => /\ "content" \in head'[m] <=> HasContent(m)
                   /\ HasContent(m) => "content" \in archived'[m]
    BY <2>1, DeletionJobReconciles
  <2>4. IdInv(n)' /\ AddInv(n)' /\ JournalInv(n)'
    BY <1>8, <2>1 DEF DelCommitRemoval, DelSection
  <2>5. DelInv(n)'
    BY <1>8, <2>1 DEF DelCommitRemoval, DelSection
  <2>6. ArchiveInv(n)'
    BY <1>8, <2>1, <2>2, <2>3 DEF DelCommitRemoval, DelSection, RecInv
  <2> QED
    BY <2>4, <2>5, <2>6
<1>9. CASE DelEraseRow(m)
  BY <1>9 DEF DelEraseRow, DelSection
<1>10. CASE DelRestore(m)
  BY <1>10 DEF DelRestore, DelSection, AfterRestore
<1>11. CASE DelRecommit(m)
  <2>1. PICK o \in Outcomes("git") : RunDeletionJob(m, o) /\ GoDel(m, IF Succeeded(o) THEN "clearing" ELSE "idle")
    BY <1>11 DEF DelRecommit
  <2>2. /\ "content" \in head'[n] => "content" \in archived'[n]
        /\ "content" \in archived[n] => "content" \in archived'[n]
        /\ "content" \in head'[n] => "content" \in head[n] \/ HasContent(n)
    BY <2>1, GitJobArchives, Zenon DEF RunDeletionJob, Files
  <2>3. Took(o) => /\ "content" \in head'[m] <=> HasContent(m)
                   /\ HasContent(m) => "content" \in archived'[m]
    BY <2>1, DeletionJobReconciles
  <2>4. IdInv(n)' /\ AddInv(n)' /\ JournalInv(n)'
    BY <1>11, <2>1 DEF DelRecommit, DelSection
  <2>5. DelInv(n)'
    BY <1>11, <2>1 DEF DelRecommit, DelSection
  <2>6. ArchiveInv(n)'
    BY <1>11, <2>1, <2>2, <2>3 DEF DelRecommit, DelSection, RecInv
  <2> QED
    BY <2>4, <2>5, <2>6
<1>12. CASE DelCleanStaging(m)
  BY <1>12 DEF DelCleanStaging, DelSection
<1>13. CASE DelClearJournal(m)
  BY <1>13 DEF DelClearJournal, DelSection
<1> QED
  BY <1>1, <1>2, <1>3, <1>4, <1>5, <1>6, <1>7, <1>8, <1>9, <1>10, <1>11, <1>12, <1>13
     DEF Delete, DelGoesOn

LEMMA DeleteKeepsRecovery ==
    ASSUME IInv, NEW m \in Memories, Delete(m)
    PROVE  LeaseInv' /\ RecInv'
<1> USE DEF TypeOK, DurableOK, RequestsOK, RecoveryOK, recovery, GoDel
<1>1. CASE DelRequest(m) \/ DelWritersDone(m) \/ DelRefused(m) \/ DelBackUpContent(m)
  BY <1>1 DEF DelRequest, DelWritersDone, DelRefused, DelBackUpContent, TargetStep, JoinRecovery,
     IInv, LeaseInv, RecInv, RecoveryHoldsLease, MutationHoldsLease, DelSection, Settled,
     HasContent, durable, history
<1>2. CASE DelAcquireLease(m)
  BY <1>2, QuietRecovery DEF DelAcquireLease, RecoveryHoldsLease
<1>3. CASE DelCommitRemoval(m) \/ DelRecommit(m) \/ DelGoesOn(m)
  <2>1. del[m] \in DelSection /\ rec' = rec
    BY <1>3 DEF DelGoesOn, DelSection, DelCommitRemoval, DelRecommit, DelPersistJournal,
       DelStage, DelEraseRow, DelRestore, DelCleanStaging, DelClearJournal
  <2> QED
    BY <2>1, SectionExcludesRecovery, QuietRecovery
<1> QED
  BY <1>1, <1>2, <1>3 DEF Delete

-----------------------------------------------------------------------------
(* Recovery.                                                               *)

\* While a recovery is at work nobody is inside the mutation lease.
LEMMA RecoveryExcludesSections ==
    ASSUME IInv, RecoveryHoldsLease, NEW m \in Memories
    PROVE  add[m] \notin AddSection /\ del[m] \notin DelSection
BY DEF IInv, LeaseInv, MutationHoldsLease

\* A recovery that has been through its list leaves no journal.
LEMMA FinishedRecovery ==
    ASSUME IInv, rec = "scanning", recTodo = {}, NEW m \in Memories
    PROVE  journal[m] = "none" /\ add[m] \notin AddSection /\ del[m] \notin DelSection
BY DEF IInv, RecInv, LeaseInv, RecoveryHoldsLease, MutationHoldsLease

\* A step of recovery leaves the calls that joined it where they are, or ends
\* them and gives back the reservations they inserted.
JoinersEnd(n) ==
    /\ \/ UNCHANGED <<add[n], del[n]>> /\ (n \in created' <=> n \in created)
       \/ /\ add'[n] = IF add[n] = "recovering" THEN "idle" ELSE add[n]
          /\ del'[n] = IF del[n] = "recovering" THEN "idle" ELSE del[n]
          /\ n \in created' <=> n \in created /\ add[n] # "recovering"
    /\ n \in reserved' => n \in reserved
    /\ n \in reserved /\ n \notin reserved' => n \in created /\ add[n] = "recovering"
                                              /\ add'[n] = "idle"

LEMMA JoinersStayOrEnd ==
    ASSUME IInv, StayJoined \/ FailRecovery, NEW n \in Memories
    PROVE  JoinersEnd(n)
<1>1. CASE StayJoined
  BY <1>1 DEF StayJoined, JoinersEnd
<1>2. CASE FailRecovery
  <2>1. PICK adds \in SUBSET Memories :
            /\ adds = {m \in Memories : add[m] = "recovering"}
            /\ ReleaseReservations(created \cap adds)
            /\ created' = created \ adds
            /\ add' = [m \in Memories |-> IF m \in adds THEN "idle" ELSE add[m]]
            /\ del' = [m \in Memories |-> IF del[m] = "recovering" THEN "idle" ELSE del[m]]
    BY <1>2 DEF FailRecovery, JoinersFail
  <2>2. created \subseteq reserved
    BY LifecycleAssumption DEF IInv, MemoryInv, IdInv, TypeOK, RequestsOK
  <2>3. /\ n \in reserved' => n \in reserved
        /\ n \in reserved /\ n \notin reserved' => n \in created \cap adds
    BY <2>1, <2>2 DEF ReleaseReservations
  <2> QED
    BY <2>1, <2>3 DEF JoinersEnd
<1> QED
  BY <1>1, <1>2

LEMMA RecoverKeepsMemories ==
    ASSUME IInv, Recover, NEW n \in Memories
    PROVE  MemoryInv(n)'
<1> USE DEF IInv, MemoryInv, IdInv, AddInv, DelInv, JournalInv, ArchiveInv, Known, HasContent,
         Claimed, Fresh, Settled, TypeOK, DurableOK, RequestsOK, RecoveryOK, durable, requests,
         queue, history, Took, Succeeded, RecInv, DelSection
<1>1. CASE RecAcquireLease
  BY <1>1 DEF RecAcquireLease
<1>2. CASE RecFinish
  BY <1>2, FinishedRecovery DEF RecFinish, JoinersGoOn, EndsAfterRecovery, TargetStep,
     NoActiveWriter, Publishing, AddSection, EndRecovery
<1>3. ASSUME NEW m \in Memories, RecoverCreation(m)
      PROVE  MemoryInv(n)'
  <2>1. JoinersEnd(n)
    BY <1>3, JoinersStayOrEnd DEF RecoverCreation
  <2>2. add[n] \notin AddSection /\ del[n] \notin DelSection
    BY <1>3, RecoveryExcludesSections DEF RecoverCreation, RecoveryHoldsLease
  <2>3. rec' \in {"idle", "unlinking"}
    BY <1>3 DEF RecoverCreation, GoRec, FailRecovery, EndRecovery
  <2>4. IdInv(n)' /\ JournalInv(n)'
    BY <1>3, <2>1 DEF RecoverCreation, JoinersEnd
  <2>5. AddInv(n)' /\ DelInv(n)'
    BY <1>3, <2>1, <2>2 DEF RecoverCreation, JoinersEnd, AddSection, AddSteps
  <2>6. ArchiveInv(n)'
    BY <1>3, <2>1, <2>3 DEF RecoverCreation, JoinersEnd, GoRec
  <2> QED
    BY <2>4, <2>5, <2>6
<1>4. ASSUME NEW m \in Memories, RecoverDeletion(m)
      PROVE  MemoryInv(n)'
  <2>1. JoinersEnd(n)
    BY <1>4, JoinersStayOrEnd DEF RecoverDeletion
  <2>2. add[n] \notin AddSection /\ del[n] \notin DelSection
    BY <1>4, RecoveryExcludesSections DEF RecoverDeletion, RecoveryHoldsLease
  <2>3. rec' \in {"idle", "rmStaging", "committing", "erasing", "marking"} /\ (GitEnabled => rec' # "erasing")
    BY <1>4 DEF RecoverDeletion, GoRec, FailRecovery, EndRecovery
  <2>4. IdInv(n)' /\ JournalInv(n)'
    BY <1>4, <2>1 DEF RecoverDeletion, JoinersEnd
  <2>5. AddInv(n)' /\ DelInv(n)'
    BY <1>4, <2>1, <2>2 DEF RecoverDeletion, JoinersEnd, AddSection
  <2>6. ArchiveInv(n)'
    BY <1>4, <2>1, <2>3 DEF RecoverDeletion, JoinersEnd, GoRec
  <2> QED
    BY <2>4, <2>5, <2>6
<1>5. CASE RecRemoveStaging
  <2>1. JoinersEnd(n)
    BY <1>5, JoinersStayOrEnd DEF RecRemoveStaging
  <2>2. add[n] \notin AddSection /\ del[n] \notin DelSection
    BY <1>5, RecoveryExcludesSections DEF RecRemoveStaging, RecoveryHoldsLease
  <2>3. rec' \in {"idle", "unlinking"}
    BY <1>5 DEF RecRemoveStaging, GoRec, FailRecovery, EndRecovery
  <2>4. IdInv(n)' /\ JournalInv(n)'
    BY <1>5, <2>1 DEF RecRemoveStaging, JoinersEnd
  <2>5. AddInv(n)' /\ DelInv(n)'
    BY <1>5, <2>1, <2>2 DEF RecRemoveStaging, JoinersEnd, AddSection
  <2>6. ArchiveInv(n)'
    BY <1>5, <2>1, <2>3 DEF RecRemoveStaging, JoinersEnd, GoRec
  <2> QED
    BY <2>4, <2>5, <2>6
<1>6. CASE RecMarkPending
  <2>1. JoinersEnd(n)
    BY <1>6, JoinersStayOrEnd DEF RecMarkPending
  <2>2. add[n] \notin AddSection /\ del[n] \notin DelSection
    BY <1>6, RecoveryExcludesSections DEF RecMarkPending, RecoveryHoldsLease
  <2>3. rec' \in {"idle", "unlinking"}
    BY <1>6 DEF RecMarkPending, GoRec, FailRecovery, EndRecovery
  <2>4. IdInv(n)' /\ JournalInv(n)'
    BY <1>6, <2>1 DEF RecMarkPending, JoinersEnd
  <2>5. AddInv(n)' /\ DelInv(n)'
    BY <1>6, <2>1, <2>2 DEF RecMarkPending, JoinersEnd, AddSection
  <2>6. ArchiveInv(n)'
    BY <1>6, <2>1, <2>3 DEF RecMarkPending, JoinersEnd, GoRec
  <2> QED
    BY <2>4, <2>5, <2>6
<1>7. CASE RecCommitRemoval
  <2>1. JoinersEnd(n)
    BY <1>7, JoinersStayOrEnd DEF RecCommitRemoval
  <2>2. add[n] \notin AddSection /\ del[n] \notin DelSection
    BY <1>7, RecoveryExcludesSections DEF RecCommitRemoval, RecoveryHoldsLease
  <2>3. PICK o : RunDeletionJob(recCur, o) /\ rec' = IF Succeeded(o) THEN "erasing" ELSE "idle"
    BY <1>7 DEF RecCommitRemoval, GoRec, FailRecovery, EndRecovery
  <2>4. /\ "content" \in head'[n] => "content" \in archived'[n]
        /\ "content" \in archived[n] => "content" \in archived'[n]
        /\ "content" \in head'[n] => "content" \in head[n] \/ HasContent(n)
    BY <1>7, <2>3, GitJobArchives DEF RunDeletionJob, Files, RecCommitRemoval
  <2>5. Took(o) => ("content" \in head'[recCur] <=> HasContent(recCur))
    BY <1>7, <2>3, DeletionJobReconciles DEF RecCommitRemoval
  <2>6. IdInv(n)' /\ AddInv(n)' /\ DelInv(n)' /\ JournalInv(n)'
    BY <1>7, <2>1, <2>2 DEF RecCommitRemoval, JoinersEnd
  <2>7. ArchiveInv(n)'
    BY <1>7, <2>1, <2>3, <2>4, <2>5 DEF RecCommitRemoval, JoinersEnd, GoRec, FailRecovery,
       EndRecovery
  <2> QED
    BY <2>6, <2>7
<1>8. CASE RecEraseRow
  <2>1. JoinersEnd(n)
    BY <1>8, JoinersStayOrEnd DEF RecEraseRow
  <2>2. add[n] \notin AddSection /\ del[n] \notin DelSection
    BY <1>8, RecoveryExcludesSections DEF RecEraseRow, RecoveryHoldsLease
  <2>3. rec' \in {"idle", "unlinking"}
    BY <1>8 DEF RecEraseRow, GoRec, FailRecovery, EndRecovery
  <2>4. IdInv(n)' /\ JournalInv(n)'
    BY <1>8, <2>1 DEF RecEraseRow, JoinersEnd
  <2>5. AddInv(n)' /\ DelInv(n)'
    BY <1>8, <2>1, <2>2 DEF RecEraseRow, JoinersEnd, AddSection
  <2>6. ArchiveInv(n)'
    BY <1>8, <2>1, <2>3 DEF RecEraseRow, JoinersEnd, GoRec
  <2> QED
    BY <2>4, <2>5, <2>6
<1>9. CASE RecUnlink
  <2>1. JoinersEnd(n)
    BY <1>9, JoinersStayOrEnd DEF RecUnlink
  <2>2. add[n] \notin AddSection /\ del[n] \notin DelSection
    BY <1>9, RecoveryExcludesSections DEF RecUnlink, RecoveryHoldsLease
  <2>3. rec' \in {"idle", "scanning"}
    BY <1>9 DEF RecUnlink, GoRec, FailRecovery, EndRecovery
  <2>4. IdInv(n)' /\ JournalInv(n)'
    BY <1>9, <2>1 DEF RecUnlink, JoinersEnd
  <2>5. AddInv(n)' /\ DelInv(n)'
    BY <1>9, <2>1, <2>2 DEF RecUnlink, JoinersEnd, AddSection
  <2>6. ArchiveInv(n)'
    BY <1>9, <2>1, <2>3 DEF RecUnlink, JoinersEnd, GoRec
  <2> QED
    BY <2>4, <2>5, <2>6
<1> QED
  BY <1>1, <1>2, <1>3, <1>4, <1>5, <1>6, <1>7, <1>8, <1>9 DEF Recover

LEMMA RecoverKeepsRecovery ==
    ASSUME IInv, Recover
    PROVE  LeaseInv' /\ RecInv'
<1> USE DEF TypeOK, DurableOK, RequestsOK, RecoveryOK, durable, requests, history, LeaseInv,
         RecInv, RecoveryHoldsLease, MutationHoldsLease, StayJoined, GoRec, Took, Succeeded,
         Settled, HasContent
<1>1. CASE EndRecovery
  BY <1>1, QuietRecovery DEF EndRecovery
<1>2. CASE RecAcquireLease
  BY <1>2 DEF RecAcquireLease
<1>3. CASE \E m \in Memories : RecoverCreation(m)
  BY <1>1, <1>3 DEF RecoverCreation, FailRecovery, IInv, MemoryInv, JournalInv
<1>4. CASE \E m \in Memories : RecoverDeletion(m)
  BY <1>1, <1>4 DEF RecoverDeletion, FailRecovery, IInv, MemoryInv, JournalInv
<1>5. CASE RecRemoveStaging
  BY <1>1, <1>5 DEF RecRemoveStaging, FailRecovery, IInv
<1>6. CASE RecMarkPending
  BY <1>1, <1>6 DEF RecMarkPending, FailRecovery, IInv
<1>7. CASE RecCommitRemoval
  BY <1>1, <1>7 DEF RecCommitRemoval, FailRecovery, IInv
<1>8. CASE RecEraseRow
  BY <1>1, <1>8 DEF RecEraseRow, FailRecovery, IInv
<1>9. CASE RecUnlink
  BY <1>1, <1>9 DEF RecUnlink, FailRecovery, IInv
<1>10. CASE RecFinish
  BY <1>1, <1>10 DEF RecFinish
<1> QED
  BY <1>2, <1>3, <1>4, <1>5, <1>6, <1>7, <1>8, <1>9, <1>10 DEF Recover

-----------------------------------------------------------------------------
(* Artifact writers, the backup queue, crashes and losses.                 *)

\* A writer publishes into the directory of a memory that is known, and never
\* its content; nothing else of what the invariant is about changes.
LEMMA ChatKeepsInvariant ==
    ASSUME IInv, NEW m \in Memories, Chat(m), NEW n \in Memories
    PROVE  MemoryInv(n)' /\ LeaseInv' /\ RecInv'
<1>1. /\ UNCHANGED <<rows, reserved, journal, staged, head, add, created, del, rec, recTodo,
                     recCur, minted, deleted, archived, lost>>
      /\ \A k \in Memories : HasContent(k)' <=> HasContent(k)
      /\ chat'[n] # "idle" => chat[n] # "idle" \/ n \in rows
  BY DEF Chat, ChatOpen, ChatAdmit, ChatPublish, ChatAnswer, ChatQueue, ChatFinalize, ChatClose,
     GoChat, requests, recovery, history, HasContent, IInv, TypeOK, DurableOK, RequestsOK
<1>2. MemoryInv(n)'
  BY <1>1 DEF IInv, MemoryInv, IdInv, AddInv, DelInv, JournalInv, ArchiveInv, Known, Claimed,
     Fresh, Settled
<1>3. LeaseInv' /\ RecInv'
  BY <1>1 DEF IInv, LeaseInv, RecInv, RecoveryHoldsLease, MutationHoldsLease, Settled, TypeOK,
     RecoveryOK
<1> QED
  BY <1>2, <1>3

\* The queue and its scan read the memories and write HEAD and the history.
LEMMA BackupFrame ==
    ASSUME Backup
    PROVE  /\ UNCHANGED <<rows, reserved, journal, canonical, staged, add, created, del, chat,
                          minted, deleted, lost, recTodo, recCur>>
           /\ rec' = rec \/ (rec = "idle" /\ rec' = "waiting")
BY DEF Backup, BootStart, BootScan, BootEnqueue, WorkerRun, WorkerReport, JoinRecovery,
   durable, requests, recovery, history

LEMMA BackupKeepsRecovery ==
    ASSUME IInv, Backup
    PROVE  LeaseInv' /\ RecInv'
BY BackupFrame DEF IInv, LeaseInv, RecInv, RecoveryHoldsLease, MutationHoldsLease, Settled,
   HasContent

LEMMA BackupKeepsMemories ==
    ASSUME IInv, Backup, NEW n \in Memories
    PROVE  MemoryInv(n)'
<1>1. /\ UNCHANGED <<rows, reserved, journal, canonical, staged, add, created, del, chat, minted,
                     deleted, lost, recTodo, recCur>>
      /\ rec' = rec \/ (rec = "idle" /\ rec' = "waiting")
  BY BackupFrame
<1>2. /\ "content" \in head'[n] => "content" \in archived'[n]
      /\ "content" \in archived[n] => "content" \in archived'[n]
      /\ "content" \in head'[n] => "content" \in head[n] \/ HasContent(n)
  <2>1. CASE \E m \in Memories : WorkerRun(m)
    <3>1. PICK m \in Memories : \E o : RunGitBackupJob(m, job[m], FALSE, o)
      BY <2>1 DEF WorkerRun
    <3> QED
      BY <3>1, GitJobArchives DEF IInv, TypeOK, QueueOK
  <2>2. CASE UNCHANGED <<head, archived>>
    BY <2>2 DEF IInv, MemoryInv, ArchiveInv
  <2> QED
    BY <2>1, <2>2 DEF Backup, BootStart, BootScan, BootEnqueue, WorkerReport, durable, history
<1>3. IdInv(n)' /\ AddInv(n)' /\ DelInv(n)' /\ JournalInv(n)'
  BY <1>1 DEF IInv, MemoryInv, IdInv, AddInv, DelInv, JournalInv, Known, Claimed, Fresh, Settled,
     HasContent
<1>4. ArchiveInv(n)'
  BY <1>1, <1>2 DEF IInv, MemoryInv, ArchiveInv, DelInv, RecInv
<1> QED
  BY <1>3, <1>4 DEF MemoryInv

\* What survives a crash satisfies the invariant with nothing in flight.
LEMMA CrashKeepsMemories ==
    ASSUME IInv, Crash, NEW n \in Memories
    PROVE  MemoryInv(n)'
BY DEF Crash, EndRecovery, durable, IInv, MemoryInv, IdInv, AddInv, DelInv, JournalInv,
   ArchiveInv, Known, HasContent, Claimed, Fresh, DelSection

LEMMA LossKeepsInvariant ==
    ASSUME IInv, NEW m \in Memories, Lose(m), NEW n \in Memories
    PROVE  MemoryInv(n)' /\ LeaseInv' /\ RecInv'
<1> USE DEF Lose, IInv, Settled, HasContent, TypeOK, DurableOK, requests, recovery, queue
<1>1. MemoryInv(n)'
  BY DEF MemoryInv, IdInv, AddInv, DelInv, JournalInv, ArchiveInv, Known, Claimed, Fresh
<1>2. LeaseInv' /\ RecInv'
  BY DEF LeaseInv, RecInv, RecoveryHoldsLease, MutationHoldsLease, RecoveryOK
<1> QED
  BY <1>1, <1>2

-----------------------------------------------------------------------------
(* The theorems.                                                           *)

LEMMA InvariantNext ==
    ASSUME IInv, [Next]_vars
    PROVE  IInv'
<1>1. TypeOK'
  BY LifecycleTypeNext DEF IInv
<1>2. CASE UNCHANGED vars
  BY <1>1, <1>2 DEF vars, durable, requests, recovery, queue, history, IInv, MemoryInv, IdInv,
     AddInv, DelInv, JournalInv, ArchiveInv, Known, HasContent, Claimed, Fresh, Settled, LeaseInv,
     RecInv, RecoveryHoldsLease, MutationHoldsLease
<1>3. CASE Next
  <2>1. LeaseInv' /\ RecInv'
    <3>1. CASE Crash
      BY <3>1, QuietRecovery DEF Crash, EndRecovery
    <3> QED
      BY <1>3, <3>1, AddKeepsRecovery, DeleteKeepsRecovery, RecoverKeepsRecovery,
         ChatKeepsInvariant, BackupKeepsRecovery, LossKeepsInvariant, LifecycleAssumption
         DEF Next
  <2>2. ASSUME NEW n \in Memories
        PROVE  MemoryInv(n)'
    BY <1>3, AddKeepsMemories, DeleteKeepsMemories, RecoverKeepsMemories, ChatKeepsInvariant,
       BackupKeepsMemories, CrashKeepsMemories, LossKeepsInvariant, LifecycleAssumption DEF Next
  <2> QED
    BY <1>1, <2>1, <2>2 DEF IInv
<1> QED
  BY <1>2, <1>3

\* The inductive invariant holds in every behaviour.
THEOREM LifecycleInvariant == Spec => []IInv
<1>1. Init => IInv
  BY InvariantInit
<1>2. IInv /\ [Next]_vars => IInv'
  BY InvariantNext
<1> QED
  BY <1>1, <1>2, PTL DEF Spec

\* Whatever fails and whenever the process dies, a listed memory the operator
\* did not remove has its CONTENT.md in place, or in delete staging under the
\* journal that brings it back.
THEOREM LifecycleRowHasContent == Spec => []RowHasContent
<1>1. IInv => RowHasContent
  BY DEF IInv, MemoryInv, JournalInv, HasContent, RowHasContent, TypeOK, DurableOK
<1> QED
  BY <1>1, LifecycleInvariant, PTL

\* Everything half done is named by a journal of the right kind.
THEOREM LifecycleHalfDoneIsJournaled == Spec => []HalfDoneIsJournaled
<1>1. IInv => HalfDoneIsJournaled
  BY DEF IInv, MemoryInv, JournalInv, HasContent, HalfDoneIsJournaled
<1> QED
  BY <1>1, LifecycleInvariant, PTL

\* A deleted memory stays deleted and its key bound, whatever is replayed.
THEOREM LifecycleDeletedStaysDeleted == Spec => []DeletedStaysDeleted
<1>1. IInv => DeletedStaysDeleted
  BY LifecycleAssumption DEF IInv, MemoryInv, IdInv, Known, Claimed, DeletedStaysDeleted, TypeOK,
     HistoryOK
<1> QED
  BY <1>1, LifecycleInvariant, PTL

\* No failure path gives the key of something that exists back.
THEOREM LifecycleReservationCoversMemory == Spec => []ReservationCoversMemory
<1>1. IInv => ReservationCoversMemory
  BY LifecycleAssumption DEF IInv, MemoryInv, IdInv, Known, HasContent, Claimed,
     ReservationCoversMemory, TypeOK, HistoryOK
<1> QED
  BY <1>1, LifecycleInvariant, PTL

\* With git backup no deletion, finished by its request or by recovery,
\* destroys the only copy of CONTENT.md.
THEOREM LifecycleDeletedContentIsArchived == Spec => []DeletedContentIsArchived
<1>1. IInv => DeletedContentIsArchived
  BY DEF IInv, MemoryInv, ArchiveInv, DeletedContentIsArchived, TypeOK, HistoryOK
<1> QED
  BY <1>1, LifecycleInvariant, PTL

\* The step in which a row goes.
LEMMA RowsGoInTwoPlaces ==
    ASSUME IInv, Next, NEW m \in rows \ rows'
    PROVE  del[m] = "erasing" \/ (rec = "erasing" /\ recCur = m)
BY ZenonT(60) DEF Next, Add, AddGoesOn, AddRequest, AddImportFails, AddAcquireLease, AddPersistJournal,
   AddPublishContent, AddInsertRow, AddUndoContent, AddUndoJournal, AddFinish, Delete, DelGoesOn,
   DelRequest, DelWritersDone, DelRefused, DelBackUpContent, DelAcquireLease, DelPersistJournal,
   DelStage, DelCommitRemoval, DelEraseRow, DelRestore, DelRecommit, DelCleanStaging,
   DelClearJournal, Lose, Chat, ChatOpen, ChatAdmit, ChatPublish, ChatAnswer, ChatQueue,
   ChatFinalize, ChatClose, GoChat, Recover, RecAcquireLease, RecFinish, RecRemoveStaging,
   RecMarkPending, RecCommitRemoval, RecEraseRow, RecUnlink, RecoverCreation, RecoverDeletion,
   Backup, BootStart, BootScan, BootEnqueue, WorkerRun, WorkerReport, Crash, durable

\* With git backup a row goes only after HEAD has let its content go, so that
\* a crash never leaves a deleted memory tracked.
THEOREM LifecycleRemovalIsCommittedFirst == Spec => RemovalIsCommittedFirst
<1>1. IInv /\ [Next]_vars
      => [GitEnabled => \A m \in rows \ rows' : "content" \notin head[m]]_vars
  <2> SUFFICES ASSUME IInv, Next, GitEnabled, NEW m \in rows \ rows'
               PROVE  "content" \notin head[m]
    OBVIOUS
  <2> QED
    BY RowsGoInTwoPlaces DEF IInv, MemoryInv, ArchiveInv, TypeOK, DurableOK
<1> QED
  BY <1>1, LifecycleInvariant, PTL DEF Spec, RemovalIsCommittedFirst

-----------------------------------------------------------------------------
(* Deletions and artifact writers.                                         *)

LEMMA AddKeepsWriters ==
    ASSUME WInv, NEW m \in Memories, Add(m), NEW n \in Memories
    PROVE  WriterInv(n)'
<1>1. UNCHANGED <<del, chat, staged>>
  BY DEF Add, AddGoesOn, AddRequest, AddImportFails, AddAcquireLease, AddPersistJournal,
     AddPublishContent, AddInsertRow, AddUndoContent, AddUndoJournal, AddFinish
<1>2. CASE AddPublishContent(m) \/ AddInsertRow(m) \/ AddUndoContent(m)
  <2>1. staged[m] = {}
    BY <1>2 DEF AddPublishContent, AddInsertRow, AddUndoContent, WInv, IInv, MemoryInv, AddInv,
       JournalInv
  <2> QED
    BY <1>1, <1>2, <2>1 DEF AddPublishContent, AddInsertRow, AddUndoContent, WInv, WriterInv,
       Secluded, IInv, TypeOK, DurableOK
<1>3. CASE UNCHANGED <<rows, canonical>>
  BY <1>1, <1>3 DEF WInv, WriterInv, Secluded
<1> QED
  BY <1>2, <1>3 DEF Add, AddGoesOn, AddRequest, AddImportFails, AddAcquireLease,
     AddPersistJournal, AddUndoJournal, AddFinish

LEMMA DeleteKeepsWriters ==
    ASSUME WInv, NEW m \in Memories, Delete(m), NEW n \in Memories
    PROVE  WriterInv(n)'
<1> USE DEF WInv, WriterInv, Secluded, IInv, MemoryInv, DelInv, JournalInv, TypeOK, DurableOK,
         RequestsOK, GoDel, DelReserved, DelSteps, durable, Took, Succeeded
<1>1. CASE DelRequest(m)
  BY <1>1 DEF DelRequest
<1>2. CASE DelWritersDone(m)
  BY <1>2 DEF DelWritersDone, NoActiveWriter, TargetStep
<1>3. CASE DelRefused(m)
  BY <1>3 DEF DelRefused
<1>4. CASE DelBackUpContent(m)
  BY <1>4 DEF DelBackUpContent
<1>5. CASE DelAcquireLease(m)
  BY <1>5 DEF DelAcquireLease
<1>6. CASE DelPersistJournal(m)
  BY <1>6 DEF DelPersistJournal
<1>7. CASE DelStage(m)
  BY <1>7 DEF DelStage, AfterStaging
<1>8. CASE DelCommitRemoval(m)
  BY <1>8 DEF DelCommitRemoval
<1>9. CASE DelEraseRow(m)
  BY <1>9 DEF DelEraseRow
<1>10. CASE DelRestore(m)
  BY <1>10 DEF DelRestore, AfterRestore, Outcomes
<1>11. CASE DelRecommit(m)
  BY <1>11 DEF DelRecommit, Settled
<1>12. CASE DelCleanStaging(m)
  BY <1>12 DEF DelCleanStaging
<1>13. CASE DelClearJournal(m)
  BY <1>13 DEF DelClearJournal, Settled
<1> QED
  BY <1>1, <1>2, <1>3, <1>4, <1>5, <1>6, <1>7, <1>8, <1>9, <1>10, <1>11, <1>12, <1>13
     DEF Delete, DelGoesOn

LEMMA RecoverKeepsWriters ==
    ASSUME WInv, Recover, NEW n \in Memories
    PROVE  WriterInv(n)'
<1> USE DEF WInv, WriterInv, Secluded, IInv, MemoryInv, JournalInv, TypeOK, DurableOK,
         RequestsOK, RecoveryOK, durable, requests, Took, Succeeded
<1>1. CASE RecFinish
  BY <1>1, FinishedRecovery DEF RecFinish, JoinersGoOn, NoActiveWriter, TargetStep, DelReserved,
     DelSteps
<1>2. CASE RecAcquireLease
  BY <1>2 DEF RecAcquireLease
<1>3. ASSUME Recover, rec \notin {"waiting"}, ~RecFinish
      PROVE  WriterInv(n)'
  <2>1. JoinersEnd(n) /\ chat' = chat
    BY <1>3, JoinersStayOrEnd DEF Recover, RecAcquireLease, RecoverCreation, RecoverDeletion,
       RecRemoveStaging, RecMarkPending, RecCommitRemoval, RecEraseRow, RecUnlink
  <2>2. del'[n] \in DelReserved <=> del[n] \in DelReserved
    BY <2>1 DEF JoinersEnd, DelReserved
  <2>3. del'[n] = "waiting" <=> del[n] = "waiting"
    BY <2>1 DEF JoinersEnd
  <2>4. CASE \E m \in Memories : RecoverCreation(m)
    BY <2>1, <2>2, <2>3, <2>4 DEF RecoverCreation
  <2>5. CASE \E m \in Memories : RecoverDeletion(m)
    BY <2>1, <2>2, <2>3, <2>5 DEF RecoverDeletion, Outcomes
  <2>6. CASE RecRemoveStaging \/ RecEraseRow
    BY <2>1, <2>2, <2>3, <2>6 DEF RecRemoveStaging, RecEraseRow
  <2>7. CASE RecMarkPending \/ RecCommitRemoval \/ RecUnlink
    BY <2>1, <2>2, <2>3, <2>7 DEF RecMarkPending, RecCommitRemoval, RecUnlink
  <2> QED
    BY <1>3, <2>4, <2>5, <2>6, <2>7 DEF Recover, RecAcquireLease
<1> QED
  BY <1>1, <1>2, <1>3 DEF Recover, RecAcquireLease, RecRemoveStaging, RecMarkPending,
     RecCommitRemoval, RecEraseRow, RecUnlink, RecoverCreation, RecoverDeletion

LEMMA ChatKeepsWriters ==
    ASSUME WInv, NEW m \in Memories, Chat(m), NEW n \in Memories
    PROVE  WriterInv(n)'
BY DEF WInv, WriterInv, Secluded, IInv, TypeOK, DurableOK, RequestsOK, Chat, ChatOpen, ChatAdmit,
   ChatPublish, ChatAnswer, ChatQueue, ChatFinalize, ChatClose, GoChat, Admitted, Publishing,
   requests, recovery, history, DelReserved

\* The steps that preserve the invariant of the writers.
LEMMA WritersNext ==
    ASSUME "restore" \notin Faults, WInv, [Next]_vars
    PROVE  WInv'
<1> SUFFICES ASSUME NEW n \in Memories
             PROVE  WriterInv(n)'
  BY InvariantNext DEF WInv
<1>1. CASE UNCHANGED vars \/ Backup
  BY <1>1, BackupFrame DEF vars, durable, requests, WInv, WriterInv, Secluded
<1>2. CASE Crash
  BY <1>2 DEF Crash, durable, WInv, WriterInv, Secluded, DelReserved, Publishing
<1>3. CASE \E m \in Memories : Lose(m)
  BY <1>3 DEF Lose, requests, WInv, WriterInv, Secluded, IInv, TypeOK, DurableOK
<1> QED
  BY <1>1, <1>2, <1>3, AddKeepsWriters, DeleteKeepsWriters, RecoverKeepsWriters,
     ChatKeepsWriters, LifecycleAssumption DEF Next

\* A memory whose directory is in staging has no second copy in place, unless a
\* failed restore has let a writer in: recovery can always decide.
THEOREM LifecycleNothingAmbiguous ==
    ASSUME "restore" \notin Faults
    PROVE  Spec => []NothingAmbiguous
<1>1. Init => WInv
  BY InvariantInit DEF Init, WInv, WriterInv, DelReserved
<1>2. WInv /\ [Next]_vars => WInv'
  BY WritersNext
<1>3. WInv => NothingAmbiguous
  BY DEF WInv, WriterInv, Secluded, NothingAmbiguous, IInv, TypeOK, DurableOK
<1> QED
  BY <1>1, <1>2, <1>3, PTL DEF Spec

-----------------------------------------------------------------------------
(* Backup statuses.                                                        *)

\* A memory nobody chats about has its content in HEAD after a job that names
\* it just when it has it in place.
LEMMA JobReconciles ==
    ASSUME TypeOK, NEW m \in Memories, NEW paths \in SUBSET Files, "content" \in paths,
           NEW directory \in BOOLEAN, NEW o, RunGitBackupJob(m, paths, directory, o),
           NEW n \in Memories
    PROVE  /\ n # m \/ ~Took(o) => head'[n] = head[n]
           /\ n = m /\ Took(o) => ("content" \in head'[n] <=> HasContent(n))
           /\ run.memory = NoMemory
BY DEF TypeOK, DurableOK, HasContent, RunGitBackupJob, Committed, GitIdle, Files

\* An add enqueues a job that names the content of the row it inserted, which is
\* pending; a journal it leaves is no excuse for a success.
LEMMA AddKeepsBackups ==
    ASSUME HInv, RollbackWorks, NEW m \in Memories, Add(m), NEW n \in Memories \ Chatting
    PROVE  BackupInv(n)'
<1> USE DEF HInv, WInv, IInv, MemoryInv, AddInv, JournalInv, IdInv, BackupInv, JobInv, StagingInv,
         SuccessInv, Unreconciled, NoScanWithoutGit, TypeOK, DurableOK, QueueOK, Known, Fresh,
         recovery, queue, history, Took, Succeeded, StepAdd
<1>1. CASE AddRequest(m)
  BY <1>1 DEF AddRequest, JoinRecovery
<1>2. CASE AddImportFails(m)
  BY <1>2 DEF AddImportFails
<1>3. CASE AddAcquireLease(m)
  BY <1>3 DEF AddAcquireLease
<1>4. CASE AddPersistJournal(m)
  BY <1>4 DEF AddPersistJournal
<1>5. CASE AddPublishContent(m)
  BY <1>5 DEF AddPublishContent
<1>6. CASE AddInsertRow(m)
  BY <1>6, LifecycleAssumption DEF AddInsertRow, InitialStatus
<1>7. CASE AddUndoContent(m)
  BY <1>7 DEF AddUndoContent
<1>8. CASE AddUndoJournal(m)
  BY <1>8 DEF AddUndoJournal
<1>9. CASE AddFinish(m)
  <2>1. journal[m] = "creation" /\ m \in rows /\ staged[m] = {}
    BY <1>9 DEF AddFinish
  <2>2. UNCHANGED <<rows, lost, deleted, staged, head, chat, del, run, boot, bootTodo, rec, recCur>>
    BY <1>9 DEF AddFinish
  <2>3. JobInv(n)'
    BY <1>9, <2>2 DEF AddFinish, Enqueue, EnqueueFails
  <2>4. StagingInv(n)'
    BY <1>9, <2>1, <2>2 DEF AddFinish, Enqueue, EnqueueFails
  <2>5. SuccessInv(n)'
    BY <1>9, <2>1, <2>2 DEF AddFinish, Enqueue, EnqueueFails
  <2> QED
    BY <2>2, <2>3, <2>4, <2>5
<1> QED
  BY <1>1, <1>2, <1>3, <1>4, <1>5, <1>6, <1>7, <1>8, <1>9 DEF Add, AddGoesOn

\* The same for the jobs of a deletion, of its request or of its recovery.
LEMMA DeletionJobLeaves ==
    ASSUME TypeOK, NEW m \in Memories, NEW o, RunDeletionJob(m, o), NEW n \in Memories
    PROVE  /\ n # m \/ ~Took(o) => head'[n] = head[n]
           /\ n = m /\ Took(o) => ("content" \in head'[n] <=> HasContent(n))
           /\ run.memory = NoMemory
<1> {"content"} \in SUBSET Files
  BY DEF Files
<1> QED
  BY JobReconciles DEF RunDeletionJob

\* Once its journal is written a deletion answers for HEAD, and it gives the answer
\* back, to clear the journal, only with the content committed again.
LEMMA DeleteKeepsBackups ==
    ASSUME HInv, RollbackWorks, NEW m \in Memories, Delete(m), NEW n \in Memories \ Chatting
    PROVE  BackupInv(n)'
<1> USE DEF HInv, WInv, IInv, MemoryInv, DelInv, JournalInv, BackupInv, JobInv, StagingInv,
         SuccessInv, Unreconciled, NoScanWithoutGit, TypeOK, DurableOK, RequestsOK, QueueOK, Known,
         Settled, HasContent, durable, recovery, queue, history, Took, Succeeded, GoDel,
         DelSection
<1>1. CASE DelRequest(m)
  BY <1>1 DEF DelRequest, JoinRecovery
<1>2. CASE DelWritersDone(m)
  BY <1>2 DEF DelWritersDone, TargetStep
<1>3. CASE DelRefused(m)
  BY <1>3 DEF DelRefused
<1>4. CASE DelBackUpContent(m)
  <2>1. CASE ~GitEnabled
    BY <1>4, <2>1 DEF DelBackUpContent
  <2>2. CASE GitEnabled
    <3>1. PICK o : /\ RunDeletionJob(m, o)
                   /\ GoDel(m, IF Succeeded(o) THEN "leasing" ELSE "idle")
      BY <1>4, <2>2 DEF DelBackUpContent
    <3>2. /\ n # m \/ ~Took(o) => head'[n] = head[n]
          /\ n = m /\ Took(o) => ("content" \in head'[n] <=> HasContent(n))
          /\ run.memory = NoMemory
      BY <3>1, DeletionJobLeaves
    <3> QED
      BY <1>4, <2>2, <3>1, <3>2, LifecycleAssumption DEF DelBackUpContent
  <2> QED
    BY <2>1, <2>2
<1>5. CASE DelAcquireLease(m)
  BY <1>5 DEF DelAcquireLease
<1>6. CASE DelPersistJournal(m)
  BY <1>6 DEF DelPersistJournal
<1>7. CASE DelStage(m)
  BY <1>7 DEF DelStage, AfterStaging, Outcomes, RollbackWorks
<1>8. CASE DelCommitRemoval(m)
  <2>1. PICK o : /\ RunDeletionJob(m, o)
                 /\ GoDel(m, IF Succeeded(o) THEN "erasing"
                              ELSE IF staged[m] # {} THEN "restoreGit" ELSE "clearing")
    BY <1>8 DEF DelCommitRemoval
  <2>2. /\ n # m \/ ~Took(o) => head'[n] = head[n]
        /\ n = m /\ Took(o) => ("content" \in head'[n] <=> HasContent(n))
        /\ run.memory = NoMemory
    BY <2>1, DeletionJobLeaves
  <2>3. /\ n = m => journal[n] = "deletion" /\ (n \in rows \ lost => staged[n] # {})
        /\ UNCHANGED <<rows, lost, deleted, journal, staged, status, chat, intent, job, run,
                       boot, bootTodo, rec, recCur>>
        /\ n # m => del'[n] = del[n]
        /\ n = m => del'[n] \in {"erasing", "restoreGit", "clearing"}
                    /\ (n \in rows \ lost => del'[n] # "clearing")
    BY <1>8, <2>1 DEF DelCommitRemoval
  <2>4. JobInv(n)' /\ StagingInv(n)'
    BY <1>8, <2>3 DEF DelCommitRemoval
  <2>5. SuccessInv(n)'
    <3>1. rec \in {"idle", "waiting"}
      BY <1>8, SectionExcludesRecovery DEF DelCommitRemoval
    <3> QED
      BY <1>8, <2>2, <2>3, <3>1, LifecycleAssumption DEF DelCommitRemoval
  <2> QED
    BY <2>3, <2>4, <2>5
<1>9. CASE DelEraseRow(m)
  BY <1>9 DEF DelEraseRow
<1>10. CASE DelRestore(m)
  BY <1>10 DEF DelRestore, AfterRestore, Outcomes, RollbackWorks, WriterInv, Secluded
<1>11. CASE DelRecommit(m)
  <2>1. PICK o : /\ RunDeletionJob(m, o)
                 /\ GoDel(m, IF Succeeded(o) THEN "clearing" ELSE "idle")
    BY <1>11 DEF DelRecommit
  <2>2. /\ n # m \/ ~Took(o) => head'[n] = head[n]
        /\ n = m /\ Took(o) => ("content" \in head'[n] <=> HasContent(n))
        /\ run.memory = NoMemory
    BY <2>1, DeletionJobLeaves
  <2> QED
    BY <1>11, <2>1, <2>2, LifecycleAssumption DEF DelRecommit
<1>12. CASE DelCleanStaging(m)
  BY <1>12 DEF DelCleanStaging
<1>13. CASE DelClearJournal(m)
  BY <1>13 DEF DelClearJournal
<1> QED
  BY <1>1, <1>2, <1>3, <1>4, <1>5, <1>6, <1>7, <1>8, <1>9, <1>10, <1>11, <1>12, <1>13
     DEF Delete, DelGoesOn

\* A recovery marks what it restored before it removes the journal, and when it is
\* over there is no journal, so that the scan finds nothing in staging.
LEMMA RecoverKeepsBackups ==
    ASSUME HInv, RollbackWorks, Recover, NEW n \in Memories \ Chatting
    PROVE  BackupInv(n)'
<1> USE DEF HInv, WInv, IInv, MemoryInv, DelInv, JournalInv, BackupInv, JobInv, StagingInv,
         SuccessInv, Unreconciled, NoScanWithoutGit, TypeOK, DurableOK, RequestsOK, RecoveryOK,
         QueueOK, Known, Settled, HasContent, durable, requests, recovery, queue, history, Took,
         Succeeded, DelSection
<1>1. CASE RecAcquireLease
  BY <1>1 DEF RecAcquireLease
<1>2. CASE RecFinish
  BY <1>2, FinishedRecovery DEF RecFinish, JoinersGoOn, TargetStep, EndRecovery
<1>3. ASSUME Recover, ~RecAcquireLease, ~RecFinish
      PROVE  /\ JoinersEnd(n) /\ UNCHANGED <<chat, intent, bootTodo, job, run, lost>>
             /\ del[n] \notin DelSection
             /\ boot' \in {"scanning", "enqueueing"} => boot' = boot
             /\ StayJoined \/ FailRecovery
  <2>1. StayJoined \/ FailRecovery
    BY <1>3 DEF Recover, RecoverCreation, RecoverDeletion, RecRemoveStaging, RecMarkPending,
       RecCommitRemoval, RecEraseRow, RecUnlink
  <2>2. RecoveryHoldsLease
    BY <1>3 DEF Recover, RecoverCreation, RecoverDeletion, RecRemoveStaging, RecMarkPending,
       RecCommitRemoval, RecEraseRow, RecUnlink, RecoveryHoldsLease
  <2>3. UNCHANGED <<chat, intent, bootTodo, job, run, lost>>
    BY <1>3 DEF Recover, RecoverCreation, RecoverDeletion, RecRemoveStaging, RecMarkPending,
       RecCommitRemoval, RecEraseRow, RecUnlink
  <2>4. boot' \in {"scanning", "enqueueing"} => boot' = boot
    BY <2>1 DEF StayJoined, FailRecovery, JoinersFail
  <2> QED
    BY <2>1, <2>2, <2>3, <2>4, JoinersStayOrEnd, RecoveryExcludesSections
<1>4. ASSUME NEW m \in Memories, RecoverCreation(m)
      PROVE  BackupInv(n)'
  <2>1. /\ JoinersEnd(n) /\ del[n] \notin DelSection
        /\ boot' \in {"scanning", "enqueueing"} => boot' = boot
    BY <1>3, <1>4 DEF Recover, RecAcquireLease, RecFinish, RecoverCreation
  <2> QED
    BY <1>4, <2>1, LifecycleAssumption DEF RecoverCreation, JoinersEnd, FailRecovery, EndRecovery,
       InitialStatus
<1>5. ASSUME NEW m \in Memories, RecoverDeletion(m)
      PROVE  BackupInv(n)'
  <2>1. /\ JoinersEnd(n) /\ del[n] \notin DelSection
        /\ boot' \in {"scanning", "enqueueing"} => boot' = boot
    BY <1>3, <1>5 DEF Recover, RecAcquireLease, RecFinish, RecoverDeletion
  <2> QED
    BY <1>5, <2>1, LifecycleAssumption DEF RecoverDeletion, JoinersEnd, FailRecovery, EndRecovery
<1>6. CASE RecRemoveStaging
  BY <1>3, <1>6 DEF RecRemoveStaging, Recover, RecAcquireLease, RecFinish, JoinersEnd, GoRec,
     RecInv, FailRecovery, EndRecovery
<1>7. CASE RecMarkPending
  BY <1>3, <1>7, LifecycleAssumption DEF RecMarkPending, Recover, RecAcquireLease, RecFinish,
     JoinersEnd, GoRec, RecInv, FailRecovery, EndRecovery
<1>8. CASE RecCommitRemoval
  <2>1. PICK o : RunDeletionJob(recCur, o)
    BY <1>8 DEF RecCommitRemoval
  <2>2. recCur \in Memories /\ (n # recCur => head'[n] = head[n]) /\ run.memory = NoMemory
    BY <1>8, <2>1, DeletionJobLeaves DEF RecCommitRemoval
  <2>3. recCur \in rows /\ ~HasContent(recCur) /\ staged[recCur] = {}
    BY <1>8 DEF RecCommitRemoval, RecInv
  <2> QED
    BY <1>3, <1>8, <2>2, <2>3, LifecycleAssumption DEF RecCommitRemoval, Recover, RecAcquireLease,
       RecFinish, JoinersEnd, GoRec, FailRecovery, EndRecovery
<1>9. CASE RecEraseRow
  BY <1>3, <1>9 DEF RecEraseRow, Recover, RecAcquireLease, RecFinish, JoinersEnd, GoRec,
     RecInv, FailRecovery, EndRecovery
<1>10. CASE RecUnlink
  BY <1>3, <1>10 DEF RecUnlink, Recover, RecAcquireLease, RecFinish, JoinersEnd, GoRec,
     RecInv, FailRecovery, EndRecovery
<1> QED
  BY <1>1, <1>2, <1>4, <1>5, <1>6, <1>7, <1>8, <1>9, <1>10 DEF Recover

\* The writers of other memories do not touch this one.
LEMMA ChatKeepsBackups ==
    ASSUME HInv, NEW m \in Chatting, Chat(m), NEW n \in Memories \ Chatting
    PROVE  BackupInv(n)'
<1>1. m \in Memories /\ n # m
  BY LifecycleAssumption
<1> QED
  BY <1>1 DEF HInv, WInv, IInv, BackupInv, JobInv, StagingInv, SuccessInv, Unreconciled,
     NoScanWithoutGit, TypeOK, DurableOK, RequestsOK, QueueOK, Known, requests, recovery, history,
     Chat, ChatOpen, ChatAdmit, ChatPublish, ChatAnswer, ChatQueue, ChatFinalize, ChatClose,
     GoChat, KeepIntent

\* A job that names the content leaves it in HEAD if it is in place; if it is in
\* staging, the deletion that put it there is still about.
LEMMA QueueKeepsBackups ==
    ASSUME HInv, RollbackWorks, Backup, NEW n \in Memories \ Chatting
    PROVE  BackupInv(n)'
<1> USE DEF HInv, WInv, IInv, MemoryInv, JournalInv, DelInv, BackupInv, JobInv, StagingInv,
         SuccessInv, Unreconciled, NoScanWithoutGit, TypeOK, DurableOK, RequestsOK, QueueOK, Known,
         HasContent, Settled, durable, requests, recovery, history, DelSection
<1>1. CASE BootStart
  BY <1>1 DEF BootStart, JoinRecovery
<1>2. CASE BootScan
  BY <1>2 DEF BootScan
<1>3. ASSUME NEW m \in Memories, BootEnqueue(m)
      PROVE  BackupInv(n)'
  BY <1>3 DEF BootEnqueue, Enqueue, EnqueueFails
<1>4. ASSUME NEW m \in Memories, WorkerRun(m)
      PROVE  BackupInv(n)'
  <2>1. PICK o : /\ RunGitBackupJob(m, job[m], FALSE, o)
                 /\ run' = [memory |-> m, ok |-> Succeeded(o)]
    BY <1>4 DEF WorkerRun
  <2>2. CASE n # m
    <3>1. head'[n] = head[n]
      BY <2>1, <2>2 DEF RunGitBackupJob
    <3> QED
      BY <1>4, <2>1, <2>2, <3>1, LifecycleAssumption DEF WorkerRun
  <2>3. CASE n = m
    <3>1. /\ Took(o) => ("content" \in head'[n] <=> HasContent(n))
          /\ ~Took(o) => head'[n] = head[n]
      <4>1. job[m] \in SUBSET Files /\ "content" \in job[m]
        BY <1>4, <2>3 DEF WorkerRun
      <4> QED
        BY ZenonT(60), <2>1, <2>3, <4>1, JobReconciles
    <3>2. n \in rows \ lost /\ ~HasContent(n)
          => /\ journal[n] = "deletion"
             /\ del[n] \in {"committing", "erasing", "restoreGit", "recommitting"}
      BY <1>4, <2>3 DEF WorkerRun
    <3>3. /\ UNCHANGED <<rows, lost, deleted, status, journal, staged, chat, del, intent, boot,
                         bootTodo, rec, recCur>>
          /\ run'.memory = n /\ (run'.ok => Took(o)) /\ job'[n] = {} /\ job[n] # {}
      BY <1>4, <2>1, <2>3 DEF WorkerRun, Took, Succeeded
    <3>4. JobInv(n)' /\ StagingInv(n)'
      BY <3>3
    <3>5. GitEnabled /\ (~HasContent(n) /\ n \in rows \ lost
                         => del[n] \in DelSection \ {"clearing"} /\ Unreconciled(n)')
      BY <3>2, <3>3, SectionExcludesRecovery
    <3>6. SuccessInv(n)'
      BY <3>1, <3>2, <3>3, <3>5
    <3> QED
      BY <3>4, <3>6
  <2> QED
    BY <2>2, <2>3
<1>5. ASSUME NEW m \in Memories, WorkerReport(m)
      PROVE  BackupInv(n)'
  <2>1. /\ UNCHANGED <<rows, lost, deleted, journal, staged, head, chat, del, intent, boot,
                       bootTodo, rec, recCur, job>>
        /\ run.memory = m /\ run' = [memory |-> NoMemory, ok |-> TRUE]
    BY <1>5 DEF WorkerReport
  <2>2. JobInv(n)' /\ StagingInv(n)'
    BY <2>1, LifecycleAssumption
  <2>3. status'[n] = "success" /\ n \in rows => status[n] = "success" \/ (n = m /\ run.ok)
    BY <1>5 DEF WorkerReport, ReportedStatus
  <2>4. del[n] \in {"committing", "erasing", "restoreGit", "recommitting"} => Unreconciled(n)
    BY SectionExcludesRecovery
  <2>5. SuccessInv(n)'
    BY <2>1, <2>3, <2>4, LifecycleAssumption
  <2> QED
    BY <2>2, <2>5
<1> QED
  BY <1>1, <1>2, <1>3, <1>4, <1>5 DEF Backup

\* A crash leaves no job, and a status that was true or has a deletion journal.
LEMMA CrashKeepsBackups ==
    ASSUME HInv, Crash, NEW n \in Memories \ Chatting
    PROVE  BackupInv(n)'
BY LifecycleAssumption DEF Crash, EndRecovery, durable, HInv, WInv, IInv, BackupInv, JobInv,
   StagingInv, SuccessInv, Unreconciled, NoScanWithoutGit, TypeOK, DurableOK, RequestsOK,
   RecoveryOK, MemoryInv, DelInv

\* Nothing is claimed of a memory whose directory was removed.
LEMMA LossKeepsBackups ==
    ASSUME HInv, NEW m \in Memories, Lose(m), NEW n \in Memories \ Chatting
    PROVE  BackupInv(n)'
BY DEF Lose, requests, recovery, queue, HInv, WInv, IInv, BackupInv, JobInv, StagingInv,
   SuccessInv, Unreconciled, NoScanWithoutGit, TypeOK, DurableOK, Known

\* The startup scan is begun and goes on with git backup only.
LEMMA ScansNeedGit ==
    ASSUME [Next]_vars, boot' \in {"scanning", "enqueueing"}
    PROVE  GitEnabled \/ boot \in {"scanning", "enqueueing"}
BY ZenonT(60) DEF Next, Add, AddGoesOn, AddRequest, AddImportFails, AddAcquireLease, AddPersistJournal,
   AddPublishContent, AddInsertRow, AddUndoContent, AddUndoJournal, AddFinish, Delete, DelGoesOn,
   DelRequest, DelWritersDone, DelRefused, DelBackUpContent, DelAcquireLease, DelPersistJournal,
   DelStage, DelCommitRemoval, DelEraseRow, DelRestore, DelRecommit, DelCleanStaging,
   DelClearJournal, Lose, Chat, ChatOpen, ChatAdmit, ChatPublish, ChatAnswer, ChatQueue,
   ChatFinalize, ChatClose, GoChat, Recover, RecAcquireLease, RecFinish, RecRemoveStaging,
   RecMarkPending, RecCommitRemoval, RecEraseRow, RecUnlink, RecoverCreation, RecoverDeletion,
   FailRecovery, StayJoined, JoinersFail, JoinersGoOn, Backup, BootStart, BootScan, BootEnqueue,
   WorkerRun, WorkerReport, Crash, queue, vars

\* The invariant of the backup statuses holds in every behaviour in which a
\* rollback works.
THEOREM LifecycleBackupInvariance ==
    ASSUME RollbackWorks
    PROVE  Spec => []HInv
<1>1. Init => HInv
  <2> SUFFICES ASSUME Init
               PROVE  HInv
    OBVIOUS
  <2>1. WInv
    BY InvariantInit DEF Init, WInv, WriterInv, DelReserved
  <2> QED
    BY <2>1, LifecycleAssumption DEF Init, HInv, BackupInv, JobInv, StagingInv, SuccessInv,
       NoScanWithoutGit
<1>2. HInv /\ [Next]_vars => HInv'
  <2> SUFFICES ASSUME HInv, [Next]_vars
               PROVE  HInv'
    OBVIOUS
  <2>1. WInv'
    BY WritersNext DEF HInv, RollbackWorks
  <2>2. ASSUME NEW n \in Memories \ Chatting
        PROVE  BackupInv(n)'
    <3>1. CASE UNCHANGED vars
      BY <3>1 DEF vars, durable, requests, recovery, queue, history, HInv, BackupInv, JobInv,
         StagingInv, SuccessInv, Unreconciled, Known
    <3> QED
      BY <3>1, AddKeepsBackups, DeleteKeepsBackups, RecoverKeepsBackups, ChatKeepsBackups,
         QueueKeepsBackups, CrashKeepsBackups, LossKeepsBackups DEF Next
  <2>3. NoScanWithoutGit'
    BY ScansNeedGit DEF HInv, NoScanWithoutGit
  <2> QED
    BY <2>1, <2>2, <2>3 DEF HInv
<1> QED
  BY <1>1, <1>2, PTL DEF Spec

\* Without turns about it, a listed memory that nothing is happening to and that
\* is recorded as backed up has its content in HEAD: no interleaving of jobs,
\* deletions, rollbacks, recoveries and crashes lets a success of the past be
\* believed of content that is gone from the commit.
THEOREM LifecycleSuccessIsHonest ==
    ASSUME RollbackWorks, Chatting = {}
    PROVE  Spec => []SuccessIsHonest
<1>1. HInv => SuccessIsHonest
  BY DEF HInv, WInv, IInv, TypeOK, DurableOK, BackupInv, SuccessInv, Unreconciled, SuccessIsHonest
<1> QED
  BY <1>1, LifecycleBackupInvariance, PTL

\* The step in which a deletion journal is cleared.
LEMMA JournalsGoInTwoPlaces ==
    ASSUME HInv, Next, NEW m \in Memories, journal[m] = "deletion", journal'[m] = "none"
    PROVE  del[m] = "clearing" \/ (rec = "unlinking" /\ recCur = m)
<1> USE DEF HInv, WInv, IInv, TypeOK, DurableOK
<1>1. ASSUME NEW n \in Memories, AddUndoJournal(n) \/ AddFinish(n)
      PROVE  n # m
  BY <1>1 DEF MemoryInv, AddInv, AddUndoJournal, AddFinish
<1> QED
  BY ZenonT(60), <1>1 DEF Next, Add, AddGoesOn, AddRequest, AddImportFails, AddAcquireLease,
     AddPersistJournal, AddPublishContent, AddInsertRow, AddUndoContent, AddUndoJournal,
     AddFinish, Delete, DelGoesOn, DelRequest, DelWritersDone, DelRefused, DelBackUpContent,
     DelAcquireLease, DelPersistJournal, DelStage, DelCommitRemoval, DelEraseRow, DelRestore,
     DelRecommit, DelCleanStaging, DelClearJournal, Lose, Chat, ChatOpen, ChatAdmit, ChatPublish,
     ChatAnswer, ChatQueue, ChatFinalize, ChatClose, GoChat, Recover, RecAcquireLease, RecFinish,
     RecRemoveStaging, RecMarkPending, RecCommitRemoval, RecEraseRow, RecUnlink, RecoverCreation,
     RecoverDeletion, Backup, BootStart, BootScan, BootEnqueue, WorkerRun, WorkerReport, Crash,
     durable

\* A deletion journal is cleared, by its request or by recovery, only when HEAD
\* has the content of a memory that is listed and recorded as backed up.
THEOREM LifecycleClearedOnlyReconciled ==
    ASSUME RollbackWorks, Chatting = {}
    PROVE  Spec => ClearedOnlyReconciled
<1>1. HInv /\ [Next]_vars
      => [\A m \in rows \ lost :
             journal[m] = "deletion" /\ journal'[m] = "none" /\ status[m] = "success"
             => "content" \in head[m]]_vars
  <2> SUFFICES ASSUME HInv, Next, NEW m \in rows \ lost,
                      journal[m] = "deletion", journal'[m] = "none", status[m] = "success"
               PROVE  "content" \in head[m]
    OBVIOUS
  <2>1. m \in Memories \ Chatting
    BY DEF HInv, WInv, IInv, TypeOK, DurableOK
  <2> QED
    BY <2>1, JournalsGoInTwoPlaces DEF HInv, BackupInv, SuccessInv, Unreconciled
<1> QED
  BY <1>1, LifecycleBackupInvariance, PTL DEF Spec, ClearedOnlyReconciled

-----------------------------------------------------------------------------
(* MemoryLifecycle implements MemoryCatalog, for any choice of failing calls and *)
(* any number of crashes, as long as nobody removes directories behind the *)
(* application's back.                                                     *)

\* The text of a memory is in the store, in place or staged.
Kept(m) == "content" \in canonical[m] \cup staged[m]

Archived(m) == "content" \in archived[m]

\* A step leaves the list, the text or the history of a memory as it is.
SameListing(m) == (m \in rows' <=> m \in rows) /\ (m \in deleted' <=> m \in deleted)
SameText(m)    == Kept(m)' <=> Kept(m)
SameHistory(m) == Archived(m)' <=> Archived(m)
SameAll(m)     == SameListing(m) /\ SameText(m) /\ SameHistory(m)

\* The steps of the catalog, in terms of the lifecycle.
DraftStep(m) ==
    /\ m \notin rows \cup deleted /\ ~Kept(m) /\ Kept(m)'
    /\ SameListing(m) /\ SameHistory(m)

ListStep(m) ==
    /\ m \notin rows \cup deleted /\ Kept(m) /\ m \in rows'
    /\ SameText(m) /\ SameHistory(m)

ArchiveStep(m) ==
    /\ Kept(m) /\ Archived(m)'
    /\ SameListing(m) /\ SameText(m)

DeleteStep(m) ==
    /\ m \in rows /\ (GitEnabled => Archived(m))
    /\ m \notin rows' /\ m \in deleted'
    /\ SameText(m) /\ SameHistory(m)

DiscardStep(m) ==
    /\ m \notin rows /\ Kept(m) /\ ~Kept(m)'
    /\ SameListing(m) /\ SameHistory(m)

CatalogStep(m) ==
    SameAll(m) \/ DraftStep(m) \/ ListStep(m) \/ ArchiveStep(m) \/ DeleteStep(m) \/ DiscardStep(m)

\* A step of the catalog for one memory that leaves the others alone is a step
\* of MemoryCatalog or a stutter.
LEMMA CatalogStepMaps ==
    ASSUME NEW m \in Memories, CatalogStep(m),
           \A n \in Memories \ {m} : SameAll(n)
    PROVE  Catalog!Next \/ UNCHANGED Catalog!vars
<1> DEFINE listed == [n \in Memories |-> IF n \in rows THEN "listed"
                                         ELSE IF n \in deleted THEN "deleted" ELSE "absent"]
           kept == {n \in Memories : Kept(n)}
           history_ == {n \in Memories : Archived(n)}
<1> USE DEF SameAll, SameListing, SameText, SameHistory
<1>1. CASE SameAll(m)
  <2>1. UNCHANGED <<listed, kept, history_>>
    BY <1>1
  <2> QED
    BY <2>1 DEF Catalog!vars, Kept, Archived
<1>2. CASE DraftStep(m)
  <2>1. UNCHANGED <<listed, history_>> /\ kept' = kept \cup {m} /\ m \notin kept
        /\ listed[m] = "absent"
    BY <1>2 DEF DraftStep
  <2> QED
    BY <2>1 DEF Catalog!Next, Catalog!Draft, Kept, Archived
<1>3. CASE ListStep(m)
  <2>1. UNCHANGED <<kept, history_>> /\ listed' = [listed EXCEPT ![m] = "listed"] /\ m \in kept
        /\ listed[m] = "absent"
    BY <1>3 DEF ListStep
  <2> QED
    BY <2>1 DEF Catalog!Next, Catalog!List, Kept, Archived
<1>4. CASE ArchiveStep(m)
  <2>1. UNCHANGED <<kept, listed>> /\ history_' = history_ \cup {m} /\ m \in kept
    BY <1>4 DEF ArchiveStep
  <2> QED
    BY <2>1 DEF Catalog!Next, Catalog!Archive, Kept, Archived
<1>5. CASE DeleteStep(m)
  <2>1. UNCHANGED <<kept, history_>> /\ listed' = [listed EXCEPT ![m] = "deleted"]
        /\ listed[m] = "listed" /\ (GitEnabled => m \in history_)
    BY <1>5 DEF DeleteStep
  <2> QED
    BY <2>1 DEF Catalog!Next, Catalog!Delete, Kept, Archived
<1>6. CASE DiscardStep(m)
  <2>1. UNCHANGED <<listed, history_>> /\ kept' = kept \ {m} /\ m \in kept
        /\ listed[m] # "listed"
    BY <1>6 DEF DiscardStep
  <2> QED
    BY <2>1 DEF Catalog!Next, Catalog!Discard, Kept, Archived
<1> QED
  BY <1>1, <1>2, <1>3, <1>4, <1>5, <1>6 DEF CatalogStep

-----------------------------------------------------------------------------
(* The steps of the lifecycle, group by group.                             *)

\* A step of the catalog for m, and nothing for the others.
Implements(m) == CatalogStep(m) /\ \A n \in Memories \ {m} : SameAll(n)

\* A git job archives the content of its memory, if it is in place.
LEMMA GitJobImplements ==
    ASSUME IInv, NEW m \in Memories, NEW paths \in SUBSET Files,
           NEW directory \in BOOLEAN, NEW o, RunGitBackupJob(m, paths, directory, o),
           UNCHANGED <<rows, deleted, canonical, staged>>
    PROVE  Implements(m)
<1>1. ASSUME NEW n \in Memories \ {m}
      PROVE  SameAll(n)
  BY <1>1 DEF RunGitBackupJob, SameAll, SameListing, SameText, SameHistory, Kept, Archived, IInv,
     TypeOK, HistoryOK
<1>2. SameHistory(m) \/ (HasContent(m) /\ Archived(m)')
  BY DEF RunGitBackupJob, SameHistory, Archived, HasContent, Committed, IInv, MemoryInv,
     ArchiveInv, TypeOK, DurableOK, HistoryOK
<1> QED
  BY <1>1, <1>2 DEF Implements, CatalogStep, ArchiveStep, SameAll, SameListing, SameText, Kept,
     HasContent

LEMMA AddImplements ==
    ASSUME IInv, lost = {}, NEW m \in Memories, Add(m)
    PROVE  Implements(m)
<1> USE DEF Implements, CatalogStep, SameAll, SameListing, SameText, SameHistory, Kept, Archived,
         IInv, TypeOK, DurableOK, history
<1>1. CASE AddPublishContent(m)
  BY <1>1 DEF AddPublishContent, DraftStep, MemoryInv, AddInv, JournalInv, Fresh, Known,
     HasContent
<1>2. CASE AddInsertRow(m)
  BY <1>2 DEF AddInsertRow, ListStep, MemoryInv, AddInv, Fresh, Known, HasContent
<1>3. CASE AddUndoContent(m)
  BY <1>3 DEF AddUndoContent, DiscardStep, MemoryInv, AddInv, Fresh, Known
<1>4. CASE UNCHANGED <<rows, deleted, canonical, staged, archived>>
  BY <1>4
<1> QED
  BY <1>1, <1>2, <1>3, <1>4 DEF Add, AddGoesOn, AddRequest, AddImportFails, AddAcquireLease,
     AddPersistJournal, AddUndoJournal, AddFinish

LEMMA DeleteImplements ==
    ASSUME IInv, lost = {}, NEW m \in Memories, Delete(m)
    PROVE  Implements(m)
<1> USE DEF Implements, CatalogStep, SameAll, SameListing, SameText, SameHistory, Kept, Archived,
         IInv, TypeOK, DurableOK, history
<1>1. CASE DelBackUpContent(m) \/ DelCommitRemoval(m) \/ DelRecommit(m)
  <2>1. UNCHANGED <<rows, deleted, canonical, staged>>
    BY <1>1 DEF DelBackUpContent, DelCommitRemoval, DelRecommit
  <2>2. UNCHANGED archived \/ \E o : RunDeletionJob(m, o)
    BY <1>1 DEF DelBackUpContent, DelCommitRemoval, DelRecommit
  <2> QED
    BY <2>1, <2>2, GitJobImplements DEF RunDeletionJob, Files
<1>2. CASE DelStage(m)
  BY <1>2 DEF DelStage, MemoryInv, DelInv
<1>3. CASE DelEraseRow(m)
  BY <1>3 DEF DelEraseRow, DeleteStep, MemoryInv, ArchiveInv
<1>4. CASE DelRestore(m)
  BY <1>4 DEF DelRestore, Took
<1>5. CASE DelCleanStaging(m)
  BY <1>5 DEF DelCleanStaging, DiscardStep, MemoryInv, DelInv
<1>6. CASE UNCHANGED <<rows, deleted, canonical, staged, archived>>
  BY <1>6
<1> QED
  BY <1>1, <1>2, <1>3, <1>4, <1>5, <1>6 DEF Delete, DelGoesOn, DelRequest, DelWritersDone,
     DelRefused, DelAcquireLease, DelPersistJournal, DelClearJournal, durable

LEMMA RecoverImplements ==
    ASSUME IInv, lost = {}, Recover
    PROVE  \/ \E m \in Memories : Implements(m)
           \/ UNCHANGED <<rows, deleted, canonical, staged, archived>>
<1> USE DEF Implements, CatalogStep, SameAll, SameListing, SameText, SameHistory, Kept, Archived,
         IInv, TypeOK, DurableOK, RecoveryOK, history
<1>1. ASSUME NEW m \in Memories, RecoverCreation(m)
      PROVE  Implements(m)
  BY <1>1 DEF RecoverCreation, ListStep, MemoryInv, JournalInv
<1>2. ASSUME NEW m \in Memories, RecoverDeletion(m)
      PROVE  Implements(m)
  BY <1>2 DEF RecoverDeletion, MemoryInv, JournalInv, HasContent
<1>3. CASE RecRemoveStaging
  <2>1. PICK m \in Memories : m = recCur
    BY <1>3 DEF RecRemoveStaging
  <2>2. Implements(m)
    BY <1>3, <2>1 DEF RecRemoveStaging, DiscardStep, RecInv, HasContent
  <2> QED
    BY <2>2
<1>4. CASE RecCommitRemoval
  <2>1. PICK m \in Memories : m = recCur
    BY <1>4 DEF RecCommitRemoval
  <2>2. PICK o : RunDeletionJob(m, o) /\ UNCHANGED <<rows, deleted, canonical, staged>>
    BY <1>4, <2>1 DEF RecCommitRemoval
  <2>3. Implements(m)
    BY <2>1, <2>2, GitJobImplements DEF RunDeletionJob, Files
  <2> QED
    BY <2>1, <2>3
<1>5. CASE RecEraseRow
  BY <1>5 DEF RecEraseRow, RecInv, MemoryInv, JournalInv
<1>6. CASE UNCHANGED <<rows, deleted, canonical, staged, archived>>
  BY <1>6
<1> QED
  BY <1>1, <1>2, <1>3, <1>4, <1>5, <1>6 DEF Recover, RecAcquireLease, RecFinish, RecMarkPending,
     RecUnlink, durable

LEMMA ChatImplements ==
    ASSUME IInv, NEW m \in Memories, Chat(m)
    PROVE  Implements(m)
<1>1. UNCHANGED <<rows, deleted, staged, archived>>
  BY DEF Chat, ChatOpen, ChatAdmit, ChatPublish, ChatAnswer, ChatQueue, ChatFinalize, ChatClose,
     GoChat, history
<1>2. \A n \in Memories : HasContent(n)' <=> HasContent(n)
  BY DEF Chat, ChatOpen, ChatAdmit, ChatPublish, ChatAnswer, ChatQueue, ChatFinalize, ChatClose,
     HasContent, IInv, TypeOK, DurableOK
<1> QED
  BY <1>1, <1>2 DEF Implements, CatalogStep, SameAll, SameListing, SameText, SameHistory, Kept,
     Archived, HasContent

LEMMA BackupImplements ==
    ASSUME IInv, Backup
    PROVE  \/ \E m \in Memories : Implements(m)
           \/ UNCHANGED <<rows, deleted, canonical, staged, archived>>
<1>1. CASE \E m \in Memories : WorkerRun(m)
  <2>1. PICK m \in Memories : \E o : RunGitBackupJob(m, job[m], FALSE, o)
    BY <1>1 DEF WorkerRun
  <2>2. job[m] \in SUBSET Files /\ UNCHANGED <<rows, deleted, canonical, staged>>
    BY <1>1 DEF WorkerRun, IInv, TypeOK, QueueOK
  <2>3. Implements(m)
    BY <2>1, <2>2, GitJobImplements
  <2> QED
    BY <2>3
<1> QED
  BY <1>1 DEF Backup, BootStart, BootScan, BootEnqueue, WorkerReport, durable, history

-----------------------------------------------------------------------------

LEMMA NothingIsLost ==
    ASSUME "loss" \notin Faults
    PROVE  Spec => [](lost = {})
<1>1. Init => lost = {}
  BY DEF Init
<1>2. lost = {} /\ [Next]_vars => (lost = {})'
  BY ZenonT(60) DEF Next, vars, Add, AddGoesOn, AddRequest, AddImportFails, AddAcquireLease,
     AddPersistJournal, AddPublishContent, AddInsertRow, AddUndoContent, AddUndoJournal, AddFinish,
     Delete, DelGoesOn, DelRequest, DelWritersDone, DelRefused, DelBackUpContent, DelAcquireLease,
     DelPersistJournal, DelStage, DelCommitRemoval, DelEraseRow, DelRestore, DelRecommit,
     DelCleanStaging, DelClearJournal, Lose, Chat, ChatOpen, ChatAdmit, ChatPublish, ChatAnswer,
     ChatQueue, ChatFinalize, ChatClose, GoChat, Recover, RecAcquireLease, RecFinish,
     RecRemoveStaging, RecMarkPending, RecCommitRemoval, RecEraseRow, RecUnlink, RecoverCreation,
     RecoverDeletion, Backup, BootStart, BootScan, BootEnqueue, WorkerRun, WorkerReport, Crash,
     history
<1> QED
  BY <1>1, <1>2, PTL DEF Spec

\* Adding, deleting, recovering, crashing and backing up implement the catalog:
\* every step is one of its steps or a stutter.
THEOREM LifecycleImplementsCatalog ==
    ASSUME "loss" \notin Faults
    PROVE  Spec => ImplementsCatalog
<1>1. Init => Catalog!Init
  BY DEF Init, Catalog!Init
<1>2. IInv /\ lost = {} /\ [Next]_vars => [Catalog!Next]_(Catalog!vars)
  <2>1. CASE UNCHANGED vars
    BY <2>1 DEF vars, durable, history, Catalog!vars
  <2>2. CASE UNCHANGED <<rows, deleted, canonical, staged, archived>>
    BY <2>2 DEF Catalog!vars
  <2>3. ASSUME IInv, lost = {}, Next
        PROVE  \/ \E m \in Memories : Implements(m)
               \/ UNCHANGED <<rows, deleted, canonical, staged, archived>>
    <3>1. CASE Crash
      BY <3>1 DEF Crash, durable
    <3>2. ASSUME NEW m \in Memories
          PROVE  ~Lose(m)
      BY DEF Lose
    <3> QED
      BY <2>3, <3>1, <3>2, AddImplements, DeleteImplements, RecoverImplements, ChatImplements,
         BackupImplements, LifecycleAssumption DEF Next
  <2> QED
    BY <2>1, <2>2, <2>3, CatalogStepMaps DEF Implements
<1> QED
  BY <1>1, <1>2, LifecycleInvariant, NothingIsLost, PTL DEF Spec, ImplementsCatalog, Catalog!Spec

-----------------------------------------------------------------------------
(* What the catalog promises, and so the lifecycle that implements it.      *)

\* The catalog has three states per memory, and nothing else is kept or archived.
LEMMA CatalogTypes == Catalog!TypeOK
BY DEF Catalog!TypeOK

\* A listed memory has its text in the store: publication precedes the row, and
\* the text is thrown away only after the row (add-memory.ts, delete-memory.ts).
THEOREM CatalogKeepsListed == Catalog!Spec => []Catalog!ListedIsKept
<1>1. Catalog!Init => Catalog!ListedIsKept
  BY DEF Catalog!Init, Catalog!ListedIsKept
<1>2. Catalog!TypeOK /\ Catalog!ListedIsKept /\ [Catalog!Next]_(Catalog!vars)
        => Catalog!ListedIsKept'
  BY ZenonT(60) DEF Catalog!TypeOK, Catalog!ListedIsKept, Catalog!Next, Catalog!vars, Catalog!Draft, Catalog!List,
     Catalog!Archive, Catalog!Delete, Catalog!Discard
<1> QED
  BY <1>1, <1>2, CatalogTypes, PTL DEF Catalog!Spec

\* With git backup, the text of a deleted memory is in some commit (the backup
\* delete-memory.ts makes before it moves anything).
THEOREM CatalogArchivesDeleted == Catalog!Spec => []Catalog!DeletedIsInHistory
<1>1. Catalog!Init => Catalog!DeletedIsInHistory
  BY DEF Catalog!Init, Catalog!DeletedIsInHistory
<1>2. Catalog!TypeOK /\ Catalog!DeletedIsInHistory /\ [Catalog!Next]_(Catalog!vars)
        => Catalog!DeletedIsInHistory'
  BY DEF Catalog!TypeOK, Catalog!DeletedIsInHistory, Catalog!Next, Catalog!vars, Catalog!Draft, Catalog!List,
     Catalog!Archive, Catalog!Delete, Catalog!Discard
<1> QED
  BY <1>1, <1>2, CatalogTypes, PTL DEF Catalog!Spec

\* A deleted memory stays deleted: no step takes it out of that state.
THEOREM CatalogDeletesForGood ==
    Catalog!Spec => [][\A m \in Memories : m \in deleted /\ m \notin rows =>
                         m \in deleted' /\ m \notin rows']_(Catalog!vars)
<1>1. Catalog!TypeOK /\ [Catalog!Next]_(Catalog!vars) =>
        [\A m \in Memories : m \in deleted /\ m \notin rows =>
           m \in deleted' /\ m \notin rows']_(Catalog!vars)
  BY DEF Catalog!TypeOK, Catalog!Next, Catalog!vars, Catalog!Draft, Catalog!List,
     Catalog!Archive, Catalog!Delete, Catalog!Discard
<1> QED
  BY <1>1, CatalogTypes, PTL DEF Catalog!Spec

\* The lifecycle keeps these promises: whatever fails or crashes, a listed memory
\* has its text and a deleted one is in the history.
THEOREM LifecycleKeepsPromises ==
    ASSUME "loss" \notin Faults
    PROVE  Spec => [](Catalog!ListedIsKept /\ Catalog!DeletedIsInHistory)
<1>1. Spec => Catalog!Spec
  BY LifecycleImplementsCatalog DEF ImplementsCatalog
<1> QED
  BY <1>1, CatalogKeepsListed, CatalogArchivesDeleted, PTL

=============================================================================
