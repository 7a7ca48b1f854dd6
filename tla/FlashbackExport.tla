-------------------------- MODULE FlashbackExport --------------------------
(***************************************************************************)
(* The Flashbacks of one memory in one language, or of its source: the      *)
(* rows in SQLite, which are the authority, and FLASHBACKS.json, which has  *)
(* to tell them.  Readers toggle marks, translations of the language are    *)
(* committed, the startup replays the retained export intents and then      *)
(* scans the memories that need a backup, the memory may be deleted, any    *)
(* file or database call may fail and the process may die.                  *)
(*                                                                          *)
(* How the ranges are merged and split is in FlashbackRanges.  The          *)
(* exclusion of a recovery and a mutation, and the reservation of a         *)
(* deletion, are guards here: their protocols are in MemoryOperationLease   *)
(* and MemoryLifecycle.                                                     *)
(***************************************************************************)
EXTENDS FlashbackRanges

CONSTANTS
    Readers,     \* requests to toggle a Flashback
    Jobs,        \* translation jobs of the language
    Hashes,      \* the output hashes of its translations; of the source, one
    Selections,  \* the selections of the readers: records of offsets, from and to
    Recovery,    \* the replay of the intents
    Scan,        \* the scan of the memories eligible for a backup
    Faults,      \* of "database", "export", "sync", "intent", "clear"
    MaxFaults,   \* bound: how many calls fail and how often the process dies
    None         \* no hash, no file, no selection

ASSUME ExportAssumption ==
    /\ Faults \subseteq {"database", "export", "sync", "intent", "clear"}
    /\ MaxFaults \in Nat
    /\ \A s \in Selections : {s.from, s.to} \subseteq Nat /\ s.from < s.to
    /\ None \notin Hashes \cup Selections
    /\ {Recovery, Scan} \cap (Readers \cup Jobs) = {}
    /\ Recovery # Scan /\ Readers \cap Jobs = {}

VARIABLES
    \* durable
    exists,     \* the row of the memory
    rows,       \* of each variant: the ranges of its Flashbacks
    output,     \* the hash of the translated file
    complete,   \* the output hash of the complete job of the language
    file,       \* FLASHBACKS.json: the variant it names and the ranges it tells
    unsynced,   \* what the file may be again after a crash
    intents,    \* the variants with a retained export intent
    \* of the process
    lock,       \* who holds the variant lock and who waits for it, in order
    reader, job, recovery, scan,
    faults

store == <<exists, rows, output, complete, file, unsynced, intents>>
vars == <<exists, rows, output, complete, file, unsynced, intents, lock, reader, job, recovery,
          scan, faults>>

Export(hash, ranges) == [hash |-> hash, ranges |-> ranges]
Wishes == {"flashback", "unflashback", "either"}

Asleep == [pc |-> "idle", hash |-> None, selection |-> None, before |-> <<>>,
           after |-> <<>>]
Unmade == [pc |-> "idle", hash |-> None]
Unstarted == [pc |-> "off", todo |-> {}, intent |-> None, export |-> None]

\* The variant whose projection the file has to be: that of the complete
\* translation, unless the translated file is not the one it made.
Authority == IF exists /\ output = complete THEN complete ELSE None

\* Those inside the reservation of the memory, and those a deletion and a
\* recovery exclude by the lease of the store.
Writing ==
    \/ \E r \in Readers : reader[r].pc \in {"intend", "replace", "export", "undo", "clear"}
    \/ \E j \in Jobs : job[j].pc \in {"output", "intend", "complete", "export", "clear"}
Leased == \E r \in Readers : reader[r].pc \notin {"idle", "resolved"}
Recovering == recovery.pc \notin {"off", "done", "failed"}

Holds(p) == lock # <<>> /\ Head(lock) = p
Fail(kind) == kind \in Faults /\ faults < MaxFaults /\ faults' = faults + 1

----------------------------------------------------------------------------
(* The export file *)

Publish(e) == file' = e /\ unsynced' = {}

\* The rename ran, its durability could not be confirmed.
PublishUnsynced(e) ==
    /\ Fail("sync")
    /\ file' = e
    /\ unsynced' = unsynced \cup {file}

NotPublished == Fail("export") /\ UNCHANGED <<file, unsynced>>

----------------------------------------------------------------------------
(* A reader toggles the Flashback of a selection *)

LeaveReader(r) ==
    /\ reader' = [reader EXCEPT ![r] = Asleep]
    /\ lock' = Tail(lock)

\* The request resolves the translation that is current.
Resolve(r) ==
    /\ reader[r].pc = "idle" /\ Authority # None
    /\ reader' = [reader EXCEPT ![r].pc = "resolved", ![r].hash = Authority]
    /\ UNCHANGED <<store, lock, job, recovery, scan, faults>>

Enter(r) ==
    /\ reader[r].pc = "resolved" /\ ~Recovering
    /\ reader' = [reader EXCEPT ![r].pc = "wait"]
    /\ lock' = Append(lock, r)
    /\ UNCHANGED <<store, job, recovery, scan, faults>>

\* A covered selection is removed, unless the reader asked to add it; then
\* nothing changes.
Toggled(ranges, selection, wish) ==
    IF ~IsRangeFullyFlashbacked(ranges, selection)
    THEN AddFlashbackCoverage(ranges, selection)
    ELSE IF wish = "flashback" THEN ranges
    ELSE RemoveFlashbackCoverage(ranges, selection)

\* Faulty form: the rows are read before the lock is held.
ReadRowsUnlocked(r) ==
    LET ranges == rows[reader[r].hash]
    IN  /\ reader[r].pc = "wait" /\ exists
        /\ \E s \in Selections, w \in Wishes :
              /\ w = "unflashback" => IsRangeFullyFlashbacked(ranges, s)
              /\ reader' = [reader EXCEPT ![r].pc = "intend", ![r].selection = s,
                               ![r].before = ranges, ![r].after = Toggled(ranges, s, w)]
        /\ UNCHANGED <<store, lock, job, recovery, scan, faults>>

\* What the reader selected matters from here on.
ReadRows(r) ==
    LET ranges == rows[reader[r].hash]
    IN  /\ reader[r].pc = "wait" /\ Holds(r) /\ exists
        /\ \E s \in Selections, w \in Wishes :
              /\ w = "unflashback" => IsRangeFullyFlashbacked(ranges, s)
              /\ reader' = [reader EXCEPT ![r].pc = "intend", ![r].selection = s,
                               ![r].before = ranges, ![r].after = Toggled(ranges, s, w)]
        /\ UNCHANGED <<store, lock, job, recovery, scan, faults>>

\* There is no memory, or the selection is not covered any more.
RefuseToggle(r) ==
    /\ reader[r].pc = "wait" /\ Holds(r)
    /\ \/ ~exists
       \/ \E s \in Selections : ~IsRangeFullyFlashbacked(rows[reader[r].hash], s)
    /\ LeaveReader(r)
    /\ UNCHANGED <<store, job, recovery, scan, faults>>

\* The intents of the backup and of the export; either may fail, and the
\* second may be there nevertheless.
PersistIntent(r) ==
    /\ reader[r].pc = "intend" /\ Holds(r)
    /\ \/ /\ reader' = [reader EXCEPT ![r].pc = "replace"]
          /\ intents' = intents \cup {reader[r].hash}
          /\ UNCHANGED <<lock, faults>>
       \/ /\ Fail("intent")
          /\ LeaveReader(r)
          /\ intents' \in {intents, intents \cup {reader[r].hash}}
    /\ UNCHANGED <<exists, rows, output, complete, file, unsynced, job, recovery, scan>>

ReplaceRows(r) ==
    /\ reader[r].pc = "replace"
    /\ \/ /\ rows' = [rows EXCEPT ![reader[r].hash] = reader[r].after]
          /\ reader' = [reader EXCEPT ![r].pc = "export"]
          /\ UNCHANGED <<lock, faults>>
       \/ /\ Fail("database")
          /\ LeaveReader(r)
          /\ UNCHANGED rows
    /\ UNCHANGED <<exists, output, complete, file, unsynced, intents, job, recovery, scan>>

\* A failure after the rename keeps the rows and the intent; one before it
\* puts the rows back.
ExportToggle(r) ==
    LET e == Export(reader[r].hash, reader[r].after)
    IN  /\ reader[r].pc = "export"
        /\ \/ /\ Publish(e)
              /\ reader' = [reader EXCEPT ![r].pc = "clear"]
              /\ UNCHANGED <<lock, faults>>
           \/ /\ PublishUnsynced(e)
              /\ LeaveReader(r)
           \/ /\ NotPublished
              /\ reader' = [reader EXCEPT ![r].pc = "undo"]
              /\ UNCHANGED lock
        /\ UNCHANGED <<exists, rows, output, complete, intents, job, recovery, scan>>

\* The request fails; the intent stays.
UndoRows(r) ==
    /\ reader[r].pc = "undo"
    /\ \/ rows' = [rows EXCEPT ![reader[r].hash] = reader[r].before] /\ UNCHANGED faults
       \/ Fail("database") /\ UNCHANGED rows
    /\ LeaveReader(r)
    /\ UNCHANGED <<exists, output, complete, file, unsynced, intents, job, recovery, scan>>

\* Best effort, and the backup is enqueued.
ClearToggle(r) ==
    /\ reader[r].pc = "clear"
    /\ \/ intents' = intents \ {reader[r].hash} /\ UNCHANGED faults
       \/ Fail("clear") /\ UNCHANGED intents
    /\ LeaveReader(r)
    /\ UNCHANGED <<exists, rows, output, complete, file, unsynced, job, recovery, scan>>

----------------------------------------------------------------------------
(* A translation is committed *)

LeaveJob(j) ==
    /\ job' = [job EXCEPT ![j] = Unmade]
    /\ lock' = Tail(lock)

\* A start finds no current translation; a complete job whose file is not the
\* one it made is retired.
Probe(j) ==
    /\ job[j].pc = "idle" /\ exists /\ Authority = None
    /\ complete' = None
    /\ job' = [job EXCEPT ![j].pc = "probed"]
    /\ UNCHANGED <<exists, rows, output, file, unsynced, intents, lock, reader, recovery, scan,
                   faults>>

\* One job at a time translates the source.  Its chunks give one output.
Translate(j) ==
    /\ job[j].pc = "probed" /\ exists
    /\ \A i \in Jobs : job[i].hash = None
    /\ \E h \in Hashes : job' = [job EXCEPT ![j] = [pc |-> "ready", hash |-> h]]
    /\ UNCHANGED <<store, lock, reader, recovery, scan, faults>>

\* A run of the job commits; after a crash the next start runs it again.
JoinCommit(j) ==
    /\ job[j].pc = "ready"
    /\ job' = [job EXCEPT ![j].pc = "wait"]
    /\ lock' = Append(lock, j)
    /\ UNCHANGED <<store, reader, recovery, scan, faults>>

\* Without the memory there is no source to load.
CheckSource(j) ==
    /\ job[j].pc = "wait" /\ Holds(j)
    /\ IF exists THEN job' = [job EXCEPT ![j].pc = "output"] /\ UNCHANGED lock
       ELSE LeaveJob(j)
    /\ UNCHANGED <<store, reader, recovery, scan, faults>>

WriteOutput(j) ==
    /\ job[j].pc = "output"
    /\ \/ /\ output' = job[j].hash
          /\ job' = [job EXCEPT ![j].pc = "intend"]
          /\ UNCHANGED <<lock, faults>>
       \/ /\ Fail("export")
          /\ LeaveJob(j)
          /\ UNCHANGED output
    /\ UNCHANGED <<exists, rows, complete, file, unsynced, intents, reader, recovery, scan>>

IntendCommit(j) ==
    /\ job[j].pc = "intend"
    /\ \/ /\ intents' = intents \cup {job[j].hash}
          /\ job' = [job EXCEPT ![j].pc = "complete"]
          /\ UNCHANGED <<lock, faults>>
       \/ /\ Fail("intent")
          /\ LeaveJob(j)
          /\ intents' \in {intents, intents \cup {job[j].hash}}
    /\ UNCHANGED <<exists, rows, output, complete, file, unsynced, reader, recovery, scan>>

\* Only one complete job of a source may be; the unique index refuses another.
CompleteJob(j) ==
    /\ job[j].pc = "complete"
    /\ \/ /\ complete = None
          /\ complete' = job[j].hash
          /\ job' = [job EXCEPT ![j].pc = "export"]
          /\ UNCHANGED <<lock, faults>>
       \/ /\ complete # None
          /\ LeaveJob(j)
          /\ UNCHANGED <<complete, faults>>
       \/ /\ Fail("database")
          /\ LeaveJob(j)
          /\ UNCHANGED complete
    /\ UNCHANGED <<exists, rows, output, file, unsynced, intents, reader, recovery, scan>>

\* The job stays complete when its projection fails.
ExportCommit(j) ==
    LET e == Export(job[j].hash, rows[job[j].hash])
    IN  /\ job[j].pc = "export"
        /\ \/ /\ Publish(e)
              /\ job' = [job EXCEPT ![j].pc = "clear"]
              /\ UNCHANGED <<lock, faults>>
           \/ (PublishUnsynced(e) \/ NotPublished) /\ LeaveJob(j)
        /\ UNCHANGED <<exists, rows, output, complete, intents, reader, recovery, scan>>

ClearCommit(j) ==
    /\ job[j].pc = "clear"
    /\ \/ intents' = intents \ {job[j].hash} /\ UNCHANGED faults
       \/ Fail("clear") /\ UNCHANGED intents
    /\ LeaveJob(j)
    /\ UNCHANGED <<exists, rows, output, complete, file, unsynced, reader, recovery, scan>>

----------------------------------------------------------------------------
(* The startup replays the intents *)

AskRecovery ==
    /\ recovery.pc = "off"
    /\ recovery' = [recovery EXCEPT !.pc = "start"]
    /\ UNCHANGED <<store, lock, reader, job, scan, faults>>

\* It holds the lease of the store alone.
ListIntents ==
    /\ recovery.pc = "start" /\ ~Leased
    /\ recovery' = [recovery EXCEPT !.pc = "next", !.todo = intents]
    /\ UNCHANGED <<store, lock, reader, job, scan, faults>>

\* The intent of a memory that is gone is dropped.  An intent that a commit
\* cleared after the listing cannot be read and ends the replay.
TakeIntent ==
    /\ recovery.pc = "next"
    /\ IF recovery.todo = {} THEN
          recovery' = [Unstarted EXCEPT !.pc = "done"] /\ UNCHANGED lock
       ELSE \E i \in recovery.todo :
          IF i \notin intents THEN
             recovery' = [Unstarted EXCEPT !.pc = "failed"] /\ UNCHANGED lock
          ELSE IF exists THEN
             /\ recovery' = [recovery EXCEPT !.pc = "wait", !.intent = i,
                                             !.todo = recovery.todo \ {i}]
             /\ lock' = Append(lock, Recovery)
          ELSE /\ recovery' = [recovery EXCEPT !.pc = "clear", !.intent = i,
                                               !.todo = recovery.todo \ {i}]
               /\ UNCHANGED lock
    /\ UNCHANGED <<store, reader, job, scan, faults>>

\* Faulty form: the projection of the intent, not of the current translation.
ReadIntended ==
    /\ recovery.pc = "wait" /\ Holds(Recovery)
    /\ recovery' = [recovery EXCEPT !.pc = "write",
                        !.export = Export(recovery.intent, rows[recovery.intent])]
    /\ UNCHANGED <<store, lock, reader, job, scan, faults>>

\* Faulty form: an intent without a current translation is passed over.
ReadAuthorityOrPass ==
    /\ recovery.pc = "wait" /\ Holds(Recovery)
    /\ IF Authority = None THEN
          recovery' = [recovery EXCEPT !.pc = "next"] /\ lock' = Tail(lock)
       ELSE /\ recovery' = [recovery EXCEPT !.pc = "write",
                                !.export = Export(Authority, rows[Authority])]
            /\ UNCHANGED lock
    /\ UNCHANGED <<store, reader, job, scan, faults>>

\* The rows of the current translation are read under the variant lock.
ReadAuthority ==
    /\ recovery.pc = "wait" /\ Holds(Recovery)
    /\ IF Authority = None THEN
          recovery' = [recovery EXCEPT !.pc = "clear"] /\ lock' = Tail(lock)
       ELSE /\ recovery' = [recovery EXCEPT !.pc = "write",
                                !.export = Export(Authority, rows[Authority])]
            /\ UNCHANGED lock
    /\ UNCHANGED <<store, reader, job, scan, faults>>

\* A failed export fails the replay; the intent stays.
Reexport ==
    /\ recovery.pc = "write"
    /\ \/ /\ Publish(recovery.export)
          /\ recovery' = [recovery EXCEPT !.pc = "clear"]
          /\ UNCHANGED faults
       \/ /\ PublishUnsynced(recovery.export) \/ NotPublished
          /\ recovery' = [Unstarted EXCEPT !.pc = "failed"]
    /\ lock' = Tail(lock)
    /\ UNCHANGED <<exists, rows, output, complete, intents, reader, job, scan>>

\* The variant lock is not held any more.
ClearRecovered ==
    /\ recovery.pc = "clear"
    /\ \/ /\ intents' = intents \ {recovery.intent}
          /\ recovery' = [recovery EXCEPT !.pc = "next", !.intent = None, !.export = None]
          /\ UNCHANGED faults
       \/ /\ Fail("clear")
          /\ recovery' = [Unstarted EXCEPT !.pc = "failed"]
          /\ UNCHANGED intents
    /\ UNCHANGED <<exists, rows, output, complete, file, unsynced, lock, reader, job, scan>>

----------------------------------------------------------------------------
(* The scan writes the projections of a memory it backs up again *)

\* It takes the hash of the complete job before it waits for the lock.
ScanTranslations ==
    /\ scan.pc = "off" /\ recovery.pc = "done" /\ exists
    /\ IF complete = None THEN scan' = [scan EXCEPT !.pc = "done"] /\ UNCHANGED lock
       ELSE /\ scan' = [scan EXCEPT !.pc = "wait", !.intent = complete]
            /\ lock' = Append(lock, Scan)
    /\ UNCHANGED <<store, reader, job, recovery, faults>>

\* An export that is missing and would tell nothing is not written.
ScanRows ==
    /\ scan.pc = "wait" /\ Holds(Scan)
    /\ IF rows[scan.intent] = <<>> /\ file = None THEN
          scan' = [Unstarted EXCEPT !.pc = "done"] /\ lock' = Tail(lock)
       ELSE /\ scan' = [scan EXCEPT !.pc = "write",
                            !.export = Export(scan.intent, rows[scan.intent])]
            /\ UNCHANGED lock
    /\ UNCHANGED <<store, reader, job, recovery, faults>>

ScanExport ==
    /\ scan.pc = "write"
    /\ \/ Publish(scan.export) /\ UNCHANGED faults
       \/ (PublishUnsynced(scan.export) \/ NotPublished)
    /\ scan' = [Unstarted EXCEPT !.pc = "done"]
    /\ lock' = Tail(lock)
    /\ UNCHANGED <<exists, rows, output, complete, intents, reader, job, recovery>>

----------------------------------------------------------------------------
(* The surroundings *)

\* A deletion holds the lease and waits for those who write.
DeleteMemory ==
    /\ exists /\ ~Recovering /\ ~Writing
    /\ exists' = FALSE
    /\ rows' = [h \in Hashes |-> <<>>]
    /\ output' = None /\ complete' = None
    /\ file' = None /\ unsynced' = {}
    /\ UNCHANGED <<intents, lock, reader, job, recovery, scan, faults>>

\* The process dies.  A job that was to commit is run again by a later start,
\* one that is complete is over.
Crash ==
    /\ faults < MaxFaults /\ faults' = faults + 1
    /\ file' \in {file} \cup unsynced /\ unsynced' = {}
    /\ lock' = <<>>
    /\ reader' = [r \in Readers |-> Asleep]
    /\ job' = [j \in Jobs |->
          IF job[j].pc \in {"wait", "output", "intend", "complete"} THEN [job[j] EXCEPT !.pc = "ready"]
          ELSE IF job[j].pc = "ready" THEN job[j] ELSE Unmade]
    /\ recovery' = Unstarted /\ scan' = Unstarted
    /\ UNCHANGED <<exists, rows, output, complete, intents>>

----------------------------------------------------------------------------

\* The process runs; the language may have a translation already.  The source
\* is a variant that Hashes has alone and no job makes another of.
Init ==
    /\ exists = TRUE
    /\ rows = [h \in Hashes |-> <<>>]
    /\ output \in IF Jobs = {} THEN Hashes ELSE Hashes \cup {None}
    /\ complete = output
    /\ file = None /\ unsynced = {} /\ intents = {}
    /\ lock = <<>>
    /\ reader = [r \in Readers |-> Asleep]
    /\ job = [j \in Jobs |-> Unmade]
    /\ recovery = [Unstarted EXCEPT !.pc = "done"]
    /\ scan = [Unstarted EXCEPT !.pc = "done"]
    /\ faults = 0

Toggle(r) ==
    \/ ReadRows(r) \/ RefuseToggle(r) \/ PersistIntent(r) \/ ReplaceRows(r)
    \/ ExportToggle(r) \/ UndoRows(r) \/ ClearToggle(r)

Commit(j) ==
    \/ CheckSource(j) \/ WriteOutput(j) \/ IntendCommit(j) \/ CompleteJob(j)
    \/ ExportCommit(j) \/ ClearCommit(j)

Recover == ListIntents \/ TakeIntent \/ ReadAuthority \/ Reexport \/ ClearRecovered
Rescan == ScanRows \/ ScanExport

Next ==
    \/ \E r \in Readers : Resolve(r) \/ Enter(r) \/ Toggle(r)
    \/ \E j \in Jobs : Probe(j) \/ Translate(j) \/ JoinCommit(j) \/ Commit(j)
    \/ AskRecovery \/ Recover
    \/ ScanTranslations \/ Rescan
    \/ DeleteMemory \/ Crash

Spec == Init /\ [][Next]_vars

\* What Toggle(r) needs.
Inside(r) == Holds(r) /\ reader[r].pc \notin {"idle", "resolved"}

\* What runs goes on: the file and database calls return.  For a reader this
\* is WF_vars(Toggle(r)) with what enables the action written out, for TLC is
\* slow to find it.
FairSpec ==
    /\ Spec
    /\ \A r \in Readers : []<>~Inside(r) \/ []<><<Toggle(r)>>_vars
    /\ \A j \in Jobs : WF_vars(Commit(j))
    /\ WF_vars(Recover) /\ WF_vars(Rescan)

----------------------------------------------------------------------------
(* Properties *)

Ranges == Seq([id : Nat \ {0}, from : Nat, to : Nat])
IsExport(e) == e = None \/ (e.hash \in Hashes /\ e.ranges \in Ranges)

TypeOK ==
    /\ exists \in BOOLEAN /\ rows \in [Hashes -> Ranges]
    /\ {output, complete} \subseteq Hashes \cup {None}
    /\ \A e \in {file, recovery.export, scan.export} \cup unsynced : IsExport(e)
    /\ intents \subseteq Hashes
    /\ ToSet(lock) \subseteq Readers \cup Jobs \cup {Recovery, Scan}
    /\ \A r \in Readers : {reader[r].before, reader[r].after} \subseteq Ranges
    /\ \A j \in Jobs : job[j].hash \in Hashes \cup {None}
    /\ faults \in 0 .. MaxFaults

\* What the file tells of the current variant.  A file that is missing tells
\* that nothing is marked.
Agrees(h) ==
    \/ file = Export(h, rows[h])
    \/ file = None /\ rows[h] = <<>>

\* Whenever FLASHBACKS.json does not tell the rows of the current variant, a
\* retained intent makes the next startup write it again: whichever call
\* failed and wherever the process died (flows.md: it clears the intent "only
\* after confirmed export publication").
StaleExportIsJournaled ==
    Authority # None /\ ~Agrees(Authority) => intents # {}

\* Two toggles of a variant never lose each other's marks: every change of the
\* rows adds or removes just the offsets of one selection, or brings back
\* what that toggle had found.
MarksChangeOneToggleAtATime ==
    [][\A h \in Hashes : rows'[h] # rows[h] /\ exists' =>
          \E r \in Readers :
             LET k == reader[r]
                 selected == k.selection.from .. k.selection.to - 1
                 old == Coverage(rows[h])
             IN  /\ k.hash = h /\ k.selection # None
                 /\ \/ Coverage(rows'[h]) \in {old \cup selected, old \ selected}
                    \/ k.pc = "undo" /\ rows[h] = k.after /\ rows'[h] = k.before]_vars

\* A toggle makes ranges of ranges, and they cover what those covered, with or
\* without just the selection.
TogglesJustTheSelection(someRanges) ==
    \A ranges \in someRanges, s \in Selections, w \in Wishes :
       LET selected == s.from .. s.to - 1
       IN  /\ Toggled(ranges, s, w) \in Ranges
           /\ Coverage(Toggled(ranges, s, w))
                \in {Coverage(ranges) \cup selected, Coverage(ranges) \ selected}

\* Every intent the startup finds is resolved, unless the replay fails or
\* the process dies again.
EveryIntentIsResolved ==
    \A h \in Hashes :
       recovery.pc = "start" /\ h \in intents
          ~> h \notin intents \/ recovery.pc \in {"failed", "off"}
=============================================================================
