# A verification project for Trauma

Trauma is a local-first reading library: it imports a web page as a *memory*
(a Markdown file with a row in SQLite), lets the reader highlight it
(*Flashbacks*), translate it and discuss it with a model (the *Psychiatrist*),
and backs the file store up in a git repository. Everything runs in one Node
process per store, single-threaded but asynchronous: a request interleaves with
the others at every `await`, a file or git call may fail before or after its
effect, and the process may die at any point.

This directory holds TLA+ modules of the parts of that system whose correctness
depends on such interleavings, the TLC configurations that check them on small
stores, and theorems about them checked by TLAPS. Paths below are relative to
the repository.

    tlc -workers 2 -config MCMemoryLifecycle_two.cfg MCMemoryLifecycle.tla
    tlapm FlashbackExportProofs.tla

## 1. Inventory

### The four places a memory lives in

| place | written by | survives a crash |
| --- | --- | --- |
| the row in `memories` (with its `backup_status`) and the idempotency reservation | add, delete, recovery, backup queue | yes |
| `memories/{id}/` (`CONTENT.md`, thread, Flashback and translation files) | add, delete, recovery, artifact writers | yes |
| `.operations/{id}.json`, the operation journal, and `.delete-staging/{id}-*` | add, delete, recovery | yes |
| HEAD of the backup repository | backup worker, delete, recovery | yes |

What makes the system correct is the agreement of these four at every point a
crash may expose, and the liveness of whoever restores it.

### Components

| component (under `src/server/` unless a path says otherwise) | state | operations | hard behaviour | must hold |
| --- | --- | --- | --- | --- |
| **operation lease** `memories/operation-coordination.ts` | per store: active mutations, recovery flag, FIFO of waiters; a map from stores to these objects | acquire for a mutation or a recovery, release | the map drops idle objects and builds new ones; early grants beside queued ones | recovery runs alone; one live object per store; no stranded waiter; no overtaking; every waiter is granted |
| **add** `memories/add-memory.ts` | in-flight adds by key, reservation it inserted | reserve key, recover, import, journal, publish, insert, undo, enqueue backup | shared promise of concurrent requests; undo that fails; crash between any two steps | a listed memory has content; half-done work is journaled; a key is bound to what it made |
| **delete** `memories/delete-memory.ts` | deletion reservation, lease | recover, reserve, back up, journal, stage, commit removal, erase row, clean, and three rollbacks | writers admitted earlier; late failures; a rollback that fails | nothing destroyed that is not archived; the row goes after HEAD lets go; a rollback restores all four places |
| **journal and recovery** `memories/operation-journal.ts` | `.operations/*.json`, shared recovery promise | recover creations and deletions one by one | starts in the middle of anything; shared by adds, deletes and the startup scan; one error ends it for all | decides every state a crash leaves; never runs beside a mutation |
| **mutation reservation** `memories/mutation-reservation.ts` | active writers and the deletion of each memory | run an artifact mutation, reserve a deletion, wait for writers | nested (inherited) reservations; check-then-wait | no writer publishes into a memory that is being deleted |
| **content store, atomic files** `store/memory-content.ts`, `files/atomic-write.ts`, `store/internal-directories.ts` | files | publish exclusively, write atomically, sync, remove | effect without confirmation | publication is all or nothing |
| **backup queue** `backup/index.ts`, `status.ts`, `git-pathspec.ts` | pending jobs, running job, intents, finalizers, startup scan | enqueue, persist intent, run, report, retry scan, deletion jobs | one job absorbs several requests; statuses written from stale knowledge; restart loses the queue | `success` means committed; every eligible row is retried |
| **backup environment and integrity** `backup/environment.ts`, `content-integrity.ts` | stamp of the accepted location and remote | check the rows, paths, repository and content before writes; raise and clear alerts | many awaits between what it reads and what it writes | it writes on what is still true; a kept alert does not open another location to writes |
| **backup failsafe** `backup/failsafe*.ts` | one alert with a generation in SQLite, the stamp, a FIFO action lease | revert, migrate, delete a missing record, each after a dry run | an alert replaced while a recovery waits; a repository that changes between review, commit and acceptance; nested actions | no alert goes away unseen; what is accepted is what was shown; no call waits forever |
| **repositories, schema** `db/` | SQLite tables | synchronous statements | uniqueness and compare-and-set | assumed as the schema states |
| **Flashbacks** `flashbacks/` | rows, `FLASHBACKS.json`, export intents | toggle, export, recover intents, retry scan | rows and export are two commits; lease, variant lock and reservation are three locks | the export ends up equal to the rows or an intent is kept; no toggle loses another's marks |
| **Flashback ranges** `flashbacks/ranges.ts` | none | add and remove coverage | boundaries | covered text = union / difference |
| **translation jobs** `translation/runner.ts`, `stitching.ts`, `events.ts` | job and chunk rows, output files | claim, translate, cancel, stitch, commit, resume | cancel races every transition; file replaced before the row | an accepted cancellation wins; a complete job is fully published; no job is lost, no chunk translated twice |
| **translation text processing** `translation/chunker.ts`, `markdown-*` | none | strings | - | - |
| **codex app-server client** `translation/codex-app-server.ts` | socket, pending requests with timers, the waiter of a turn, the interrupt | initialize, request, translate, converse, cancel, close | notifications before the response that names their turn; an end of the connection or a close at any time | an output is that of its turn; nothing waits on a closed client; every call ends |
| **Psychiatrist turns** `psychiatrist/*-route.ts`, `active-turns.ts`, `thread-store.ts` | active turns, slots, thread files | message, regenerate, retry, cancel, reconciling reads | cancel against completion; slots on every failure path | a saved answer is never denied or lost; events tell the record; slots balanced |
| **Psychiatrist streams** `psychiatrist/stream-store.ts`, `events-route.ts` | event rows, cached next number, live buffers | append, replay, deliver, repair | append between replay and delivery; failed and torn appends | each event once, in order, and the end to everyone |
| **Psychiatrist dock** `../components/reader/PsychiatristDock.tsx` | thread, transcript, phase, generations | load, send, regenerate, stop, follow the stream | answers of requests that something has overtaken | an idle dock shows whole answers; a permission goes to the question that asked for it; it is never left busy with nothing to press |
| **runtime lease** `runtime/process-lease.ts`, `runtime-lease-coordinator*.ts`, `request-admission.ts` | coordinator rows and guard files across processes; borrows | acquire, expand, admit, borrow, suspend, release, clean up | two processes probing at once; takeover of a crashed one | overlapping plans are never both held |
| **importer** `importer/` | none shared | fetch and extract a page | network | succeeds or fails |
| **browser import, browse, reader, settings, config, http, other UI** | settings rows, login of an external process | queries, validation, rendering | - | - |

### Who calls whom

A request to add or delete first joins `recoverInterruptedMemoryOperations`
(one shared promise per store), then takes the mutation side of the operation
lease around its journaled part. Recovery takes the other side. A deletion
additionally reserves the memory against artifact writers (Psychiatrist,
Flashback, translation) and waits for the ones already admitted. Adds, writers
and the startup scan put jobs in the backup queue, whose single worker commits
and records the result in the row; deletions and recovery run git jobs
themselves through the same serial executor. The first request that builds the
backup queue starts recovery and, after it, the retry scan.

Lock orders: delete = recovery, deletion reservation, git, mutation lease;
Flashback toggle = mutation lease, variant lock, artifact mutation; Flashback
intent recovery = recovery lease, variant lock; translation commit = projection
lock, artifact mutation. No cycle was found among them; `EveryDeletionEnds`
checks the part of it that involves deletions, recovery and one writer.

The browser's Psychiatrist dock talks to the thread routes and follows the event
stream of a turn; the turn's run appends to that stream and calls Codex through
a client of its own, and a translation job does the same for each of its
chunks. Every Git job and every check of the backup environment goes through
the action lease of the failsafe; every process owns its storage roots through
the runtime lease.

The hazards, each with its line and the properties aimed at it, are in
`PROJECT.json`; the one without a property says why.

## 2. Modules

| module | models | code (under `src/server/`) |
| --- | --- | --- |
| `MemoryOperationLease` | the lease of a store | `memories/operation-coordination.ts`, whole file |
| `MemoryLifecycle` | add, delete, journal and recovery, artifact writers, backup queue, crashes | `memories/`, `backup/index.ts`, `files/atomic-write.ts` and the others in `map` |
| `MemoryCatalog` | the abstract specification of what a client may see | - |
| `TranslationJob` | start, snapshot, cancel, the runner and the commit of translations | `translation/runner.ts`, `stitching.ts`, `current-translation.ts`, `cancel-translation-route.ts`, the job rows in `db/repositories.ts` |
| `CodexClient` | one client of the Codex app-server and its connections | `translation/codex-app-server.ts` |
| `PsychiatristTurn` | turns of the Psychiatrist, their slots, records and cancellations | `psychiatrist/message-route.ts`, `regenerate-route.ts`, `retry-web-sources-route.ts`, `cancel-route.ts`, `active-turns.ts`, `thread-store.ts` |
| `PsychiatristStream` | the durable event stream of one turn and its followers | `psychiatrist/stream-store.ts`, `events-route.ts` |
| `TurnFeed` | the abstract specification of an event stream | - |
| `PsychiatristDock` | the reader's dock: thread, transcript, phase and requests, against other tabs | `../components/reader/PsychiatristDock.tsx`, `psychiatrist-transcript.ts`, `psychiatrist-requests.ts`, and the routes as it sees them |
| `FlashbackRanges` | the algorithm that merges and splits highlighted ranges | `flashbacks/ranges.ts` |
| `FlashbackExport` | toggles, `FLASHBACKS.json`, its intents, the retry scan | `flashbacks/toggle.ts`, `export.ts`, `export-intent.ts`, `reconciliation.ts`, `coordination.ts` |
| `RuntimeLease` | who owns the storage roots, across processes | `runtime/process-lease.ts`, `runtime-lease-coordinator*.ts`, `request-admission.ts` |
| `BackupFailsafe` | the checks before a backup write, the critical alert, the approved recoveries | `backup/failsafe*.ts`, `environment.ts`, `content-integrity.ts` |
| `MemoryLifecycleInvariant`, `*Proofs` | inductive invariants and theorems | - |
| `MC*` | instances for TLC: sets of model values, symmetry, initial choices | - |

`PROJECT.json` `map` gives the lines of every definition. A definition called a
*faulty form* is no part of the model: it is the definition after it with a
plausible bug, which some property must detect. The modules share no state, except where one EXTENDS
another; what a module needs of a neighbour is a guard or a choice, named in
its header.

### MemoryOperationLease

`entry` is the value `operationStates` has for the store, `lease` the fields of
every `StoreOperationState` object. Object identity is kept: an idle object is
dropped from the map and a later request builds another, and two live objects
would be two independent leases. The counter `activeMutations` and the flag
`recoveryActive` are kept as the *sets of clients* whose release functions are
outstanding. `acquireLease` and a release function run without `await`, so each
is one step that contains its `drainWaiters` and `cleanupOperationState`. A
release function called twice does nothing the second time; a client of the
model that no longer holds the lease has no such step.

### MemoryLifecycle

A step of the model is what the code does between two points at which it may
wait for a file, git or network call or for another request; SQLite calls are
synchronous and belong to the step around them. Per memory the model keeps the
durable state (`rows`, `status`, `reserved`, `journal`, `canonical`, `staged`,
`head`), the program counters `add`, `del`, `chat` of the operations in flight,
and the memory of the backup queue (`intent`, `job`); per store `rec`, `recTodo`
and `recCur` for recovery, `boot` and `bootTodo` for the startup scan and `run`
for the job between its execution and its report. `archived`, `deleted`,
`minted`, `lost` and `crashes` are history or bounds and no action but the bound
on crashes, fresh ids and losses reads them.

* **Failing calls.** `Outcomes(call)` is `done`, `undone` (in `Faults`: failed
  without effect) or `unsure` (in `LateFaults`: took effect and reported an
  error, the directory sync or the push). Every call of the code that can fail
  goes through it, with the error path of the code for each outcome.
* **Recovery and joiners.** `JoinRecovery` starts a recovery or joins the
  running one; `RecFinish` and `FailRecovery` resume every joiner in the same
  step, as the shared promise does.
* **The lease** is used as `MemoryOperationLease` proves it to behave
  (`RecoveryHoldsLease`, `MutationHoldsLease` exclude each other); its FIFO is
  represented by strong fairness of the acquisitions.
* **Git.** A job (`add`, `diff`, `commit`, perhaps `push`) is one step;
  `GitIdle` is the serial executor. `Committed` keeps the rule of
  `hasTargetedChanges` that a *directory* in the list of paths is never equal to
  the name of a changed file. Between `WorkerRun` and `WorkerReport` the other
  requests go on.
* **Artifact writers** stand for a Psychiatrist turn: open, publish under
  `withMemoryArtifactMutation` any number of times, persist the backup intent,
  store the answer, enqueue with a finalizer.
* **Crash** clears everything the process held; `Lose` is the operator removing
  a directory, which recovery of deletions has a branch for.

Abstractions, each deliberate: the files of a memory are `content`
(`CONTENT.md`) and `thread` (everything else); an empty directory counts as no
directory; a key bound to another URL and an add that finds its row answer
without a state change and are left out; one artifact writer and one deletion
per memory at a time (a second deletion is refused by the code); malformed
journals and foreign paths are not modelled; timers and retries inside a single
file call are part of its outcome.

### MemoryCatalog

What a reader of the library sees: a memory is absent, listed or deleted; its
text is `kept` before it is listed and until it is unlisted; with backup it is
in the history before it is deleted; deleted is for good. `MemoryLifecycle`
implements it under the mapping at its end (`ImplementsCatalog`): listed =
has a row, kept = `CONTENT.md` in the directory or in staging, history = some
commit contains it. Neither `Lose` nor a failing restore with an
open writer belongs to the run that checks it (see section 6).

### TranslationJob

One memory, one language, any number of jobs for the versions of its source. The
module stands beside the lifecycle: what it needs of it (the lock of the
variant, the reservation of the memory) has no other user here, and a revoked
reservation is one of the ways a commit fails.

* **Rows** are `status`, `src` and `chunk` of each job. `Hit` and `Miss` are the
  two outcomes of `transitionTranslationJobStatus`, of the claim and of the two
  updates of the cancel route: each names the status it expects. The one update
  that expects nothing is `Repair` (`markTranslationUnavailable`). The two
  partial unique indexes of the table are the guards of `Create` (one active
  job per source) and `Complete` (one complete job per source, else the update
  throws and the run fails).
* **Files** are what a commit publishes, in its order: the backup intent, the
  translated file (`file`, the job whose bytes are there: a later job of the
  same language replaces them), the projection with its spans, the Flashback
  reconciliation intent, the completion of the row, the Flashback export.
* **The runner** is the promise chain `queue` with `scheduledTranslationJobIds`
  and one run, whose `pc` is the place where `runTranslationJob` or what it
  calls awaits and `active` the status it believes in.
* **Requests** are start and snapshot requests (`client`) and cancel requests
  (`canceler`), each with what it read before its last `await`.

A turn of Codex ends in an answer or a failure, its timeout included, or is given
up when the grace period of a cancellation is over; interrupting it is a turn
that fails (`CodexClient` looks inside).
The outcomes of validation, admission of output and limits are a choice. Left
out: the event bus, what a chunk contains, the deletion of the memory, and
errors of SQLite inside the runner (an exception in `failRunningJob` leaves the
row as a crash would).

### CodexClient

One `CodexAppServerClient` with the sockets it opens, its pending requests and
their timers, the one turn it waits for and the one interrupt it may send. The
app-server is an adversary that only keeps to the protocol: it answers requests
in any order, late or never, sends the notifications of a turn before or after
the response that names it, and may hang up; other turns of the thread, which
somebody else started, notify too. Its owner is a translation run (calls of
`translateChunk`, any of which it may give up by closing the client) or a
Psychiatrist turn (one `runConversationTurn`, then `close`); `Kinds` chooses.
Frames that arrive in one chunk are handled before the code that awaits the
first of them goes on (`Resumable`): that is how a completion overtakes the
response to `turn/start`. `Until`-style loops of the code are one action per
`await`. Left out: the WebSocket handshake and framing, the text of deltas, and
limits on their size.

### PsychiatristTurn

Requests that send a message, regenerate an answer or retry it with web sources,
the detached run after their 202, the cancel request and the two reads that
reconcile turns left over by a crash. All that writes the files of a thread
waits for its mutation lock, and is one step while it holds it; a failing write
leaves what was written before it. The state is the record of each turn on
disk, its pair in the transcript, the terminal event in its stream file, the
entry in the registry, the slots in use, and the program counter of each actor
with what it read before its last `await`. Left out: what is asked and answered
(an answer is whole or not), the web-source policy beyond that a retry needs
one, titles and summaries.

### PsychiatristStream and TurnFeed

`PsychiatristStream` is one stream: the chain of appends to its file with the
cached next number, appends that fail leaving nothing, a torn line or (if
`AppendFaults` says so) the whole row, live connections that load the replay
while events arrive, replays of a turn that is no longer live, repair of a torn
tail, the limit on pending events of a slow connection, and browsers that
reconnect with the last id they saw. Who decides how the turn ends is in
`PsychiatristTurn`; here it ends at some point and its run and its Stop tell the
stream. A replay is the set of rows it has still to send, the least first:
rows are only ever appended, so the rows a replay was loaded with are those the file
has at the same places. The failure that `loadInactiveReplay` makes up when the stream
does not tell one is the connection's `presumed` id.
`TurnFeed` is what a follower is promised: the durable log, in order,
each entry once, the end last. `ImplementsFeed` is the refinement: the log is
the file without its torn tail, what a follower has been shown is its history
without a presumed failure, which tells that the turn is over and shows nothing.

### PsychiatristDock

The dock of one reader page and up to `MaxRequests` calls it has under way.
`thread`, `load`, `phase`, `shown`, `running`, `retry`, `stop` and `malformed` are
the signals and variables of the component; `message` is whether the error block
is shown, because Retry and Allow live in it; `source` is the EventSource with the
place of the next event, and a generation of streams is its turn. A row of the
transcript keeps its answer as the sequence of the deltas that make it up, so
that a prefix or a text told twice differs from the whole; a draft is known by
its turn only, since nothing shows it. The server is as much of
`PsychiatristTurn` and `PsychiatristStream` as a response can tell: a turn runs, its
pair is stored, the end is told, the turn leaves the registry, each a step of its
own; a thread response reads the pairs and the registry in two steps, as
`reconcileThreadForResponse` and `toThreadResponse` do. Other tabs start turns, the
content may change (the thread is then another one), and a call may fail before
or after its effect. `IsCurrent`, `IsCurrentStream`, `IsOvertaken` and the comparisons
in `ReceiveStop` are the generations with which the code drops what is overtaken.
Left out: focus, scrolling, the window of the transcript, wording, process rows,
the memory and language of the page (another one mounts another dock), and an
EventSource that is refused, for which the code has no handler.

### FlashbackRanges and FlashbackExport

`FlashbackRanges` is `ranges.ts` as operators: sort, test of full coverage, add,
remove. `FlashbackExport` uses them: rows in SQLite are the authority,
`FLASHBACKS.json` has to tell them, and an intent on disk says that it may not.
Readers toggle selections, translation jobs of the language replace the file the
marks belong to, the startup replays intents and scans the memories eligible for a backup, the
memory may be deleted, any database or file call may fail and the process may
die. The recovery's exclusion of mutations and the reservation of a deletion
are guards here. What one toggle of ranges computes is a matter of data, not of
interleavings: `MCFlashbackExport` has TLC evaluate `TogglesJustTheSelection` for
every list of up to three ranges, empty, overlapping, touching and in any order, in a
text of four offsets (the assumption `TogglesAreRight`).

### RuntimeLease

A lease is one attempt of one process to own a plan (a set of resources). The
state is the coordinator's row of each lease, its guard file with its lock, who
is alive, and the place where each acquisition is: it inserts its row, probes
the guards of the owners it found, removes the rows of the dead, starts over at
most `MaxTries` times. Inside its process a lease admits borrowers, may be
expanded, and is suspended before it is released. A dead process loses the
lock of its guard, not its row.

### BackupFailsafe

`stamp` and `alert` are rows of SQLite, `repo` the locations with their remote,
HEAD and files, `config` what the operator last saved. A call is a check of the
environment, a Git backup job with its check inside the same action lease, or a
recovery (revert, migrate, delete the missing record) that an operator approved
after a dry run; `lease` is the FIFO of `failsafe-action-coordination.ts`. Each
call keeps what it read before its last `await`. Between any two steps the
operator may change a repository or the config, and the process may restart.
Several rows of content integrity are one memory whose file is missing,
changed or equal to what HEAD has.

## 3. What the runs check

| run | instance | states | shows |
| --- | --- | --- | --- |
| `lease` | 4 calls (add, delete, toggle, recovery), 2 lease objects | 1,055 | exclusion, no overtaking, every waiter granted |
| `faults` | 1 keyed memory, git, 1 writer, every call may fail and fail late, loss, 1 crash | 2.1 M | journal and order of removal survive all of it |
| `two` | a keyed and a minted memory, git, database and staging faults, late git failures, 1 crash | 844 k | honest backup states, reconciled journals, and the catalog, with shared lease, recovery and worker |
| `live` | 1 keyed memory, git, 1 writer, 1 crash, no failing call | 1,025 | deletions end, every journal is resolved, every memory is backed up |
| `resumed` | 1 job of 2 chunks, 2 versions of the source, 1 request, 1 cancel request, 1 crash, 2 edits, the file lost once | 132 k | a cancellation wins every race, a complete job is published, no chunk is translated twice, every scheduled job ends |
| `turns` | 1 thread, 2 turns, 1 reader, 1 slot, 1 delta, 1 failing call, 1 crash | 5.7 M | slots are balanced, a saved answer is never denied or lost, the stream tells what the record says |
| `stream` | 2 followers, 3 rows, 1 pending event, 1 delta, 2 attempts to tell the end, 1 lost connection, 1 crash | 186 k | the log reaches every follower once and in order, and so does the end |
| `dock` | 2 turns of 1 delta, 2 requests at a time, 2 threads, 3 of: a Stop, 2 faults, a change of the content | 3.4 M | an idle dock shows whole answers, a permission goes to the pair that was refused, a busy dock waits for something that ends or offers Retry |
| `exports` | 2 readers with 3 nested selections, 1 job, 2 output hashes, 2 faults | 337 k | a stale export has an intent, a toggle changes its own marks only, every intent is resolved |
| `runtime` | 3 leases, 2 resources, 2 tries, 1 borrower, 1 death or failing release | 1.6 M | overlapping plans are never both held, the owner is on record, nobody borrows from a lease that is gone or roots that a recovery changes, a suspended storage only drains (`AdmissionIsKept`) |
| `codex` | both owners, 2 calls, 2 sockets, 13 requests | 362 k | an answer is of its own turn, a close reaches everyone who waits, no completion is missed, every call ends |
| `failsafe` | 2 locations, 2 remotes, 2 calls at once and 3 in all, 1 edit, 1 restart | 182 k | writes stay where they were accepted, checks see what is, no alert goes unseen, what is accepted was shown, every call ends |

**Bounds.** `MaxCrashes`: one crash reaches every durable state. One memory
suffices for the
invariants of `faults`, which relate the four places of a single memory; two
memories are what it takes for operations that share the lease, a recovery that
one of them joins and the other delays, and a worker busy with the other memory
(`two`). Keyed against minted ids are the two ways an id may or may not come
back. Four lease clients give a recovery queued between mutations; two lease
objects are one more than may be live. `Lose` happens at most once per memory,
a minted id is used once. For the translations,
two chunks tell a job that is half translated from one that is done; one retry
is the first and the last attempt; the source may change and change back; a
crash is possible at every step of the resumed job. One job at a time is the
bound of that run; what two jobs for one source may do to each other is covered by
the theorems, which hold for any supply of jobs.

Two turns are an answer and its regeneration, or two questions that compete for
the one slot; one failing call is enough to separate every pair of writes of a
turn. Two followers are one that is live and one that replays; three rows are
the limit with a delta, so that the terminal event meets it. Three nested
selections are a range that splits, one that is cut and one that is removed
whole; two hashes are the translation before and after the job. Three leases are
an owner, its successor and a rival that probes at the same time; two
tries are a publication that starts over and one that gives up. Two turns of the
dock are an answer and its regeneration, or its own turn and that of another tab;
two faults are a reconciliation that has to be repeated, or a call that fails
while another answer is malformed (`MaxTroubles` bounds faults, Stops and changes
of the content together).
`StartsWhileLoading` is `FALSE`: the run assumes that nobody starts a turn while a load
is under way, which the code does not prevent (section 7). Thirteen requests
are what the longest script of either owner sends. In `failsafe` two
calls at once are an action and one that waits for it, the third comes after the
edit; locations and remotes are interchangeable at the start, so `MCInit` names
those in use. Nothing else is bounded: requests may come again
forever, and the state spaces are explored completely. Symmetry (turns,
leases, job ids) is used only where no liveness is checked.

**Deadlock** is checked in `lease`, `faults`, `two`, `live` and
`resumed`. In the others a bound on calls, turns, events or leases lets the
system come to rest, and their configurations say `CHECK_DEADLOCK FALSE`;
whoever could wait forever there is the subject of `EveryFollowerIsTold`,
`EveryIntentIsResolved` and `EveryCallEnds`.

**Fairness.** Nobody is obliged to send a request, open a turn, close one or
crash. What has begun goes on: weak fairness of the steps that wait for nobody
(the event loop runs every continuation and each file, git or network call
returns), of the writer's publication, of recovery and of the startup scan.
Strong fairness of what waits in a fair queue: the lease (whose fairness
`EveryWaiterIsGranted` checks on its own module) and the serial git executor. A
Psychiatrist turn as a whole gets no fairness: it may stay open forever, and
`EveryDeletionEnds` holds although it does, because a deletion waits for
publications only. `BootStart` is weakly fair because the first request after a
restart builds the backup queue; a process that never gets one recovers nothing,
and nothing is claimed about it.

For the translations, weak fairness of the runner, of each start or snapshot and
of each cancel request that has begun (`FairSpec`): Codex turns end (each has
a timeout, `codex-app-server.ts:938`), and file and database calls return. `EveryScheduledJobEnds`
speaks of jobs that are scheduled after the last crash, because nothing in the
code schedules a job when the process starts.

For the dock nothing is assumed: `BusyWaits` is an invariant, which says that whatever a
busy dock waits for is an answer it will read or the end of a turn it will hear of.
That calls are answered and turns end is a matter of `fetch` and of timeouts.

For a stream, weak fairness of the appends and their settling, of telling the
end, of the turn leaving the registry, of each connection's steps and of the
browser's reconnection (an `EventSource` reconnects by itself). For the exports, of
the readers and jobs under way, of the replay of intents and of the next scan
after a restart. For the Codex client, of continuations, of the calls that make
directories and of timers; *nothing* is asked of the server or of the owner.
For the failsafe, of every step of a call that has started: Git and SQLite
return (Git calls have a timeout).

`EveryJournalIsResolved` and `EveryMemoryIsBackedUp` are checked without failing
calls: the code gives a failed scan or a failed recovery up until the next
request, so with permanent failures they do not hold and are not promised.
`EveryMemoryIsBackedUp` excepts memories with a writer, because an intent whose turn
is canceled before its answer is stored stays `pending` until the next restart
(section 7).

## 4. What is proved

With TLAPS, for every value of the constants:

* `LeaseTypeCorrect`, `LeaseExclusion`, `LeaseStateIsUnique`,
  `LeaseStrandsNobody`, `LeaseNoOvertaking` (the last part of
  `FlashbackExportProofs`), for any set of calls and any supply of lease objects.
  `RecoveryRunsAlone` is not inductive: nothing in it keeps a second object from
  being granted. The inductive invariant joins the types, `OneLivingState`
  (an object in use is the entry of the map), `NoStrandedWaiter` and the
  exclusion inside one object. `OneLivingState` is what `cleanupOperationState`
  maintains by dropping only idle objects, and it turns exclusion inside one
  object into exclusion over all; `NoStrandedWaiter` needs that `drainWaiters`
  grants at least one waiter whenever the object is free. `NoOvertaking` is an
  action property that follows from the invariant and the shape of
  `GrantedAtOnce` and `DrainCount`.
* `LifecycleTypeCorrect` (`MemoryLifecycleProofs`): the types of all variables
  of the lifecycle, for any set of memories, faults and crashes, one lemma per
  group of actions. It has one conjunct beyond plain types: a recovery that is
  inside a journal names the memory (`recCur \in Memories`).
* `LifecycleInvariant` and, from it, `LifecycleRowHasContent`,
  `LifecycleHalfDoneIsJournaled`, `LifecycleDeletedStaysDeleted`,
  `LifecycleReservationCoversMemory`, `LifecycleDeletedContentIsArchived` and the
  action property `LifecycleRemovalIsCommittedFirst`: whatever calls fail, content
  is removed behind the application's back, or the process dies.
  None of these is inductive. `IInv` (`MemoryLifecycleInvariant`) adds
  what the steps rely on, in named parts:
  - `LeaseInv`: recovery excludes mutations, so that a journal is never consumed
    while the operation that wrote it runs;
  - `IdInv`: whatever exists has a claimed id (`reserved` or `minted`), so an add
    that inserted its reservation (`Fresh`) works on a memory nobody knows, and
    is the only one that may give the reservation back;
  - `AddInv`, `DelInv`: the row, journal and files at each step. The key facts
    are that a fresh add is unknown until its row is in, and that a deletion
    past its recovery finds no journal, because a finished recovery has been
    through all of them (`RecInv`) and only mutations write new ones;
  - `RecInv`: what recovery has found out about a memory stays true until its
    journal is unlinked;
  - `ArchiveInv`: HEAD is in the history, the content is archived before it is
    moved, and out of HEAD before the row goes.
  The proof has one step per action; the lemmas `JoinersStayOrEnd` and
  `GitJobArchives` say what a step of recovery does to the calls that joined it
  and what a git job may put into HEAD.
* `LifecycleNothingAmbiguous`: if a restore cannot fail (`"restore" \notin
  Faults`), content is never both in place and in staging. `WriterInv` adds that
  a deletion past its wait runs beside no publication and that a staged memory
  is secluded. The assumption is needed: with failing restores TLC finds a
  counterexample (section 6).
* `LifecycleBackupInvariance` and, from it, `LifecycleSuccessIsHonest` and the action
  property `LifecycleClearedOnlyReconciled`: what a backup status promises, for any number
  of memories and crashes and any failing calls except those that `RollbackWorks`
  excludes - a directory that was staged can be put back, and one whose staging is
  reported as failed was not staged. Each of the three excluded faults alone breaks a
  property (TLC has a counterexample for each: sections 6 and 7), so nothing weaker
  about the faults would do. The two properties are stated without threads
  (`Chatting = {}`), whose jobs leave the content aside; the invariant itself holds of
  every memory without one, beside others that have one. `HInv` adds to the invariants above
  - `JobInv`: a job of such a memory names its content and is about a listed memory;
  - `StagingInv`: no job can take content that lies in staging for removed: while it does
    and no deletion holds the queue, the memory has no job, and no scan is about to
    give it one;
  - `SuccessInv`: a success, recorded or about to be reported by the worker, has the
    content in HEAD, or a deletion is answerable for it: it has yet to commit the
    content again, or its journal is there and recovery has yet to mark the row.
  `SuccessIsHonest` alone is not inductive because the worker reports some steps after it
  committed, and a deletion may remove, restore and commit again in between.
* `LifecycleImplementsCatalog`: if nobody removes
  directories behind the application's back (`"loss" \notin Faults`), every step
  is a step of `MemoryCatalog` for one memory or a stutter. `CatalogStepMaps`
  lifts a change of one memory to the catalog; one lemma per group of actions
  shows which change it is.
* `CatalogKeepsListed`, `CatalogArchivesDeleted`, `CatalogDeletesForGood`: the
  promises of the abstract specification, at the catalog the lifecycle implements, and
  `LifecycleKeepsPromises`, which carries them over.

* `TranslationInvariant` and, from it, `TranslationTypeCorrect`,
  `TranslationFinalizingKeepsChunks`, `TranslationCompleteIsPublished`,
  `TranslationNoLostJob` and the action properties `TranslationCancellationWins`
  and `TranslationTranslatedOnce` (`TranslationJobProofs`): every safety property
  of the translation runs, for any supply of jobs, requests, chunks,
  retries and crashes. `JInv` adds to them
  - `ReferenceInv`: a job that a request or the chain names exists, and a job
    that does not exist has untouched chunks;
  - `StatusInv`: while a run works, the row has the status the run believes in or
    `cancel_requested`, since no other actor touches a running job. So a missed
    compare-and-set always means a cancellation, and `Recheck` never leaves a job
    active: this is where `NoLostJob` comes from;
  - `ChunkInv`: the chunks before the one at work are complete and that one is
    not, from which `FinalizingKeepsChunks` and `TranslatedOnce` follow;
  - `PublishInv`: what the commit has published before each of its steps.
  `StepMoves` lists the writes of a status that `CancellationWins` allows.
* `RuntimeInvariance` and, from it, `OwnershipIsExclusive`, `OwnershipIsRecorded`,
  `BorrowingIsOwned` and the action property `AdmissionHolds`
  (`RuntimeLeaseProofs`): the safety properties of the
  runtime lease, for any number of processes, attempts, resources and crashes.
  `OneOwner` is not inductive: what keeps two owners apart is what each knew of
  the other some steps earlier. `RuntimeInv` adds
  - `PlaceOf`, `GuardOf`, `RowOf`: where an acquisition is tells what it owns and
    wants, that its guard exists and is locked, and that a row belongs to a
    lease that has published it and equals its plan while it holds it;
  - `KnowledgeOf`: what a lease carries between its steps never goes out of date
    in the harmful direction. A row it read belongs to a lease that has
    published; a guard it judged stale belongs to a lease that has ended, and
    one that has ended never owns anything again. So a row it removes as stale
    is that of no owner, and the insert that admits it, which sees all rows in
    one transaction, finds that of every owner.
  - `SuspendedIsClosed`: a storage whose suspension was granted or refused is closed,
    and its lease is held or past its end. So no acquisition is under way that could
    publish another plan, and what is left are returns and the release.
  The steps that learn something are separated from those that use it by
  `Learned`.
* `CodexInvariance` and, from it, `TheAnswerIsOwn`, `ClosingReachesEveryone` and the
  action property `TheCompletionIsNotMissed` (`CodexClientProofs`): the safety
  properties of the Codex client, for any number of calls, connections and
  requests and any server that keeps to the protocol. `CodexInv` adds
  - `Connects`, `Expected`: connections are opened one after the other by the
    call that waits for them, and what a call may have been answered in its step;
  - `Awaited`: an unsettled await has its entry among the pending requests, and
    nothing is pending once the client is closed;
  - `Numbered`, `Matched`: ids are given out once, so an answer settles the
    request of the step the call is in and no earlier one that timed out;
  - `OneTurnPerThread`, `Waiting`: nobody has asked for a turn on the thread a
    call is about to use, so that "a notification for the thread of the waiter"
    and "a notification for its turn" come to the same before the response
    names the turn. That is why recording the turn from `turn/started` is safe.
  `CallMoves`, `AnswerMoves` and `StartedMoves` summarise what the actions do to
  the call, its requests and its waiter; each part of the invariant is then
  preserved by twelve kinds of steps instead of twenty-four actions.
* `TurnInvariance` and, from it, `TypeCorrect`, `SlotsStayBalanced`,
  `AnswersAreNotDenied`, `EventsAreTrue` and the action property `AnswersAreKept`
  (`PsychiatristTurnProofs`): the safety properties of the psychiatrist's turns, for
  any number of threads, turns, readers, slots, faults and crashes. Slots, records
  and events are written by requests, cancellations, reads and reconciliations that
  know of each other only through the registry, the pending pair and the lock of the
  thread; what keeps them apart is often decided several steps before. `TurnInv` adds
  - `RequestInv`, `SlotInv`: what a request knows of its pair at each of its steps, and
    that a reservation has one request and the slot is that of its turn's thread;
  - `QuestionInv`, `RowInv`: a pair exists from its question on and is rewritten only
    by the turns that work on it;
  - `SavedInv`, `EarlyInv`: a turn whose answer is shown has saved it and cannot fail
    any more, and one that has been marked failed before it saved has lost its
    pending pair, so that its answer is refused - except a regeneration or retry,
    whose pair is complete all the time and which must therefore not be marked failed;
  - `RegisteredInv`, `ReaderInv`, `QueueInv`: why it is not. A reader asked before it
    reconciles whether the turn is active, and the turn may have been registered
    since. A read under way that is `Harmless` does not concern such a turn; one that
    is not waits for the thread's lock ahead of the request (`Waiting`, `Ahead`), so that
    the FIFO order of the lock lets it see what was there before.
  - `RecordInv`, `StreamInv`: the status of the record at each step of a request or a
    cancellation, and that a terminal event tells it.

  `StepsOfTurns`, `StepsOfSlots`, `StepsOfStreams` and `StepsOfQueues` summarise
  what the actions do to a turn, the slots, the events and the lock as kinds of steps
  (`TurnStep` has fifteen); each part of the invariant is then preserved kind by kind.

* `FailsafeInvariance` and, from it, `FailsafeTypeCorrect`, `WritesGoWhereAccepted` and the
  action properties `ChecksAreCurrent`, `AlertsGoReviewed` and `DriftsAreAcceptedAsShown`
  (`BackupFailsafeProofs`): every safety property of the failsafe, for any number of
  locations, remotes, calls, edits of the operator and restarts. `FailsafeInv` adds
  - `LeaseInv`: a call that is inside an action owns the lease, and has one entry in it.
    A check nested in a deletion inherits the lease and is inside from its first step;
  - `KindInv`: which kind of call can be where;
  - `CheckInv`: the stamp and the alert a check has read are the ones that are there
    until it lets go of the lease. A check nested in a deletion has read no alert, so it
    cannot end one nobody approved;
  - `AlertInv`, `ApprovedInv`: a drift leads from one location to another, and a recovery
    works on the generation that was approved, at the location it names;
  - `RemoteInv`: the remote is that of the alert from the state before the push on;
  - `MovedInv`: what the previous store had is in place, then in the index, then
    committed. It is stable because edits of stored files are excluded under a
    reservation, a mutation that publishes late only fills an empty place, and the
    previous location is not the current one.

  Each of the 33 steps of a call is shown to leave the call where the invariant wants it
  and to be `Polite` to the others (`Turned`); `OthersKept` shows once that this suffices.

* `DockInvariance` and, from it, `DockTypeCorrect` and `PermissionGoesToTheAsker`
  (`PsychiatristDockProofs`), for any number of turns, threads, requests, Stops, faults
  and changes of the content. `DockInv` says that whatever was told is true until it is
  read, although the turns go on between the answer and its arrival:
  - `TurnOf`, `PairIn`, `AnswerOf`: a turn belongs to a question of its thread, a pair
    names a turn of it and is completed only if that turn is, and only an answer is
    regenerated. `PairIn` takes the turns as a parameter, because it is about the pairs
    of a response as they were when it was read: `FactsStay` shows that no later turn
    makes them false;
  - `LoadOf`, `StartOf`, `CancelOf`, `AllowOf`: the same for each kind of request;
  - `FollowInv`: the stream is that of the running turn, and the pair that wants web
    sources is one of the thread that is shown and was refused them.
* `TranscriptInvariance` and, from it, `IdleAnswersAreWhole`, for any number of turns,
  threads, requests and faults, under `OneThingAtATime`: no turn is started while a load
  is under way, without which the property fails (section 7), and Stop is pressed once
  at most. `TranscriptInv` adds
  - `RowIs`: every row is `Fresh`, as a load shows it, or was changed by events of
    the turn that is followed (`Drafted`). A draft keeps a whole answer beside it, and a
    row that already names the turn cannot be taken for an older answer, unless the turn
    completed or its Stop was answered and cannot be again (`EndsWell`);
  - `FirstInv`: the first event of a stream meets fresh rows, so `started` is applied once;
  - `AloneOf`, `StopInv`, `PhaseInv`: a start meets no load, and no row names its turn yet.

  With two Stops of one turn the second answer could take a row the first one canceled
  for an older answer. The invariant excludes that only by counting; with two Stops TLC finds
  no counterexample at the size of run `dock`, and there is no proof.

* `SectionInvariance` and, from it, `TogglesLoseNothing` (`FlashbackExportProofs`): for any
  readers, jobs, output hashes, selections, faults and crashes, whoever changes the rows
  of a variant is a toggle that writes over just what it read or takes back just what it
  wrote. `SectionInv` joins
  - `LockInv`: a process is in the queue of the variant lock exactly while it waits or is
    inside, once, and who is inside is its head;
  - `LeaseInv`: replay and toggles exclude each other, and a deletion waited for both;
  - `ToggleInv`: the rows are what a toggle has read until it writes and what it wrote
    until it leaves - the reason why its undo after a failed export is no lost update.
* `ExportMarksOneAtATime` (`MarksChangeOneToggleAtATime`) and `ExportTypeCorrect` take
  what one toggle of ranges does as the hypothesis `RangesAreRight`: for every list of
  ranges it adds or removes just the selected offsets. That is induction over lists, out
  of the provers' reach; TLC checks the same formula for short lists (section 2).
* `ExportInvariance` and, from it, `ExportStaleIsJournaled`: if one job translates
  into the language (`OneTranslation`: it may fail, be interrupted, be run again and
  give another output each time), a `FLASHBACKS.json` that does not tell the marks has
  an intent. Two jobs break it: a toggle that resolved the first translation publishes for
  it over the second (section 6), a counterexample of TLC with one reader and one
  fault. `ExportInv` adds to `SectionInv`
  - `CurrentInv`: a complete translation is the output and stays it, and until there is
    one nothing is marked and no file written; so a commit has no marks to lose;
  - `WriterInv`: every toggle, replay and scan that is under way exports the current
    translation, with the rows as they are when it holds the lock;
  - `IntentInv`: the intent is there before the rows change, and who is about to clear it
    knows that the file, and whatever a crash may leave of it, tells the rows.

* `FeedInvariance` and, from it, `StreamTypeCorrect` and `StreamImplementsFeed` (the last
  part of `PsychiatristTurnProofs`): the refinement of `TurnFeed` by `PsychiatristStream`,
  for any number of browsers, rows, buffered events, torn rows, lost connections and
  restarts, under `AppendsAreKnown`: an append that fails leaves no row of its own,
  without which two events share an id (section 7). The log grows where a row is written,
  `See` is a row that `pump` or a replay hands over, `Presume` the failure that no row
  tells, and every other step shows nothing. `FeedInv` relates three places an event may
  be in, the file, the replay and the live buffer, to the last id a browser has seen:
  - `NumberedInv`: the id of a row is its place, whatever is cached, torn or tried again;
  - `RepairInv`: a connection that repairs the stream waits for the one append of its own;
  - `CursorInv`: the cursor of a browser that was not told the end is in the file, and
    its connection skips nothing past it;
  - `BufferInv`, `ReplayInv`: both are in order, and what they hold is new to the
    browser, was sent, or comes after an end that closes the connection first;
  - `CoverInv`: what a browser has not seen is in the replay, or comes after all of it and
    is in the buffer or about to be published, or is an end that a later one supersedes.
    It holds from the load on because the subscription comes first: what is written
    between the two is in both, and `CursorInv` is why it is shown once.

The assumptions are `StreamAssumption`, `LeaseAssumption`, `LifecycleAssumption`, `JobAssumption`,
`RuntimeAssumption`, `CodexAssumption`, `TurnAssumption`, `FailsafeAssumption`,
`DockAssumption` and `ExportAssumption` (types of the constants), and `NoneAssumption` of `CodexClient`, of
`BackupFailsafe` and of `PsychiatristDock` (the model value for "nothing" is no value
of the wire, no alert, stamp or state of a repository, no turn, status or call; in
`StreamAssumption`, no event).
Hypotheses of single theorems are `"restore" \notin Faults`, `"loss" \notin Faults`,
`RollbackWorks`, `Chatting = {}`, `OneThingAtATime`, `OneTranslation`, `RangesAreRight` and
`AppendsAreKnown`, each explained above.
`OneLivingState`, `NoStrandedWaiter`,
`RowHasContent`, `DeletedStaysDeleted`, `DeletedContentIsArchived`,
`ReservationCoversMemory`, `FinalizingKeepsChunks` and `NoLostJob` are proved and
therefore no longer among the properties of the runs.

Only model-checked: `BusyWaits` of the dock, which holds of the instance of run `dock`
and not of every one (section 7); and everything temporal beyond `[]` and `[][..]_vars`:
liveness under
fairness and `ENABLED` are outside what TLAPS proves here, as is induction over
recursively defined data, and so what `FlashbackRanges` computes for every list of ranges.

## 5. Plan

Done, with proofs: the lease, the lifecycle, its catalog and its backup statuses,
translation jobs, the runtime lease, the Codex client, turns, the failsafe, the dock,
Flashback exports, streams.
Left, in this order:

1. **PsychiatristDock**: a proof of `IdleShowsWholeAnswers` with any number of Stops.
2. **MutationReservation** as a module of its own, as the lease has one: writers,
   nested reservations, several deletions, waiting.
3. **BackupQueue** (`backup/index.ts` 199-539): several intents, transitions,
   finalizers and suspensions of one memory, against an abstract queue in which
   each file is committed after its last request.
4. **CodexLogin** (`settings/codex-auth.ts`): the pending login of the settings
   page against its completion notification, cancellation and expiry.
5. The event bus of translations and its replay (`translation/events.ts`), with
   the log that `TurnFeed` states.

**Not modelled**, and why: text processing (Markdown blocks, markers, prompts,
chunking, stitching of text, rendering), whose correctness is about strings; the
importer, the browser import and the media proxy beyond success or failure,
whose difficulty is the network; schema and migrations, assumed as the
repositories rely on them; configuration, queries and rendering, which keep no
state between two requests; the end-to-end control routes, which exist for
tests.

## 6. Findings

No run of the project expects a violation. Earlier versions of these modules had
runs that state what a document, a test or a message says; TLC found each of
these violated by what the code does:

* **A failing restore reopens the memory.** flows.md:65-68 says a deletion rejects
  writes until it completes or restores the memory. When the restore itself fails
  the reservation is released anyway (`delete-memory.ts:287`), a turn that was open
  publishes into a new `memories/{id}`, and recovery then refuses the journal as
  ambiguous - and with it every later add, delete and startup scan. This is why
  `NothingAmbiguous` is checked and proved without `restore` faults.
* **Unsaved artifacts are deleted.** flows.md:70 says a deletion backs up the
  current artifacts first. The job compares changed names with its paths for
  equality (`backup/index.ts:818`), and the directory it names is never equal to
  a file: if only thread files changed nothing is committed before they are
  destroyed.
* **A journal cleared unreconciled.** data-and-storage.md:54-55 says a deletion
  journal is cleared only after content, backup and SQLite are reconciled. After a
  staging move whose directory sync failed, the rollback restores the directory
  and clears the journal without looking at HEAD (`delete-memory.ts:207`); a
  backup job that ran in between has committed the removal and is recorded as a
  success.
* **A success that is none.** flows.md:406-413 relies on `success` meaning tracked
  content. A failed job with `CONTENT.md` followed by a successful one with thread
  files leaves `success` (`backup/index.ts:283`), and no retry looks at it again.
* **A cancellation nobody finishes.** runner.ts:755 says "Translation cancellation
  is still finalizing. Retry after cancellation completes.", and a test
  (`tests/server/translation/runner.test.ts:2131`) recovers a `cancel_requested`
  job by running it. After a crash nothing runs it: a start finds it active and
  throws before it schedules (`runner.ts:268-269`), the cancel route answers 202
  (`cancel-translation-route.ts:142-147`). The row stays, and the translation of
  that source into that language can never be started again. Without a crash
  the property holds.
* **A read that fails a starting turn.** A test (`tests/server/psychiatrist/api-routes.test.ts:477`)
  is called "defers pending-turn reconciliation while a thread is reserved". The
  thread read does (`thread-route.ts:234-240`); the event read asks only which turn
  is active (`events-route.ts:151-158`). A client that learned the turn's id from
  the thread between `appendPendingPair` and `register` (`message-route.ts:281-320`)
  and reads its events marks the starting turn failed; the run goes on and its
  answer is refused, because the pair is no longer pending. `AnswerNeverDenied`
  therefore speaks of answers that were saved.
* **A projection of the translation before.** local-self-hosting.md:79-82 says the
  projection is resolved under the variant lock, "so an older output-hash
  projection cannot survive a newly completed translation". The toggle route
  resolves the hash before it waits for that lock (`flashbacks.ts:73-80`,
  `toggle.ts:127`), and nothing under the lock looks again: when that translation is
  lost and another commits meanwhile, the toggle publishes `FLASHBACKS.json` for
  the old hash over the new one and clears its intent (`toggle.ts:240-277`). The
  file stays until the next toggle or scan. It takes a translation whose file is
  lost, which is not a fault of run `exports`.
* **The visible answer of a regeneration.** reader-and-content.md:243-244 (in
  `docs/references/design-system/`) says a regeneration "replaces the visible answer
  on the first new answer delta". The transcript collects the new answer in a draft
  that is not shown and replaces the old one when the turn completes
  (`psychiatrist-transcript.ts:79-87`, `:115-124`); `ApplyStartedInPlace` is what the
  document describes, and `IdleShowsWholeAnswers` fails with it.
* **A dock that loads forever.** reader-and-content.md:236-240 says that a malformed
  terminal event leads to one reload and that a failed one "exposes the existing
  manual thread Retry action". If the turn was being stopped and the load of the
  Stop has failed, that reload takes Retry away (`setThreadLoadState("loading")`) and its
  answer is dropped because the phase is `stopping` (`PsychiatristDock.tsx:362-371`,
  `:842-852`): the state stays `loading`, with every control disabled, until the
  dock is mounted again. `BusyWaits` excepts the meeting of the two loads for this reason.
* **A Retry that goes away.** reader-and-content.md:267-268 says a load failure leaves
  Retry keyboard-reachable. Regenerate, which asks only whether a turn runs, clears
  the error message and with it the block that holds Retry, while the load state
  stays `error` (`PsychiatristDock.tsx:657`, `:1110`, `:1125`). Retry comes back if the
  regeneration is refused and the load that follows fails.

## 7. Observations

Met while modelling, not claimed as defects.

Memories and backup:

* With a failing in-process restore, the worker's report can overwrite the
  `pending` that recovery wrote (why `SuccessIsHonest` is checked without
  `restore` faults). A restore that is only reported as failed does the same, and the
  journal is then unlinked with that success on record, against `ClearedOnlyReconciled`.
* The startup scan skips a memory whose queued job names only a thread file; its
  `CONTENT.md` then waits for the next start.
* A thread job that races `RecMarkPending` can make `ClearedOnlyReconciled`
  fail (why it is checked without writers).
* A writer admitted after a completed deletion leaves an orphan directory
  without a row.
* `MemoryLifecycle` with git off is not run by TLC; the theorems cover both.

Backup failsafe (each met as a counterexample to a stronger form of a property):

* `ensureBackupEnvironment` reads the remote's URL again for the stamp
  (`environment.ts:431`) after it compared an earlier reading: a remote changed in
  between is accepted without an alert.
* A Git job of a drifted location whose push fails replaces the drift alert by
  `push_failed`, and "migrate" on that one stamps the current location without
  migrating anything.
* A `push_failed` alert that is kept while the config moves elsewhere cannot be
  recovered (`assertAlertTargetsCurrentConfig`) until the config moves back.
* `delete-missing-record` deletes the first inconsistent memory it finds when it is
  applied, which need not be the alert's.
* A push to a changed remote is noticed after the push.

Translations and the Codex client:

* A start looks for a complete and for an active translation, then probes Codex.
  If another job for the same source completes meanwhile, a second job is created
  (only active jobs exclude each other), overwrites the file, fails at the unique
  index of complete jobs, and the complete one is found unavailable. It takes two
  clients that start at the same time, and a third start repairs it
  (`runner.ts:329`).
* `close()` while `ensureInitialized` opens a connection leaves the new socket open
  (`codex-app-server.ts:604-627`); a second `ensureInitialized` after a failed
  `initialize` abandons the first connection, whose later end closes the client.
* `waitForTextTurnCompletion` has no `void output.catch`, unlike its sibling: an
  output that fails before it is awaited is an unhandled rejection.
* The settings page's device login: `cancelCodexDeviceCodeLogin` clears
  whatever login is pending after its `await`, and two starts at the same time
  overwrite each other's.

Psychiatrist:

* Events may be appended after the terminal one; a reader stops at the first.
* An append whose row was written although the call failed leaves two events with
  one id (why `AppendFaults` in `stream` is `{"nothing", "torn"}`, and `AppendsAreKnown` a
  hypothesis of the proofs); a live follower
  is never told the end if the append of the terminal event fails for good.
* A slow `cancelTurn` whose turn failed to be marked complete can mark canceled a
  turn that regenerate has answered since.
* A slot freed by a cancellation may be taken while Codex still ends the canceled
  turn.
* The cached version of a reconciliation skips turns that are "started".

The dock (`PsychiatristDock.tsx`):

* Regenerate is enabled while a thread is loading, and everything is when two loads
  overlap and one has ended. With `StartsWhileLoading`
  the load's older snapshot ends the turn just started, and
  `IdleShowsWholeAnswers` fails: a turn that is stored but still registered is
  adopted and its deltas are appended to its whole answer, or a second `started` of
  the same turn overwrites `draftOriginalTurnId`. A Stop whose load shows another thread
  can then leave the dock in `starting`, because the answer of the start is dropped.
* `ServeStart` refuses a regenerate of a thread that is no longer the latest. The route
  looks at the manifest's status and policy version only
  (`regenerate-route.ts:172-190`) and starts it there; that is reached here as a
  start that the change of the content follows.
* The EventSource has no error handler: a stream the server refuses leaves the
  dock running until the page is opened again.
* A thread response reads the pairs before the registry (`thread-route.ts:345`): it
  may show a pending pair and no active turn. The next load repairs that.
* When the loads of a Stop and of a malformed end overlap, the second may show
  another thread beside the turn the first adopted; its stream is then mute, and
  only Stop gets the dock out of `running`. Two loads of two Stops can do the same:
  with more Stops, requests and threads than run `dock` has, `BusyWaits` fails.
* The load after a Stop may overwrite what an event has shown since it was
  answered, and the path of a refused start makes the dock idle without letting go of
  a stream it has adopted meanwhile.
* A Send whose pair a load has shown already appends a second row for it.

Flashbacks:

* The retry scan may recreate `memories/{id}/FLASHBACKS.json` of a memory that is
  deleted meanwhile.
* An intent that is cleared between `readdir` and `readFile` ends the whole replay
  of intents (ENOENT), as does any failing one.

Runtime lease:

* The grace of one second for a guard that is created but not yet locked is an
  assumption on the machine (`Unlocked`).
* Two processes that start at the same time and probe the same stale guard may
  both refuse to start. A failed release is retried only by its callers.
