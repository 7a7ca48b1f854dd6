-------------------------- MODULE PsychiatristTurn --------------------------
(***************************************************************************)
(* The turns of the Psychiatrist threads: the requests that send a message, *)
(* regenerate an answer or retry one with web sources, the detached run     *)
(* that follows the 202 response, the cancel request, and the two reads     *)
(* that reconcile turns left over by a crash.                               *)
(*                                                                          *)
(* Everything that writes files of a thread waits for its mutation lock,    *)
(* which is first come first served, and is one step while it holds it; a   *)
(* failing write leaves what was written before it.  Whatever the code does *)
(* between two awaits is one step too.                                      *)
(*                                                                          *)
(* A pair is named by the turn that asked its question.                     *)
(***************************************************************************)
EXTENDS Integers, Sequences, FiniteSets

CONSTANTS
    Threads,     \* the threads of one memory
    Turns,       \* the supply of turn ids
    Readers,     \* the thread and event reads under way at a time
    MaxTurns,    \* DEFAULT_PSYCHIATRIST_MAX_CONCURRENT_TURNS
    MaxDeltas,   \* bound: the visible Codex events that are written
    MaxFaults,   \* bound: how many calls fail
    MaxCrashes,  \* bound: how often the process dies
    None         \* no turn, no thread

ASSUME TurnAssumption ==
    /\ None \notin Turns \cup Threads
    /\ IsFiniteSet(Threads)
    /\ MaxTurns \in Nat \ {0}
    /\ MaxDeltas \in Nat /\ MaxFaults \in Nat /\ MaxCrashes \in Nat

VARIABLES
    \* durable: the files of the threads
    pair,        \* the last row of PAIRS.jsonl of each pair
    response,    \* RESPONSE.md: the turn whose answer it holds
    answered,    \* the turns with a completed row in PAIRS.jsonl
    record,      \* turns/{turn}.json: status and regenerate_from_turn_id
    stream,      \* the types of the events in streams/{turn}.jsonl
    stale,       \* the threads whose manifest says stale
    \* of the process
    registry,    \* ActivePsychiatristTurnRegistry
    lock,        \* the mutation lock of each thread: holder and waiters
    run,         \* the request of a turn and, after it, its run
    cancel,      \* the cancel request of each turn
    reader,      \* the reads
    known,       \* the turns whose id a response has shown
    \* the bounds
    faults, crashes

files == <<pair, response, answered, record, stream, stale>>
vars == <<files, registry, lock, run, cancel, reader, known, faults, crashes>>

Kinds == {"message", "regenerate", "retry"}
PairStatus == {"pending", "completed", "failed", "canceled"}
\* "refused" is status failed with the code network_permission_required
Terminal == {"completed", "failed", "refused", "canceled"}
EventTypes == {"started", "delta", "completed", "failed", "permission", "canceled", "stale"}
TerminalEvents == {"completed", "failed", "permission", "canceled"}

NoPair == [turn |-> None, status |-> "pending", answer |-> FALSE, from |-> None]
NoRecord == [status |-> "none", from |-> None]

StartPcs == {"reserved", "append", "start", "announce", "register"}
RunPcs == {"running", "draining", "intent", "save", "complete", "publish", "warn",
           "salvage", "refuse", "sayRefused", "fail", "sayFailed", "end"}
IdleRun == [pc |-> "idle", kind |-> "message", thread |-> None, pair |-> None, from |-> None,
            broken |-> FALSE, outcome |-> "none", interrupted |-> FALSE]

Thread(t) == run[t].thread
PairOf(t) == run[t].pair

\* What is left of a request or run that is over.
Over(t) ==
    [IdleRun EXCEPT !.pc = "done", !.thread = run[t].thread, !.pair = run[t].pair]

RunnerOf(t) == <<"run", t>>
CancelerOf(t) == <<"cancel", t>>
ReaderOf(v) == <<"read", v>>
Actors == ({"run", "cancel"} \X Turns) \cup ({"read"} \X Readers)

\* What the variables hold.
Pairs == [turn : Turns \cup {None}, status : PairStatus, answer : BOOLEAN,
          from : Turns \cup {None}]
Records == [status : Terminal \cup {"none", "started"}, from : Turns \cup {None}]
Registries == [active : [Threads -> Turns \cup {None}], turns : SUBSET Turns,
               ready : SUBSET Turns, reserved : SUBSET Threads,
               admitted : SUBSET Threads, held : Int]
Pcs == {"idle", "loaded", "done", "stale", "sayStale", "startFail", "startSay"}
         \cup StartPcs \cup RunPcs
Runs == [pc : Pcs, kind : Kinds, thread : Threads \cup {None}, pair : Turns \cup {None},
         from : Turns \cup {None}, broken : BOOLEAN, interrupted : BOOLEAN,
         outcome : {"none", "answer", "permission", "interrupted", "error"}]
CancelPcs == {"idle", "load", "interrupt", "mark", "say", "done"}
Reads == [pc : {"idle", "scanned", "reconcile"}, thread : Threads \cup {None},
          target : Turns \cup {None}, active : Turns \cup {None}]

TypeOK ==
    /\ pair \in [Turns -> Pairs]
    /\ response \in [Turns -> Turns \cup {None}]
    /\ answered \subseteq Turns
    /\ record \in [Turns -> Records]
    /\ stream \in [Turns -> Seq(EventTypes)]
    /\ stale \subseteq Threads
    /\ registry \in Registries
    /\ lock \in [Threads -> Seq(Actors)]
    /\ run \in [Turns -> Runs]
    /\ cancel \in [Turns -> CancelPcs]
    /\ reader \in [Readers -> Reads]
    /\ known \subseteq Turns
    /\ faults \in 0 .. MaxFaults /\ crashes \in 0 .. MaxCrashes

IdleReader == [pc |-> "idle", thread |-> None, target |-> None, active |-> None]

EmptyRegistry ==
    [active |-> [th \in Threads |-> None], turns |-> {}, ready |-> {},
     reserved |-> {}, admitted |-> {}, held |-> 0]

Init ==
    /\ pair = [p \in Turns |-> NoPair]
    /\ response = [p \in Turns |-> None]
    /\ answered = {}
    /\ record = [t \in Turns |-> NoRecord]
    /\ stream = [t \in Turns |-> <<>>]
    /\ stale = {}
    /\ registry = EmptyRegistry
    /\ lock = [th \in Threads |-> <<>>]
    /\ run = [t \in Turns |-> IdleRun]
    /\ cancel = [t \in Turns |-> "idle"]
    /\ reader = [v \in Readers |-> IdleReader]
    /\ known = {}
    /\ faults = 0 /\ crashes = 0

-----------------------------------------------------------------------------
(* ActivePsychiatristTurnRegistry. *)

Busy(g, th) == g.active[th] # None \/ th \in g.reserved

\* releaseAdmission: give the slot of a thread back, once.
ReleaseAdmission(g, th) ==
    [g EXCEPT !.admitted = g.admitted \ {th},
              !.held = IF th \in g.admitted THEN g.held - 1 ELSE g.held]

Reserve(g, th) ==
    [g EXCEPT !.reserved = g.reserved \cup {th}, !.admitted = g.admitted \cup {th},
              !.held = g.held + 1]

ReleaseThread(g, th) ==
    LET h == [g EXCEPT !.reserved = g.reserved \ {th}]
    IN  IF g.active[th] = None THEN ReleaseAdmission(h, th) ELSE h

\* The admission is the one of the reservation; register takes another only
\* for a caller that did not reserve.
RegisterTurn(g, t, th) ==
    [g EXCEPT !.reserved = g.reserved \ {th}, !.turns = g.turns \cup {t},
              !.active = [g.active EXCEPT ![th] = t],
              !.admitted = g.admitted \cup {th},
              !.held = IF th \in g.admitted THEN g.held ELSE g.held + 1]

\* Faulty form: the slot of the thread is not given back.
UnregisterKeepsSlot(g, t, th) ==
    IF t \notin g.turns THEN g
    ELSE [g EXCEPT !.turns = g.turns \ {t}, !.ready = g.ready \ {t},
                   !.active = [g.active EXCEPT ![th] = None],
                   !.reserved = g.reserved \ {th}]

\* Faulty form: whichever turn of the thread is active loses its slot.
UnregisterAnyTurn(g, t, th) ==
    ReleaseAdmission(
      [g EXCEPT !.turns = g.turns \ {t}, !.ready = g.ready \ {t},
                !.active = [g.active EXCEPT ![th] = None],
                !.reserved = g.reserved \ {th}], th)

\* A turn that another caller unregistered before is nobody's any more.
Unregister(g, t, th) ==
    IF t \notin g.turns THEN g
    ELSE ReleaseAdmission(
           [g EXCEPT !.turns = g.turns \ {t}, !.ready = g.ready \ {t},
                     !.active = [g.active EXCEPT ![th] = None],
                     !.reserved = g.reserved \ {th}], th)

-----------------------------------------------------------------------------
(* The mutation lock of a thread, and failing calls. *)

Holds(th, a) == lock[th] # <<>> /\ Head(lock[th]) = a
Queued(th, a) == [lock EXCEPT ![th] = Append(lock[th], a)]
Released(th) == [lock EXCEPT ![th] = Tail(lock[th])]
\* An operation is over and the same actor asks for the lock again.
Requeued(th, a) == [lock EXCEPT ![th] = Append(Tail(lock[th]), a)]

Works == UNCHANGED faults
Fails == faults < MaxFaults /\ faults' = faults + 1

Goto(t, pc) ==
    run' = [run EXCEPT ![t] = IF pc = "done" THEN Over(t) ELSE [run[t] EXCEPT !.pc = pc]]

\* appendPsychiatristStreamEvent: a durable row; an append that fails writes
\* none.
Emit(t, type) == stream' = [stream EXCEPT ![t] = Append(stream[t], type)]

-----------------------------------------------------------------------------
(* A request, up to the registration of the turn and the 202 response. *)

\* The thread is read before anything is reserved.
LoadMessage(t, th) ==
    /\ run[t].pc = "idle"
    /\ th \notin stale
    /\ run' = [run EXCEPT ![t] = [IdleRun EXCEPT !.pc = "loaded", !.thread = th, !.pair = t]]
    /\ UNCHANGED <<files, registry, lock, cancel, reader, known, faults, crashes>>

\* resolveRegenerateTurnMode: an answered pair is regenerated, one that was
\* refused the network is retried with it.  What the request keeps of the
\* pair may be old when it runs.
LoadRegenerate(t, p) ==
    LET mode == IF pair[p].answer THEN "regenerate" ELSE "retry"
    IN  /\ run[t].pc = "idle"
        /\ pair[p].turn # None
        /\ Thread(p) \notin stale
        /\ \/ pair[p].status = "completed" /\ pair[p].answer
           \/ /\ pair[p].status = "failed" /\ ~pair[p].answer
              /\ record[pair[p].turn].status = "refused"
        /\ run' = [run EXCEPT ![t] =
              [IdleRun EXCEPT !.pc = "loaded", !.kind = mode, !.thread = Thread(p), !.pair = p,
                              !.from = IF mode = "regenerate" THEN pair[p].turn ELSE None]]
        /\ UNCHANGED <<files, registry, lock, cancel, reader, known, faults, crashes>>

\* tryReserveThread, in the same step as the answer 409 or 429.
ReserveThread(t) ==
    /\ run[t].pc = "loaded"
    /\ IF Busy(registry, Thread(t)) \/ registry.held >= MaxTurns
       THEN UNCHANGED registry /\ Goto(t, "done")
       ELSE registry' = Reserve(registry, Thread(t)) /\ Goto(t, "reserved")
    /\ UNCHANGED <<files, lock, cancel, reader, known, faults, crashes>>

\* The context of a message cannot be built, or storage admission is closed.
Refuse(t) ==
    /\ run[t].pc = "reserved"
    /\ Fails
    /\ registry' = ReleaseThread(registry, Thread(t))
    /\ Goto(t, "done")
    /\ UNCHANGED <<files, lock, cancel, reader, known, crashes>>

\* The content changed since the thread was opened.
FindStale(t) ==
    /\ run[t].pc = "reserved" /\ run[t].kind = "message"
    /\ registry' = ReleaseThread(registry, Thread(t))
    /\ lock' = Queued(Thread(t), RunnerOf(t))
    /\ Goto(t, "stale")
    /\ UNCHANGED <<files, cancel, reader, known, faults, crashes>>

MarkThreadStale(t) ==
    LET th == Thread(t)
    IN  /\ run[t].pc = "stale" /\ Holds(th, RunnerOf(t))
        /\ lock' = Released(th)
        /\ \/ Works /\ stale' = stale \cup {th} /\ Goto(t, "sayStale")
           \/ Fails /\ UNCHANGED stale /\ Goto(t, "done")
        /\ UNCHANGED <<pair, response, answered, record, stream, registry, cancel, reader,
                       known, crashes>>

SayStale(t) ==
    /\ run[t].pc = "sayStale"
    /\ \/ Works /\ Emit(t, "stale")
       \/ Fails /\ UNCHANGED stream
    /\ Goto(t, "done")
    /\ UNCHANGED <<pair, response, answered, record, stale, registry, lock, cancel, reader,
                   known, crashes>>

\* The context fits and a runtime borrow is taken: the files come next.
Accept(t) ==
    /\ run[t].pc = "reserved"
    /\ lock' = Queued(Thread(t), RunnerOf(t))
    /\ Goto(t, IF run[t].kind = "message" THEN "append" ELSE "start")
    /\ UNCHANGED <<files, registry, cancel, reader, known, faults, crashes>>

\* The catch block of a request: give up registration and reservation.
GiveUp(t) == registry' = ReleaseThread(Unregister(registry, t, Thread(t)), Thread(t))

\* appendPendingPair.  From here on a read of the thread shows the turn id.
\* A failure after the row was written leaves a pending pair nobody ends.
AppendPendingPair(t) ==
    LET th == Thread(t)
        row == [NoPair EXCEPT !.turn = t]
    IN  /\ run[t].pc = "append" /\ Holds(th, RunnerOf(t))
        /\ \/ /\ Works
              /\ pair' = [pair EXCEPT ![t] = row]
              /\ known' = known \cup {t}
              /\ lock' = Requeued(th, RunnerOf(t))
              /\ Goto(t, "start") /\ UNCHANGED registry
           \/ /\ Fails
              /\ \/ pair' = [pair EXCEPT ![t] = row] /\ known' = known \cup {t}
                 \/ UNCHANGED <<pair, known>>
              /\ lock' = Released(th)
              /\ Goto(t, "startSay") /\ GiveUp(t)
        /\ UNCHANGED <<response, answered, record, stream, stale, cancel, reader, crashes>>

\* recordPsychiatristTurnStarted.  Only a message has a pair to mark failed.
RecordTurnStarted(t) ==
    LET th == Thread(t)
    IN  /\ run[t].pc = "start" /\ Holds(th, RunnerOf(t))
        /\ \/ /\ Works
              /\ record' = [record EXCEPT ![t] = [status |-> "started", from |-> run[t].from]]
              /\ lock' = Released(th)
              /\ Goto(t, "announce") /\ UNCHANGED registry
           \/ /\ Fails
              /\ UNCHANGED record
              /\ GiveUp(t)
              /\ IF run[t].kind = "message"
                 THEN lock' = Requeued(th, RunnerOf(t)) /\ Goto(t, "startFail")
                 ELSE lock' = Released(th) /\ Goto(t, "done")
        /\ UNCHANGED <<pair, response, answered, stream, stale, cancel, reader, known, crashes>>

\* The started event is telemetry for a message, and required of the others.
Announce(t) ==
    /\ run[t].pc = "announce"
    /\ \/ Works /\ Emit(t, "started") /\ Goto(t, "register") /\ UNCHANGED registry
       \/ /\ Fails /\ UNCHANGED stream
          /\ IF run[t].kind = "message"
             THEN Goto(t, "register") /\ UNCHANGED registry
             ELSE Goto(t, "done") /\ GiveUp(t)
    /\ UNCHANGED <<pair, response, answered, record, stale, lock, cancel, reader, known, crashes>>

\* register, the detached run and the 202 response, in one step.
Register(t) ==
    /\ run[t].pc = "register"
    /\ registry' = RegisterTurn(registry, t, Thread(t))
    /\ known' = known \cup {t}
    /\ Goto(t, "running")
    /\ UNCHANGED <<files, lock, cancel, reader, faults, crashes>>

-----------------------------------------------------------------------------
(* The detached run. *)

Running(t) == run[t].pc = "running"

\* Codex reported its thread and turn ids; Stop can name the turn now.
CodexReady(t) ==
    /\ Running(t) /\ ~run[t].broken
    /\ t \in registry.turns \ registry.ready
    /\ registry' = [registry EXCEPT !.ready = registry.ready \cup {t}]
    /\ UNCHANGED <<files, lock, run, cancel, reader, known, faults, crashes>>

\* What the bound counts.
Deltas == {d \in Turns \X (1 .. MaxDeltas) :
             d[2] <= Len(SelectSeq(stream[d[1]], LAMBDA e : e = "delta"))}

\* The queue writes an event that onEvent gave it: one that came before Codex
\* settled, so that it may be written while the queue drains.  A write that
\* fails or an event beyond the limits closes the queue; what it holds is
\* still written.
WriteDelta(t) ==
    /\ run[t].pc \in {"running", "draining"} /\ Cardinality(Deltas) < MaxDeltas
    /\ \/ Emit(t, "delta") /\ Works /\ UNCHANGED run
       \/ Fails /\ UNCHANGED stream /\ run' = [run EXCEPT ![t].broken = TRUE]
    /\ UNCHANGED <<pair, response, answered, record, stale, registry, lock, cancel, reader,
                   known, crashes>>

\* runConversationTurn settles: an answer, a request for the network, the
\* interruption a cancel asked for, or any other error.  A retry has the
\* network already.  drain closes the queue in the same step and waits for it.
Outcomes(t) ==
    {"answer", "error"}
      \cup (IF run[t].kind = "retry" THEN {} ELSE {"permission"})
      \cup (IF run[t].interrupted THEN {"interrupted"} ELSE {})

CodexSettles(t) ==
    /\ Running(t)
    /\ \E outcome \in Outcomes(t) :
          run' = [run EXCEPT ![t].pc = "draining", ![t].outcome = outcome]
    /\ UNCHANGED <<files, registry, lock, cancel, reader, known, faults, crashes>>

ToLock(t, pc) == lock' = Queued(Thread(t), RunnerOf(t)) /\ Goto(t, pc)

\* The queue is empty.  The failure of Codex comes before the one of a write.
Settled(t, pc) ==
    run' = [run EXCEPT ![t].pc = pc, ![t].outcome = "none", ![t].broken = FALSE,
                       ![t].interrupted = FALSE]

Drained(t) ==
    LET outcome == run[t].outcome
        ask == lock' = Queued(Thread(t), RunnerOf(t))
    IN  /\ run[t].pc = "draining"
        /\ \/ outcome = "interrupted" /\ Settled(t, "end") /\ UNCHANGED lock
           \/ outcome = "error" /\ Settled(t, "fail") /\ ask
           \/ outcome \in {"answer", "permission"} /\ run[t].broken /\ Settled(t, "fail") /\ ask
           \/ outcome = "permission" /\ ~run[t].broken /\ Settled(t, "refuse") /\ ask
           \/ outcome = "answer" /\ ~run[t].broken /\ Settled(t, "intent") /\ UNCHANGED lock
        /\ UNCHANGED <<files, registry, cancel, reader, known, faults, crashes>>

\* The backup intent precedes the answer.
PersistIntent(t) ==
    /\ run[t].pc = "intent"
    /\ \/ Works /\ ToLock(t, "save")
       \/ Fails /\ ToLock(t, "fail")
    /\ UNCHANGED <<files, registry, cancel, reader, known, crashes>>

Ended(t) == record[t].status \in Terminal

\* What appendAssistantResponse, appendRegeneratedAssistantResponse and
\* appendRetriedAssistantResponse ask of the pair.
Answerable(t) ==
    LET p == PairOf(t)
    IN  CASE run[t].kind = "message" -> pair[p].status = "pending" /\ ~pair[p].answer
          [] run[t].kind = "regenerate" -> pair[p].answer
          [] run[t].kind = "retry" -> ~pair[p].answer /\ pair[p].status = "failed"

Canceled(t) ==
    \/ run[t].kind = "message" /\ pair[PairOf(t)].status = "canceled"
    \/ Answerable(t) /\ record[t].status = "canceled"

AnswerRow(t) ==
    [turn |-> t, status |-> "completed", answer |-> TRUE,
     from |-> IF run[t].kind = "regenerate" THEN pair[PairOf(t)].turn ELSE None]

\* The answer: RESPONSE.md, then the row, without which the response is put
\* back.  Putting it back may fail too.
SaveAnswer(t) ==
    LET th == Thread(t)
        p == PairOf(t)
    IN  /\ run[t].pc = "save" /\ Holds(th, RunnerOf(t))
        /\ \/ /\ Canceled(t)
              /\ Works /\ UNCHANGED <<pair, response, answered>>
              /\ lock' = Released(th) /\ Goto(t, "end")
           \/ /\ ~Canceled(t) /\ ~Answerable(t)
              /\ Works /\ UNCHANGED <<pair, response, answered>>
              /\ lock' = Requeued(th, RunnerOf(t)) /\ Goto(t, "fail")
           \/ /\ ~Canceled(t) /\ Answerable(t)
              /\ Works
              /\ response' = [response EXCEPT ![p] = t]
              /\ pair' = [pair EXCEPT ![p] = AnswerRow(t)]
              /\ answered' = answered \cup {t}
              /\ lock' = Requeued(th, RunnerOf(t)) /\ Goto(t, "complete")
           \/ /\ ~Canceled(t) /\ Answerable(t)
              /\ Fails /\ UNCHANGED <<pair, answered>>
              /\ \/ UNCHANGED response
                 \/ response' = [response EXCEPT ![p] = t]
              /\ lock' = Requeued(th, RunnerOf(t)) /\ Goto(t, "fail")
        /\ UNCHANGED <<record, stream, stale, registry, cancel, reader, known, crashes>>

\* markPsychiatristTurnCompleted: the first terminal status wins.
MarkCompleted(t) ==
    LET th == Thread(t)
    IN  /\ run[t].pc = "complete" /\ Holds(th, RunnerOf(t))
        /\ lock' = Released(th)
        /\ \/ /\ Works /\ Goto(t, "publish")
              /\ IF Ended(t) THEN UNCHANGED record
                 ELSE record' = [record EXCEPT ![t] = [status |-> "completed", from |-> run[t].from]]
           \/ Fails /\ UNCHANGED record /\ Goto(t, "salvage")
        /\ UNCHANGED <<pair, response, answered, stream, stale, registry, cancel, reader, known,
                       crashes>>

\* backupQueue.enqueue appends the terminal event from its finalizer.  The
\* enqueue may fail before it, or the append may.
Publish(t) ==
    /\ run[t].pc = "publish"
    /\ \/ Works /\ Emit(t, "completed") /\ Goto(t, "end")
       \/ Fails /\ UNCHANGED stream /\ Goto(t, "warn")
       \/ Fails /\ UNCHANGED stream /\ Goto(t, "salvage")
    /\ UNCHANGED <<pair, response, answered, record, stale, registry, lock, cancel, reader,
                   known, crashes>>

\* The completed event with a warning: backup enqueue failed.
Warn(t) ==
    /\ run[t].pc = "warn"
    /\ \/ Works /\ Emit(t, "completed") /\ Goto(t, "end")
       \/ Fails /\ UNCHANGED stream /\ Goto(t, "salvage")
    /\ UNCHANGED <<pair, response, answered, record, stale, registry, lock, cancel, reader,
                   known, crashes>>

\* The answer is saved and something after it failed: one more try to tell.
Salvage(t) ==
    /\ run[t].pc = "salvage"
    /\ \/ Works /\ Emit(t, "completed")
       \/ Fails /\ UNCHANGED stream
    /\ Goto(t, "end")
    /\ UNCHANGED <<pair, response, answered, record, stale, registry, lock, cancel, reader,
                   known, crashes>>

\* markPsychiatristTurnFailed and markPsychiatristRegenerateFailed write the
\* row of an unanswered pair, then the record.
FailedRow(t) == [turn |-> t, status |-> "failed", answer |-> FALSE, from |-> None]
FailedRecord(t, status) ==
    [status |-> status,
     from |-> IF run[t].kind = "regenerate" THEN pair[PairOf(t)].turn ELSE None]

\* Faulty form: a failed regeneration takes the answer of the pair with it.
WriteFailureOverAnswer(t, status) ==
    /\ pair' = [pair EXCEPT ![PairOf(t)] = FailedRow(t)]
    /\ record' = [record EXCEPT ![t] = FailedRecord(t, status)]

\* Faulty form: the row takes the status of the turn.
WriteFailureOneStatus(t, status) ==
    /\ IF pair[PairOf(t)].answer THEN UNCHANGED pair
       ELSE pair' = [pair EXCEPT ![PairOf(t)] = [FailedRow(t) EXCEPT !.status = status]]
    /\ record' = [record EXCEPT ![t] = FailedRecord(t, status)]

WriteFailure(t, status) ==
    /\ IF pair[PairOf(t)].answer THEN UNCHANGED pair
       ELSE pair' = [pair EXCEPT ![PairOf(t)] = FailedRow(t)]
    /\ record' = [record EXCEPT ![t] = FailedRecord(t, status)]

\* The row may be written without the record.
WriteFailurePart(t) ==
    /\ UNCHANGED record
    /\ \/ UNCHANGED pair
       \/ ~pair[PairOf(t)].answer /\ pair' = [pair EXCEPT ![PairOf(t)] = FailedRow(t)]

\* Faulty form: the failure overwrites the status a cancel has left.
MarkFailedUnchecked(t, from, status, told, over) ==
    LET th == Thread(t)
    IN  /\ run[t].pc = from /\ Holds(th, RunnerOf(t))
        /\ lock' = Released(th)
        /\ \/ Works /\ WriteFailure(t, status) /\ Goto(t, told)
           \/ Fails /\ WriteFailurePart(t) /\ Goto(t, over)
        /\ UNCHANGED <<response, answered, stream, stale, registry, cancel, reader, known, crashes>>

\* The first terminal status wins; only a failed turn is told failed.
MarkFailed(t, from, status, told, over) ==
    LET th == Thread(t)
    IN  /\ run[t].pc = from /\ Holds(th, RunnerOf(t))
        /\ lock' = Released(th)
        /\ \/ /\ Works
              /\ \/ ~Ended(t) /\ WriteFailure(t, status) /\ Goto(t, told)
                 \/ /\ Ended(t) /\ UNCHANGED <<pair, record>>
                    /\ Goto(t, IF record[t].status \in {"failed", "refused"} THEN told ELSE over)
           \/ Fails /\ ~Ended(t) /\ WriteFailurePart(t) /\ Goto(t, over)
        /\ UNCHANGED <<response, answered, stream, stale, registry, cancel, reader, known, crashes>>

StartFails(t) == MarkFailed(t, "startFail", "failed", "startSay", "done")
RunFails(t) == MarkFailed(t, "fail", "failed", "sayFailed", "end")

\* The network is refused: the failure of the mark itself is one more error.
RunRefused(t) ==
    LET th == Thread(t)
    IN  /\ run[t].pc = "refuse" /\ Holds(th, RunnerOf(t))
        /\ \/ /\ Works /\ lock' = Released(th)
              /\ \/ ~Ended(t) /\ WriteFailure(t, "refused") /\ Goto(t, "sayRefused")
                 \/ /\ Ended(t) /\ UNCHANGED <<pair, record>>
                    /\ Goto(t, IF record[t].status \in {"failed", "refused"}
                               THEN "sayRefused" ELSE "end")
           \/ /\ Fails /\ ~Ended(t) /\ WriteFailurePart(t)
              /\ lock' = Requeued(th, RunnerOf(t)) /\ Goto(t, "fail")
        /\ UNCHANGED <<response, answered, stream, stale, registry, cancel, reader, known, crashes>>

\* A permission event that cannot be written is answered by a failed one.
SayRefused(t) ==
    /\ run[t].pc = "sayRefused"
    /\ \/ Works /\ Emit(t, "permission") /\ Goto(t, "end") /\ UNCHANGED lock
       \/ Fails /\ UNCHANGED stream /\ ToLock(t, "fail")
    /\ UNCHANGED <<pair, response, answered, record, stale, registry, cancel, reader, known,
                   crashes>>

\* The failed event, best effort, after the failed status.
SayFailed(t, from, over) ==
    /\ run[t].pc = from
    /\ \/ Works /\ Emit(t, "failed")
       \/ Fails /\ UNCHANGED stream
    /\ Goto(t, over)
    /\ UNCHANGED <<pair, response, answered, record, stale, registry, lock, cancel, reader,
                   known, crashes>>

\* The finally block of the run.
EndRun(t) ==
    /\ run[t].pc = "end"
    /\ registry' = Unregister(registry, t, Thread(t))
    /\ Goto(t, "done")
    /\ UNCHANGED <<files, lock, cancel, reader, known, faults, crashes>>

-----------------------------------------------------------------------------
(* The cancel request. *)

CancelGoto(t, pc) == cancel' = [cancel EXCEPT ![t] = pc]

\* Stop names an active turn whose Codex ids are known.
CancelArrives(t) ==
    /\ cancel[t] = "idle"
    /\ t \in registry.turns \cap registry.ready
    /\ CancelGoto(t, "load")
    /\ UNCHANGED <<files, registry, lock, run, reader, known, faults, crashes>>

\* loadPsychiatristTurnTerminalStatus, outside the lock.
HasTerminalStatus(t) ==
    \/ Ended(t)
    \/ \E p \in Turns : pair[p].turn = t /\ (pair[p].answer \/ pair[p].status # "pending")

CancelLoads(t) ==
    /\ cancel[t] = "load"
    /\ IF HasTerminalStatus(t)
       THEN CancelGoto(t, "done") /\ registry' = Unregister(registry, t, Thread(t))
       ELSE CancelGoto(t, "interrupt") /\ UNCHANGED registry
    /\ UNCHANGED <<files, lock, run, reader, known, faults, crashes>>

\* The interrupt reaches Codex or fails; the cancellation goes on either way.
Interrupt(t) ==
    /\ cancel[t] = "interrupt"
    /\ \/ Works /\ run' = [run EXCEPT ![t].interrupted = Running(t)]
       \/ Fails /\ UNCHANGED run
    /\ lock' = Queued(Thread(t), CancelerOf(t))
    /\ CancelGoto(t, "mark")
    /\ UNCHANGED <<files, registry, reader, known, crashes>>

CanceledRow(t) == [turn |-> t, status |-> "canceled", answer |-> FALSE, from |-> None]

\* Faulty form: only the record is looked at, not the saved answer.
MarkCanceledUnchecked(t) ==
    LET th == Thread(t)
        p == PairOf(t)
    IN  /\ cancel[t] = "mark" /\ Holds(th, CancelerOf(t))
        /\ lock' = Released(th)
        /\ Works
        /\ IF Ended(t)
           THEN /\ UNCHANGED <<pair, record>>
                /\ registry' = Unregister(registry, t, th) /\ CancelGoto(t, "done")
           ELSE /\ IF pair[p].answer THEN UNCHANGED pair
                   ELSE pair' = [pair EXCEPT ![p] = CanceledRow(t)]
                /\ record' = [record EXCEPT ![t] = [status |-> "canceled", from |-> None]]
                /\ CancelGoto(t, "say") /\ UNCHANGED registry
        /\ UNCHANGED <<response, answered, stream, stale, run, reader, known, crashes>>

\* markPsychiatristTurnCanceled: a turn that ended or saved its answer is
\* left alone.  If the mark fails, the turn stays registered.
MarkCanceled(t) ==
    LET th == Thread(t)
        p == PairOf(t)
        over == Ended(t) \/ (pair[p].answer /\ pair[p].turn = t)
    IN  /\ cancel[t] = "mark" /\ Holds(th, CancelerOf(t))
        /\ lock' = Released(th)
        /\ \/ /\ over /\ Works
              /\ UNCHANGED <<pair, record>>
              /\ registry' = Unregister(registry, t, th) /\ CancelGoto(t, "done")
           \/ /\ ~over /\ Works
              /\ IF pair[p].answer THEN UNCHANGED pair
                 ELSE pair' = [pair EXCEPT ![p] = CanceledRow(t)]
              /\ record' = [record EXCEPT ![t] =
                    [status |-> "canceled",
                     from |-> IF pair[p].answer THEN pair[p].turn ELSE None]]
              /\ CancelGoto(t, "say") /\ UNCHANGED registry
           \/ /\ ~over /\ Fails
              /\ \/ UNCHANGED pair
                 \/ ~pair[p].answer /\ pair' = [pair EXCEPT ![p] = CanceledRow(t)]
              /\ UNCHANGED <<record, registry>>
              /\ CancelGoto(t, "done")
        /\ UNCHANGED <<response, answered, stream, stale, run, reader, known, crashes>>

SayCanceled(t) ==
    /\ cancel[t] = "say"
    /\ \/ Works /\ Emit(t, "canceled")
       \/ Fails /\ UNCHANGED stream
    /\ registry' = Unregister(registry, t, Thread(t))
    /\ CancelGoto(t, "done")
    /\ UNCHANGED <<pair, response, answered, record, stale, lock, run, reader, known, crashes>>

-----------------------------------------------------------------------------
(* The reads, and what they repair. *)

Told(t) == \E i \in 1 .. Len(stream[t]) : stream[t][i] \in TerminalEvents

Snapshot(v, th, target) ==
    /\ reader' = [reader EXCEPT ![v] =
          [pc |-> "reconcile", thread |-> th, target |-> target, active |-> registry.active[th]]]
    /\ lock' = [lock EXCEPT ![th] = Append(lock[th], ReaderOf(v))]

\* reconcileThreadForResponse: nothing is reconciled while a thread is
\* reserved.  (A version already reconciled is skipped; that is a read the
\* model need not take.)
ReadThread(v, th) ==
    /\ reader[v].pc = "idle"
    /\ th \notin registry.reserved
    /\ Snapshot(v, th, None)
    /\ UNCHANGED <<files, registry, run, cancel, known, faults, crashes>>

\* The event route of a turn that is not live loads the replay and finds no
\* terminal event.
ReadEvents(v, t) ==
    /\ reader[v].pc = "idle"
    /\ t \in known \ registry.turns
    /\ ~Told(t)
    /\ reader' = [reader EXCEPT ![v] = [IdleReader EXCEPT !.pc = "scanned", !.thread = Thread(t),
                                                          !.target = t]]
    /\ UNCHANGED <<files, registry, lock, run, cancel, known, faults, crashes>>

\* What is active is read now, whatever began while the replay was loaded;
\* what is reserved is not looked at.
SnapshotEvents(v) ==
    /\ reader[v].pc = "scanned"
    /\ Snapshot(v, reader[v].thread, reader[v].target)
    /\ UNCHANGED <<files, registry, run, cancel, known, faults, crashes>>

\* The turns a reconciliation may touch.
Concerns(v, u) ==
    /\ Thread(u) = reader[v].thread
    /\ u # reader[v].active
    /\ reader[v].target \in {None, u}

PairsOf(v) == {p \in Turns : pair[p].turn # None /\ Concerns(v, pair[p].turn)}

\* repairCompletedPairArtifacts: the last row of a pair decides the response
\* and the record of its turn.
RepairedResponse(v) ==
    [p \in Turns |-> IF p \notin PairsOf(v) THEN response[p]
                     ELSE IF pair[p].answer THEN pair[p].turn ELSE None]

RepairedRecord(v) ==
    [u \in Turns |->
       IF \E p \in PairsOf(v) : pair[p].answer /\ pair[p].turn = u
       THEN [status |-> "completed",
             from |-> pair[CHOOSE p \in PairsOf(v) : pair[p].answer /\ pair[p].turn = u].from]
       ELSE record[u]]

\* The completed event and, by repairCanceledTurnReplays, the canceled one.
RepairedStream(v) ==
    [u \in Turns |->
       IF /\ \E p \in PairsOf(v) : pair[p].answer /\ pair[p].turn = u
          /\ \A i \in 1 .. Len(stream[u]) : stream[u][i] # "completed"
       THEN Append(stream[u], "completed")
       ELSE IF Concerns(v, u) /\ RepairedRecord(v)[u].status = "canceled" /\ ~Told(u)
       THEN Append(stream[u], "canceled")
       ELSE stream[u]]

\* The pairs whose question nobody is answering.
Abandoned(v) ==
    {p \in PairsOf(v) : /\ pair[p].status = "pending"
                        /\ RepairedRecord(v)[pair[p].turn].status \notin Terminal}

\* The retries and regenerations nobody is running.
AbandonedRetry(v, u) ==
    LET r == RepairedRecord(v)[u]
        p == PairOf(u)
    IN  /\ Concerns(v, u) /\ r.status = "started"
        /\ \/ r.from = None /\ pair[p].status = "failed" /\ ~pair[p].answer
           \/ /\ r.from # None /\ pair[p].status = "completed"
              /\ PairOf(r.from) = p /\ RepairedRecord(v)[r.from].status = "completed"

Interrupts(v) == {pair[p].turn : p \in Abandoned(v)} \cup {u \in Turns : AbandonedRetry(v, u)}

\* reconcileInactivePsychiatristTurns.
Reconcile(v) ==
    LET th == reader[v].thread
    IN  /\ reader[v].pc = "reconcile" /\ Holds(th, ReaderOf(v))
        /\ response' = RepairedResponse(v)
        /\ stream' = RepairedStream(v)
        /\ pair' = [p \in Turns |->
              IF p \in Abandoned(v) THEN [pair[p] EXCEPT !.status = "failed"] ELSE pair[p]]
        /\ record' = [u \in Turns |->
              IF u \in Interrupts(v) THEN [RepairedRecord(v)[u] EXCEPT !.status = "failed"]
              ELSE RepairedRecord(v)[u]]
        /\ lock' = Released(th)
        /\ reader' = [reader EXCEPT ![v] = IdleReader]
        /\ UNCHANGED <<answered, stale, registry, run, cancel, known, faults, crashes>>

\* The process dies: the registry, the locks and whoever was waiting.
Crash ==
    /\ crashes < MaxCrashes
    /\ crashes' = crashes + 1
    /\ registry' = EmptyRegistry
    /\ lock' = [th \in Threads |-> <<>>]
    /\ run' = [t \in Turns |->
          IF run[t].pc = "idle" THEN run[t]
          ELSE Over(t)]
    /\ cancel' = [t \in Turns |-> IF cancel[t] = "idle" THEN "idle" ELSE "done"]
    /\ reader' = [v \in Readers |-> IdleReader]
    /\ UNCHANGED <<files, known, faults>>

-----------------------------------------------------------------------------
Request(t) ==
    \/ \E th \in Threads : LoadMessage(t, th)
    \/ \E p \in Turns : LoadRegenerate(t, p)

Start(t) ==
    \/ ReserveThread(t) \/ Refuse(t) \/ FindStale(t) \/ MarkThreadStale(t) \/ SayStale(t)
    \/ Accept(t) \/ AppendPendingPair(t) \/ RecordTurnStarted(t) \/ Announce(t)
    \/ Register(t) \/ StartFails(t) \/ SayFailed(t, "startSay", "done")

Proceed(t) ==
    \/ CodexSettles(t) \/ Drained(t) \/ PersistIntent(t) \/ SaveAnswer(t)
    \/ MarkCompleted(t) \/ Publish(t) \/ Warn(t) \/ Salvage(t)
    \/ RunFails(t) \/ RunRefused(t) \/ SayRefused(t) \/ SayFailed(t, "sayFailed", "end")
    \/ EndRun(t)

Cancel(t) == CancelLoads(t) \/ Interrupt(t) \/ MarkCanceled(t) \/ SayCanceled(t)

Read(v) ==
    \/ \E th \in Threads : ReadThread(v, th)
    \/ \E t \in Turns : ReadEvents(v, t)

Next ==
    \/ \E t \in Turns :
          \/ Request(t) \/ Start(t) \/ CodexReady(t) \/ WriteDelta(t) \/ Proceed(t)
          \/ CancelArrives(t) \/ Cancel(t)
    \/ \E v \in Readers : Read(v) \/ SnapshotEvents(v) \/ Reconcile(v)
    \/ Crash

Spec == Init /\ [][Next]_vars

-----------------------------------------------------------------------------
(* Properties. *)

\* The registry never lends more slots than it has, and every slot belongs to
\* a run, or a request, that is still going on and will give it back;
\* docs/architecture/flows.md: "at most four active-or-reserved turns across all
\* threads".
SlotsBalanced ==
    /\ registry.held = Cardinality(registry.admitted)
    /\ registry.held <= MaxTurns
    /\ registry.admitted = registry.reserved \cup {th \in Threads : registry.active[th] # None}
    /\ \A th \in registry.reserved : registry.active[th] = None
    /\ registry.turns = {registry.active[th] : th \in Threads} \ {None}
    /\ \A th \in registry.reserved : \E t \in Turns : Thread(t) = th /\ run[t].pc \in StartPcs
    /\ \A t \in registry.turns : run[t].pc \in RunPcs

\* The turn whose answer a pair shows was not failed, refused or canceled, in
\* whatever order Stop, the run and a reconciliation reach the files.
AnswerNeverDenied ==
    \A p \in Turns : pair[p].answer =>
       record[pair[p].turn].status \in {"started", "completed"}

\* A terminal event was preceded by the state it tells: flows.md, "the failed
\* pair/turn state is durable before the failed stream event".  (A message
\* whose pending pair could not be written tells the failure only.)
EventsTellTheRecord ==
    \A t \in Turns : \A i \in 1 .. Len(stream[t]) :
       LET e == stream[t][i]
       IN  /\ e = "completed" => t \in answered
           /\ e = "canceled" => record[t].status = "canceled"
           /\ e = "permission" => record[t].status \in {"failed", "refused"}
           /\ e = "failed" => record[t].status \in {"failed", "refused", "none"}

\* An answered pair stays answered, and its RESPONSE.md is never emptied: a
\* regeneration that fails or is stopped leaves the previous answer.
AnswerIsKept ==
    [][\A p \in Turns : pair[p].answer => pair'[p].answer /\ response'[p] # None]_vars
=============================================================================
