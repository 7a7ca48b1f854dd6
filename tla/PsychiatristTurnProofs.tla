----------------------- MODULE PsychiatristTurnProofs -----------------------
(* Safety of the turns of the Psychiatrist threads, for any number of threads, *)
(* turns, readers, slots, failing calls and crashes; and, at the end, of the   *)
(* event stream of a turn, for any number of browsers, rows, buffered events,  *)
(* torn rows, lost connections and restarts: the turn and its stream share no  *)
(* variable, and their proofs share no lemma.                                  *)
EXTENDS PsychiatristTurn, PsychiatristStream,
        TLAPS, FiniteSetTheorems, SequenceTheorems, WellFoundedInduction

\* The record is not written yet.
PrePcs == {"idle", "loaded", "reserved", "append", "start"}
\* The request has not got, or will not get, its record.
NotBegun == PrePcs \cup {"startFail", "startSay", "stale", "sayStale"}
\* The record is written.
Begun == {"announce", "register"} \cup RunPcs
\* The record is written and an answer may still be saved.
EarlyPcs == {"announce", "register", "running", "draining", "intent", "save"}
\* The answer was saved.
SavedPcs == {"complete", "publish", "warn", "salvage", "end", "done"}

\* What a request knows of its pair, and who is known to clients.  The id of a
\* turn that adds no pair is shown by the 202 response only.
RequestInv == \A t \in Turns :
    /\ run[t].pc # "idle" => run[t].thread \in Threads /\ run[t].pair \in Turns
    /\ run[t].pc \notin {"idle", "done"} => (run[t].kind = "message" <=> run[t].pair = t)
    /\ run[t].pc = "append" => run[t].kind = "message"
    /\ t \in known => run[t].pc # "idle"
    /\ t \in known /\ run[t].kind # "message" => run[t].pc \in RunPcs \cup {"done"}
    /\ cancel[t] # "idle" => run[t].pc \in RunPcs \cup {"done"}

\* A reservation has one request, and a slot is that of the thread of its turn.
SlotInv ==
    /\ SlotsBalanced
    /\ \A t \in Turns : run[t].pc \in StartPcs => run[t].thread \in registry.reserved
    /\ \A t, u \in Turns :
          run[t].pc \in StartPcs /\ run[u].pc \in StartPcs /\ run[t].thread = run[u].thread => t = u
    /\ \A th \in Threads : registry.active[th] # None =>
          run[registry.active[th]].thread = th

\* A pair exists from the request that asked its question on.
QuestionInv == \A t \in Turns :
    /\ run[t].pc \in {"idle", "loaded", "reserved", "append"} => pair[t].turn = None
    /\ run[t].pc # "idle" /\ run[t].pair # t => pair[run[t].pair].turn # None
    /\ run[t].pc \in Begun \cup {"start", "startFail"} => pair[run[t].pair].turn # None
    /\ cancel[t] # "idle" => pair[run[t].pair].turn # None

\* It is only rewritten by the turns that work on it.
RowInv == \A p \in Turns : pair[p].turn # None =>
    /\ run[pair[p].turn].pc # "idle"
    /\ run[pair[p].turn].pc \in PrePcs =>
          run[pair[p].turn].pc = "start" /\ run[pair[p].turn].kind = "message"
    /\ run[pair[p].turn].pair = p
    /\ pair[p].status = "pending" => pair[p].turn = p

\* The turn whose answer a pair shows has saved it and cannot fail any more.
SavedInv ==
    /\ \A p \in Turns : pair[p].answer =>
         /\ pair[p].status = "completed" /\ pair[p].turn # None
         /\ response[p] # None
         /\ pair[p].turn \in answered
         /\ run[pair[p].turn].pc \in SavedPcs
    /\ \A t \in Turns : run[t].pc \in {"complete", "publish", "warn", "salvage"} => t \in answered

\* What the record says at each step of the request, the run and the cancel.
RecordInv == \A t \in Turns :
    /\ run[t].pc \in NotBegun => record[t].status \in {"none", "failed"}
    /\ run[t].pc \in Begun => record[t].status # "none"
    /\ run[t].pc \in {"sayRefused", "sayFailed"} => record[t].status \in {"failed", "refused"}
    /\ cancel[t] # "idle" => record[t].status # "none"
    /\ cancel[t] = "say" => record[t].status = "canceled"

StreamInv ==
    /\ EventsTellTheRecord
    /\ \A t \in Turns : run[t].pc \in PrePcs => stream[t] = <<>>

\* A turn that may still save its answer: a message that was marked failed has
\* lost its pending pair; a regeneration or retry, whose pair a read would not
\* change, is not marked failed.
EarlyInv == \A t \in Turns : run[t].pc \in EarlyPcs =>
    IF run[t].kind = "message"
    THEN record[t].status \in {"failed", "refused"} => pair[t].status # "pending"
    ELSE /\ record[t].status \in {"started", "canceled"}
         /\ \A p \in Turns : pair[p].turn = t => cancel[t] \in {"say", "done"}

\* It loses its registration only when it was canceled.
RegisteredInv == \A t \in Turns :
    run[t].pc \in EarlyPcs \cap RunPcs /\ run[t].kind # "message" /\ t \notin registry.turns
       => Ended(t)

\* A read under way does not touch a regeneration or retry that may still save
\* its answer: the turn was active or its thread reserved when the read began,
\* or it starts after the read.
Harmless(v) ==
    /\ reader[v].pc # "idle" => reader[v].thread \in Threads
    /\ reader[v].pc = "scanned" => reader[v].target \in Turns
    /\ reader[v].target # None => reader[v].target \in known
    /\ \A t \in Turns : run[t].pc \in EarlyPcs /\ run[t].kind # "message" =>
         /\ reader[v].pc = "scanned" /\ reader[v].target = t => Ended(t)
         /\ reader[v].pc = "reconcile" /\ Concerns(v, t) => Ended(t)

ReaderInv == \A v \in Readers : Harmless(v)

\* The actor a waits in the queue s; it is ahead of every place of b.
Waiting(s, a) == \E j \in 1 .. Len(s) : s[j] = a
Ahead(s, a, b) == \A i \in 1 .. Len(s) : s[i] = b => \E j \in 1 .. (i - 1) : s[j] = a

\* The lock is first come first served: such a read waits before the request.
QueueInv ==
    /\ \A v \in Readers : reader[v].pc = "reconcile" => Waiting(lock[reader[v].thread], ReaderOf(v))
    /\ \A t \in Turns : run[t].pc \in {"idle", "loaded", "reserved"} =>
          \A th \in Threads : ~Waiting(lock[th], RunnerOf(t))
    /\ \A t \in Turns, v \in Readers :
          run[t].pc = "start" /\ run[t].kind # "message" /\ reader[v].pc = "reconcile" /\ Concerns(v, t)
             => Ahead(lock[run[t].thread], ReaderOf(v), RunnerOf(t))

TurnInv ==
    /\ TypeOK /\ RequestInv /\ SlotInv /\ QuestionInv /\ RowInv /\ AnswerNeverDenied /\ SavedInv
    /\ RecordInv /\ StreamInv
    /\ EarlyInv /\ RegisteredInv /\ ReaderInv /\ QueueInv

-----------------------------------------------------------------------------
(* What the helpers write.                                                   *)

\* The request or run of t is at pc now, and nothing else is told of it.
MovedTo(t, pc) ==
    /\ run' \in [Turns -> Runs]
    /\ run'[t].pc = pc /\ run'[t].thread = run[t].thread /\ run'[t].pair = run[t].pair
    /\ pc # "done" => run'[t].kind = run[t].kind
    /\ \A u \in Turns : u # t => run'[u] = run[u]

\* A request whose field is edited is a request.
LEMMA RunEdited ==
    ASSUME NEW r \in Runs
    PROVE  /\ \A pc \in Pcs : [r EXCEPT !.pc = pc] \in Runs
           /\ \A b \in BOOLEAN : [r EXCEPT !.broken = b] \in Runs
           /\ \A b \in BOOLEAN : [r EXCEPT !.interrupted = b] \in Runs
           /\ \A o \in {"none", "answer", "permission", "interrupted", "error"} :
                 [r EXCEPT !.pc = "draining", !.outcome = o] \in Runs
           /\ \A pc \in Pcs : [r EXCEPT !.pc = pc, !.outcome = "none", !.broken = FALSE,
                                        !.interrupted = FALSE] \in Runs
<1>1. \A b \in BOOLEAN : [r EXCEPT !.broken = b] \in Runs /\ [r EXCEPT !.interrupted = b] \in Runs
  BY DEF Runs
<1>2. \A pc \in Pcs : [r EXCEPT !.pc = pc] \in Runs
  BY DEF Runs
<1>3. \A o \in {"none", "answer", "permission", "interrupted", "error"} :
         [r EXCEPT !.pc = "draining", !.outcome = o] \in Runs
  BY DEF Runs, Pcs, RunPcs
<1>4. \A pc \in Pcs : [r EXCEPT !.pc = pc, !.outcome = "none", !.broken = FALSE,
                               !.interrupted = FALSE] \in Runs
  BY DEF Runs
<1> QED
  BY <1>1, <1>2, <1>3, <1>4

\* What a request is when it begins and when it is over.
LEMMA RunBegins ==
    /\ IdleRun \in Runs
    /\ \A th \in Threads \cup {None}, p \in Turns \cup {None} :
          [IdleRun EXCEPT !.pc = "done", !.thread = th, !.pair = p] \in Runs
    /\ \A th \in Threads \cup {None}, p \in Turns \cup {None} :
          [IdleRun EXCEPT !.pc = "loaded", !.thread = th, !.pair = p] \in Runs
    /\ \A th \in Threads \cup {None}, p \in Turns \cup {None}, k \in Kinds, f \in Turns \cup {None} :
          [IdleRun EXCEPT !.pc = "loaded", !.kind = k, !.thread = th, !.pair = p, !.from = f] \in Runs
BY ZenonT(60) DEF Runs, IdleRun, Pcs, Kinds

\* Goto moves a request, and only it, to the step it names.
LEMMA GotoMoves ==
    ASSUME TypeOK, NEW t \in Turns
    PROVE  \A pc \in Pcs : Goto(t, pc) => MovedTo(t, pc)
<1>1. run[t] \in Runs /\ run \in [Turns -> Runs]
  BY DEF TypeOK
<1>2. run[t].thread \in Threads \cup {None} /\ run[t].pair \in Turns \cup {None}
  BY <1>1 DEF Runs
<1>3. Over(t) \in Runs /\ Over(t).pc = "done" /\ Over(t).thread = run[t].thread
      /\ Over(t).pair = run[t].pair
  BY <1>2, RunBegins DEF Over, IdleRun
<1>4. ASSUME NEW pc \in Pcs, Goto(t, pc) PROVE MovedTo(t, pc)
  <2>1. CASE pc = "done"
    BY <1>1, <1>3, <1>4, <2>1 DEF Goto, MovedTo
  <2>2. CASE pc # "done"
    <3>1. [run[t] EXCEPT !.pc = pc] \in Runs
      BY <1>1, <1>4, RunEdited
    <3>2. [run[t] EXCEPT !.pc = pc].pc = pc /\ [run[t] EXCEPT !.pc = pc].thread = run[t].thread
          /\ [run[t] EXCEPT !.pc = pc].pair = run[t].pair
          /\ [run[t] EXCEPT !.pc = pc].kind = run[t].kind
      BY <1>1 DEF Runs
    <3> QED
      BY <1>1, <1>4, <2>2, <3>1, <3>2 DEF Goto, MovedTo
  <2> QED
    BY <2>1, <2>2
<1> QED
  BY <1>4

\* So does the end of the queue of events.
LEMMA SettledMoves ==
    ASSUME TypeOK, NEW t \in Turns
    PROVE  \A pc \in Pcs \ {"done"} : Settled(t, pc) => MovedTo(t, pc)
<1>1. run[t] \in Runs /\ run \in [Turns -> Runs]
  BY DEF TypeOK
<1>2. ASSUME NEW pc \in Pcs \ {"done"}, Settled(t, pc) PROVE MovedTo(t, pc)
  <2> DEFINE r == [run[t] EXCEPT !.pc = pc, !.outcome = "none", !.broken = FALSE,
                                 !.interrupted = FALSE]
  <2>1. r \in Runs
    BY <1>1, <1>2, RunEdited
  <2>3. r.pc = pc /\ r.thread = run[t].thread /\ r.pair = run[t].pair /\ r.kind = run[t].kind
    BY <1>1 DEF Runs
  <2>2. run' = [run EXCEPT ![t] = r]
    BY <1>2 DEF Settled
  <2> QED
    BY <1>1, <1>2, <2>1, <2>2, <2>3 DEF MovedTo
<1> QED
  BY <1>2

\* Every method of the registry leaves a registry.
LEMMA RegistryEdited ==
    ASSUME NEW g \in Registries
    PROVE  /\ \A th \in Threads : Reserve(g, th) \in Registries
           /\ \A th \in Threads : ReleaseThread(g, th) \in Registries
           /\ \A t \in Turns, th \in Threads : RegisterTurn(g, t, th) \in Registries
           /\ \A t \in Turns, th \in Threads : Unregister(g, t, th) \in Registries
           /\ \A t \in Turns : [g EXCEPT !.ready = g.ready \cup {t}] \in Registries
           /\ EmptyRegistry \in Registries
<1>1. ASSUME NEW h \in Registries, NEW th \in Threads PROVE ReleaseAdmission(h, th) \in Registries
  <2>1. (IF th \in h.admitted THEN h.held - 1 ELSE h.held) \in Int
    BY DEF Registries
  <2>2. \A n \in Int : [h EXCEPT !.admitted = h.admitted \ {th}, !.held = n] \in Registries
    BY DEF Registries
  <2> QED
    BY <2>1, <2>2 DEF ReleaseAdmission
<1>2. ASSUME NEW th \in Threads PROVE Reserve(g, th) \in Registries
  <2>1. g.held + 1 \in Int
    BY DEF Registries
  <2>2. \A n \in Int : [g EXCEPT !.reserved = g.reserved \cup {th},
                                 !.admitted = g.admitted \cup {th}, !.held = n] \in Registries
    BY DEF Registries
  <2> QED
    BY <2>1, <2>2 DEF Reserve
<1>3. \A th \in Threads : [g EXCEPT !.reserved = g.reserved \ {th}] \in Registries
  BY DEF Registries
<1>4. \A th \in Threads : ReleaseThread(g, th) \in Registries
  BY <1>1, <1>3 DEF ReleaseThread
<1>5. ASSUME NEW t \in Turns, NEW th \in Threads PROVE RegisterTurn(g, t, th) \in Registries
  <2>1. (IF th \in g.admitted THEN g.held ELSE g.held + 1) \in Int
    BY DEF Registries
  <2>2. \A n \in Int : [g EXCEPT !.reserved = g.reserved \ {th}, !.turns = g.turns \cup {t},
                                 !.active = [g.active EXCEPT ![th] = t],
                                 !.admitted = g.admitted \cup {th}, !.held = n] \in Registries
    BY DEF Registries
  <2> QED
    BY <2>1, <2>2 DEF RegisterTurn
<1>6. \A t \in Turns, th \in Threads :
         [g EXCEPT !.turns = g.turns \ {t}, !.ready = g.ready \ {t},
                   !.active = [g.active EXCEPT ![th] = None],
                   !.reserved = g.reserved \ {th}] \in Registries
  BY DEF Registries
<1>7. \A t \in Turns, th \in Threads : Unregister(g, t, th) \in Registries
  BY <1>1, <1>6 DEF Unregister
<1>8. \A t \in Turns : [g EXCEPT !.ready = g.ready \cup {t}] \in Registries
  BY DEF Registries
<1>9. EmptyRegistry \in Registries
  BY DEF Registries, EmptyRegistry
<1> QED
  BY <1>2, <1>4, <1>5, <1>7, <1>8, <1>9

\* Every operation of the lock leaves a queue of actors.
LEMMA LockEdited ==
    ASSUME TypeOK
    PROVE  /\ \A th \in Threads, a \in Actors : Queued(th, a) \in [Threads -> Seq(Actors)]
           /\ \A th \in Threads, a \in Actors :
                 Holds(th, a) => Released(th) \in [Threads -> Seq(Actors)]
           /\ \A th \in Threads, a \in Actors :
                 Holds(th, a) => Requeued(th, a) \in [Threads -> Seq(Actors)]
<1>1. lock \in [Threads -> Seq(Actors)]
  BY DEF TypeOK
<1>2. \A s \in Seq(Actors), a \in Actors : Append(s, a) \in Seq(Actors)
  OBVIOUS
<1>3. \A s \in Seq(Actors) : s # <<>> => Tail(s) \in Seq(Actors)
  OBVIOUS
<1> QED
  BY <1>1, <1>2, <1>3 DEF Queued, Released, Requeued, Holds

\* An event that is told is in the stream.
LEMMA EmitTyped ==
    ASSUME TypeOK, NEW t \in Turns
    PROVE  \A e \in EventTypes : Emit(t, e) => stream' \in [Turns -> Seq(EventTypes)]
<1>1. stream \in [Turns -> Seq(EventTypes)]
  BY DEF TypeOK
<1>2. \A s \in Seq(EventTypes), e \in EventTypes : Append(s, e) \in Seq(EventTypes)
  OBVIOUS
<1> QED
  BY <1>1, <1>2 DEF Emit

\* The names of actors tell them apart.
LEMMA ActorsTyped ==
    /\ \A t \in Turns : RunnerOf(t) \in Actors /\ CancelerOf(t) \in Actors
    /\ \A v \in Readers : ReaderOf(v) \in Actors
    /\ \A t, u \in Turns : RunnerOf(t) # CancelerOf(u) /\ (RunnerOf(t) = RunnerOf(u) => t = u)
    /\ \A t \in Turns, v \in Readers : RunnerOf(t) # ReaderOf(v) /\ CancelerOf(t) # ReaderOf(v)
    /\ \A v, w \in Readers : ReaderOf(v) = ReaderOf(w) => v = w
BY DEF Actors, RunnerOf, CancelerOf, ReaderOf

\* The rows and records that are written, and what they say.
LEMMA RowsTyped ==
    ASSUME TypeOK, NEW t \in Turns
    PROVE  /\ [NoPair EXCEPT !.turn = t] \in Pairs
           /\ [NoPair EXCEPT !.turn = t].turn = t
           /\ [NoPair EXCEPT !.turn = t].status = "pending"
           /\ [NoPair EXCEPT !.turn = t].answer = FALSE
           /\ FailedRow(t) \in Pairs /\ CanceledRow(t) \in Pairs
           /\ run[t].pair \in Turns => AnswerRow(t) \in Pairs
           /\ run[t].pair \in Turns => \A s \in Terminal : FailedRecord(t, s) \in Records
<1>1. run[t].pair \in Turns => pair[run[t].pair] \in Pairs
  BY DEF TypeOK
<1>2. run[t].pair \in Turns => pair[run[t].pair].turn \in Turns \cup {None}
  BY <1>1 DEF Pairs
<1>3. \A f \in Turns \cup {None} :
         [turn |-> t, status |-> "completed", answer |-> TRUE, from |-> f] \in Pairs
  BY DEF Pairs, PairStatus
<1>4. \A f \in Turns \cup {None}, s \in Terminal : [status |-> s, from |-> f] \in Records
  BY DEF Records
<1> QED
  BY <1>2, <1>3, <1>4
  DEF NoPair, FailedRow, CanceledRow, AnswerRow, FailedRecord, PairOf, Pairs, PairStatus

-----------------------------------------------------------------------------
(* The kinds of steps, as the requests, runs and cancels see them.           *)

KeepsFiles == UNCHANGED <<pair, response, answered, record>>
SameTurns == \A t \in Turns :
    /\ run'[t].pc = run[t].pc /\ run'[t].thread = run[t].thread /\ run'[t].pair = run[t].pair
    /\ run'[t].kind = run[t].kind

\* What is written of one pair, response, record or cancel.
RowIs(p, t, status, answer) ==
    /\ p \in Turns
    /\ pair'[p].turn = t /\ pair'[p].status = status /\ pair'[p].answer = answer
    /\ \A q \in Turns : q # p => pair'[q] = pair[q]
ResponseIs(p, t) ==
    p \in Turns /\ response'[p] = t /\ \A q \in Turns : q # p => response'[q] = response[q]
RecordIs(t, status) ==
    record'[t].status = status /\ \A u \in Turns : u # t => record'[u] = record[u]
CancelIs(t, to) ==
    cancel'[t] = to /\ \A u \in Turns : u # t => cancel'[u] = cancel[u]

\* Nothing but streams, locks, reads and the registry.
Stands == KeepsFiles /\ SameTurns /\ UNCHANGED <<cancel, known>>

Loads(t) ==
    /\ run[t].pc = "idle" /\ run'[t].pc = "loaded"
    /\ run'[t].thread \in Threads /\ run'[t].pair \in Turns
    /\ \/ run'[t].kind = "message" /\ run'[t].pair = t
       \/ run'[t].kind # "message" /\ pair[run'[t].pair].turn # None
    /\ \A u \in Turns : u # t => run'[u] = run[u]
    /\ KeepsFiles /\ UNCHANGED <<cancel, known>>

\* The steps of a request or run that write neither a row nor a record.
MayMove(t, to) ==
    \/ run[t].pc = "loaded" /\ to \in {"reserved", "done"}
    \/ run[t].pc = "reserved" /\ to \in {"done", "stale"}
    \/ run[t].pc = "reserved" /\ run[t].kind = "message" /\ to = "append"
    \/ run[t].pc = "reserved" /\ run[t].kind # "message" /\ to = "start"
    \/ run[t].pc = "stale" /\ to \in {"sayStale", "done"}
    \/ run[t].pc = "sayStale" /\ to = "done"
    \/ run[t].pc = "append" /\ to = "startSay"
    \/ run[t].pc = "start" /\ to \in {"startFail", "done"}
    \/ run[t].pc = "startFail" /\ to = "done"
    \/ run[t].pc = "startFail" /\ to = "startSay" /\ record[t].status \in {"failed", "refused"}
    \/ run[t].pc = "startSay" /\ to = "done"
    \/ run[t].pc = "announce" /\ to \in {"register", "done"}
    \/ run[t].pc = "register" /\ to = "running"
    \/ run[t].pc = "running" /\ to = "draining"
    \/ run[t].pc = "draining" /\ to \in {"end", "fail", "refuse", "intent"}
    \/ run[t].pc = "intent" /\ to \in {"save", "fail"}
    \/ run[t].pc = "save" /\ to \in {"end", "fail"}
    \/ run[t].pc = "complete" /\ to \in {"publish", "salvage"}
    \/ run[t].pc = "publish" /\ to \in {"end", "warn", "salvage"}
    \/ run[t].pc = "warn" /\ to \in {"end", "salvage"}
    \/ run[t].pc = "salvage" /\ to = "end"
    \/ run[t].pc \in {"fail", "refuse"} /\ to = "end"
    \/ run[t].pc = "fail" /\ to = "sayFailed" /\ record[t].status \in {"failed", "refused"}
    \/ run[t].pc = "refuse" /\ to = "sayRefused" /\ record[t].status \in {"failed", "refused"}
    \/ run[t].pc = "refuse" /\ to = "fail"
    \/ run[t].pc = "sayRefused" /\ to \in {"end", "fail"}
    \/ run[t].pc = "sayFailed" /\ to = "end"
    \/ run[t].pc = "end" /\ to = "done"

Goes(t, to) ==
    /\ MayMove(t, to) /\ MovedTo(t, to)
    /\ KeepsFiles /\ UNCHANGED cancel
    /\ known' = IF to = "running" THEN known \cup {t} ELSE known

Cancels(t, to) ==
    /\ \/ cancel[t] = "idle" /\ to = "load" /\ t \in registry.turns
       \/ cancel[t] = "load" /\ to \in {"interrupt", "done"}
       \/ cancel[t] = "interrupt" /\ to = "mark"
       \/ cancel[t] = "mark" /\ to = "done"
       \/ cancel[t] = "say" /\ to = "done"
    /\ CancelIs(t, to)
    /\ KeepsFiles /\ SameTurns /\ UNCHANGED known

\* The row of the question is written.
AppendsPair(t) ==
    /\ run[t].pc = "append"
    /\ RowIs(t, t, "pending", FALSE)
    /\ MovedTo(t, "start") \/ MovedTo(t, "startSay")
    /\ known' = known \cup {t}
    /\ UNCHANGED <<response, answered, record, cancel>>

StartsRecord(t) ==
    /\ run[t].pc = "start" /\ MovedTo(t, "announce")
    /\ RecordIs(t, "started")
    /\ UNCHANGED <<pair, response, answered, cancel, known>>

SavesAnswer(t) ==
    /\ run[t].pc = "save" /\ MovedTo(t, "complete")
    /\ Answerable(t) /\ ~Canceled(t)
    /\ ResponseIs(run[t].pair, t)
    /\ RowIs(run[t].pair, t, "completed", TRUE)
    /\ answered' = answered \cup {t}
    /\ UNCHANGED <<record, cancel, known>>

\* The response stays although the row was not written.
LeavesResponse(t) ==
    /\ run[t].pc = "save" /\ MovedTo(t, "fail")
    /\ ResponseIs(run[t].pair, t)
    /\ UNCHANGED <<pair, answered, record, cancel, known>>

CompletesRecord(t) ==
    /\ run[t].pc = "complete" /\ MovedTo(t, "publish") /\ ~Ended(t)
    /\ RecordIs(t, "completed")
    /\ UNCHANGED <<pair, response, answered, cancel, known>>

FailsRecord(t, status) ==
    /\ \/ run[t].pc = "startFail" /\ MovedTo(t, "startSay") /\ status = "failed"
       \/ run[t].pc = "fail" /\ MovedTo(t, "sayFailed") /\ status = "failed"
       \/ run[t].pc = "refuse" /\ MovedTo(t, "sayRefused") /\ status = "refused"
    /\ ~Ended(t)
    /\ \/ pair[run[t].pair].answer /\ UNCHANGED pair
       \/ ~pair[run[t].pair].answer /\ RowIs(run[t].pair, t, "failed", FALSE)
    /\ RecordIs(t, status)
    /\ UNCHANGED <<response, answered, cancel, known>>

\* Only the row of the failure is written.
FailsRow(t) ==
    /\ \/ run[t].pc = "startFail" /\ MovedTo(t, "done")
       \/ run[t].pc = "fail" /\ MovedTo(t, "end")
       \/ run[t].pc = "refuse" /\ MovedTo(t, "fail")
    /\ ~pair[run[t].pair].answer /\ RowIs(run[t].pair, t, "failed", FALSE)
    /\ UNCHANGED <<response, answered, record, cancel, known>>

CancelsRecord(t) ==
    /\ cancel[t] = "mark" /\ CancelIs(t, "say")
    /\ ~Ended(t) /\ ~(pair[run[t].pair].answer /\ pair[run[t].pair].turn = t)
    /\ \/ pair[run[t].pair].answer /\ UNCHANGED pair
       \/ ~pair[run[t].pair].answer /\ RowIs(run[t].pair, t, "canceled", FALSE)
    /\ RecordIs(t, "canceled")
    /\ SameTurns /\ UNCHANGED <<response, answered, known>>

\* Only the row of the cancellation is written.
CancelsRow(t) ==
    /\ cancel[t] = "mark" /\ CancelIs(t, "done")
    /\ ~Ended(t) /\ ~pair[run[t].pair].answer
    /\ RowIs(run[t].pair, t, "canceled", FALSE)
    /\ SameTurns /\ UNCHANGED <<response, answered, record, known>>

Reconciles(v) ==
    /\ Reconcile(v) /\ SameTurns /\ UNCHANGED <<answered, cancel, known>>

Dies ==
    /\ \A t \in Turns :
          /\ run[t].pc = "idle" => run'[t] = run[t]
          /\ run[t].pc # "idle" => /\ run'[t].pc = "done" /\ run'[t].pair = run[t].pair
                                   /\ run'[t].thread = run[t].thread
          /\ cancel'[t] = IF cancel[t] = "idle" THEN "idle" ELSE "done"
    /\ KeepsFiles /\ UNCHANGED known

TurnStep ==
    \/ Stands
    \/ \E t \in Turns : Loads(t)
    \/ \E t \in Turns : \E to \in Pcs : Goes(t, to)
    \/ \E t \in Turns : \E to \in CancelPcs : Cancels(t, to)
    \/ \E t \in Turns : AppendsPair(t)
    \/ \E t \in Turns : StartsRecord(t)
    \/ \E t \in Turns : SavesAnswer(t)
    \/ \E t \in Turns : LeavesResponse(t)
    \/ \E t \in Turns : CompletesRecord(t)
    \/ \E t \in Turns : \E status \in {"failed", "refused"} : FailsRecord(t, status)
    \/ \E t \in Turns : FailsRow(t)
    \/ \E t \in Turns : CancelsRecord(t)
    \/ \E t \in Turns : CancelsRow(t)
    \/ \E v \in Readers : Reconciles(v)
    \/ Dies

\* The marks of a run do not move it; the outcome of Codex moves it to draining.
LEMMA RunTouched ==
    ASSUME TypeOK, NEW t \in Turns
    PROVE  /\ UNCHANGED run => SameTurns
           /\ run' = [run EXCEPT ![t].broken = TRUE] => SameTurns /\ run' \in [Turns -> Runs]
           /\ \A b \in BOOLEAN :
                 run' = [run EXCEPT ![t].interrupted = b] => SameTurns /\ run' \in [Turns -> Runs]
           /\ \A o \in {"none", "answer", "permission", "interrupted", "error"} :
                 run' = [run EXCEPT ![t].pc = "draining", ![t].outcome = o]
                   => MovedTo(t, "draining")
<1>0. run[t] \in Runs /\ run \in [Turns -> Runs]
  BY DEF TypeOK
<1>1. ASSUME NEW b \in BOOLEAN, run' = [run EXCEPT ![t].interrupted = b]
      PROVE  SameTurns /\ run' \in [Turns -> Runs]
  <2>1. [run[t] EXCEPT !.interrupted = b] \in Runs
    BY <1>0, RunEdited
  <2>2. run' = [run EXCEPT ![t] = [run[t] EXCEPT !.interrupted = b]]
    BY <1>0, <1>1
  <2> QED
    BY <1>0, <2>1, <2>2 DEF SameTurns, Runs
<1>2. ASSUME run' = [run EXCEPT ![t].broken = TRUE]
      PROVE  SameTurns /\ run' \in [Turns -> Runs]
  <2>1. [run[t] EXCEPT !.broken = TRUE] \in Runs
    BY <1>0, RunEdited
  <2>2. run' = [run EXCEPT ![t] = [run[t] EXCEPT !.broken = TRUE]]
    BY <1>0, <1>2
  <2> QED
    BY <1>0, <2>1, <2>2 DEF SameTurns, Runs
<1>3. ASSUME NEW o \in {"none", "answer", "permission", "interrupted", "error"},
             run' = [run EXCEPT ![t].pc = "draining", ![t].outcome = o]
      PROVE  MovedTo(t, "draining")
  <2> DEFINE r == [run[t] EXCEPT !.pc = "draining", !.outcome = o]
  <2>1. r \in Runs
    BY <1>0, RunEdited
  <2>2. r.pc = "draining" /\ r.thread = run[t].thread /\ r.pair = run[t].pair
        /\ r.kind = run[t].kind
    BY <1>0 DEF Runs
  <2>3. run' = [run EXCEPT ![t] = r]
    BY <1>0, <1>3
  <2> QED
    BY <1>0, <2>1, <2>2, <2>3 DEF MovedTo
<1>4. UNCHANGED run => SameTurns
  BY DEF SameTurns
<1> QED
  BY <1>1, <1>2, <1>3, <1>4

\* Every step is of one of the kinds.
LEMMA StepsOfTurns ==
    ASSUME TypeOK, RequestInv, QuestionInv, RowInv, Next
    PROVE  TurnStep
<1>0. /\ \A t \in Turns, pc \in Pcs : Goto(t, pc) => MovedTo(t, pc)
      /\ \A t \in Turns, pc \in Pcs \ {"done"} : Settled(t, pc) => MovedTo(t, pc)
      /\ run \in [Turns -> Runs] /\ pair \in [Turns -> Pairs] /\ record \in [Turns -> Records]
      /\ response \in [Turns -> Turns \cup {None}] /\ cancel \in [Turns -> CancelPcs]
      /\ \A t \in Turns : run[t].pc # "idle" => run[t].pair \in Turns
      /\ \A t \in Turns : cancel[t] # "idle" => run[t].pc # "idle"
  BY GotoMoves, SettledMoves DEF TypeOK, RequestInv, RunPcs
<1>1. ASSUME NEW t \in Turns, NEW th \in Threads, LoadMessage(t, th) PROVE TurnStep
  <2>1. [IdleRun EXCEPT !.pc = "loaded", !.thread = th, !.pair = t] \in Runs
    BY RunBegins
  <2>2. Loads(t)
    BY <1>0, <1>1, <2>1 DEF LoadMessage, Loads, IdleRun, KeepsFiles, files
  <2> QED
    BY <2>2 DEF TurnStep
<1>2. ASSUME NEW t \in Turns, NEW p \in Turns, LoadRegenerate(t, p) PROVE TurnStep
  <2>1. run[p].pc # "idle" /\ Thread(p) \in Threads
    BY <1>2, TurnAssumption DEF LoadRegenerate, QuestionInv, RequestInv, Thread
  <2>2. Loads(t)
    BY <1>0, <1>2, <2>1 DEF LoadRegenerate, Loads, IdleRun, KeepsFiles, files
  <2> QED
    BY <2>2 DEF TurnStep
<1>3. ASSUME NEW t \in Turns, ReserveThread(t) PROVE TurnStep
  <2>1. Goes(t, "reserved") \/ Goes(t, "done")
    BY <1>0, <1>3 DEF ReserveThread, Goes, MayMove, KeepsFiles, files, Pcs, StartPcs, RunPcs
  <2> QED
    BY <1>3, <2>1 DEF TurnStep, Pcs, StartPcs, RunPcs
<1>4. ASSUME NEW t \in Turns, Refuse(t) PROVE TurnStep
  <2>1. Goes(t, "done")
    BY <1>0, <1>4 DEF Refuse, Goes, MayMove, KeepsFiles, files, Pcs, StartPcs, RunPcs
  <2> QED
    BY <1>4, <2>1 DEF TurnStep, Pcs, StartPcs, RunPcs
<1>5. ASSUME NEW t \in Turns, FindStale(t) PROVE TurnStep
  <2>1. Goes(t, "stale")
    BY <1>0, <1>5 DEF FindStale, Goes, MayMove, KeepsFiles, files, Pcs, StartPcs, RunPcs
  <2> QED
    BY <1>5, <2>1 DEF TurnStep, Pcs, StartPcs, RunPcs
<1>6. ASSUME NEW t \in Turns, MarkThreadStale(t) PROVE TurnStep
  <2>1. Goes(t, "sayStale") \/ Goes(t, "done")
    BY <1>0, <1>6 DEF MarkThreadStale, Goes, MayMove, KeepsFiles, files, Pcs, StartPcs, RunPcs
  <2> QED
    BY <1>6, <2>1 DEF TurnStep, Pcs, StartPcs, RunPcs
<1>7. ASSUME NEW t \in Turns, SayStale(t) PROVE TurnStep
  <2>1. Goes(t, "done")
    BY <1>0, <1>7 DEF SayStale, Goes, MayMove, KeepsFiles, files, Pcs, StartPcs, RunPcs
  <2> QED
    BY <1>7, <2>1 DEF TurnStep, Pcs, StartPcs, RunPcs
<1>8. ASSUME NEW t \in Turns, Accept(t) PROVE TurnStep
  <2>1. Goes(t, "append") \/ Goes(t, "start")
    BY <1>0, <1>8 DEF Accept, Goes, MayMove, KeepsFiles, files, Pcs, StartPcs, RunPcs
  <2> QED
    BY <1>8, <2>1 DEF TurnStep, Pcs, StartPcs, RunPcs
<1>9. ASSUME NEW t \in Turns, AppendPendingPair(t) PROVE TurnStep
  <2>1. AppendsPair(t) \/ Goes(t, "startSay")
    BY <1>0, <1>9
    DEF AppendPendingPair, AppendsPair, RowIs, NoPair, Goes, MayMove, KeepsFiles, files, Pcs,
        StartPcs, RunPcs
  <2> QED
    BY <1>9, <2>1 DEF TurnStep, Pcs, StartPcs, RunPcs
<1>10. ASSUME NEW t \in Turns, RecordTurnStarted(t) PROVE TurnStep
  <2>1. StartsRecord(t) \/ Goes(t, "startFail") \/ Goes(t, "done")
    BY <1>0, <1>10
    DEF RecordTurnStarted, StartsRecord, RecordIs, Goes, MayMove, KeepsFiles, files, Pcs,
        StartPcs, RunPcs
  <2> QED
    BY <1>10, <2>1 DEF TurnStep, Pcs, StartPcs, RunPcs
<1>11. ASSUME NEW t \in Turns, Announce(t) PROVE TurnStep
  <2>1. Goes(t, "register") \/ Goes(t, "done")
    BY <1>0, <1>11 DEF Announce, Goes, MayMove, KeepsFiles, files, Pcs, StartPcs, RunPcs
  <2> QED
    BY <1>11, <2>1 DEF TurnStep, Pcs, StartPcs, RunPcs
<1>12. ASSUME NEW t \in Turns, Register(t) PROVE TurnStep
  <2>1. Goes(t, "running")
    BY <1>0, <1>12 DEF Register, Goes, MayMove, KeepsFiles, files, Pcs, StartPcs, RunPcs
  <2> QED
    BY <1>12, <2>1 DEF TurnStep, Pcs, StartPcs, RunPcs
<1>13. ASSUME NEW t \in Turns, StartFails(t) PROVE TurnStep
  <2>1. FailsRecord(t, "failed") \/ FailsRow(t) \/ Goes(t, "startSay") \/ Goes(t, "done")
    BY <1>0, <1>13
    DEF StartFails, MarkFailed, WriteFailurePart, FailsRecord, FailsRow, WriteFailure,
        FailedRow, FailedRecord, RowIs, RecordIs, PairOf, Goes, MayMove, KeepsFiles, files,
        Pcs, StartPcs, RunPcs
  <2> QED
    BY <1>13, <2>1 DEF TurnStep, Pcs, StartPcs, RunPcs
<1>14. ASSUME NEW t \in Turns, SayFailed(t, "startSay", "done") PROVE TurnStep
  <2>1. Goes(t, "done")
    BY <1>0, <1>14 DEF SayFailed, Goes, MayMove, KeepsFiles, files, Pcs, StartPcs, RunPcs
  <2> QED
    BY <1>14, <2>1 DEF TurnStep, Pcs, StartPcs, RunPcs
<1>15. ASSUME NEW t \in Turns, CodexReady(t) PROVE TurnStep
  <2>1. Stands
    BY <1>0, <1>15 DEF CodexReady, Stands, SameTurns, KeepsFiles, files, Pcs, StartPcs, RunPcs
  <2> QED
    BY <1>15, <2>1 DEF TurnStep
<1>16. ASSUME NEW t \in Turns, WriteDelta(t) PROVE TurnStep
  <2>1. Stands
    BY <1>0, <1>16, RunTouched DEF WriteDelta, Stands, KeepsFiles, files, Pcs, StartPcs, RunPcs
  <2> QED
    BY <1>16, <2>1 DEF TurnStep
<1>17. ASSUME NEW t \in Turns, CodexSettles(t) PROVE TurnStep
  <2>1. PICK o \in Outcomes(t) : run' = [run EXCEPT ![t].pc = "draining", ![t].outcome = o]
    BY <1>17 DEF CodexSettles
  <2>2. o \in {"none", "answer", "permission", "interrupted", "error"}
    BY DEF Outcomes
  <2>3. MovedTo(t, "draining")
    BY <2>1, <2>2, RunTouched
  <2>4. Goes(t, "draining")
    BY <1>17, <2>3 DEF CodexSettles, Running, Goes, MayMove, KeepsFiles, files
  <2> QED
    BY <2>4 DEF TurnStep, Pcs, RunPcs
<1>18. ASSUME NEW t \in Turns, Drained(t) PROVE TurnStep
  <2>1. Goes(t, "end") \/ Goes(t, "fail") \/ Goes(t, "refuse") \/ Goes(t, "intent")
    BY <1>0, <1>18 DEF Drained, Goes, MayMove, KeepsFiles, files, Pcs, StartPcs, RunPcs
  <2> QED
    BY <1>18, <2>1 DEF TurnStep, Pcs, StartPcs, RunPcs
<1>19. ASSUME NEW t \in Turns, PersistIntent(t) PROVE TurnStep
  <2>1. Goes(t, "save") \/ Goes(t, "fail")
    BY <1>0, <1>19
    DEF PersistIntent, ToLock, Goes, MayMove, KeepsFiles, files, Pcs, StartPcs, RunPcs
  <2> QED
    BY <1>19, <2>1 DEF TurnStep, Pcs, StartPcs, RunPcs
<1>20. ASSUME NEW t \in Turns, SaveAnswer(t) PROVE TurnStep
  <2>1. SavesAnswer(t) \/ LeavesResponse(t) \/ Goes(t, "end") \/ Goes(t, "fail")
    BY <1>0, <1>20
    DEF SaveAnswer, SavesAnswer, LeavesResponse, RowIs, ResponseIs, AnswerRow, PairOf, Goes,
        MayMove, KeepsFiles, files, Pcs, StartPcs, RunPcs
  <2> QED
    BY <1>20, <2>1 DEF TurnStep, Pcs, StartPcs, RunPcs
<1>21. ASSUME NEW t \in Turns, MarkCompleted(t) PROVE TurnStep
  <2>1. CompletesRecord(t) \/ Goes(t, "publish") \/ Goes(t, "salvage")
    BY <1>0, <1>21
    DEF MarkCompleted, CompletesRecord, RecordIs, Goes, MayMove, KeepsFiles, files, Pcs,
        StartPcs, RunPcs
  <2> QED
    BY <1>21, <2>1 DEF TurnStep, Pcs, StartPcs, RunPcs
<1>22. ASSUME NEW t \in Turns, Publish(t) PROVE TurnStep
  <2>1. Goes(t, "end") \/ Goes(t, "warn") \/ Goes(t, "salvage")
    BY <1>0, <1>22 DEF Publish, Goes, MayMove, KeepsFiles, files, Pcs, StartPcs, RunPcs
  <2> QED
    BY <1>22, <2>1 DEF TurnStep, Pcs, StartPcs, RunPcs
<1>23. ASSUME NEW t \in Turns, Warn(t) PROVE TurnStep
  <2>1. Goes(t, "end") \/ Goes(t, "salvage")
    BY <1>0, <1>23 DEF Warn, Goes, MayMove, KeepsFiles, files, Pcs, StartPcs, RunPcs
  <2> QED
    BY <1>23, <2>1 DEF TurnStep, Pcs, StartPcs, RunPcs
<1>24. ASSUME NEW t \in Turns, Salvage(t) PROVE TurnStep
  <2>1. Goes(t, "end")
    BY <1>0, <1>24 DEF Salvage, Goes, MayMove, KeepsFiles, files, Pcs, StartPcs, RunPcs
  <2> QED
    BY <1>24, <2>1 DEF TurnStep, Pcs, StartPcs, RunPcs
<1>25. ASSUME NEW t \in Turns, RunFails(t) PROVE TurnStep
  <2>1. FailsRecord(t, "failed") \/ FailsRow(t) \/ Goes(t, "sayFailed") \/ Goes(t, "end")
    BY <1>0, <1>25
    DEF RunFails, MarkFailed, WriteFailurePart, FailsRecord, FailsRow, WriteFailure,
        FailedRow, FailedRecord, RowIs, RecordIs, PairOf, Goes, MayMove, KeepsFiles, files,
        Pcs, StartPcs, RunPcs
  <2> QED
    BY <1>25, <2>1 DEF TurnStep, Pcs, StartPcs, RunPcs
<1>26. ASSUME NEW t \in Turns, RunRefused(t) PROVE TurnStep
  <2>1. FailsRecord(t, "refused") \/ FailsRow(t) \/ Goes(t, "sayRefused") \/ Goes(t,
        "end") \/ Goes(t, "fail")
    BY <1>0, <1>26
    DEF RunRefused, WriteFailurePart, FailsRecord, FailsRow, WriteFailure, FailedRow,
        FailedRecord, RowIs, RecordIs, PairOf, Goes, MayMove, KeepsFiles, files, Pcs,
        StartPcs, RunPcs
  <2> QED
    BY <1>26, <2>1 DEF TurnStep, Pcs, StartPcs, RunPcs
<1>27. ASSUME NEW t \in Turns, SayRefused(t) PROVE TurnStep
  <2>1. Goes(t, "end") \/ Goes(t, "fail")
    BY <1>0, <1>27 DEF SayRefused, ToLock, Goes, MayMove, KeepsFiles, files, Pcs, StartPcs, RunPcs
  <2> QED
    BY <1>27, <2>1 DEF TurnStep, Pcs, StartPcs, RunPcs
<1>28. ASSUME NEW t \in Turns, SayFailed(t, "sayFailed", "end") PROVE TurnStep
  <2>1. Goes(t, "end")
    BY <1>0, <1>28 DEF SayFailed, Goes, MayMove, KeepsFiles, files, Pcs, StartPcs, RunPcs
  <2> QED
    BY <1>28, <2>1 DEF TurnStep, Pcs, StartPcs, RunPcs
<1>29. ASSUME NEW t \in Turns, EndRun(t) PROVE TurnStep
  <2>1. Goes(t, "done")
    BY <1>0, <1>29 DEF EndRun, Goes, MayMove, KeepsFiles, files, Pcs, StartPcs, RunPcs
  <2> QED
    BY <1>29, <2>1 DEF TurnStep, Pcs, StartPcs, RunPcs
<1>30. ASSUME NEW t \in Turns, CancelArrives(t) PROVE TurnStep
  <2>1. Cancels(t, "load")
    BY <1>0, <1>30
    DEF CancelArrives, Cancels, CancelIs, CancelGoto, SameTurns, KeepsFiles, files, Pcs,
        StartPcs, RunPcs
  <2> QED
    BY <1>30, <2>1 DEF TurnStep, CancelPcs
<1>31. ASSUME NEW t \in Turns, CancelLoads(t) PROVE TurnStep
  <2>1. Cancels(t, "done") \/ Cancels(t, "interrupt")
    BY <1>0, <1>31
    DEF CancelLoads, Cancels, CancelIs, CancelGoto, SameTurns, KeepsFiles, files, Pcs,
        StartPcs, RunPcs
  <2> QED
    BY <1>31, <2>1 DEF TurnStep, CancelPcs
<1>32. ASSUME NEW t \in Turns, Interrupt(t) PROVE TurnStep
  <2>1. Running(t) \in BOOLEAN
    BY DEF Running
  <2>2. UNCHANGED run \/ run' = [run EXCEPT ![t].interrupted = Running(t)]
    BY <1>32 DEF Interrupt
  <2>3. SameTurns
    BY <2>1, <2>2, RunTouched
  <2>4. Cancels(t, "mark")
    BY <1>0, <1>32, <2>3 DEF Interrupt, Cancels, CancelIs, CancelGoto, KeepsFiles, files
  <2> QED
    BY <2>4 DEF TurnStep, CancelPcs
<1>33. ASSUME NEW t \in Turns, MarkCanceled(t) PROVE TurnStep
  <2>1. CancelsRecord(t) \/ CancelsRow(t) \/ Cancels(t, "done")
    BY <1>0, <1>33
    DEF MarkCanceled, CancelsRecord, CancelsRow, CanceledRow, RowIs, RecordIs, PairOf,
        Cancels, CancelIs, CancelGoto, SameTurns, KeepsFiles, files, Pcs, StartPcs, RunPcs
  <2> QED
    BY <1>33, <2>1 DEF TurnStep, CancelPcs
<1>34. ASSUME NEW t \in Turns, SayCanceled(t) PROVE TurnStep
  <2>1. Cancels(t, "done")
    BY <1>0, <1>34
    DEF SayCanceled, Cancels, CancelIs, CancelGoto, SameTurns, KeepsFiles, files, Pcs,
        StartPcs, RunPcs
  <2> QED
    BY <1>34, <2>1 DEF TurnStep, CancelPcs
<1>35. ASSUME NEW v \in Readers, NEW th \in Threads, ReadThread(v, th) PROVE TurnStep
  <2>1. Stands
    BY <1>0, <1>35 DEF ReadThread, Stands, SameTurns, KeepsFiles, files, Pcs, StartPcs, RunPcs
  <2> QED
    BY <1>35, <2>1 DEF TurnStep
<1>36. ASSUME NEW v \in Readers, NEW t \in Turns, ReadEvents(v, t) PROVE TurnStep
  <2>1. Stands
    BY <1>0, <1>36 DEF ReadEvents, Stands, SameTurns, KeepsFiles, files, Pcs, StartPcs, RunPcs
  <2> QED
    BY <1>36, <2>1 DEF TurnStep
<1>37. ASSUME NEW v \in Readers, SnapshotEvents(v) PROVE TurnStep
  <2>1. Stands
    BY <1>0, <1>37 DEF SnapshotEvents, Stands, SameTurns, KeepsFiles, files, Pcs, StartPcs, RunPcs
  <2> QED
    BY <1>37, <2>1 DEF TurnStep
<1>38. ASSUME NEW v \in Readers, Reconcile(v) PROVE TurnStep
  <2>1. Reconciles(v)
    BY <1>0, <1>38 DEF Reconcile, Reconciles, SameTurns, KeepsFiles, files, Pcs, StartPcs, RunPcs
  <2> QED
    BY <1>38, <2>1 DEF TurnStep
<1>39. ASSUME Crash PROVE TurnStep
  <2>1. Dies
    BY <1>0, <1>39 DEF Crash, Dies, KeepsFiles, files, Over, IdleRun, Runs
  <2> QED
    BY <2>1 DEF TurnStep
<1> QED
  BY <1>1, <1>2, <1>3, <1>4, <1>5, <1>6, <1>7, <1>8, <1>9, <1>10, <1>11, <1>12, <1>13, <1>14,
     <1>15, <1>16, <1>17, <1>18, <1>19, <1>20, <1>21, <1>22, <1>23, <1>24, <1>25, <1>26,
     <1>27, <1>28, <1>29, <1>30, <1>31, <1>32, <1>33, <1>34, <1>35, <1>36, <1>37, <1>38, <1>39
  DEF Next, Request, Start, Proceed, Cancel, Read

-----------------------------------------------------------------------------
(* What a reconciliation may do to pairs and records.                        *)

\* A record is repaired by the answer of its turn and by nothing else.
LEMMA RepairedRecordIs ==
    ASSUME NEW v \in Readers, NEW u \in Turns
    PROVE  \/ /\ \E p \in PairsOf(v) : pair[p].answer /\ pair[p].turn = u
              /\ RepairedRecord(v)[u].status = "completed"
           \/ /\ ~\E p \in PairsOf(v) : pair[p].answer /\ pair[p].turn = u
              /\ RepairedRecord(v)[u] = record[u]
<1> DEFINE saved == \E p \in PairsOf(v) : pair[p].answer /\ pair[p].turn = u
<1>1. CASE saved
  BY <1>1 DEF RepairedRecord
<1>2. CASE ~saved
  BY <1>2 DEF RepairedRecord
<1> QED
  BY <1>1, <1>2

\* What a reconciliation writes: it answers no pair, ends records only, and ends
\* those nobody works on.
LEMMA ReconcileMoves ==
    ASSUME TypeOK, RowInv, SavedInv, NEW v \in Readers, Reconcile(v)
    PROVE  /\ \A p \in Turns : /\ pair'[p].turn = pair[p].turn
                               /\ pair'[p].answer = pair[p].answer
                               /\ \/ pair'[p].status = pair[p].status
                                  \/ pair[p].status = "pending" /\ pair'[p].status = "failed"
           /\ \A p \in Turns : pair[p].answer => response'[p] # None
           /\ \A u \in Turns :
                 \/ record'[u].status = record[u].status
                 \/ record'[u].status = "completed" /\ \E p \in Turns : pair[p].answer /\ pair[p].turn = u
                 \/ /\ record'[u].status = "failed" /\ record[u].status \notin Terminal
                    /\ ~\E p \in Turns : pair[p].answer /\ pair[p].turn = u
                    /\ \/ \E p \in Turns : /\ pair[p].turn = u /\ pair[p].status = "pending"
                                           /\ pair'[p].status = "failed"
                       \/ /\ record[u].status = "started" /\ Concerns(v, u)
                          /\ pair[PairOf(u)].status # "pending"
<1>0. /\ pair \in [Turns -> Pairs] /\ record \in [Turns -> Records]
      /\ \A p \in Turns : pair[p].turn \in Turns \cup {None}
  BY DEF TypeOK, Pairs
<1>1. /\ pair' = [p \in Turns |->
            IF p \in Abandoned(v) THEN [pair[p] EXCEPT !.status = "failed"] ELSE pair[p]]
      /\ response' = RepairedResponse(v)
      /\ record' = [u \in Turns |->
            IF u \in Interrupts(v) THEN [RepairedRecord(v)[u] EXCEPT !.status = "failed"]
            ELSE RepairedRecord(v)[u]]
  BY DEF Reconcile
<1>2. \A p \in Turns : /\ pair'[p].turn = pair[p].turn /\ pair'[p].answer = pair[p].answer
                       /\ pair'[p].status = IF p \in Abandoned(v) THEN "failed" ELSE pair[p].status
  BY <1>0, <1>1 DEF Pairs
<1>3. ASSUME NEW p \in Abandoned(v)
      PROVE  /\ p \in PairsOf(v) /\ p \in Turns /\ pair[p].turn \in Turns
             /\ pair[p].status = "pending"
             /\ RepairedRecord(v)[pair[p].turn].status \notin Terminal
  BY <1>0, <1>3 DEF Abandoned, PairsOf
<1>4. \A p \in Turns : pair[p].answer => response'[p] # None
  <2> SUFFICES ASSUME NEW p \in Turns, pair[p].answer PROVE response'[p] # None
    OBVIOUS
  <2>1. pair[p].turn # None /\ response[p] # None
    BY DEF SavedInv
  <2> QED
    BY <1>1, <2>1 DEF RepairedResponse
<1>5. \A p, q \in Turns : pair[p].turn # None /\ pair[p].turn = pair[q].turn => p = q
  BY DEF RowInv
<1>6. ASSUME NEW u \in Turns, u \notin Interrupts(v)
      PROVE  \/ record'[u].status = record[u].status
             \/ record'[u].status = "completed" /\ \E p \in Turns : pair[p].answer /\ pair[p].turn = u
  <2>1. record'[u] = RepairedRecord(v)[u]
    BY <1>1, <1>6
  <2> QED
    BY <2>1, RepairedRecordIs DEF PairsOf
<1>7. ASSUME NEW u \in Turns, u \in Interrupts(v)
      PROVE  /\ record'[u].status = "failed" /\ record[u].status \notin Terminal
             /\ ~\E p \in Turns : pair[p].answer /\ pair[p].turn = u
             /\ \/ \E p \in Turns : /\ pair[p].turn = u /\ pair[p].status = "pending"
                                    /\ pair'[p].status = "failed"
                \/ /\ record[u].status = "started" /\ Concerns(v, u)
                   /\ pair[PairOf(u)].status # "pending"
  <2>1. (\E p \in Abandoned(v) : pair[p].turn = u) \/ AbandonedRetry(v, u)
    BY <1>7 DEF Interrupts
  <2>2. RepairedRecord(v)[u].status \notin Terminal
    BY <2>1, <1>3 DEF AbandonedRetry, Terminal
  <2>3. /\ ~\E p \in PairsOf(v) : pair[p].answer /\ pair[p].turn = u
        /\ RepairedRecord(v)[u] = record[u]
    BY <2>2, RepairedRecordIs DEF Terminal
  <2>4. record'[u].status = "failed"
    BY <1>0, <1>1, <1>7, <2>3 DEF Records
  <2>5. CASE \E p \in Abandoned(v) : pair[p].turn = u
    <3>1. PICK p \in Abandoned(v) : pair[p].turn = u
      BY <2>5
    <3>2. p \in Turns /\ pair[p].turn # None /\ pair[p].status = "pending" /\ pair'[p].status = "failed"
      BY <3>1, <1>2, <1>3, TurnAssumption
    <3>3. ~pair[p].answer
      BY <3>2 DEF SavedInv
    <3>4. ~\E q \in Turns : pair[q].answer /\ pair[q].turn = u
      BY <3>1, <3>2, <3>3, <1>5
    <3> QED
      BY <2>2, <2>3, <2>4, <3>1, <3>2, <3>4
  <2>6. CASE AbandonedRetry(v, u)
    <3>1. /\ record[u].status = "started" /\ Concerns(v, u)
          /\ pair[PairOf(u)].status # "pending"
      BY <2>3, <2>6 DEF AbandonedRetry
    <3>2. ~\E q \in Turns : pair[q].answer /\ pair[q].turn = u
      BY <2>3, <3>1, TurnAssumption DEF PairsOf
    <3> QED
      BY <2>2, <2>3, <2>4, <3>1, <3>2
  <2> QED
    BY <2>1, <2>5, <2>6
<1>8. \A p \in Turns : \/ pair'[p].status = pair[p].status
                       \/ pair[p].status = "pending" /\ pair'[p].status = "failed"
  BY <1>2, <1>3
<1> QED
  BY <1>2, <1>4, <1>6, <1>7, <1>8

\* The requests.
LEMMA RequestKept ==
    ASSUME TypeOK, RequestInv, SlotInv, QuestionInv, RowInv, AnswerNeverDenied,
           SavedInv, RecordInv, EarlyInv, TurnStep
    PROVE  RequestInv'
<1>0. /\ run \in [Turns -> Runs] /\ pair \in [Turns -> Pairs] /\ record \in [Turns -> Records]
      /\ cancel \in [Turns -> CancelPcs]
      /\ \A t \in Turns : /\ run[t].pc \in Pcs /\ run[t].thread \in Threads \cup {None}
                           /\ run[t].pair \in Turns \cup {None}
      /\ \A p \in Turns : pair[p].turn \in Turns \cup {None}
      /\ \A t \in registry.turns : run[t].pc \in RunPcs
      /\ None \notin Turns /\ None \notin Threads
  BY TurnAssumption DEF TypeOK, SlotInv, SlotsBalanced, Runs, Pairs
<1>1. CASE Stands
  BY <1>0, <1>1
  DEF Stands, SameTurns, KeepsFiles, RequestInv, QuestionInv, StartPcs, RunPcs, Pcs, PrePcs,
      NotBegun, Begun, EarlyPcs, SavedPcs
<1>2. ASSUME NEW t \in Turns, Loads(t) PROVE RequestInv'
  BY <1>0, <1>2
  DEF Loads, KeepsFiles, RequestInv, QuestionInv, StartPcs, RunPcs, Pcs, PrePcs, NotBegun,
      Begun, EarlyPcs, SavedPcs
<1>3. ASSUME NEW t \in Turns, NEW to \in Pcs, Goes(t, to) PROVE RequestInv'
  BY <1>0, <1>3
  DEF Goes, KeepsFiles, MayMove, MovedTo, RequestInv, QuestionInv, StartPcs, RunPcs, Pcs,
      PrePcs, NotBegun, Begun, EarlyPcs, SavedPcs
<1>4. ASSUME NEW t \in Turns, NEW to \in CancelPcs, Cancels(t, to) PROVE RequestInv'
  BY <1>0, <1>4
  DEF Cancels, CancelIs, KeepsFiles, SameTurns, CancelPcs, RequestInv, QuestionInv, StartPcs,
      RunPcs, Pcs, PrePcs, NotBegun, Begun, EarlyPcs, SavedPcs
<1>5. ASSUME NEW t \in Turns, AppendsPair(t) PROVE RequestInv'
  BY <1>0, <1>5
  DEF AppendsPair, MovedTo, RowIs, RequestInv, QuestionInv, StartPcs, RunPcs, Pcs, PrePcs,
      NotBegun, Begun, EarlyPcs, SavedPcs
<1>6. ASSUME NEW t \in Turns, StartsRecord(t) PROVE RequestInv'
  BY <1>0, <1>6
  DEF StartsRecord, MovedTo, RecordIs, RequestInv, QuestionInv, StartPcs, RunPcs, Pcs, PrePcs,
      NotBegun, Begun, EarlyPcs, SavedPcs
<1>7. ASSUME NEW t \in Turns, SavesAnswer(t) PROVE RequestInv'
  BY <1>0, <1>7
  DEF SavesAnswer, MovedTo, RowIs, ResponseIs, Answerable, Canceled, PairOf, RequestInv,
      QuestionInv, StartPcs, RunPcs, Pcs, PrePcs, NotBegun, Begun, EarlyPcs, SavedPcs
<1>8. ASSUME NEW t \in Turns, LeavesResponse(t) PROVE RequestInv'
  BY <1>0, <1>8
  DEF LeavesResponse, MovedTo, ResponseIs, RequestInv, QuestionInv, StartPcs, RunPcs, Pcs,
      PrePcs, NotBegun, Begun, EarlyPcs, SavedPcs
<1>9. ASSUME NEW t \in Turns, CompletesRecord(t) PROVE RequestInv'
  BY <1>0, <1>9
  DEF CompletesRecord, MovedTo, RecordIs, Ended, Terminal, RequestInv, QuestionInv, StartPcs,
      RunPcs, Pcs, PrePcs, NotBegun, Begun, EarlyPcs, SavedPcs
<1>10. ASSUME NEW t \in Turns, NEW status \in {"failed", "refused"},
              FailsRecord(t, status)
       PROVE  RequestInv'
  BY <1>0, <1>10
  DEF FailsRecord, MovedTo, RowIs, RecordIs, Ended, Terminal, RequestInv, QuestionInv,
      StartPcs, RunPcs, Pcs, PrePcs, NotBegun, Begun, EarlyPcs, SavedPcs
<1>11. ASSUME NEW t \in Turns, FailsRow(t) PROVE RequestInv'
  BY <1>0, <1>11
  DEF FailsRow, MovedTo, RowIs, RequestInv, QuestionInv, StartPcs, RunPcs, Pcs, PrePcs,
      NotBegun, Begun, EarlyPcs, SavedPcs
<1>12. ASSUME NEW t \in Turns, CancelsRecord(t) PROVE RequestInv'
  BY <1>0, <1>12
  DEF CancelsRecord, SameTurns, RowIs, RecordIs, CancelIs, Ended, Terminal, RequestInv,
      QuestionInv, StartPcs, RunPcs, Pcs, PrePcs, NotBegun, Begun, EarlyPcs, SavedPcs
<1>13. ASSUME NEW t \in Turns, CancelsRow(t) PROVE RequestInv'
  BY <1>0, <1>13
  DEF CancelsRow, SameTurns, RowIs, CancelIs, Ended, Terminal, RequestInv, QuestionInv,
      StartPcs, RunPcs, Pcs, PrePcs, NotBegun, Begun, EarlyPcs, SavedPcs
<1>14. ASSUME NEW v \in Readers, Reconciles(v) PROVE RequestInv'
  BY <1>0, <1>14
  DEF Reconciles, SameTurns, RequestInv, QuestionInv, StartPcs, RunPcs, Pcs, PrePcs, NotBegun,
      Begun, EarlyPcs, SavedPcs
<1>15. CASE Dies
  BY <1>0, <1>15
  DEF Dies, KeepsFiles, RequestInv, QuestionInv, StartPcs, RunPcs, Pcs, PrePcs, NotBegun,
      Begun, EarlyPcs, SavedPcs
<1> QED
  BY <1>1, <1>2, <1>3, <1>4, <1>5, <1>6, <1>7, <1>8, <1>9, <1>10, <1>11, <1>12, <1>13, <1>14,
     <1>15
  DEF TurnStep

\* The questions of the pairs.
LEMMA QuestionKept ==
    ASSUME TypeOK, RequestInv, SlotInv, QuestionInv, RowInv, AnswerNeverDenied,
           SavedInv, RecordInv, EarlyInv, TurnStep
    PROVE  QuestionInv'
<1>0. /\ run \in [Turns -> Runs] /\ pair \in [Turns -> Pairs] /\ record \in [Turns -> Records]
      /\ cancel \in [Turns -> CancelPcs]
      /\ \A t \in Turns : /\ run[t].pc \in Pcs /\ run[t].thread \in Threads \cup {None}
                           /\ run[t].pair \in Turns \cup {None}
      /\ \A p \in Turns : pair[p].turn \in Turns \cup {None}
      /\ \A t \in registry.turns : run[t].pc \in RunPcs
      /\ None \notin Turns /\ None \notin Threads
  BY TurnAssumption DEF TypeOK, SlotInv, SlotsBalanced, Runs, Pairs
<1>1. CASE Stands
  BY <1>0, <1>1
  DEF Stands, SameTurns, KeepsFiles, QuestionInv, RequestInv, StartPcs, RunPcs, Begun
<1>2. ASSUME NEW t \in Turns, Loads(t) PROVE QuestionInv'
  BY <1>0, <1>2 DEF Loads, KeepsFiles, QuestionInv, RequestInv, StartPcs, RunPcs, Begun
<1>3. ASSUME NEW t \in Turns, NEW to \in Pcs, Goes(t, to) PROVE QuestionInv'
  BY <1>0, <1>3
  DEF Goes, KeepsFiles, MayMove, MovedTo, QuestionInv, RequestInv, StartPcs, RunPcs, Begun
<1>4. ASSUME NEW t \in Turns, NEW to \in CancelPcs, Cancels(t, to) PROVE QuestionInv'
  BY <1>0, <1>4
  DEF Cancels, CancelIs, KeepsFiles, SameTurns, CancelPcs, QuestionInv, RequestInv, StartPcs,
      RunPcs, Begun
<1>5. ASSUME NEW t \in Turns, AppendsPair(t) PROVE QuestionInv'
  BY <1>0, <1>5 DEF AppendsPair, MovedTo, RowIs, QuestionInv, RequestInv, StartPcs, RunPcs, Begun
<1>6. ASSUME NEW t \in Turns, StartsRecord(t) PROVE QuestionInv'
  BY <1>0, <1>6
  DEF StartsRecord, MovedTo, RecordIs, QuestionInv, RequestInv, StartPcs, RunPcs, Begun
<1>7. ASSUME NEW t \in Turns, SavesAnswer(t) PROVE QuestionInv'
  BY <1>0, <1>7
  DEF SavesAnswer, MovedTo, RowIs, ResponseIs, Answerable, Canceled, PairOf, QuestionInv,
      RequestInv, StartPcs, RunPcs, Begun
<1>8. ASSUME NEW t \in Turns, LeavesResponse(t) PROVE QuestionInv'
  BY <1>0, <1>8
  DEF LeavesResponse, MovedTo, ResponseIs, QuestionInv, RequestInv, StartPcs, RunPcs, Begun
<1>9. ASSUME NEW t \in Turns, CompletesRecord(t) PROVE QuestionInv'
  BY <1>0, <1>9
  DEF CompletesRecord, MovedTo, RecordIs, Ended, Terminal, QuestionInv, RequestInv, StartPcs,
      RunPcs, Begun
<1>10. ASSUME NEW t \in Turns, NEW status \in {"failed", "refused"},
              FailsRecord(t, status)
       PROVE  QuestionInv'
  BY <1>0, <1>10
  DEF FailsRecord, MovedTo, RowIs, RecordIs, Ended, Terminal, QuestionInv, RequestInv,
      StartPcs, RunPcs, Begun
<1>11. ASSUME NEW t \in Turns, FailsRow(t) PROVE QuestionInv'
  BY <1>0, <1>11 DEF FailsRow, MovedTo, RowIs, QuestionInv, RequestInv, StartPcs, RunPcs, Begun
<1>12. ASSUME NEW t \in Turns, CancelsRecord(t) PROVE QuestionInv'
  BY <1>0, <1>12
  DEF CancelsRecord, SameTurns, RowIs, RecordIs, CancelIs, Ended, Terminal, QuestionInv,
      RequestInv, StartPcs, RunPcs, Begun
<1>13. ASSUME NEW t \in Turns, CancelsRow(t) PROVE QuestionInv'
  BY <1>0, <1>13
  DEF CancelsRow, SameTurns, RowIs, CancelIs, Ended, Terminal, QuestionInv, RequestInv,
      StartPcs, RunPcs, Begun
<1>14. ASSUME NEW v \in Readers, Reconciles(v) PROVE QuestionInv'
  BY <1>0, <1>14, ReconcileMoves
  DEF Reconciles, SameTurns, QuestionInv, RequestInv, StartPcs, RunPcs, Begun
<1>15. CASE Dies
  BY <1>0, <1>15 DEF Dies, KeepsFiles, QuestionInv, RequestInv, StartPcs, RunPcs, Begun
<1> QED
  BY <1>1, <1>2, <1>3, <1>4, <1>5, <1>6, <1>7, <1>8, <1>9, <1>10, <1>11, <1>12, <1>13, <1>14,
     <1>15
  DEF TurnStep

\* The rows of the pairs.
LEMMA RowKept ==
    ASSUME TypeOK, RequestInv, SlotInv, QuestionInv, RowInv, AnswerNeverDenied,
           SavedInv, RecordInv, EarlyInv, TurnStep
    PROVE  RowInv'
<1>0. /\ run \in [Turns -> Runs] /\ pair \in [Turns -> Pairs] /\ record \in [Turns -> Records]
      /\ cancel \in [Turns -> CancelPcs]
      /\ \A t \in Turns : /\ run[t].pc \in Pcs /\ run[t].thread \in Threads \cup {None}
                           /\ run[t].pair \in Turns \cup {None}
      /\ \A p \in Turns : pair[p].turn \in Turns \cup {None}
      /\ \A t \in registry.turns : run[t].pc \in RunPcs
      /\ None \notin Turns /\ None \notin Threads
  BY TurnAssumption DEF TypeOK, SlotInv, SlotsBalanced, Runs, Pairs
<1>1. CASE Stands
  BY <1>0, <1>1 DEF Stands, SameTurns, KeepsFiles, RowInv, RequestInv, QuestionInv, PrePcs, RunPcs
<1>2. ASSUME NEW t \in Turns, Loads(t) PROVE RowInv'
  BY <1>0, <1>2 DEF Loads, KeepsFiles, RowInv, RequestInv, QuestionInv, PrePcs, RunPcs
<1>3. ASSUME NEW t \in Turns, NEW to \in Pcs, Goes(t, to) PROVE RowInv'
  BY SMTT(60), <1>0, <1>3
  DEF Goes, KeepsFiles, MayMove, MovedTo, RowInv, RequestInv, QuestionInv, PrePcs, RunPcs
<1>4. ASSUME NEW t \in Turns, NEW to \in CancelPcs, Cancels(t, to) PROVE RowInv'
  BY <1>0, <1>4
  DEF Cancels, CancelIs, KeepsFiles, SameTurns, CancelPcs, RowInv, RequestInv, QuestionInv,
      PrePcs, RunPcs
<1>5. ASSUME NEW t \in Turns, AppendsPair(t) PROVE RowInv'
  BY <1>0, <1>5 DEF AppendsPair, MovedTo, RowIs, RowInv, RequestInv, QuestionInv, PrePcs, RunPcs
<1>6. ASSUME NEW t \in Turns, StartsRecord(t) PROVE RowInv'
  BY <1>0, <1>6
  DEF StartsRecord, MovedTo, RecordIs, RowInv, RequestInv, QuestionInv, PrePcs, RunPcs
<1>7. ASSUME NEW t \in Turns, SavesAnswer(t) PROVE RowInv'
  BY <1>0, <1>7
  DEF SavesAnswer, MovedTo, RowIs, ResponseIs, Answerable, Canceled, PairOf, RowInv,
      RequestInv, QuestionInv, PrePcs, RunPcs
<1>8. ASSUME NEW t \in Turns, LeavesResponse(t) PROVE RowInv'
  BY <1>0, <1>8
  DEF LeavesResponse, MovedTo, ResponseIs, RowInv, RequestInv, QuestionInv, PrePcs, RunPcs
<1>9. ASSUME NEW t \in Turns, CompletesRecord(t) PROVE RowInv'
  BY <1>0, <1>9
  DEF CompletesRecord, MovedTo, RecordIs, Ended, Terminal, RowInv, RequestInv, QuestionInv,
      PrePcs, RunPcs
<1>10. ASSUME NEW t \in Turns, NEW status \in {"failed", "refused"},
              FailsRecord(t, status)
       PROVE  RowInv'
  BY <1>0, <1>10
  DEF FailsRecord, MovedTo, RowIs, RecordIs, Ended, Terminal, RowInv, RequestInv, QuestionInv,
      PrePcs, RunPcs
<1>11. ASSUME NEW t \in Turns, FailsRow(t) PROVE RowInv'
  BY <1>0, <1>11 DEF FailsRow, MovedTo, RowIs, RowInv, RequestInv, QuestionInv, PrePcs, RunPcs
<1>12. ASSUME NEW t \in Turns, CancelsRecord(t) PROVE RowInv'
  BY <1>0, <1>12
  DEF CancelsRecord, SameTurns, RowIs, RecordIs, CancelIs, Ended, Terminal, RowInv,
      RequestInv, QuestionInv, PrePcs, RunPcs
<1>13. ASSUME NEW t \in Turns, CancelsRow(t) PROVE RowInv'
  BY <1>0, <1>13
  DEF CancelsRow, SameTurns, RowIs, CancelIs, Ended, Terminal, RowInv, RequestInv,
      QuestionInv, PrePcs, RunPcs
<1>14. ASSUME NEW v \in Readers, Reconciles(v) PROVE RowInv'
  BY <1>0, <1>14, ReconcileMoves
  DEF Reconciles, SameTurns, RowInv, RequestInv, QuestionInv, PrePcs, RunPcs
<1>15. CASE Dies
  BY <1>0, <1>15 DEF Dies, KeepsFiles, RowInv, RequestInv, QuestionInv, PrePcs, RunPcs
<1> QED
  BY <1>1, <1>2, <1>3, <1>4, <1>5, <1>6, <1>7, <1>8, <1>9, <1>10, <1>11, <1>12, <1>13, <1>14,
     <1>15
  DEF TurnStep

\* The answer that is shown.
LEMMA AnswersTrue ==
    ASSUME TypeOK, RequestInv, SlotInv, QuestionInv, RowInv, AnswerNeverDenied,
           SavedInv, RecordInv, EarlyInv, TurnStep
    PROVE  AnswerNeverDenied'
<1>0. /\ run \in [Turns -> Runs] /\ pair \in [Turns -> Pairs] /\ record \in [Turns -> Records]
      /\ cancel \in [Turns -> CancelPcs]
      /\ \A t \in Turns : /\ run[t].pc \in Pcs /\ run[t].thread \in Threads \cup {None}
                           /\ run[t].pair \in Turns \cup {None}
      /\ \A p \in Turns : pair[p].turn \in Turns \cup {None}
      /\ \A t \in registry.turns : run[t].pc \in RunPcs
      /\ None \notin Turns /\ None \notin Threads
  BY TurnAssumption DEF TypeOK, SlotInv, SlotsBalanced, Runs, Pairs
<1>1. CASE Stands
  BY <1>0, <1>1
  DEF Stands, SameTurns, KeepsFiles, AnswerNeverDenied, SavedInv, SavedPcs, StartPcs, RunPcs
<1>2. ASSUME NEW t \in Turns, Loads(t) PROVE AnswerNeverDenied'
  BY <1>0, <1>2 DEF Loads, KeepsFiles, AnswerNeverDenied, SavedInv, SavedPcs, StartPcs, RunPcs
<1>3. ASSUME NEW t \in Turns, NEW to \in Pcs, Goes(t, to) PROVE AnswerNeverDenied'
  BY <1>0, <1>3
  DEF Goes, KeepsFiles, MayMove, MovedTo, AnswerNeverDenied, SavedInv, SavedPcs, StartPcs,
      RunPcs
<1>4. ASSUME NEW t \in Turns, NEW to \in CancelPcs, Cancels(t, to) PROVE AnswerNeverDenied'
  BY <1>0, <1>4
  DEF Cancels, CancelIs, KeepsFiles, SameTurns, CancelPcs, AnswerNeverDenied, SavedInv,
      SavedPcs, StartPcs, RunPcs
<1>5. ASSUME NEW t \in Turns, AppendsPair(t) PROVE AnswerNeverDenied'
  BY <1>0, <1>5
  DEF AppendsPair, MovedTo, RowIs, AnswerNeverDenied, SavedInv, SavedPcs, StartPcs, RunPcs
<1>6. ASSUME NEW t \in Turns, StartsRecord(t) PROVE AnswerNeverDenied'
  BY <1>0, <1>6
  DEF StartsRecord, MovedTo, RecordIs, AnswerNeverDenied, SavedInv, SavedPcs, StartPcs, RunPcs
<1>7. ASSUME NEW t \in Turns, SavesAnswer(t) PROVE AnswerNeverDenied'
  <2>1. run[t].kind = "message" => run[t].pair = t
    BY <1>7 DEF SavesAnswer, RequestInv
  <2>2. record[t].status \notin {"none", "canceled"}
    BY <1>7 DEF SavesAnswer, Canceled, RecordInv, Begun, RunPcs
  <2>3. record[t].status \notin {"failed", "refused"}
    <3>1. CASE run[t].kind = "message"
      BY <1>7, <2>1, <3>1 DEF SavesAnswer, Answerable, PairOf, EarlyInv, EarlyPcs
    <3>2. CASE run[t].kind # "message"
      BY <1>7, <3>2 DEF SavesAnswer, EarlyInv, EarlyPcs
    <3> QED
      BY <3>1, <3>2
  <2>4. record[t].status \in {"started", "completed"}
    BY <1>0, <2>2, <2>3 DEF Terminal, Records
  <2> QED
    BY <1>7, <2>4 DEF SavesAnswer, RowIs, AnswerNeverDenied
<1>8. ASSUME NEW t \in Turns, LeavesResponse(t) PROVE AnswerNeverDenied'
  BY <1>0, <1>8
  DEF LeavesResponse, MovedTo, ResponseIs, AnswerNeverDenied, SavedInv, SavedPcs, StartPcs,
      RunPcs
<1>9. ASSUME NEW t \in Turns, CompletesRecord(t) PROVE AnswerNeverDenied'
  BY <1>0, <1>9
  DEF CompletesRecord, MovedTo, RecordIs, Ended, Terminal, AnswerNeverDenied, SavedInv,
      SavedPcs, StartPcs, RunPcs
<1>10. ASSUME NEW t \in Turns, NEW status \in {"failed", "refused"},
              FailsRecord(t, status)
       PROVE  AnswerNeverDenied'
  BY <1>0, <1>10
  DEF FailsRecord, MovedTo, RowIs, RecordIs, Ended, Terminal, AnswerNeverDenied, SavedInv,
      SavedPcs, StartPcs, RunPcs
<1>11. ASSUME NEW t \in Turns, FailsRow(t) PROVE AnswerNeverDenied'
  BY <1>0, <1>11
  DEF FailsRow, MovedTo, RowIs, AnswerNeverDenied, SavedInv, SavedPcs, StartPcs, RunPcs
<1>12. ASSUME NEW t \in Turns, CancelsRecord(t) PROVE AnswerNeverDenied'
  BY <1>0, <1>12
  DEF CancelsRecord, SameTurns, RowIs, RecordIs, CancelIs, Ended, Terminal, RowInv,
      AnswerNeverDenied, SavedInv, SavedPcs, StartPcs, RunPcs
<1>13. ASSUME NEW t \in Turns, CancelsRow(t) PROVE AnswerNeverDenied'
  BY <1>0, <1>13
  DEF CancelsRow, SameTurns, RowIs, CancelIs, Ended, Terminal, AnswerNeverDenied, SavedInv,
      SavedPcs, StartPcs, RunPcs
<1>14. ASSUME NEW v \in Readers, Reconciles(v) PROVE AnswerNeverDenied'
  BY <1>0, <1>14, ReconcileMoves
  DEF Reconciles, SameTurns, AnswerNeverDenied, SavedInv, SavedPcs, StartPcs, RunPcs
<1>15. CASE Dies
  BY <1>0, <1>15 DEF Dies, KeepsFiles, AnswerNeverDenied, SavedInv, SavedPcs, StartPcs, RunPcs
<1> QED
  BY <1>1, <1>2, <1>3, <1>4, <1>5, <1>6, <1>7, <1>8, <1>9, <1>10, <1>11, <1>12, <1>13, <1>14,
     <1>15
  DEF TurnStep

\* The turn that has saved it.
LEMMA SavedKept ==
    ASSUME TypeOK, RequestInv, SlotInv, QuestionInv, RowInv, AnswerNeverDenied,
           SavedInv, RecordInv, EarlyInv, TurnStep
    PROVE  SavedInv'
<1>0. /\ run \in [Turns -> Runs] /\ pair \in [Turns -> Pairs] /\ record \in [Turns -> Records]
      /\ cancel \in [Turns -> CancelPcs]
      /\ \A t \in Turns : /\ run[t].pc \in Pcs /\ run[t].thread \in Threads \cup {None}
                           /\ run[t].pair \in Turns \cup {None}
      /\ \A p \in Turns : pair[p].turn \in Turns \cup {None}
      /\ \A t \in registry.turns : run[t].pc \in RunPcs
      /\ None \notin Turns /\ None \notin Threads
  BY TurnAssumption DEF TypeOK, SlotInv, SlotsBalanced, Runs, Pairs
<1>1. CASE Stands
  BY <1>0, <1>1 DEF Stands, SameTurns, KeepsFiles, SavedInv, SavedPcs
<1>2. ASSUME NEW t \in Turns, Loads(t) PROVE SavedInv'
  BY <1>0, <1>2 DEF Loads, KeepsFiles, SavedInv, SavedPcs
<1>3. ASSUME NEW t \in Turns, NEW to \in Pcs, Goes(t, to) PROVE SavedInv'
  BY <1>0, <1>3 DEF Goes, KeepsFiles, MayMove, MovedTo, SavedInv, SavedPcs
<1>4. ASSUME NEW t \in Turns, NEW to \in CancelPcs, Cancels(t, to) PROVE SavedInv'
  BY <1>0, <1>4 DEF Cancels, CancelIs, KeepsFiles, SameTurns, CancelPcs, SavedInv, SavedPcs
<1>5. ASSUME NEW t \in Turns, AppendsPair(t) PROVE SavedInv'
  BY <1>0, <1>5 DEF AppendsPair, MovedTo, RowIs, SavedInv, SavedPcs
<1>6. ASSUME NEW t \in Turns, StartsRecord(t) PROVE SavedInv'
  BY <1>0, <1>6 DEF StartsRecord, MovedTo, SavedInv, SavedPcs
<1>7. ASSUME NEW t \in Turns, SavesAnswer(t) PROVE SavedInv'
  <2> DEFINE p == run[t].pair
  <2>1. /\ p \in Turns /\ pair'[p].turn = t /\ pair'[p].status = "completed" /\ pair'[p].answer
        /\ \A q \in Turns : q # p => pair'[q] = pair[q] /\ response'[q] = response[q]
        /\ response'[p] = t /\ t \in answered' /\ answered \subseteq answered'
        /\ run'[t].pc = "complete"
        /\ \A u \in Turns : u # t => run'[u] = run[u]
    BY <1>7 DEF SavesAnswer, RowIs, ResponseIs, MovedTo
  <2>2. \A q \in Turns : pair[q].answer => pair[q].turn # t
    BY <1>7 DEF SavesAnswer, SavedInv, SavedPcs
  <2>3. \A u \in Turns : run'[u].pc \in {"complete", "publish", "warn", "salvage"} => u \in answered'
    BY <2>1 DEF SavedInv
  <2>4. ASSUME NEW q \in Turns, pair'[q].answer
        PROVE  /\ pair'[q].status = "completed" /\ pair'[q].turn # None /\ response'[q] # None
               /\ pair'[q].turn \in answered' /\ run'[pair'[q].turn].pc \in SavedPcs
    <3>1. CASE q = p
      BY <1>0, <2>1, <3>1 DEF SavedPcs
    <3>2. CASE q # p
      BY <1>0, <2>1, <2>2, <2>4, <3>2 DEF SavedInv
    <3> QED
      BY <3>1, <3>2
  <2> QED
    BY <2>3, <2>4 DEF SavedInv
<1>8. ASSUME NEW t \in Turns, LeavesResponse(t) PROVE SavedInv'
  BY <1>0, <1>8 DEF LeavesResponse, MovedTo, ResponseIs, SavedInv, SavedPcs
<1>9. ASSUME NEW t \in Turns, CompletesRecord(t) PROVE SavedInv'
  BY SMTT(60), <1>0, <1>9 DEF CompletesRecord, MovedTo, SavedInv, SavedPcs
<1>10. ASSUME NEW t \in Turns, NEW status \in {"failed", "refused"},
              FailsRecord(t, status)
       PROVE  SavedInv'
  BY <1>0, <1>10 DEF FailsRecord, MovedTo, RowIs, SavedInv, SavedPcs
<1>11. ASSUME NEW t \in Turns, FailsRow(t) PROVE SavedInv'
  BY <1>0, <1>11 DEF FailsRow, MovedTo, RowIs, SavedInv, SavedPcs
<1>12. ASSUME NEW t \in Turns, CancelsRecord(t) PROVE SavedInv'
  BY <1>0, <1>12 DEF CancelsRecord, SameTurns, RowIs, CancelIs, SavedInv, SavedPcs
<1>13. ASSUME NEW t \in Turns, CancelsRow(t) PROVE SavedInv'
  BY <1>0, <1>13 DEF CancelsRow, SameTurns, RowIs, CancelIs, SavedInv, SavedPcs
<1>14. ASSUME NEW v \in Readers, Reconciles(v) PROVE SavedInv'
  BY <1>0, <1>14, ReconcileMoves DEF Reconciles, SameTurns, SavedInv, SavedPcs
<1>15. CASE Dies
  BY <1>0, <1>15 DEF Dies, KeepsFiles, SavedInv, SavedPcs
<1> QED
  BY <1>1, <1>2, <1>3, <1>4, <1>5, <1>6, <1>7, <1>8, <1>9, <1>10, <1>11, <1>12, <1>13, <1>14,
     <1>15
  DEF TurnStep

\* The records.
LEMMA RecordKept ==
    ASSUME TypeOK, RequestInv, SlotInv, QuestionInv, RowInv, AnswerNeverDenied,
           SavedInv, RecordInv, EarlyInv, TurnStep
    PROVE  RecordInv'
<1>0. /\ run \in [Turns -> Runs] /\ pair \in [Turns -> Pairs] /\ record \in [Turns -> Records]
      /\ cancel \in [Turns -> CancelPcs]
      /\ \A t \in Turns : /\ run[t].pc \in Pcs /\ run[t].thread \in Threads \cup {None}
                           /\ run[t].pair \in Turns \cup {None}
      /\ \A p \in Turns : pair[p].turn \in Turns \cup {None}
      /\ \A t \in registry.turns : run[t].pc \in RunPcs
      /\ None \notin Turns /\ None \notin Threads
  BY TurnAssumption DEF TypeOK, SlotInv, SlotsBalanced, Runs, Pairs
<1>1. CASE Stands
  BY <1>0, <1>1
  DEF Stands, SameTurns, KeepsFiles, RecordInv, RequestInv, StartPcs, RunPcs, Pcs, PrePcs,
      NotBegun, Begun, EarlyPcs, SavedPcs
<1>2. ASSUME NEW t \in Turns, Loads(t) PROVE RecordInv'
  BY <1>0, <1>2
  DEF Loads, KeepsFiles, RecordInv, RequestInv, StartPcs, RunPcs, Pcs, PrePcs, NotBegun,
      Begun, EarlyPcs, SavedPcs
<1>3. ASSUME NEW t \in Turns, NEW to \in Pcs, Goes(t, to) PROVE RecordInv'
  BY <1>0, <1>3
  DEF Goes, KeepsFiles, MayMove, MovedTo, RecordInv, RequestInv, StartPcs, RunPcs, Pcs,
      PrePcs, NotBegun, Begun, EarlyPcs, SavedPcs
<1>4. ASSUME NEW t \in Turns, NEW to \in CancelPcs, Cancels(t, to) PROVE RecordInv'
  BY <1>0, <1>4
  DEF Cancels, CancelIs, KeepsFiles, SameTurns, CancelPcs, RecordInv, RequestInv, StartPcs,
      RunPcs, Pcs, PrePcs, NotBegun, Begun, EarlyPcs, SavedPcs
<1>5. ASSUME NEW t \in Turns, AppendsPair(t) PROVE RecordInv'
  BY <1>0, <1>5
  DEF AppendsPair, MovedTo, RowIs, RecordInv, RequestInv, StartPcs, RunPcs, Pcs, PrePcs,
      NotBegun, Begun, EarlyPcs, SavedPcs
<1>6. ASSUME NEW t \in Turns, StartsRecord(t) PROVE RecordInv'
  BY <1>0, <1>6
  DEF StartsRecord, MovedTo, RecordIs, RecordInv, RequestInv, StartPcs, RunPcs, Pcs, PrePcs,
      NotBegun, Begun, EarlyPcs, SavedPcs
<1>7. ASSUME NEW t \in Turns, SavesAnswer(t) PROVE RecordInv'
  BY <1>0, <1>7
  DEF SavesAnswer, MovedTo, RowIs, ResponseIs, Answerable, Canceled, PairOf, RecordInv,
      RequestInv, StartPcs, RunPcs, Pcs, PrePcs, NotBegun, Begun, EarlyPcs, SavedPcs
<1>8. ASSUME NEW t \in Turns, LeavesResponse(t) PROVE RecordInv'
  BY <1>0, <1>8
  DEF LeavesResponse, MovedTo, ResponseIs, RecordInv, RequestInv, StartPcs, RunPcs, Pcs,
      PrePcs, NotBegun, Begun, EarlyPcs, SavedPcs
<1>9. ASSUME NEW t \in Turns, CompletesRecord(t) PROVE RecordInv'
  BY <1>0, <1>9
  DEF CompletesRecord, MovedTo, RecordIs, Ended, Terminal, RecordInv, RequestInv, StartPcs,
      RunPcs, Pcs, PrePcs, NotBegun, Begun, EarlyPcs, SavedPcs
<1>10. ASSUME NEW t \in Turns, NEW status \in {"failed", "refused"},
              FailsRecord(t, status)
       PROVE  RecordInv'
  BY <1>0, <1>10
  DEF FailsRecord, MovedTo, RowIs, RecordIs, Ended, Terminal, RecordInv, RequestInv, StartPcs,
      RunPcs, Pcs, PrePcs, NotBegun, Begun, EarlyPcs, SavedPcs
<1>11. ASSUME NEW t \in Turns, FailsRow(t) PROVE RecordInv'
  BY <1>0, <1>11
  DEF FailsRow, MovedTo, RowIs, RecordInv, RequestInv, StartPcs, RunPcs, Pcs, PrePcs,
      NotBegun, Begun, EarlyPcs, SavedPcs
<1>12. ASSUME NEW t \in Turns, CancelsRecord(t) PROVE RecordInv'
  BY <1>0, <1>12
  DEF CancelsRecord, SameTurns, RowIs, RecordIs, CancelIs, Ended, Terminal, RecordInv,
      RequestInv, StartPcs, RunPcs, Pcs, PrePcs, NotBegun, Begun, EarlyPcs, SavedPcs
<1>13. ASSUME NEW t \in Turns, CancelsRow(t) PROVE RecordInv'
  BY <1>0, <1>13
  DEF CancelsRow, SameTurns, RowIs, CancelIs, Ended, Terminal, RecordInv, RequestInv,
      StartPcs, RunPcs, Pcs, PrePcs, NotBegun, Begun, EarlyPcs, SavedPcs
<1>14. ASSUME NEW v \in Readers, Reconciles(v) PROVE RecordInv'
  <2>1. SameTurns /\ UNCHANGED cancel
    BY <1>14 DEF Reconciles
  <2>2. ASSUME NEW u \in Turns, \E p \in Turns : pair[p].answer /\ pair[p].turn = u
        PROVE  run[u].pc \in SavedPcs /\ record[u].status \in {"started", "completed"}
    BY <2>2 DEF SavedInv, AnswerNeverDenied
  <2>3. \A u \in Turns :
           \/ record'[u].status = record[u].status
           \/ /\ record'[u].status = "completed" /\ run[u].pc \in SavedPcs
              /\ record[u].status \in {"started", "completed"}
           \/ record'[u].status = "failed" /\ record[u].status \notin Terminal
    BY <1>14, <2>2, ReconcileMoves DEF Reconciles
  <2> QED
    BY <2>1, <2>3
    DEF RecordInv, SameTurns, Terminal, StartPcs, RunPcs, Pcs, PrePcs, NotBegun, Begun,
        EarlyPcs, SavedPcs
<1>15. CASE Dies
  BY <1>0, <1>15
  DEF Dies, KeepsFiles, RecordInv, RequestInv, StartPcs, RunPcs, Pcs, PrePcs, NotBegun, Begun,
      EarlyPcs, SavedPcs
<1> QED
  BY <1>1, <1>2, <1>3, <1>4, <1>5, <1>6, <1>7, <1>8, <1>9, <1>10, <1>11, <1>12, <1>13, <1>14,
     <1>15
  DEF TurnStep

\* The turns that may still save an answer.
LEMMA EarlyKept ==
    ASSUME TypeOK, RequestInv, SlotInv, QuestionInv, RowInv, AnswerNeverDenied,
           SavedInv, RecordInv, EarlyInv,
           ReaderInv, TurnStep
    PROVE  EarlyInv'
<1>0. /\ run \in [Turns -> Runs] /\ pair \in [Turns -> Pairs] /\ record \in [Turns -> Records]
      /\ cancel \in [Turns -> CancelPcs]
      /\ \A t \in Turns : /\ run[t].pc \in Pcs /\ run[t].thread \in Threads \cup {None}
                           /\ run[t].pair \in Turns \cup {None}
      /\ \A p \in Turns : pair[p].turn \in Turns \cup {None}
      /\ \A t \in registry.turns : run[t].pc \in RunPcs
      /\ None \notin Turns /\ None \notin Threads
  BY TurnAssumption DEF TypeOK, SlotInv, SlotsBalanced, Runs, Pairs
<1>1. CASE Stands
  BY <1>0, <1>1
  DEF Stands, SameTurns, KeepsFiles, EarlyInv, RequestInv, RowInv, RecordInv, StartPcs,
      RunPcs, Pcs, PrePcs, NotBegun, Begun, EarlyPcs, SavedPcs
<1>2. ASSUME NEW t \in Turns, Loads(t) PROVE EarlyInv'
  BY <1>0, <1>2
  DEF Loads, KeepsFiles, EarlyInv, RequestInv, RowInv, RecordInv, StartPcs, RunPcs, Pcs,
      PrePcs, NotBegun, Begun, EarlyPcs, SavedPcs
<1>3. ASSUME NEW t \in Turns, NEW to \in Pcs, Goes(t, to) PROVE EarlyInv'
  <2>1. to \in EarlyPcs => run[t].pc \in EarlyPcs /\ run'[t].kind = run[t].kind
    BY <1>3 DEF Goes, MayMove, MovedTo, EarlyPcs, RunPcs
  <2>2. \A u \in Turns : run'[u].pc \in EarlyPcs
                        => run[u].pc \in EarlyPcs /\ run'[u].kind = run[u].kind
    BY <1>3, <2>1 DEF Goes, MovedTo
  <2> QED
    BY <1>3, <2>2 DEF Goes, KeepsFiles, EarlyInv
<1>4. ASSUME NEW t \in Turns, NEW to \in CancelPcs, Cancels(t, to) PROVE EarlyInv'
  BY <1>0, <1>4
  DEF Cancels, CancelIs, KeepsFiles, SameTurns, CancelPcs, EarlyInv, RequestInv, RowInv,
      RecordInv, StartPcs, RunPcs, Pcs, PrePcs, NotBegun, Begun, EarlyPcs, SavedPcs
<1>5. ASSUME NEW t \in Turns, AppendsPair(t) PROVE EarlyInv'
  BY <1>0, <1>5
  DEF AppendsPair, MovedTo, RowIs, EarlyInv, RequestInv, RowInv, RecordInv, StartPcs, RunPcs,
      Pcs, PrePcs, NotBegun, Begun, EarlyPcs, SavedPcs
<1>6. ASSUME NEW t \in Turns, StartsRecord(t) PROVE EarlyInv'
  BY <1>0, <1>6
  DEF StartsRecord, MovedTo, RecordIs, EarlyInv, RequestInv, RowInv, RecordInv, StartPcs,
      RunPcs, Pcs, PrePcs, NotBegun, Begun, EarlyPcs, SavedPcs
<1>7. ASSUME NEW t \in Turns, SavesAnswer(t) PROVE EarlyInv'
  BY <1>0, <1>7
  DEF SavesAnswer, MovedTo, RowIs, ResponseIs, Answerable, Canceled, PairOf, EarlyInv,
      RequestInv, RowInv, RecordInv, StartPcs, RunPcs, Pcs, PrePcs, NotBegun, Begun, EarlyPcs,
      SavedPcs
<1>8. ASSUME NEW t \in Turns, LeavesResponse(t) PROVE EarlyInv'
  BY <1>0, <1>8
  DEF LeavesResponse, MovedTo, ResponseIs, EarlyInv, RequestInv, RowInv, RecordInv, StartPcs,
      RunPcs, Pcs, PrePcs, NotBegun, Begun, EarlyPcs, SavedPcs
<1>9. ASSUME NEW t \in Turns, CompletesRecord(t) PROVE EarlyInv'
  BY <1>0, <1>9
  DEF CompletesRecord, MovedTo, RecordIs, Ended, Terminal, EarlyInv, RequestInv, RowInv,
      RecordInv, StartPcs, RunPcs, Pcs, PrePcs, NotBegun, Begun, EarlyPcs, SavedPcs
<1>10. ASSUME NEW t \in Turns, NEW status \in {"failed", "refused"},
              FailsRecord(t, status)
       PROVE  EarlyInv'
  BY <1>0, <1>10
  DEF FailsRecord, MovedTo, RowIs, RecordIs, Ended, Terminal, EarlyInv, RequestInv, RowInv,
      RecordInv, StartPcs, RunPcs, Pcs, PrePcs, NotBegun, Begun, EarlyPcs, SavedPcs
<1>11. ASSUME NEW t \in Turns, FailsRow(t) PROVE EarlyInv'
  BY <1>0, <1>11
  DEF FailsRow, MovedTo, RowIs, EarlyInv, RequestInv, RowInv, RecordInv, StartPcs, RunPcs,
      Pcs, PrePcs, NotBegun, Begun, EarlyPcs, SavedPcs
<1>12. ASSUME NEW t \in Turns, CancelsRecord(t) PROVE EarlyInv'
  BY <1>0, <1>12
  DEF CancelsRecord, SameTurns, RowIs, RecordIs, CancelIs, Ended, Terminal, EarlyInv,
      RequestInv, RowInv, RecordInv, StartPcs, RunPcs, Pcs, PrePcs, NotBegun, Begun, EarlyPcs,
      SavedPcs
<1>13. ASSUME NEW t \in Turns, CancelsRow(t) PROVE EarlyInv'
  BY <1>0, <1>13
  DEF CancelsRow, SameTurns, RowIs, CancelIs, Ended, Terminal, EarlyInv, RequestInv, RowInv,
      RecordInv, StartPcs, RunPcs, Pcs, PrePcs, NotBegun, Begun, EarlyPcs, SavedPcs
<1>14. ASSUME NEW v \in Readers, Reconciles(v) PROVE EarlyInv'
  <2>1. SameTurns /\ UNCHANGED cancel /\ reader[v].pc = "reconcile"
    BY <1>14 DEF Reconciles, Reconcile
  <2>2. SUFFICES ASSUME NEW u \in Turns, run[u].pc \in EarlyPcs
                 PROVE  IF run[u].kind = "message"
                        THEN record'[u].status \in {"failed", "refused"} => pair'[u].status # "pending"
                        ELSE /\ record'[u].status \in {"started", "canceled"}
                             /\ \A p \in Turns : pair'[p].turn = u => cancel[u] \in {"say", "done"}
    BY <2>1 DEF EarlyInv, SameTurns
  <2>3. ~\E p \in Turns : pair[p].answer /\ pair[p].turn = u
    BY <2>2 DEF SavedInv, EarlyPcs, SavedPcs
  <2>4. run[u].kind = "message" <=> run[u].pair = u
    BY <2>2 DEF RequestInv, EarlyPcs
  <2>5. \A p \in Turns : pair[p].turn = u /\ pair[p].status = "pending" => p = u /\ run[u].pair = u
    BY <1>0 DEF RowInv
  <2>6. /\ \A p \in Turns : pair'[p].turn = pair[p].turn
        /\ pair[u].status # "pending" => pair'[u].status # "pending"
        /\ \/ record'[u].status = record[u].status
           \/ /\ record'[u].status = "failed"
              /\ \/ \E p \in Turns : /\ pair[p].turn = u /\ pair[p].status = "pending"
                                     /\ pair'[p].status = "failed"
                 \/ /\ record[u].status = "started" /\ Concerns(v, u)
                    /\ pair[PairOf(u)].status # "pending"
    BY <1>14, <2>3, ReconcileMoves DEF Reconciles
  <2>7. CASE run[u].kind = "message"
    BY <2>2, <2>4, <2>5, <2>6, <2>7 DEF EarlyInv, PairOf
  <2>8. CASE run[u].kind # "message"
    <3>1. ~(record[u].status = "started" /\ Concerns(v, u))
      BY <2>1, <2>2, <2>8 DEF ReaderInv, Harmless, Ended, Terminal
    <3>2. ~\E p \in Turns : pair[p].turn = u /\ pair[p].status = "pending"
      BY <2>4, <2>5, <2>8
    <3> QED
      BY <2>2, <2>6, <2>8, <3>1, <3>2 DEF EarlyInv
  <2> QED
    BY <2>7, <2>8
<1>15. CASE Dies
  BY <1>0, <1>15
  DEF Dies, KeepsFiles, EarlyInv, RequestInv, RowInv, RecordInv, StartPcs, RunPcs, Pcs,
      PrePcs, NotBegun, Begun, EarlyPcs, SavedPcs
<1> QED
  BY <1>1, <1>2, <1>3, <1>4, <1>5, <1>6, <1>7, <1>8, <1>9, <1>10, <1>11, <1>12, <1>13, <1>14,
     <1>15
  DEF TurnStep

\* A terminal status stays terminal, and a canceled or failed one what it is.
RecordsStay == \A u \in Turns :
    /\ record[u].status = "canceled" => record'[u].status = "canceled"
    /\ Ended(u) /\ run[u].pc # "start" => Ended(u)'
    /\ record[u].status \in {"failed", "refused"} /\ run[u].pc \notin PrePcs
          => record'[u].status \in {"failed", "refused"}
    /\ record[u].status = "none" /\ run[u].pc \notin PrePcs
          => record'[u].status \in {"none", "failed", "refused"}

\* No step takes an end back.
LEMMA StepsKeepRecords ==
    ASSUME TypeOK, RequestInv, SlotInv, QuestionInv, RowInv, AnswerNeverDenied,
           SavedInv, RecordInv, EarlyInv, TurnStep
    PROVE  RecordsStay
<1>0. /\ run \in [Turns -> Runs] /\ pair \in [Turns -> Pairs] /\ record \in [Turns -> Records]
      /\ cancel \in [Turns -> CancelPcs]
      /\ \A t \in Turns : /\ run[t].pc \in Pcs /\ run[t].thread \in Threads \cup {None}
                           /\ run[t].pair \in Turns \cup {None}
      /\ \A p \in Turns : pair[p].turn \in Turns \cup {None}
      /\ \A t \in registry.turns : run[t].pc \in RunPcs
      /\ None \notin Turns /\ None \notin Threads
  BY TurnAssumption DEF TypeOK, SlotInv, SlotsBalanced, Runs, Pairs
<1>1. CASE Stands
  BY <1>0, <1>1
  DEF Stands, SameTurns, KeepsFiles, RecordsStay, Ended, Terminal, RecordInv, PrePcs,
      NotBegun, Begun, RunPcs
<1>2. ASSUME NEW t \in Turns, Loads(t) PROVE RecordsStay
  BY <1>0, <1>2
  DEF Loads, KeepsFiles, RecordsStay, Ended, Terminal, RecordInv, PrePcs, NotBegun, Begun,
      RunPcs
<1>3. ASSUME NEW t \in Turns, NEW to \in Pcs, Goes(t, to) PROVE RecordsStay
  BY <1>0, <1>3
  DEF Goes, KeepsFiles, MayMove, MovedTo, RecordsStay, Ended, Terminal, RecordInv, PrePcs,
      NotBegun, Begun, RunPcs
<1>4. ASSUME NEW t \in Turns, NEW to \in CancelPcs, Cancels(t, to) PROVE RecordsStay
  BY <1>0, <1>4
  DEF Cancels, CancelIs, KeepsFiles, SameTurns, CancelPcs, RecordsStay, Ended, Terminal,
      RecordInv, PrePcs, NotBegun, Begun, RunPcs
<1>5. ASSUME NEW t \in Turns, AppendsPair(t) PROVE RecordsStay
  BY <1>0, <1>5
  DEF AppendsPair, MovedTo, RowIs, RecordsStay, Ended, Terminal, RecordInv, PrePcs, NotBegun,
      Begun, RunPcs
<1>6. ASSUME NEW t \in Turns, StartsRecord(t) PROVE RecordsStay
  BY <1>0, <1>6
  DEF StartsRecord, MovedTo, RecordIs, RecordsStay, Ended, Terminal, RecordInv, PrePcs,
      NotBegun, Begun, RunPcs
<1>7. ASSUME NEW t \in Turns, SavesAnswer(t) PROVE RecordsStay
  BY <1>0, <1>7
  DEF SavesAnswer, MovedTo, RowIs, ResponseIs, Answerable, Canceled, PairOf, RecordsStay,
      Ended, Terminal, RecordInv, PrePcs, NotBegun, Begun, RunPcs
<1>8. ASSUME NEW t \in Turns, LeavesResponse(t) PROVE RecordsStay
  BY <1>0, <1>8
  DEF LeavesResponse, MovedTo, ResponseIs, RecordsStay, Ended, Terminal, RecordInv, PrePcs,
      NotBegun, Begun, RunPcs
<1>9. ASSUME NEW t \in Turns, CompletesRecord(t) PROVE RecordsStay
  BY <1>0, <1>9
  DEF CompletesRecord, MovedTo, RecordIs, Ended, Terminal, RecordsStay, RecordInv, PrePcs,
      NotBegun, Begun, RunPcs
<1>10. ASSUME NEW t \in Turns, NEW status \in {"failed", "refused"},
              FailsRecord(t, status)
       PROVE  RecordsStay
  BY <1>0, <1>10
  DEF FailsRecord, MovedTo, RowIs, RecordIs, Ended, Terminal, RecordsStay, RecordInv, PrePcs,
      NotBegun, Begun, RunPcs
<1>11. ASSUME NEW t \in Turns, FailsRow(t) PROVE RecordsStay
  BY <1>0, <1>11
  DEF FailsRow, MovedTo, RowIs, RecordsStay, Ended, Terminal, RecordInv, PrePcs, NotBegun,
      Begun, RunPcs
<1>12. ASSUME NEW t \in Turns, CancelsRecord(t) PROVE RecordsStay
  BY <1>0, <1>12
  DEF CancelsRecord, SameTurns, RowIs, RecordIs, CancelIs, Ended, Terminal, RecordsStay,
      RecordInv, PrePcs, NotBegun, Begun, RunPcs
<1>13. ASSUME NEW t \in Turns, CancelsRow(t) PROVE RecordsStay
  BY <1>0, <1>13
  DEF CancelsRow, SameTurns, RowIs, CancelIs, Ended, Terminal, RecordsStay, RecordInv, PrePcs,
      NotBegun, Begun, RunPcs
<1>14. ASSUME NEW v \in Readers, Reconciles(v) PROVE RecordsStay
  <2>2. ASSUME NEW u \in Turns, \E p \in Turns : pair[p].answer /\ pair[p].turn = u
        PROVE  record[u].status \in {"started", "completed"}
    BY <2>2 DEF SavedInv, AnswerNeverDenied
  <2>3. \A u \in Turns :
           \/ record'[u].status = record[u].status
           \/ record'[u].status = "completed" /\ record[u].status \in {"started", "completed"}
           \/ record'[u].status = "failed" /\ record[u].status \notin Terminal
    BY <1>14, <2>2, ReconcileMoves DEF Reconciles
  <2> QED
    BY <2>3 DEF RecordsStay, Ended, Terminal
<1>15. CASE Dies
  BY <1>0, <1>15
  DEF Dies, KeepsFiles, RecordsStay, Ended, Terminal, RecordInv, PrePcs, NotBegun, Begun,
      RunPcs
<1> QED
  BY <1>1, <1>2, <1>3, <1>4, <1>5, <1>6, <1>7, <1>8, <1>9, <1>10, <1>11, <1>12, <1>13, <1>14,
     <1>15
  DEF TurnStep

-----------------------------------------------------------------------------
(* The registry.                                                             *)

\* Who is reserving and who is running stays.
SameSlots == \A t \in Turns :
    /\ run'[t].pc \in StartPcs <=> run[t].pc \in StartPcs
    /\ run[t].pc \in RunPcs => run'[t].pc \in RunPcs
    /\ run[t].pc # "idle" => run'[t].thread = run[t].thread

KeepsSlots ==
    /\ SameSlots
    /\ registry' \in Registries
    /\ registry'.active = registry.active /\ registry'.turns = registry.turns
    /\ registry'.reserved = registry.reserved /\ registry'.admitted = registry.admitted
    /\ registry'.held = registry.held

Reserves(t) ==
    /\ run[t].pc = "loaded" /\ MovedTo(t, "reserved")
    /\ ~Busy(registry, Thread(t)) /\ registry.held < MaxTurns
    /\ registry' = Reserve(registry, Thread(t))

Releases(t) ==
    /\ run[t].pc \in StartPcs
    /\ \E to \in {"done", "stale", "startSay", "startFail"} : MovedTo(t, to)
    /\ registry' = ReleaseThread(registry, Thread(t))

Registers(t) ==
    /\ run[t].pc = "register" /\ MovedTo(t, "running")
    /\ registry' = RegisterTurn(registry, t, Thread(t))

\* What a cancel has seen when it gives the slot of its turn back.
Dismissed(t) ==
    \/ cancel[t] = "load" /\ HasTerminalStatus(t)
    \/ cancel[t] = "mark" /\ (Ended(t) \/ (pair[PairOf(t)].answer /\ pair[PairOf(t)].turn = t))
    \/ cancel[t] = "say"

Unregisters(t) ==
    /\ \/ run[t].pc = "end" /\ MovedTo(t, "done")
       \/ SameTurns /\ UNCHANGED record /\ Dismissed(t)
    /\ registry' = Unregister(registry, t, Thread(t))

Empties ==
    /\ \A t \in Turns : run'[t].pc \in {"idle", "done"}
    /\ registry' = EmptyRegistry

SlotStep ==
    \/ KeepsSlots
    \/ \E t \in Turns : Reserves(t)
    \/ \E t \in Turns : Releases(t)
    \/ \E t \in Turns : Registers(t)
    \/ \E t \in Turns : Unregisters(t)
    \/ Empties

\* The catch block of a request has nothing to unregister.
LEMMA GiveUpReleases ==
    ASSUME SlotInv, NEW t \in Turns, run[t].pc \in StartPcs, GiveUp(t)
    PROVE  registry' = ReleaseThread(registry, Thread(t))
<1>1. t \notin registry.turns
  BY DEF SlotInv, SlotsBalanced, StartPcs, RunPcs
<1> QED
  BY <1>1 DEF GiveUp, Unregister

\* Every step is of one of the kinds.
LEMMA StepsOfSlots ==
    ASSUME TypeOK, SlotInv, Next
    PROVE  SlotStep
<1>0. /\ \A t \in Turns, pc \in Pcs : Goto(t, pc) => MovedTo(t, pc)
      /\ \A t \in Turns, pc \in Pcs \ {"done"} : Settled(t, pc) => MovedTo(t, pc)
      /\ run \in [Turns -> Runs] /\ registry \in Registries
  BY GotoMoves, SettledMoves DEF TypeOK
<1>1. ASSUME NEW t \in Turns, NEW th \in Threads, LoadMessage(t, th) PROVE SlotStep
  <2>1. run[t].pc = "idle" /\ run'[t].pc = "loaded" /\ UNCHANGED registry
        /\ \A u \in Turns : u # t => run'[u] = run[u]
    BY <1>0, <1>1 DEF LoadMessage, IdleRun
  <2>2. KeepsSlots
    BY <1>0, <2>1 DEF KeepsSlots, SameSlots, StartPcs, RunPcs
  <2> QED
    BY <2>2 DEF SlotStep
<1>2. ASSUME NEW t \in Turns, NEW p \in Turns, LoadRegenerate(t, p) PROVE SlotStep
  <2>1. run[t].pc = "idle" /\ run'[t].pc = "loaded" /\ UNCHANGED registry
        /\ \A u \in Turns : u # t => run'[u] = run[u]
    BY <1>0, <1>2 DEF LoadRegenerate, IdleRun
  <2>2. KeepsSlots
    BY <1>0, <2>1 DEF KeepsSlots, SameSlots, StartPcs, RunPcs
  <2> QED
    BY <2>2 DEF SlotStep
<1>3. ASSUME NEW t \in Turns, ReserveThread(t) PROVE SlotStep
  <2>1. Reserves(t) \/ KeepsSlots
    BY <1>0, <1>3, TurnAssumption
    DEF ReserveThread, SameSlots, StartPcs, RunPcs, KeepsSlots, MovedTo, Pcs, files,
        SameTurns, Reserves, Registries
  <2> QED
    BY <1>3, <2>1 DEF SlotStep
<1>4. ASSUME NEW t \in Turns, Refuse(t) PROVE SlotStep
  <2>1. Releases(t)
    BY <1>0, <1>4 DEF Refuse, Releases, StartPcs, Pcs
  <2> QED
    BY <1>4, <2>1 DEF SlotStep
<1>5. ASSUME NEW t \in Turns, FindStale(t) PROVE SlotStep
  <2>1. Releases(t)
    BY <1>0, <1>5 DEF FindStale, Releases, StartPcs, Pcs
  <2> QED
    BY <1>5, <2>1 DEF SlotStep
<1>6. ASSUME NEW t \in Turns, MarkThreadStale(t) PROVE SlotStep
  <2>1. KeepsSlots
    BY <1>0, <1>6
    DEF MarkThreadStale, SameSlots, StartPcs, RunPcs, KeepsSlots, MovedTo, Pcs, files,
        SameTurns
  <2> QED
    BY <1>6, <2>1 DEF SlotStep
<1>7. ASSUME NEW t \in Turns, SayStale(t) PROVE SlotStep
  <2>1. KeepsSlots
    BY <1>0, <1>7
    DEF SayStale, SameSlots, StartPcs, RunPcs, KeepsSlots, MovedTo, Pcs, files, SameTurns
  <2> QED
    BY <1>7, <2>1 DEF SlotStep
<1>8. ASSUME NEW t \in Turns, Accept(t) PROVE SlotStep
  <2>1. KeepsSlots
    BY <1>0, <1>8
    DEF Accept, SameSlots, StartPcs, RunPcs, KeepsSlots, MovedTo, Pcs, files, SameTurns
  <2> QED
    BY <1>8, <2>1 DEF SlotStep
<1>9. ASSUME NEW t \in Turns, AppendPendingPair(t) PROVE SlotStep
  <2>1. KeepsSlots \/ Releases(t)
    BY <1>0, <1>9, GiveUpReleases
    DEF AppendPendingPair, SameSlots, StartPcs, RunPcs, KeepsSlots, MovedTo, Pcs, files,
        SameTurns, Releases
  <2> QED
    BY <1>9, <2>1 DEF SlotStep
<1>10. ASSUME NEW t \in Turns, RecordTurnStarted(t) PROVE SlotStep
  <2>1. KeepsSlots \/ Releases(t)
    BY <1>0, <1>10, GiveUpReleases
    DEF RecordTurnStarted, SameSlots, StartPcs, RunPcs, KeepsSlots, MovedTo, Pcs, files,
        SameTurns, Releases
  <2> QED
    BY <1>10, <2>1 DEF SlotStep
<1>11. ASSUME NEW t \in Turns, Announce(t) PROVE SlotStep
  <2>1. KeepsSlots \/ Releases(t)
    BY <1>0, <1>11, GiveUpReleases
    DEF Announce, SameSlots, StartPcs, RunPcs, KeepsSlots, MovedTo, Pcs, files, SameTurns,
        Releases
  <2> QED
    BY <1>11, <2>1 DEF SlotStep
<1>12. ASSUME NEW t \in Turns, Register(t) PROVE SlotStep
  <2>1. Registers(t)
    BY <1>0, <1>12 DEF Register, Registers, Pcs, RunPcs
  <2> QED
    BY <1>12, <2>1 DEF SlotStep
<1>13. ASSUME NEW t \in Turns, StartFails(t) PROVE SlotStep
  <2>1. KeepsSlots
    BY <1>0, <1>13
    DEF StartFails, SameSlots, StartPcs, RunPcs, KeepsSlots, MovedTo, Pcs, files, SameTurns,
        MarkFailed
  <2> QED
    BY <1>13, <2>1 DEF SlotStep
<1>14. ASSUME NEW t \in Turns, SayFailed(t, "startSay", "done") PROVE SlotStep
  <2>1. KeepsSlots
    BY <1>0, <1>14
    DEF SayFailed, SameSlots, StartPcs, RunPcs, KeepsSlots, MovedTo, Pcs, files, SameTurns
  <2> QED
    BY <1>14, <2>1 DEF SlotStep
<1>15. ASSUME NEW t \in Turns, CodexReady(t) PROVE SlotStep
  <2>1. registry' \in Registries
    BY <1>0, <1>15, RegistryEdited DEF CodexReady
  <2>2. KeepsSlots
    BY <1>0, <1>15, <2>1 DEF CodexReady, KeepsSlots, SameSlots, Registries
  <2> QED
    BY <2>2 DEF SlotStep
<1>16. ASSUME NEW t \in Turns, WriteDelta(t) PROVE SlotStep
  <2>1. UNCHANGED run \/ run' = [run EXCEPT ![t].broken = TRUE]
    BY <1>16 DEF WriteDelta
  <2>2. Running(t) \in BOOLEAN
    BY DEF Running
  <2>3. SameTurns
    BY <2>1, <2>2, RunTouched
  <2>4. KeepsSlots
    BY <1>0, <1>16, <2>3 DEF WriteDelta, SameTurns, KeepsSlots, SameSlots
  <2> QED
    BY <2>4 DEF SlotStep
<1>17. ASSUME NEW t \in Turns, CodexSettles(t) PROVE SlotStep
  <2>1. PICK o \in Outcomes(t) : run' = [run EXCEPT ![t].pc = "draining", ![t].outcome = o]
    BY <1>17 DEF CodexSettles
  <2>2. o \in {"none", "answer", "permission", "interrupted", "error"}
    BY DEF Outcomes
  <2>3. MovedTo(t, "draining")
    BY <2>1, <2>2, RunTouched
  <2>4. KeepsSlots
    BY <1>0, <1>17, <2>3
    DEF CodexSettles, Running, MovedTo, KeepsSlots, SameSlots, StartPcs, RunPcs
  <2> QED
    BY <2>4 DEF SlotStep
<1>18. ASSUME NEW t \in Turns, Drained(t) PROVE SlotStep
  <2>1. KeepsSlots
    BY <1>0, <1>18
    DEF Drained, SameSlots, StartPcs, RunPcs, KeepsSlots, MovedTo, Pcs, files, SameTurns
  <2> QED
    BY <1>18, <2>1 DEF SlotStep
<1>19. ASSUME NEW t \in Turns, PersistIntent(t) PROVE SlotStep
  <2>1. KeepsSlots
    BY <1>0, <1>19
    DEF PersistIntent, SameSlots, StartPcs, RunPcs, KeepsSlots, MovedTo, Pcs, files,
        SameTurns, ToLock
  <2> QED
    BY <1>19, <2>1 DEF SlotStep
<1>20. ASSUME NEW t \in Turns, SaveAnswer(t) PROVE SlotStep
  <2>1. KeepsSlots
    BY <1>0, <1>20
    DEF SaveAnswer, SameSlots, StartPcs, RunPcs, KeepsSlots, MovedTo, Pcs, files, SameTurns
  <2> QED
    BY <1>20, <2>1 DEF SlotStep
<1>21. ASSUME NEW t \in Turns, MarkCompleted(t) PROVE SlotStep
  <2>1. KeepsSlots
    BY <1>0, <1>21
    DEF MarkCompleted, SameSlots, StartPcs, RunPcs, KeepsSlots, MovedTo, Pcs, files, SameTurns
  <2> QED
    BY <1>21, <2>1 DEF SlotStep
<1>22. ASSUME NEW t \in Turns, Publish(t) PROVE SlotStep
  <2>1. KeepsSlots
    BY <1>0, <1>22
    DEF Publish, SameSlots, StartPcs, RunPcs, KeepsSlots, MovedTo, Pcs, files, SameTurns
  <2> QED
    BY <1>22, <2>1 DEF SlotStep
<1>23. ASSUME NEW t \in Turns, Warn(t) PROVE SlotStep
  <2>1. KeepsSlots
    BY <1>0, <1>23
    DEF Warn, SameSlots, StartPcs, RunPcs, KeepsSlots, MovedTo, Pcs, files, SameTurns
  <2> QED
    BY <1>23, <2>1 DEF SlotStep
<1>24. ASSUME NEW t \in Turns, Salvage(t) PROVE SlotStep
  <2>1. KeepsSlots
    BY <1>0, <1>24
    DEF Salvage, SameSlots, StartPcs, RunPcs, KeepsSlots, MovedTo, Pcs, files, SameTurns
  <2> QED
    BY <1>24, <2>1 DEF SlotStep
<1>25. ASSUME NEW t \in Turns, RunFails(t) PROVE SlotStep
  <2>1. KeepsSlots
    BY <1>0, <1>25
    DEF RunFails, SameSlots, StartPcs, RunPcs, KeepsSlots, MovedTo, Pcs, files, SameTurns,
        MarkFailed
  <2> QED
    BY <1>25, <2>1 DEF SlotStep
<1>26. ASSUME NEW t \in Turns, RunRefused(t) PROVE SlotStep
  <2>1. KeepsSlots
    BY <1>0, <1>26
    DEF RunRefused, SameSlots, StartPcs, RunPcs, KeepsSlots, MovedTo, Pcs, files, SameTurns
  <2> QED
    BY <1>26, <2>1 DEF SlotStep
<1>27. ASSUME NEW t \in Turns, SayRefused(t) PROVE SlotStep
  <2>1. KeepsSlots
    BY <1>0, <1>27
    DEF SayRefused, SameSlots, StartPcs, RunPcs, KeepsSlots, MovedTo, Pcs, files, SameTurns,
        ToLock
  <2> QED
    BY <1>27, <2>1 DEF SlotStep
<1>28. ASSUME NEW t \in Turns, SayFailed(t, "sayFailed", "end") PROVE SlotStep
  <2>1. KeepsSlots
    BY <1>0, <1>28
    DEF SayFailed, SameSlots, StartPcs, RunPcs, KeepsSlots, MovedTo, Pcs, files, SameTurns
  <2> QED
    BY <1>28, <2>1 DEF SlotStep
<1>29. ASSUME NEW t \in Turns, EndRun(t) PROVE SlotStep
  <2>1. Unregisters(t)
    BY <1>0, <1>29 DEF EndRun, Unregisters, Pcs, RunPcs
  <2> QED
    BY <1>29, <2>1 DEF SlotStep
<1>30. ASSUME NEW t \in Turns, CancelArrives(t) PROVE SlotStep
  <2>1. KeepsSlots
    BY <1>0, <1>30
    DEF CancelArrives, SameSlots, StartPcs, RunPcs, KeepsSlots, MovedTo, Pcs, files, SameTurns
  <2> QED
    BY <1>30, <2>1 DEF SlotStep
<1>31. ASSUME NEW t \in Turns, CancelLoads(t) PROVE SlotStep
  <2>1. KeepsSlots \/ Unregisters(t)
    BY <1>0, <1>31
    DEF CancelLoads, Unregisters, SameTurns, files, SameSlots, StartPcs, RunPcs, KeepsSlots,
        Dismissed, PairOf
  <2> QED
    BY <1>31, <2>1 DEF SlotStep
<1>32. ASSUME NEW t \in Turns, Interrupt(t) PROVE SlotStep
  <2>1. UNCHANGED run \/ run' = [run EXCEPT ![t].interrupted = Running(t)]
    BY <1>32 DEF Interrupt
  <2>2. Running(t) \in BOOLEAN
    BY DEF Running
  <2>3. SameTurns
    BY <2>1, <2>2, RunTouched
  <2>4. KeepsSlots
    BY <1>0, <1>32, <2>3 DEF Interrupt, SameTurns, KeepsSlots, SameSlots
  <2> QED
    BY <2>4 DEF SlotStep
<1>33. ASSUME NEW t \in Turns, MarkCanceled(t) PROVE SlotStep
  <2>1. KeepsSlots \/ Unregisters(t)
    BY <1>0, <1>33
    DEF MarkCanceled, Unregisters, SameTurns, files, SameSlots, StartPcs, RunPcs, KeepsSlots,
        Dismissed, PairOf
  <2> QED
    BY <1>33, <2>1 DEF SlotStep
<1>34. ASSUME NEW t \in Turns, SayCanceled(t) PROVE SlotStep
  <2>1. KeepsSlots \/ Unregisters(t)
    BY <1>0, <1>34
    DEF SayCanceled, Unregisters, SameTurns, files, SameSlots, StartPcs, RunPcs, KeepsSlots,
        Dismissed, PairOf
  <2> QED
    BY <1>34, <2>1 DEF SlotStep
<1>35. ASSUME NEW v \in Readers, NEW th \in Threads, ReadThread(v, th) PROVE SlotStep
  <2>1. KeepsSlots
    BY <1>0, <1>35
    DEF ReadThread, SameSlots, StartPcs, RunPcs, KeepsSlots, MovedTo, Pcs, files, SameTurns
  <2> QED
    BY <1>35, <2>1 DEF SlotStep
<1>36. ASSUME NEW v \in Readers, NEW t \in Turns, ReadEvents(v, t) PROVE SlotStep
  <2>1. KeepsSlots
    BY <1>0, <1>36
    DEF ReadEvents, SameSlots, StartPcs, RunPcs, KeepsSlots, MovedTo, Pcs, files, SameTurns
  <2> QED
    BY <1>36, <2>1 DEF SlotStep
<1>37. ASSUME NEW v \in Readers, SnapshotEvents(v) PROVE SlotStep
  <2>1. KeepsSlots
    BY <1>0, <1>37
    DEF SnapshotEvents, SameSlots, StartPcs, RunPcs, KeepsSlots, MovedTo, Pcs, files,
        SameTurns
  <2> QED
    BY <1>37, <2>1 DEF SlotStep
<1>38. ASSUME NEW v \in Readers, Reconcile(v) PROVE SlotStep
  <2>1. KeepsSlots
    BY <1>0, <1>38
    DEF Reconcile, SameSlots, StartPcs, RunPcs, KeepsSlots, MovedTo, Pcs, files, SameTurns
  <2> QED
    BY <1>38, <2>1 DEF SlotStep
<1>39. ASSUME Crash PROVE SlotStep
  <2>1. Empties
    BY <1>0, <1>39 DEF Crash, Empties, Over, IdleRun
  <2> QED
    BY <2>1 DEF SlotStep
<1> QED
  BY <1>1, <1>2, <1>3, <1>4, <1>5, <1>6, <1>7, <1>8, <1>9, <1>10, <1>11, <1>12, <1>13, <1>14,
     <1>15, <1>16, <1>17, <1>18, <1>19, <1>20, <1>21, <1>22, <1>23, <1>24, <1>25, <1>26,
     <1>27, <1>28, <1>29, <1>30, <1>31, <1>32, <1>33, <1>34, <1>35, <1>36, <1>37, <1>38, <1>39
  DEF Next, Request, Start, Proceed, Cancel, Read

\* What the registry says, thread by thread and turn by turn.
SlotFacts ==
    /\ registry.held = Cardinality(registry.admitted) /\ registry.held <= MaxTurns
    /\ \A th \in Threads :
          /\ th \in registry.admitted <=> th \in registry.reserved \/ registry.active[th] # None
          /\ th \in registry.reserved => registry.active[th] = None
          /\ th \in registry.reserved =>
                \E t \in Turns : run[t].thread = th /\ run[t].pc \in StartPcs
          /\ registry.active[th] # None => /\ registry.active[th] \in registry.turns
                                           /\ run[registry.active[th]].thread = th
    /\ \A t \in registry.turns : /\ run[t].pc \in RunPcs
                                 /\ run[t].thread \in Threads
                                 /\ registry.active[run[t].thread] = t
    /\ \A t \in Turns : run[t].pc \in StartPcs => run[t].thread \in registry.reserved
    /\ \A t, u \in Turns :
          run[t].pc \in StartPcs /\ run[u].pc \in StartPcs /\ run[t].thread = run[u].thread => t = u

\* They follow from the invariant...
LEMMA SlotFactsHold ==
    ASSUME registry \in Registries, SlotInv
    PROVE  SlotFacts
<1>0. /\ registry.reserved \subseteq Threads /\ registry.admitted \subseteq Threads
      /\ registry.turns \subseteq Turns /\ None \notin Turns
      /\ \A th \in Threads : registry.active[th] \in Turns \cup {None}
  BY TurnAssumption DEF Registries
<1>1. /\ registry.admitted = registry.reserved \cup {th \in Threads : registry.active[th] # None}
      /\ \A th \in registry.reserved : registry.active[th] = None
      /\ registry.turns = {registry.active[th] : th \in Threads} \ {None}
      /\ \A th \in registry.reserved : \E t \in Turns : run[t].thread = th /\ run[t].pc \in StartPcs
      /\ \A t \in registry.turns : run[t].pc \in RunPcs
  BY DEF SlotInv, SlotsBalanced, Thread
<1>2. \A th \in Threads : registry.active[th] # None =>
         registry.active[th] \in registry.turns /\ run[registry.active[th]].thread = th
  BY <1>1 DEF SlotInv
<1>3. \A t \in registry.turns : \E th \in Threads : registry.active[th] = t /\ t # None
  BY <1>1
<1>4. \A t \in registry.turns : run[t].thread \in Threads /\ registry.active[run[t].thread] = t
  BY <1>2, <1>3
<1> QED
  BY <1>0, <1>1, <1>2, <1>4 DEF SlotInv, SlotsBalanced, SlotFacts

\* ... and give it after a step.
LEMMA SlotFactsSuffice ==
    ASSUME registry' \in Registries, SlotFacts'
    PROVE  SlotInv'
<1>0. /\ registry'.reserved \subseteq Threads /\ registry'.admitted \subseteq Threads
      /\ registry'.turns \subseteq Turns /\ None \notin Turns
      /\ \A th \in Threads : registry'.active[th] \in Turns \cup {None}
  BY TurnAssumption DEF Registries
<1>1. registry'.admitted = registry'.reserved \cup {th \in Threads : registry'.active[th] # None}
  BY <1>0 DEF SlotFacts
<1>2. registry'.turns \subseteq {registry'.active[th] : th \in Threads} \ {None}
  BY <1>0 DEF SlotFacts
<1>3. {registry'.active[th] : th \in Threads} \ {None} \subseteq registry'.turns
  BY <1>0 DEF SlotFacts
<1> QED
  BY <1>0, <1>1, <1>2, <1>3 DEF SlotFacts, SlotInv, SlotsBalanced, Thread

\* What the methods of the registry change.
AdmissionGone(g, h, th) == h.admitted = g.admitted \ {th} /\ h.held = g.held - 1
Same(g, h) == h.active = g.active /\ h.turns = g.turns

\* An admitted thread gives its slot back.
LEMMA AdmissionFields ==
    ASSUME NEW g \in Registries, NEW th \in g.admitted
    PROVE  /\ Same(g, ReleaseAdmission(g, th)) /\ ReleaseAdmission(g, th).reserved = g.reserved
           /\ AdmissionGone(g, ReleaseAdmission(g, th), th)
BY DEF ReleaseAdmission, Registries, Same, AdmissionGone

\* A reservation takes one.
LEMMA ReserveFields ==
    ASSUME NEW g \in Registries, NEW th \in Threads
    PROVE  /\ Same(g, Reserve(g, th))
           /\ Reserve(g, th).reserved = g.reserved \cup {th}
           /\ Reserve(g, th).admitted = g.admitted \cup {th}
           /\ Reserve(g, th).held = g.held + 1
BY DEF Reserve, Registries, Same

\* A reservation that is released gives it back.
LEMMA ReleaseFields ==
    ASSUME NEW g \in Registries, NEW th \in Threads, g.active[th] = None, th \in g.admitted
    PROVE  /\ Same(g, ReleaseThread(g, th))
           /\ ReleaseThread(g, th).reserved = g.reserved \ {th}
           /\ AdmissionGone(g, ReleaseThread(g, th), th)
<1> DEFINE h == [g EXCEPT !.reserved = g.reserved \ {th}]
<1>1. h \in Registries /\ h.active = g.active /\ h.turns = g.turns
      /\ h.reserved = g.reserved \ {th} /\ h.admitted = g.admitted /\ h.held = g.held
  BY DEF Registries
<1>2. ReleaseThread(g, th) = ReleaseAdmission(h, th)
  BY DEF ReleaseThread
<1> HIDE DEF h
<1> QED
  BY <1>1, <1>2, AdmissionFields DEF Same, AdmissionGone

\* The turn takes over the slot of the reservation.
LEMMA RegisterFields ==
    ASSUME NEW g \in Registries, NEW th \in Threads, NEW t \in Turns, th \in g.admitted
    PROVE  /\ RegisterTurn(g, t, th).active = [g.active EXCEPT ![th] = t]
           /\ RegisterTurn(g, t, th).turns = g.turns \cup {t}
           /\ RegisterTurn(g, t, th).reserved = g.reserved \ {th}
           /\ RegisterTurn(g, t, th).admitted = g.admitted
           /\ RegisterTurn(g, t, th).held = g.held
<1>1. g.admitted \cup {th} = g.admitted
  OBVIOUS
<1> QED
  BY <1>1 DEF RegisterTurn, Registries

\* A turn that is unregistered gives it back.
LEMMA UnregisterFields ==
    ASSUME NEW g \in Registries, NEW th \in Threads, NEW t \in g.turns, th \in g.admitted
    PROVE  /\ Unregister(g, t, th).active = [g.active EXCEPT ![th] = None]
           /\ Unregister(g, t, th).turns = g.turns \ {t}
           /\ Unregister(g, t, th).reserved = g.reserved \ {th}
           /\ AdmissionGone(g, Unregister(g, t, th), th)
<1> DEFINE h == [g EXCEPT !.turns = g.turns \ {t}, !.ready = g.ready \ {t},
                          !.active = [g.active EXCEPT ![th] = None],
                          !.reserved = g.reserved \ {th}]
<1>1. h \in Registries
  BY DEF Registries
<1>2. h.active = [g.active EXCEPT ![th] = None] /\ h.turns = g.turns \ {t}
      /\ h.reserved = g.reserved \ {th} /\ h.admitted = g.admitted /\ h.held = g.held
  BY DEF Registries
<1>3. Unregister(g, t, th) = ReleaseAdmission(h, th)
  BY DEF Unregister
<1> HIDE DEF h
<1> QED
  BY <1>1, <1>2, <1>3, AdmissionFields DEF Same, AdmissionGone

\* Slots are counted by the threads that hold one.
LEMMA SlotsCounted ==
    ASSUME NEW S \in SUBSET Threads, NEW th \in Threads
    PROVE  /\ Cardinality(S) \in Nat
           /\ th \notin S => Cardinality(S \cup {th}) = Cardinality(S) + 1
           /\ th \in S => Cardinality(S \ {th}) = Cardinality(S) - 1
<1>1. IsFiniteSet(S)
  BY TurnAssumption, FS_Subset
<1> QED
  BY <1>1, FS_CardinalityType, FS_AddElement, FS_RemoveElement

\* The slots stay balanced.
LEMMA SlotsKept ==
    ASSUME TypeOK, RequestInv, SlotInv, SlotStep
    PROVE  SlotInv'
<1>0. /\ registry \in Registries /\ run \in [Turns -> Runs]
      /\ registry.active \in [Threads -> Turns \cup {None}]
      /\ registry.reserved \subseteq Threads /\ registry.admitted \subseteq Threads
      /\ registry.turns \subseteq Turns /\ None \notin Turns /\ registry.held \in Int
      /\ SlotFacts
      /\ MaxTurns \in Nat
      /\ \A t \in Turns : run[t].pc # "idle" => run[t].thread \in Threads
  BY TurnAssumption, SlotFactsHold DEF TypeOK, Registries, RequestInv
<1>1. CASE KeepsSlots
  <2>1. SlotFacts'
    BY <1>0, <1>1 DEF KeepsSlots, SameSlots, SlotFacts, RunPcs, StartPcs
  <2> QED
    BY <1>1, <2>1, SlotFactsSuffice DEF KeepsSlots
<1>2. ASSUME NEW t \in Turns, Reserves(t) PROVE SlotInv'
  <2> DEFINE th == run[t].thread
  <2>1. th \in Threads /\ th \notin registry.reserved /\ registry.active[th] = None
        /\ th \notin registry.admitted
    BY <1>0, <1>2 DEF Reserves, Busy, Thread, SlotFacts
  <2>2. /\ registry' \in Registries
        /\ registry'.active = registry.active /\ registry'.turns = registry.turns
        /\ registry'.reserved = registry.reserved \cup {th}
        /\ registry'.admitted = registry.admitted \cup {th}
        /\ registry'.held = registry.held + 1
    <3>1. registry' = Reserve(registry, th)
      BY <1>2 DEF Reserves, Thread
    <3> QED
      BY <1>0, <2>1, <3>1, RegistryEdited, ReserveFields DEF Same
  <2>3. registry'.held = Cardinality(registry'.admitted) /\ registry'.held <= MaxTurns
    BY <1>0, <1>2, <2>1, <2>2, SlotsCounted DEF Reserves, SlotFacts
  <2>4. /\ run'[t].pc = "reserved" /\ run[t].pc = "loaded" /\ run'[t].thread = th
        /\ \A u \in Turns : u # t => run'[u] = run[u]
    BY <1>2 DEF Reserves, MovedTo
  <2>5. SlotFacts'
    BY <1>0, <2>1, <2>2, <2>3, <2>4 DEF SlotFacts, StartPcs, RunPcs
  <2> QED
    BY <2>2, <2>5, SlotFactsSuffice
<1>3. ASSUME NEW t \in Turns, Releases(t) PROVE SlotInv'
  <2> DEFINE th == run[t].thread
  <2>1. th \in Threads /\ th \in registry.reserved /\ registry.active[th] = None
        /\ th \in registry.admitted
    BY <1>0, <1>3 DEF Releases, SlotFacts
  <2>2. /\ registry' \in Registries
        /\ registry'.active = registry.active /\ registry'.turns = registry.turns
        /\ registry'.reserved = registry.reserved \ {th}
        /\ registry'.admitted = registry.admitted \ {th}
        /\ registry'.held = registry.held - 1
    <3>1. registry' = ReleaseThread(registry, th)
      BY <1>3 DEF Releases, Thread
    <3> QED
      BY <1>0, <2>1, <3>1, RegistryEdited, ReleaseFields DEF Same, AdmissionGone
  <2>3. registry'.held = Cardinality(registry'.admitted) /\ registry'.held <= MaxTurns
    BY <1>0, <2>1, <2>2, SlotsCounted DEF SlotFacts
  <2>4. /\ run[t].pc \in StartPcs /\ run'[t].pc \notin StartPcs \cup RunPcs
        /\ \A u \in Turns : u # t => run'[u] = run[u]
    BY <1>3 DEF Releases, MovedTo, StartPcs, RunPcs
  <2>5. SlotFacts'
    BY <1>0, <2>1, <2>2, <2>3, <2>4 DEF SlotFacts, StartPcs, RunPcs
  <2> QED
    BY <2>2, <2>5, SlotFactsSuffice
<1>4. ASSUME NEW t \in Turns, Registers(t) PROVE SlotInv'
  <2> DEFINE th == run[t].thread
  <2>1. th \in Threads /\ th \in registry.reserved /\ registry.active[th] = None
        /\ th \in registry.admitted /\ run[t].pc = "register"
    BY <1>0, <1>4 DEF Registers, SlotFacts, StartPcs
  <2>2. /\ registry' \in Registries
        /\ registry'.active = [registry.active EXCEPT ![th] = t]
        /\ registry'.turns = registry.turns \cup {t}
        /\ registry'.reserved = registry.reserved \ {th}
        /\ registry'.admitted = registry.admitted /\ registry'.held = registry.held
    <3>1. registry' = RegisterTurn(registry, t, th)
      BY <1>4 DEF Registers, Thread
    <3>2. registry' \in Registries
      BY <1>0, <2>1, <3>1, RegistryEdited
    <3> QED
      BY <1>0, <2>1, <3>1, <3>2, RegisterFields
  <2>4. /\ run'[t].pc = "running" /\ run'[t].thread = th
        /\ \A u \in Turns : u # t => run'[u] = run[u]
    BY <1>4 DEF Registers, MovedTo
  <2>5. SlotFacts'
    BY <1>0, <2>1, <2>2, <2>4 DEF SlotFacts, StartPcs, RunPcs
  <2> QED
    BY <2>2, <2>5, SlotFactsSuffice
<1>5. ASSUME NEW t \in Turns, Unregisters(t) PROVE SlotInv'
  <2> DEFINE th == run[t].thread
  <2>0. /\ run'[t].pc \notin RunPcs => run'[t].pc = "done" \/ run'[t].pc = run[t].pc
        /\ run'[t].pc \in StartPcs <=> run[t].pc \in StartPcs
        /\ run'[t].thread = run[t].thread
        /\ \A u \in Turns : u # t => run'[u].pc = run[u].pc /\ run'[u].thread = run[u].thread
    <3>1. CASE run[t].pc = "end" /\ MovedTo(t, "done")
      BY <3>1 DEF MovedTo, RunPcs, StartPcs
    <3>2. CASE SameTurns
      BY <3>2 DEF SameTurns
    <3> QED
      BY <1>5, <3>1, <3>2 DEF Unregisters
  <2>1. CASE t \notin registry.turns
    <3>1. registry' = registry
      BY <1>5, <2>1 DEF Unregisters, Unregister
    <3>2. SlotFacts'
      BY <1>0, <2>0, <2>1, <3>1 DEF SlotFacts
    <3> QED
      BY <1>0, <3>1, <3>2, SlotFactsSuffice
  <2>2. CASE t \in registry.turns
    <3>1. th \in Threads /\ registry.active[th] = t /\ t # None /\ th \notin registry.reserved
          /\ th \in registry.admitted
      BY <1>0, <2>2 DEF SlotFacts
    <3>2. /\ registry' \in Registries
          /\ registry'.active = [registry.active EXCEPT ![th] = None]
          /\ registry'.turns = registry.turns \ {t}
          /\ registry'.reserved = registry.reserved \ {th}
          /\ registry'.admitted = registry.admitted \ {th}
          /\ registry'.held = registry.held - 1
      <4>1. registry' = Unregister(registry, t, th)
        BY <1>5 DEF Unregisters, Thread
      <4>2. registry' \in Registries
        BY <1>0, <3>1, <4>1, RegistryEdited
      <4> QED
        BY <1>0, <2>2, <3>1, <4>1, <4>2, UnregisterFields DEF AdmissionGone
    <3>3. registry'.held = Cardinality(registry'.admitted) /\ registry'.held <= MaxTurns
      BY <1>0, <3>1, <3>2, SlotsCounted DEF SlotFacts
    <3>4. SlotFacts'
      BY <1>0, <2>0, <2>2, <3>1, <3>2, <3>3 DEF SlotFacts
    <3> QED
      BY <3>2, <3>4, SlotFactsSuffice
  <2> QED
    BY <2>1, <2>2
<1>6. CASE Empties
  <2>1. registry' \in Registries
    BY <1>0, <1>6, RegistryEdited DEF Empties
  <2>2. /\ registry'.active = [th \in Threads |-> None] /\ registry'.turns = {}
        /\ registry'.reserved = {} /\ registry'.admitted = {} /\ registry'.held = 0
    BY <1>6 DEF Empties, EmptyRegistry
  <2>3. SlotFacts'
    BY <1>0, <1>6, <2>2, FS_EmptySet DEF Empties, SlotFacts, StartPcs, RunPcs
  <2> QED
    BY <2>1, <2>3, SlotFactsSuffice
<1> QED
  BY <1>1, <1>2, <1>3, <1>4, <1>5, <1>6 DEF SlotStep
\* Where a request or run comes from.
RunsMove == \A u \in Turns :
    /\ run[u].pc # "idle" => /\ run'[u].pc # "idle"
                             /\ run'[u].thread = run[u].thread /\ run'[u].pair = run[u].pair
                             /\ run'[u].pc # "done" => run'[u].kind = run[u].kind
    /\ run'[u].pc \in EarlyPcs => \/ run[u].pc \in EarlyPcs /\ (run'[u].pc \in RunPcs =>
                                         run[u].pc \in RunPcs \cup {"register"})
                                  \/ run[u].pc = "start" /\ run'[u].pc = "announce"
    /\ run'[u].pc \in PrePcs => run[u].pc \in PrePcs
    /\ run'[u].pc \in {"idle", "loaded", "reserved"} => run[u].pc \in {"idle", "loaded", "reserved"}
    /\ run'[u].pc = "start" => run[u].pc \in {"reserved", "append", "start"}
    /\ u \in known => u \in known'

\* Every step moves them so.
LEMMA StepsMoveRuns ==
    ASSUME TypeOK, RequestInv, SlotInv, QuestionInv, RowInv, AnswerNeverDenied,
           SavedInv, RecordInv, EarlyInv, TurnStep
    PROVE  RunsMove
<1>0. /\ run \in [Turns -> Runs] /\ pair \in [Turns -> Pairs] /\ record \in [Turns -> Records]
      /\ cancel \in [Turns -> CancelPcs]
      /\ \A t \in Turns : /\ run[t].pc \in Pcs /\ run[t].thread \in Threads \cup {None}
                           /\ run[t].pair \in Turns \cup {None}
      /\ \A p \in Turns : pair[p].turn \in Turns \cup {None}
      /\ \A t \in registry.turns : run[t].pc \in RunPcs
      /\ None \notin Turns /\ None \notin Threads
  BY TurnAssumption DEF TypeOK, SlotInv, SlotsBalanced, Runs, Pairs
<1>1. CASE Stands
  BY <1>0, <1>1 DEF Stands, SameTurns, RunsMove, EarlyPcs, PrePcs, RunPcs
<1>2. ASSUME NEW t \in Turns, Loads(t) PROVE RunsMove
  BY <1>0, <1>2 DEF Loads, RunsMove, EarlyPcs, PrePcs, RunPcs
<1>3. ASSUME NEW t \in Turns, NEW to \in Pcs, Goes(t, to) PROVE RunsMove
  BY <1>0, <1>3 DEF Goes, MayMove, MovedTo, RunsMove, EarlyPcs, PrePcs, RunPcs
<1>4. ASSUME NEW t \in Turns, NEW to \in CancelPcs, Cancels(t, to) PROVE RunsMove
  BY <1>0, <1>4 DEF Cancels, SameTurns, CancelPcs, RunsMove, EarlyPcs, PrePcs, RunPcs
<1>5. ASSUME NEW t \in Turns, AppendsPair(t) PROVE RunsMove
  BY <1>0, <1>5 DEF AppendsPair, MovedTo, RunsMove, EarlyPcs, PrePcs, RunPcs
<1>6. ASSUME NEW t \in Turns, StartsRecord(t) PROVE RunsMove
  BY <1>0, <1>6 DEF StartsRecord, MovedTo, RunsMove, EarlyPcs, PrePcs, RunPcs
<1>7. ASSUME NEW t \in Turns, SavesAnswer(t) PROVE RunsMove
  BY <1>0, <1>7 DEF SavesAnswer, MovedTo, RunsMove, EarlyPcs, PrePcs, RunPcs
<1>8. ASSUME NEW t \in Turns, LeavesResponse(t) PROVE RunsMove
  BY <1>0, <1>8 DEF LeavesResponse, MovedTo, RunsMove, EarlyPcs, PrePcs, RunPcs
<1>9. ASSUME NEW t \in Turns, CompletesRecord(t) PROVE RunsMove
  BY <1>0, <1>9 DEF CompletesRecord, MovedTo, RunsMove, EarlyPcs, PrePcs, RunPcs
<1>10. ASSUME NEW t \in Turns, NEW status \in {"failed", "refused"},
              FailsRecord(t, status)
       PROVE  RunsMove
  BY <1>0, <1>10 DEF FailsRecord, MovedTo, RunsMove, EarlyPcs, PrePcs, RunPcs
<1>11. ASSUME NEW t \in Turns, FailsRow(t) PROVE RunsMove
  BY <1>0, <1>11 DEF FailsRow, MovedTo, RunsMove, EarlyPcs, PrePcs, RunPcs
<1>12. ASSUME NEW t \in Turns, CancelsRecord(t) PROVE RunsMove
  BY <1>0, <1>12 DEF CancelsRecord, SameTurns, RunsMove, EarlyPcs, PrePcs, RunPcs
<1>13. ASSUME NEW t \in Turns, CancelsRow(t) PROVE RunsMove
  BY <1>0, <1>13 DEF CancelsRow, SameTurns, RunsMove, EarlyPcs, PrePcs, RunPcs
<1>14. ASSUME NEW v \in Readers, Reconciles(v) PROVE RunsMove
  BY <1>0, <1>14 DEF Reconciles, SameTurns, RunsMove, EarlyPcs, PrePcs, RunPcs
<1>15. CASE Dies
  BY <1>0, <1>15 DEF Dies, RunsMove, EarlyPcs, PrePcs, RunPcs
<1> QED
  BY <1>1, <1>2, <1>3, <1>4, <1>5, <1>6, <1>7, <1>8, <1>9, <1>10, <1>11, <1>12, <1>13, <1>14,
     <1>15
  DEF TurnStep

\* A turn that may still save its answer loses its registration to a cancel only.
LEMMA RegisteredKept ==
    ASSUME TypeOK, RequestInv, SlotInv, QuestionInv, RowInv, AnswerNeverDenied,
           SavedInv, RecordInv, EarlyInv, RegisteredInv, TurnStep, SlotStep
    PROVE  RegisteredInv'
<1> SUFFICES ASSUME NEW u \in Turns, run'[u].pc \in EarlyPcs \cap RunPcs,
                    run'[u].kind # "message", u \notin registry'.turns
             PROVE  Ended(u)'
  BY DEF RegisteredInv
<1>0. /\ registry \in Registries
      /\ run[u].pc \in (EarlyPcs \cap RunPcs) \cup {"register"} /\ run[u].kind # "message"
      /\ run[u].thread \in Threads
      /\ Ended(u) => Ended(u)'
  BY StepsMoveRuns, StepsKeepRecords
  DEF RunsMove, RecordsStay, TypeOK, RequestInv, EarlyPcs, RunPcs
<1>1. CASE run[u].pc \in RunPcs /\ u \notin registry.turns
  BY <1>0, <1>1 DEF RegisteredInv, EarlyPcs, RunPcs
<1>2. CASE run[u].pc = "register" \/ u \in registry.turns
  <2>1. CASE KeepsSlots
    BY <1>0, <1>2, <2>1 DEF KeepsSlots, SameSlots, StartPcs, RunPcs
  <2>2. ASSUME NEW t \in Turns, Reserves(t) PROVE FALSE
    <3>1. registry' = Reserve(registry, Thread(t)) /\ u # t /\ run'[u] = run[u]
      BY <1>0, <2>2 DEF Reserves, MovedTo, EarlyPcs, RunPcs
    <3>2. registry'.turns = registry.turns
      BY <1>0, <3>1 DEF Reserve, Registries
    <3> QED
      BY <1>2, <3>1, <3>2 DEF EarlyPcs, RunPcs
  <2>3. ASSUME NEW t \in Turns, Releases(t) PROVE FALSE
    <3>1. registry' = ReleaseThread(registry, Thread(t)) /\ u # t /\ run'[u] = run[u]
      BY <1>0, <2>3 DEF Releases, MovedTo, EarlyPcs, RunPcs
    <3>2. registry'.turns = registry.turns
      BY <1>0, <3>1 DEF ReleaseThread, ReleaseAdmission, Registries
    <3> QED
      BY <1>2, <3>1, <3>2 DEF EarlyPcs, RunPcs
  <2>4. ASSUME NEW t \in Turns, Registers(t) PROVE FALSE
    <3>1. registry'.turns = registry.turns \cup {t}
      BY <1>0, <2>4 DEF Registers, RegisterTurn, Registries
    <3>2. u # t => run'[u] = run[u]
      BY <2>4 DEF Registers, MovedTo
    <3> QED
      BY <1>2, <3>1, <3>2 DEF EarlyPcs, RunPcs
  <2>5. ASSUME NEW t \in Turns, Unregisters(t) PROVE Ended(u)'
    <3>1. \/ registry'.turns = registry.turns
          \/ registry'.turns = registry.turns \ {t}
      BY <1>0, <2>5 DEF Unregisters, Unregister, ReleaseAdmission, Registries
    <3>2. CASE run[t].pc = "end" /\ MovedTo(t, "done")
      <4>1. u # t /\ run'[u] = run[u]
        BY <1>0, <3>2 DEF MovedTo, EarlyPcs, RunPcs
      <4> QED
        BY <1>2, <3>1, <4>1 DEF EarlyPcs, RunPcs
    <3>3. CASE SameTurns /\ UNCHANGED record /\ Dismissed(t)
      <4>1. u = t
        BY <1>2, <3>1, <3>3 DEF SameTurns, EarlyPcs, RunPcs
      <4>2. run[u].pc \in EarlyPcs
        BY <1>0 DEF EarlyPcs
      <4>3. ~\E p \in Turns : pair[p].turn = u /\ pair[p].answer
        BY <4>2 DEF SavedInv, EarlyPcs, SavedPcs
      <4>4. run[u].pair \in Turns
        BY <4>2 DEF RequestInv, EarlyPcs
      <4>5. CASE cancel[u] = "load" /\ HasTerminalStatus(u)
        <5>1. ~\E p \in Turns : pair[p].turn = u
          BY <1>0, <4>2, <4>5 DEF EarlyInv
        <5> QED
          BY <1>0, <4>5, <5>1 DEF HasTerminalStatus
      <4>6. CASE cancel[u] = "mark" /\ (Ended(u) \/ (pair[PairOf(u)].answer /\ pair[PairOf(u)].turn = u))
        BY <1>0, <4>3, <4>4, <4>6 DEF PairOf
      <4>7. CASE cancel[u] = "say"
        BY <1>0, <4>7 DEF RecordInv, Ended, Terminal
      <4> QED
        BY <3>3, <4>1, <4>5, <4>6, <4>7 DEF Dismissed
    <3> QED
      BY <2>5, <3>2, <3>3 DEF Unregisters
  <2>6. CASE Empties
    BY <2>6 DEF Empties, EarlyPcs, RunPcs
  <2> QED
    BY <2>1, <2>2, <2>3, <2>4, <2>5, <2>6 DEF SlotStep
<1> QED
  BY <1>0, <1>1, <1>2

\* When an event may be told.
MayTell(t, e) ==
    \/ e \in {"stale", "started", "delta"} /\ run[t].pc \in {"sayStale", "announce", "running", "draining"}
    \/ e = "completed" /\ run[t].pc \in {"publish", "warn", "salvage"}
    \/ e = "permission" /\ run[t].pc = "sayRefused"
    \/ e = "failed" /\ run[t].pc \in {"startSay", "sayFailed"}
    \/ e = "canceled" /\ cancel[t] = "say"

Tells(t, e) == MayTell(t, e) /\ Emit(t, e) /\ UNCHANGED <<record, answered>>

StreamStep ==
    \/ UNCHANGED stream
    \/ \E t \in Turns : \E e \in EventTypes : Tells(t, e)
    \/ \E v \in Readers : Reconcile(v)

\* Every step leaves the streams, tells one event in its time or repairs them.
LEMMA StepsOfStreams == Next => StreamStep
<1>1. ASSUME NEW t \in Turns, NEW th \in Threads, LoadMessage(t, th) PROVE StreamStep
  BY <1>1 DEF LoadMessage, files, StreamStep
<1>2. ASSUME NEW t \in Turns, NEW p \in Turns, LoadRegenerate(t, p) PROVE StreamStep
  BY <1>2 DEF LoadRegenerate, files, StreamStep
<1>3. ASSUME NEW t \in Turns, ReserveThread(t) PROVE StreamStep
  BY <1>3 DEF ReserveThread, files, StreamStep
<1>4. ASSUME NEW t \in Turns, Refuse(t) PROVE StreamStep
  BY <1>4 DEF Refuse, files, StreamStep
<1>5. ASSUME NEW t \in Turns, FindStale(t) PROVE StreamStep
  BY <1>5 DEF FindStale, files, StreamStep
<1>6. ASSUME NEW t \in Turns, MarkThreadStale(t) PROVE StreamStep
  BY <1>6 DEF MarkThreadStale, files, StreamStep
<1>7. ASSUME NEW t \in Turns, SayStale(t) PROVE StreamStep
  <2>1. UNCHANGED stream \/ Tells(t, "stale")
    BY <1>7 DEF SayStale, files, Tells, MayTell, EventTypes
  <2> QED
    BY <2>1 DEF StreamStep, EventTypes
<1>8. ASSUME NEW t \in Turns, Accept(t) PROVE StreamStep
  BY <1>8 DEF Accept, files, StreamStep
<1>9. ASSUME NEW t \in Turns, AppendPendingPair(t) PROVE StreamStep
  BY <1>9 DEF AppendPendingPair, files, StreamStep
<1>10. ASSUME NEW t \in Turns, RecordTurnStarted(t) PROVE StreamStep
  BY <1>10 DEF RecordTurnStarted, files, StreamStep
<1>11. ASSUME NEW t \in Turns, Announce(t) PROVE StreamStep
  <2>1. UNCHANGED stream \/ Tells(t, "started")
    BY <1>11 DEF Announce, files, Tells, MayTell, EventTypes
  <2> QED
    BY <2>1 DEF StreamStep, EventTypes
<1>12. ASSUME NEW t \in Turns, Register(t) PROVE StreamStep
  BY <1>12 DEF Register, files, StreamStep
<1>13. ASSUME NEW t \in Turns, StartFails(t) PROVE StreamStep
  BY <1>13 DEF StartFails, files, MarkFailed, StreamStep
<1>14. ASSUME NEW t \in Turns, SayFailed(t, "startSay", "done") PROVE StreamStep
  <2>1. UNCHANGED stream \/ Tells(t, "failed")
    BY <1>14 DEF SayFailed, files, Tells, MayTell, EventTypes
  <2> QED
    BY <2>1 DEF StreamStep, EventTypes
<1>15. ASSUME NEW t \in Turns, CodexReady(t) PROVE StreamStep
  BY <1>15 DEF CodexReady, files, StreamStep
<1>16. ASSUME NEW t \in Turns, WriteDelta(t) PROVE StreamStep
  <2>1. UNCHANGED stream \/ Tells(t, "delta")
    BY <1>16 DEF WriteDelta, files, Tells, MayTell, EventTypes
  <2> QED
    BY <2>1 DEF StreamStep, EventTypes
<1>17. ASSUME NEW t \in Turns, CodexSettles(t) PROVE StreamStep
  BY <1>17 DEF CodexSettles, files, StreamStep
<1>18. ASSUME NEW t \in Turns, Drained(t) PROVE StreamStep
  BY <1>18 DEF Drained, files, StreamStep
<1>19. ASSUME NEW t \in Turns, PersistIntent(t) PROVE StreamStep
  BY <1>19 DEF PersistIntent, files, StreamStep
<1>20. ASSUME NEW t \in Turns, SaveAnswer(t) PROVE StreamStep
  BY <1>20 DEF SaveAnswer, files, StreamStep
<1>21. ASSUME NEW t \in Turns, MarkCompleted(t) PROVE StreamStep
  BY <1>21 DEF MarkCompleted, files, StreamStep
<1>22. ASSUME NEW t \in Turns, Publish(t) PROVE StreamStep
  <2>1. UNCHANGED stream \/ Tells(t, "completed")
    BY <1>22 DEF Publish, files, Tells, MayTell, EventTypes
  <2> QED
    BY <2>1 DEF StreamStep, EventTypes
<1>23. ASSUME NEW t \in Turns, Warn(t) PROVE StreamStep
  <2>1. UNCHANGED stream \/ Tells(t, "completed")
    BY <1>23 DEF Warn, files, Tells, MayTell, EventTypes
  <2> QED
    BY <2>1 DEF StreamStep, EventTypes
<1>24. ASSUME NEW t \in Turns, Salvage(t) PROVE StreamStep
  <2>1. UNCHANGED stream \/ Tells(t, "completed")
    BY <1>24 DEF Salvage, files, Tells, MayTell, EventTypes
  <2> QED
    BY <2>1 DEF StreamStep, EventTypes
<1>25. ASSUME NEW t \in Turns, RunFails(t) PROVE StreamStep
  BY <1>25 DEF RunFails, files, MarkFailed, StreamStep
<1>26. ASSUME NEW t \in Turns, RunRefused(t) PROVE StreamStep
  BY <1>26 DEF RunRefused, files, StreamStep
<1>27. ASSUME NEW t \in Turns, SayRefused(t) PROVE StreamStep
  <2>1. UNCHANGED stream \/ Tells(t, "permission")
    BY <1>27 DEF SayRefused, files, Tells, MayTell, EventTypes
  <2> QED
    BY <2>1 DEF StreamStep, EventTypes
<1>28. ASSUME NEW t \in Turns, SayFailed(t, "sayFailed", "end") PROVE StreamStep
  <2>1. UNCHANGED stream \/ Tells(t, "failed")
    BY <1>28 DEF SayFailed, files, Tells, MayTell, EventTypes
  <2> QED
    BY <2>1 DEF StreamStep, EventTypes
<1>29. ASSUME NEW t \in Turns, EndRun(t) PROVE StreamStep
  BY <1>29 DEF EndRun, files, StreamStep
<1>30. ASSUME NEW t \in Turns, CancelArrives(t) PROVE StreamStep
  BY <1>30 DEF CancelArrives, files, StreamStep
<1>31. ASSUME NEW t \in Turns, CancelLoads(t) PROVE StreamStep
  BY <1>31 DEF CancelLoads, files, StreamStep
<1>32. ASSUME NEW t \in Turns, Interrupt(t) PROVE StreamStep
  BY <1>32 DEF Interrupt, files, StreamStep
<1>33. ASSUME NEW t \in Turns, MarkCanceled(t) PROVE StreamStep
  BY <1>33 DEF MarkCanceled, files, StreamStep
<1>34. ASSUME NEW t \in Turns, SayCanceled(t) PROVE StreamStep
  <2>1. UNCHANGED stream \/ Tells(t, "canceled")
    BY <1>34 DEF SayCanceled, files, Tells, MayTell, EventTypes
  <2> QED
    BY <2>1 DEF StreamStep, EventTypes
<1>35. ASSUME NEW v \in Readers, NEW th \in Threads, ReadThread(v, th) PROVE StreamStep
  BY <1>35 DEF ReadThread, files, StreamStep
<1>36. ASSUME NEW v \in Readers, NEW t \in Turns, ReadEvents(v, t) PROVE StreamStep
  BY <1>36 DEF ReadEvents, files, StreamStep
<1>37. ASSUME NEW v \in Readers, SnapshotEvents(v) PROVE StreamStep
  BY <1>37 DEF SnapshotEvents, files, StreamStep
<1>38. ASSUME NEW v \in Readers, Reconcile(v) PROVE StreamStep
  BY <1>38 DEF StreamStep
<1>39. ASSUME Crash PROVE StreamStep
  BY <1>39 DEF Crash, files, StreamStep
<1> QED
  BY <1>1, <1>2, <1>3, <1>4, <1>5, <1>6, <1>7, <1>8, <1>9, <1>10, <1>11, <1>12, <1>13, <1>14,
     <1>15, <1>16, <1>17, <1>18, <1>19, <1>20, <1>21, <1>22, <1>23, <1>24, <1>25, <1>26,
     <1>27, <1>28, <1>29, <1>30, <1>31, <1>32, <1>33, <1>34, <1>35, <1>36, <1>37, <1>38, <1>39
  DEF Next, Request, Start, Proceed, Cancel, Read

\* What a reconciliation adds to a stream is what it left in the record.
LEMMA ReconcileTells ==
    ASSUME TypeOK, SavedInv, RecordInv, NEW v \in Readers, Reconcile(v), NEW u \in Turns
    PROVE  \/ stream'[u] = stream[u]
           \/ /\ stream'[u] = Append(stream[u], "completed") /\ u \in answered
              /\ run[u].pc \in SavedPcs
           \/ /\ stream'[u] = Append(stream[u], "canceled") /\ record'[u].status = "canceled"
              /\ run[u].pc \notin PrePcs
<1>0. record \in [Turns -> Records] /\ pair \in [Turns -> Pairs]
  BY DEF TypeOK
<1>1. CASE \E p \in PairsOf(v) : pair[p].answer /\ pair[p].turn = u
  <2>1. u \in answered /\ run[u].pc \in SavedPcs
    BY <1>1 DEF SavedInv, PairsOf
  <2>2. RepairedRecord(v)[u].status = "completed"
    BY <1>1 DEF RepairedRecord
  <2>3. stream'[u] = stream[u] \/ stream'[u] = Append(stream[u], "completed")
    BY <2>2 DEF Reconcile, RepairedStream
  <2> QED
    BY <2>1, <2>3
<1>2. CASE ~\E p \in PairsOf(v) : pair[p].answer /\ pair[p].turn = u
  <2>1. RepairedRecord(v)[u] = record[u]
    BY <1>2 DEF RepairedRecord
  <2>2. \/ stream'[u] = stream[u]
        \/ stream'[u] = Append(stream[u], "canceled") /\ record[u].status = "canceled"
    BY <1>2, <2>1 DEF Reconcile, RepairedStream
  <2>3. record[u].status = "canceled" => u \notin Interrupts(v)
    BY <2>1 DEF Interrupts, Abandoned, AbandonedRetry, Terminal
  <2>4. record[u].status = "canceled" => record'[u].status = "canceled"
    BY <2>1, <2>3 DEF Reconcile
  <2>5. record[u].status = "canceled" => run[u].pc \notin PrePcs
    BY DEF RecordInv, NotBegun
  <2> QED
    BY <2>2, <2>4, <2>5
<1> QED
  BY <1>1, <1>2

\* An event is told truly when it is told, and stays true.
Truly(u, e) ==
    /\ e = "completed" => u \in answered
    /\ e = "canceled" => record[u].status = "canceled"
    /\ e = "permission" => record[u].status \in {"failed", "refused"}
    /\ e = "failed" => record[u].status \in {"failed", "refused", "none"}

TrulyAfter(u, e) ==
    /\ e = "completed" => u \in answered'
    /\ e = "canceled" => record'[u].status = "canceled"
    /\ e = "permission" => record'[u].status \in {"failed", "refused"}
    /\ e = "failed" => record'[u].status \in {"failed", "refused", "none"}

\* A turn that answered has answered.
LEMMA AnsweredStays ==
    ASSUME TurnStep
    PROVE  answered \subseteq answered'
BY DEF TurnStep, Stands, Loads, Goes, Cancels, AppendsPair, StartsRecord, SavesAnswer,
   LeavesResponse,
       CompletesRecord, FailsRecord, FailsRow, CancelsRecord, CancelsRow, Reconciles, Dies, KeepsFiles

\* What the streams tell is so, whatever the step tells, repairs or writes.
LEMMA StreamsKept ==
    ASSUME TypeOK, RequestInv, SlotInv, QuestionInv, RowInv, AnswerNeverDenied,
           SavedInv, RecordInv, EarlyInv, StreamInv, TurnStep, StreamStep
    PROVE  StreamInv'
<1>0. /\ stream \in [Turns -> Seq(EventTypes)]
      /\ \A u \in Turns : run'[u].pc \in PrePcs => run[u].pc \in PrePcs
      /\ \A u \in Turns : run[u].pc \in PrePcs => stream[u] = <<>>
  BY StepsMoveRuns DEF RunsMove, TypeOK, StreamInv
<1>1. \A u \in Turns : \A i \in 1 .. Len(stream[u]) : Truly(u, stream[u][i])
  BY DEF StreamInv, EventsTellTheRecord, Truly
<1>2. ASSUME NEW u \in Turns, NEW e \in EventTypes, run[u].pc \notin PrePcs, Truly(u, e)
      PROVE  TrulyAfter(u, e)
  BY <1>2, StepsKeepRecords, AnsweredStays DEF RecordsStay, Truly, TrulyAfter
<1>3. ASSUME NEW u \in Turns
      PROVE  /\ \/ stream'[u] = stream[u]
                \/ \E e \in EventTypes : /\ stream'[u] = Append(stream[u], e)
                                         /\ run[u].pc \notin PrePcs
                                         /\ TrulyAfter(u, e)
  <2>1. ASSUME NEW t \in Turns, NEW e \in EventTypes, Tells(t, e)
        PROVE  \/ stream'[u] = stream[u]
               \/ /\ stream'[u] = Append(stream[u], e)
                  /\ run[u].pc \notin PrePcs
                  /\ TrulyAfter(u, e)
    <3>1. CASE u # t
      BY <1>0, <2>1, <3>1 DEF Tells, Emit
    <3>2. CASE u = t
      <4>1. stream'[u] = Append(stream[u], e) /\ MayTell(u, e)
        BY <1>0, <2>1, <3>2 DEF Tells, Emit
      <4>2. run[u].pc \notin PrePcs
        BY <4>1 DEF MayTell, PrePcs, RequestInv, RunPcs
      <4>3. Truly(u, e)
        BY <4>1 DEF MayTell, Truly, RecordInv, SavedInv, NotBegun
      <4> QED
        BY <1>2, <4>1, <4>2, <4>3
    <3> QED
      BY <3>1, <3>2
  <2>2. ASSUME NEW v \in Readers, Reconcile(v)
        PROVE  \/ stream'[u] = stream[u]
               \/ \E e \in EventTypes : /\ stream'[u] = Append(stream[u], e)
                                        /\ run[u].pc \notin PrePcs
                                        /\ TrulyAfter(u, e)
    <3>1. u \in answered => u \in answered'
      BY AnsweredStays
    <3> QED
      BY <2>2, <3>1, ReconcileTells DEF TrulyAfter, SavedPcs, PrePcs, EventTypes
  <2> QED
    BY <2>1, <2>2 DEF StreamStep
<1>4. \A u \in Turns : run'[u].pc \in PrePcs => stream'[u] = <<>>
  BY <1>0, <1>3
<1>5. ASSUME NEW u \in Turns, NEW i \in 1 .. Len(stream'[u])
      PROVE  TrulyAfter(u, stream'[u][i])
  <2>0. stream[u] \in Seq(EventTypes) /\ Len(stream[u]) \in Nat
    BY <1>0
  <2>1. ASSUME NEW j \in 1 .. Len(stream[u])
        PROVE  TrulyAfter(u, stream[u][j])
    <3>1. stream[u] # <<>> /\ run[u].pc \notin PrePcs /\ stream[u][j] \in EventTypes
      BY <1>0, <2>0, <2>1
    <3> QED
      BY <1>1, <1>2, <2>1, <3>1
  <2>2. CASE stream'[u] = stream[u]
    BY <1>5, <2>1, <2>2
  <2>3. ASSUME NEW e \in EventTypes, stream'[u] = Append(stream[u], e), TrulyAfter(u, e)
        PROVE  TrulyAfter(u, stream'[u][i])
    <3>1. CASE i \in 1 .. Len(stream[u])
      BY <2>0, <2>1, <2>3, <3>1
    <3>2. CASE i = Len(stream[u]) + 1
      BY <2>0, <2>3, <3>2
    <3> QED
      BY <1>5, <2>0, <2>3, <3>1, <3>2
  <2> QED
    BY <1>3, <2>2, <2>3
<1> QED
  BY <1>4, <1>5 DEF StreamInv, EventsTellTheRecord, TrulyAfter

-----------------------------------------------------------------------------
(* The locks and the reads.                                                  *)

\* Who joins a queue is behind whoever waits in it.
LEMMA QueueGrows ==
    ASSUME NEW s \in Seq(Actors), NEW a \in Actors, NEW b \in Actors, NEW c \in Actors
    PROVE  /\ Waiting(s, a) => Waiting(Append(s, c), a)
           /\ Waiting(Append(s, a), a)
           /\ ~Waiting(s, b) /\ b # c => ~Waiting(Append(s, c), b)
           /\ Ahead(s, a, b) /\ b # c => Ahead(Append(s, c), a, b)
           /\ Waiting(s, a) /\ ~Waiting(s, b) => Ahead(Append(s, b), a, b)
<1>0. /\ Len(s) \in Nat /\ Len(Append(s, c)) = Len(s) + 1
      /\ \A i \in 1 .. Len(s) : Append(s, c)[i] = s[i]
      /\ Append(s, c)[Len(s) + 1] = c
      /\ Len(Append(s, a)) = Len(s) + 1 /\ Append(s, a)[Len(s) + 1] = a
      /\ Len(Append(s, b)) = Len(s) + 1 /\ Append(s, b)[Len(s) + 1] = b
      /\ \A i \in 1 .. Len(s) : Append(s, b)[i] = s[i]
  OBVIOUS
<1>1. Waiting(s, a) => Waiting(Append(s, c), a)
  BY <1>0 DEF Waiting
<1>2. Waiting(Append(s, a), a)
  BY <1>0 DEF Waiting
<1>3. ~Waiting(s, b) /\ b # c => ~Waiting(Append(s, c), b)
  BY <1>0 DEF Waiting
<1>4. ASSUME Ahead(s, a, b), b # c PROVE Ahead(Append(s, c), a, b)
  <2> SUFFICES ASSUME NEW i \in 1 .. (Len(s) + 1), Append(s, c)[i] = b
               PROVE  \E j \in 1 .. (i - 1) : Append(s, c)[j] = a
    BY <1>0 DEF Ahead
  <2>1. i \in 1 .. Len(s) /\ s[i] = b
    BY <1>0, <1>4
  <2>2. PICK j \in 1 .. (i - 1) : s[j] = a
    BY <1>4, <2>1 DEF Ahead
  <2> QED
    BY <1>0, <2>1, <2>2
<1>5. ASSUME Waiting(s, a), ~Waiting(s, b) PROVE Ahead(Append(s, b), a, b)
  <2> SUFFICES ASSUME NEW i \in 1 .. (Len(s) + 1), Append(s, b)[i] = b
               PROVE  \E j \in 1 .. (i - 1) : Append(s, b)[j] = a
    BY <1>0 DEF Ahead
  <2>1. i = Len(s) + 1
    BY <1>0, <1>5 DEF Waiting
  <2>2. PICK j \in 1 .. Len(s) : s[j] = a
    BY <1>5 DEF Waiting
  <2> QED
    BY <1>0, <2>1, <2>2
<1> QED
  BY <1>1, <1>2, <1>3, <1>4, <1>5

\* When the head of a queue leaves, the others keep their order.
LEMMA QueueMovesUp ==
    ASSUME NEW s \in Seq(Actors), NEW a \in Actors, NEW b \in Actors, s # <<>>
    PROVE  /\ Tail(s) \in Seq(Actors)
           /\ Waiting(s, a) /\ Head(s) # a => Waiting(Tail(s), a)
           /\ ~Waiting(s, b) => ~Waiting(Tail(s), b)
           /\ Ahead(s, a, b) /\ Head(s) # a => Ahead(Tail(s), a, b)
           /\ Ahead(s, a, b) => Head(s) # b
           /\ ~Waiting(s, b) => Head(s) # b
<1>0. /\ Len(s) \in Nat /\ Len(s) > 0 /\ Head(s) = s[1] /\ Tail(s) \in Seq(Actors)
      /\ Len(Tail(s)) = Len(s) - 1
      /\ \A i \in 1 .. (Len(s) - 1) : Tail(s)[i] = s[i + 1]
  OBVIOUS
<1>1. ASSUME Waiting(s, a), Head(s) # a PROVE Waiting(Tail(s), a)
  <2>1. PICK j \in 1 .. Len(s) : s[j] = a
    BY <1>1 DEF Waiting
  <2>2. j - 1 \in 1 .. (Len(s) - 1) /\ Tail(s)[j - 1] = a
    BY <1>0, <1>1, <2>1
  <2> QED
    BY <1>0, <2>2 DEF Waiting
<1>2. ASSUME Waiting(Tail(s), b) PROVE Waiting(s, b)
  <2>1. PICK j \in 1 .. (Len(s) - 1) : Tail(s)[j] = b
    BY <1>0, <1>2 DEF Waiting
  <2>2. j + 1 \in 1 .. Len(s) /\ s[j + 1] = b
    BY <1>0, <2>1
  <2> QED
    BY <2>2 DEF Waiting
<1>3. ASSUME Ahead(s, a, b), Head(s) # a PROVE Ahead(Tail(s), a, b)
  <2> SUFFICES ASSUME NEW i \in 1 .. (Len(s) - 1), Tail(s)[i] = b
               PROVE  \E j \in 1 .. (i - 1) : Tail(s)[j] = a
    BY <1>0 DEF Ahead
  <2>1. i + 1 \in 1 .. Len(s) /\ s[i + 1] = b
    BY <1>0
  <2>2. PICK j \in 1 .. i : s[j] = a
    BY <1>3, <2>1 DEF Ahead
  <2>3. j - 1 \in 1 .. (i - 1) /\ Tail(s)[j - 1] = a
    BY <1>0, <1>3, <2>2
  <2> QED
    BY <2>3
<1>4. Ahead(s, a, b) => Head(s) # b
  BY <1>0 DEF Ahead
<1>5. ~Waiting(s, b) => Head(s) # b
  BY <1>0 DEF Waiting
<1> QED
  BY <1>0, <1>1, <1>2, <1>3, <1>4, <1>5

\* Who waits, who leaves, and what the requests do meanwhile.
OthersStay(t) == UNCHANGED reader /\ \A u \in Turns : u # t => run'[u] = run[u]

\* No lock: nobody starts to wait, or writes a record.
Passes ==
    /\ UNCHANGED <<lock, reader>>
    /\ \A u \in Turns :
          /\ run'[u].pc = "start" => run[u].pc = "start"
          /\ run'[u].pc = "announce" => run[u].pc = "announce"

RunWaits(t) ==
    /\ lock' = Queued(Thread(t), RunnerOf(t)) /\ OthersStay(t)
    /\ run[t].pc \notin {"idle", "loaded", "start"}
    /\ run'[t].pc \notin {"idle", "loaded", "reserved", "announce"}
    /\ run'[t].pc = "start" => run[t].pc = "reserved"

RunLeaves(t) ==
    /\ Holds(Thread(t), RunnerOf(t)) /\ OthersStay(t)
    /\ lock' = Released(Thread(t)) \/ lock' = Requeued(Thread(t), RunnerOf(t))
    /\ run[t].pc \notin {"idle", "loaded", "reserved"}
    /\ run'[t].pc \notin {"idle", "loaded", "reserved"}
    /\ run'[t].pc = "start" => run[t].kind = "message" /\ run'[t].kind = "message"

CancelMoves(t) ==
    /\ SameTurns /\ UNCHANGED reader /\ run[t].pc # "idle"
    /\ \/ lock' = Queued(Thread(t), CancelerOf(t))
       \/ Holds(Thread(t), CancelerOf(t)) /\ lock' = Released(Thread(t))

ReadMoves(v) ==
    /\ SameTurns /\ UNCHANGED registry
    /\ \/ \E th \in Threads : ReadThread(v, th)
       \/ \E t \in Turns : ReadEvents(v, t)
       \/ SnapshotEvents(v)
       \/ Reconcile(v)

Restarts ==
    /\ lock' = [th \in Threads |-> <<>>] /\ reader' = [v \in Readers |-> IdleReader]
    /\ \A t \in Turns : run'[t].pc \in {"idle", "done"}

QueueStep ==
    \/ Passes
    \/ \E t \in Turns : RunWaits(t)
    \/ \E t \in Turns : RunLeaves(t)
    \/ \E t \in Turns : CancelMoves(t)
    \/ \E v \in Readers : ReadMoves(v)
    \/ Restarts

\* Every step is of one of the kinds.
LEMMA StepsOfQueues ==
    ASSUME TypeOK, RequestInv, Next
    PROVE  QueueStep
<1>0. /\ \A t \in Turns, pc \in Pcs : Goto(t, pc) => MovedTo(t, pc)
      /\ \A t \in Turns, pc \in Pcs \ {"done"} : Settled(t, pc) => MovedTo(t, pc)
      /\ run \in [Turns -> Runs]
      /\ \A t \in Turns : cancel[t] # "idle" => run[t].pc # "idle"
      /\ \A t \in Turns : run[t].pc = "append" => run[t].kind = "message"
  BY GotoMoves, SettledMoves DEF TypeOK, RequestInv, RunPcs
<1>1. ASSUME NEW t \in Turns, NEW th \in Threads, LoadMessage(t, th) PROVE QueueStep
  <2>1. run'[t].pc = "loaded" /\ \A u \in Turns : u # t => run'[u] = run[u]
    BY <1>0, <1>1 DEF LoadMessage, IdleRun
  <2>2. Passes
    BY <1>1, <2>1 DEF LoadMessage, Passes
  <2> QED
    BY <2>2 DEF QueueStep
<1>2. ASSUME NEW t \in Turns, NEW p \in Turns, LoadRegenerate(t, p) PROVE QueueStep
  <2>1. run'[t].pc = "loaded" /\ \A u \in Turns : u # t => run'[u] = run[u]
    BY <1>0, <1>2 DEF LoadRegenerate, IdleRun
  <2>2. Passes
    BY <1>2, <2>1 DEF LoadRegenerate, Passes
  <2> QED
    BY <2>2 DEF QueueStep
<1>3. ASSUME NEW t \in Turns, ReserveThread(t) PROVE QueueStep
  <2>1. Passes
    BY <1>0, <1>3 DEF ReserveThread, Passes, MovedTo, Pcs, StartPcs, RunPcs
  <2> QED
    BY <2>1 DEF QueueStep
<1>4. ASSUME NEW t \in Turns, Refuse(t) PROVE QueueStep
  <2>1. Passes
    BY <1>0, <1>4 DEF Refuse, Passes, MovedTo, Pcs, StartPcs, RunPcs
  <2> QED
    BY <2>1 DEF QueueStep
<1>5. ASSUME NEW t \in Turns, FindStale(t) PROVE QueueStep
  <2>1. RunWaits(t)
    BY <1>0, <1>5 DEF FindStale, RunWaits, OthersStay, MovedTo, Pcs, StartPcs, RunPcs
  <2> QED
    BY <1>5, <2>1 DEF QueueStep
<1>6. ASSUME NEW t \in Turns, MarkThreadStale(t) PROVE QueueStep
  <2>1. RunLeaves(t)
    BY <1>0, <1>6 DEF MarkThreadStale, RunLeaves, OthersStay, MovedTo, Pcs, StartPcs, RunPcs
  <2> QED
    BY <1>6, <2>1 DEF QueueStep
<1>7. ASSUME NEW t \in Turns, SayStale(t) PROVE QueueStep
  <2>1. Passes
    BY <1>0, <1>7 DEF SayStale, Passes, MovedTo, Pcs, StartPcs, RunPcs
  <2> QED
    BY <2>1 DEF QueueStep
<1>8. ASSUME NEW t \in Turns, Accept(t) PROVE QueueStep
  <2>1. RunWaits(t)
    BY <1>0, <1>8 DEF Accept, RunWaits, OthersStay, MovedTo, Pcs, StartPcs, RunPcs
  <2> QED
    BY <1>8, <2>1 DEF QueueStep
<1>9. ASSUME NEW t \in Turns, AppendPendingPair(t) PROVE QueueStep
  <2>1. RunLeaves(t)
    BY <1>0, <1>9 DEF AppendPendingPair, RunLeaves, OthersStay, MovedTo, Pcs, StartPcs, RunPcs
  <2> QED
    BY <1>9, <2>1 DEF QueueStep
<1>10. ASSUME NEW t \in Turns, RecordTurnStarted(t) PROVE QueueStep
  <2>1. RunLeaves(t)
    BY <1>0, <1>10 DEF RecordTurnStarted, RunLeaves, OthersStay, MovedTo, Pcs, StartPcs, RunPcs
  <2> QED
    BY <1>10, <2>1 DEF QueueStep
<1>11. ASSUME NEW t \in Turns, Announce(t) PROVE QueueStep
  <2>1. Passes
    BY <1>0, <1>11 DEF Announce, Passes, MovedTo, Pcs, StartPcs, RunPcs
  <2> QED
    BY <2>1 DEF QueueStep
<1>12. ASSUME NEW t \in Turns, Register(t) PROVE QueueStep
  <2>1. Passes
    BY <1>0, <1>12 DEF Register, Passes, MovedTo, Pcs, StartPcs, RunPcs
  <2> QED
    BY <2>1 DEF QueueStep
<1>13. ASSUME NEW t \in Turns, StartFails(t) PROVE QueueStep
  <2>1. RunLeaves(t)
    BY <1>0, <1>13
    DEF StartFails, RunLeaves, MarkFailed, OthersStay, MovedTo, Pcs, StartPcs, RunPcs
  <2> QED
    BY <1>13, <2>1 DEF QueueStep
<1>14. ASSUME NEW t \in Turns, SayFailed(t, "startSay", "done") PROVE QueueStep
  <2>1. Passes
    BY <1>0, <1>14 DEF SayFailed, Passes, MovedTo, Pcs, StartPcs, RunPcs
  <2> QED
    BY <2>1 DEF QueueStep
<1>15. ASSUME NEW t \in Turns, CodexReady(t) PROVE QueueStep
  <2>1. Passes
    BY <1>0, <1>15 DEF CodexReady, Passes, MovedTo, Pcs, StartPcs, RunPcs
  <2> QED
    BY <2>1 DEF QueueStep
<1>16. ASSUME NEW t \in Turns, WriteDelta(t) PROVE QueueStep
  <2>1. UNCHANGED run \/ run' = [run EXCEPT ![t].broken = TRUE]
    BY <1>16 DEF WriteDelta
  <2>2. SameTurns
    BY <2>1, RunTouched
  <2>3. Passes
    BY <1>16, <2>2 DEF WriteDelta, SameTurns, Passes
  <2> QED
    BY <2>3 DEF QueueStep
<1>17. ASSUME NEW t \in Turns, CodexSettles(t) PROVE QueueStep
  <2>1. PICK o \in Outcomes(t) : run' = [run EXCEPT ![t].pc = "draining", ![t].outcome = o]
    BY <1>17 DEF CodexSettles
  <2>2. o \in {"none", "answer", "permission", "interrupted", "error"}
    BY DEF Outcomes
  <2>3. MovedTo(t, "draining")
    BY <2>1, <2>2, RunTouched
  <2>4. Passes
    BY <1>17, <2>3 DEF CodexSettles, MovedTo, Passes
  <2> QED
    BY <2>4 DEF QueueStep
<1>18. ASSUME NEW t \in Turns, Drained(t) PROVE QueueStep
  <2>1. RunWaits(t) \/ Passes
    BY <1>0, <1>18 DEF Drained, RunWaits, Passes, OthersStay, MovedTo, Pcs, StartPcs, RunPcs
  <2> QED
    BY <1>18, <2>1 DEF QueueStep
<1>19. ASSUME NEW t \in Turns, PersistIntent(t) PROVE QueueStep
  <2>1. RunWaits(t)
    BY <1>0, <1>19 DEF PersistIntent, RunWaits, ToLock, OthersStay, MovedTo, Pcs, StartPcs, RunPcs
  <2> QED
    BY <1>19, <2>1 DEF QueueStep
<1>20. ASSUME NEW t \in Turns, SaveAnswer(t) PROVE QueueStep
  <2>1. RunLeaves(t)
    BY <1>0, <1>20 DEF SaveAnswer, RunLeaves, OthersStay, MovedTo, Pcs, StartPcs, RunPcs
  <2> QED
    BY <1>20, <2>1 DEF QueueStep
<1>21. ASSUME NEW t \in Turns, MarkCompleted(t) PROVE QueueStep
  <2>1. RunLeaves(t)
    BY <1>0, <1>21 DEF MarkCompleted, RunLeaves, OthersStay, MovedTo, Pcs, StartPcs, RunPcs
  <2> QED
    BY <1>21, <2>1 DEF QueueStep
<1>22. ASSUME NEW t \in Turns, Publish(t) PROVE QueueStep
  <2>1. Passes
    BY <1>0, <1>22 DEF Publish, Passes, MovedTo, Pcs, StartPcs, RunPcs
  <2> QED
    BY <2>1 DEF QueueStep
<1>23. ASSUME NEW t \in Turns, Warn(t) PROVE QueueStep
  <2>1. Passes
    BY <1>0, <1>23 DEF Warn, Passes, MovedTo, Pcs, StartPcs, RunPcs
  <2> QED
    BY <2>1 DEF QueueStep
<1>24. ASSUME NEW t \in Turns, Salvage(t) PROVE QueueStep
  <2>1. Passes
    BY <1>0, <1>24 DEF Salvage, Passes, MovedTo, Pcs, StartPcs, RunPcs
  <2> QED
    BY <2>1 DEF QueueStep
<1>25. ASSUME NEW t \in Turns, RunFails(t) PROVE QueueStep
  <2>1. RunLeaves(t)
    BY <1>0, <1>25 DEF RunFails, RunLeaves, MarkFailed, OthersStay, MovedTo, Pcs, StartPcs, RunPcs
  <2> QED
    BY <1>25, <2>1 DEF QueueStep
<1>26. ASSUME NEW t \in Turns, RunRefused(t) PROVE QueueStep
  <2>1. RunLeaves(t)
    BY <1>0, <1>26 DEF RunRefused, RunLeaves, OthersStay, MovedTo, Pcs, StartPcs, RunPcs
  <2> QED
    BY <1>26, <2>1 DEF QueueStep
<1>27. ASSUME NEW t \in Turns, SayRefused(t) PROVE QueueStep
  <2>1. RunWaits(t) \/ Passes
    BY <1>0, <1>27
    DEF SayRefused, RunWaits, Passes, ToLock, OthersStay, MovedTo, Pcs, StartPcs, RunPcs
  <2> QED
    BY <1>27, <2>1 DEF QueueStep
<1>28. ASSUME NEW t \in Turns, SayFailed(t, "sayFailed", "end") PROVE QueueStep
  <2>1. Passes
    BY <1>0, <1>28 DEF SayFailed, Passes, MovedTo, Pcs, StartPcs, RunPcs
  <2> QED
    BY <2>1 DEF QueueStep
<1>29. ASSUME NEW t \in Turns, EndRun(t) PROVE QueueStep
  <2>1. Passes
    BY <1>0, <1>29 DEF EndRun, Passes, MovedTo, Pcs, StartPcs, RunPcs
  <2> QED
    BY <2>1 DEF QueueStep
<1>30. ASSUME NEW t \in Turns, CancelArrives(t) PROVE QueueStep
  <2>1. Passes
    BY <1>0, <1>30 DEF CancelArrives, Passes, MovedTo, Pcs, StartPcs, RunPcs
  <2> QED
    BY <2>1 DEF QueueStep
<1>31. ASSUME NEW t \in Turns, CancelLoads(t) PROVE QueueStep
  <2>1. Passes
    BY <1>0, <1>31 DEF CancelLoads, Passes, MovedTo, Pcs, StartPcs, RunPcs
  <2> QED
    BY <2>1 DEF QueueStep
<1>32. ASSUME NEW t \in Turns, Interrupt(t) PROVE QueueStep
  <2>1. UNCHANGED run \/ run' = [run EXCEPT ![t].interrupted = Running(t)]
    BY <1>32 DEF Interrupt
  <2>2. Running(t) \in BOOLEAN
    BY DEF Running
  <2>3. SameTurns
    BY <2>1, <2>2, RunTouched
  <2>4. CancelMoves(t)
    BY <1>0, <1>32, <2>3 DEF Interrupt, CancelMoves
  <2> QED
    BY <2>4 DEF QueueStep
<1>33. ASSUME NEW t \in Turns, MarkCanceled(t) PROVE QueueStep
  <2>1. CancelMoves(t)
    BY <1>0, <1>33 DEF MarkCanceled, CancelMoves, SameTurns
  <2> QED
    BY <2>1 DEF QueueStep
<1>34. ASSUME NEW t \in Turns, SayCanceled(t) PROVE QueueStep
  <2>1. Passes
    BY <1>0, <1>34 DEF SayCanceled, Passes, MovedTo, Pcs, StartPcs, RunPcs
  <2> QED
    BY <2>1 DEF QueueStep
<1>35. ASSUME NEW v \in Readers, NEW th \in Threads, ReadThread(v, th) PROVE QueueStep
  <2>1. ReadMoves(v)
    BY <1>35 DEF ReadThread, ReadMoves, SameTurns
  <2> QED
    BY <2>1 DEF QueueStep
<1>36. ASSUME NEW v \in Readers, NEW t \in Turns, ReadEvents(v, t) PROVE QueueStep
  <2>1. ReadMoves(v)
    BY <1>36 DEF ReadEvents, ReadMoves, SameTurns
  <2> QED
    BY <2>1 DEF QueueStep
<1>37. ASSUME NEW v \in Readers, SnapshotEvents(v) PROVE QueueStep
  <2>1. ReadMoves(v)
    BY <1>37 DEF SnapshotEvents, ReadMoves, SameTurns
  <2> QED
    BY <2>1 DEF QueueStep
<1>38. ASSUME NEW v \in Readers, Reconcile(v) PROVE QueueStep
  <2>1. ReadMoves(v)
    BY <1>38 DEF Reconcile, ReadMoves, SameTurns
  <2> QED
    BY <2>1 DEF QueueStep
<1>39. ASSUME Crash PROVE QueueStep
  <2>1. Restarts
    BY <1>0, <1>39 DEF Crash, Restarts, Over, IdleRun
  <2> QED
    BY <2>1 DEF QueueStep
<1> QED
  BY <1>1, <1>2, <1>3, <1>4, <1>5, <1>6, <1>7, <1>8, <1>9, <1>10, <1>11, <1>12, <1>13, <1>14,
     <1>15, <1>16, <1>17, <1>18, <1>19, <1>20, <1>21, <1>22, <1>23, <1>24, <1>25, <1>26,
     <1>27, <1>28, <1>29, <1>30, <1>31, <1>32, <1>33, <1>34, <1>35, <1>36, <1>37, <1>38, <1>39
  DEF Next, Request, Start, Proceed, Cancel, Read

\* The turns a read could still touch are read, or have ended.
LEMMA ReadsKept ==
    ASSUME TypeOK, RequestInv, SlotInv, QuestionInv, RowInv, AnswerNeverDenied,
           SavedInv, RecordInv, EarlyInv, RegisteredInv, ReaderInv, QueueInv, TurnStep, QueueStep
    PROVE  ReaderInv'
<1>0. /\ reader \in [Readers -> Reads] /\ lock \in [Threads -> Seq(Actors)]
      /\ None \notin Turns /\ known \subseteq Turns /\ known \subseteq known'
      /\ \A u \in Turns : run[u].pc \in EarlyPcs \/ run[u].pc = "start" => run[u].thread \in Threads
  BY TurnAssumption, StepsMoveRuns DEF RunsMove, TypeOK, RequestInv, EarlyPcs
<1>1. ASSUME NEW u \in Turns, run'[u].pc \in EarlyPcs, run'[u].kind # "message"
      PROVE  /\ run'[u].thread = run[u].thread /\ run[u].kind # "message"
             /\ \/ run[u].pc \in EarlyPcs /\ (Ended(u) => Ended(u)')
                \/ run[u].pc = "start" /\ run'[u].pc = "announce"
  BY <1>1, StepsMoveRuns, StepsKeepRecords DEF RunsMove, RecordsStay, EarlyPcs
<1>2. ASSUME NEW v \in Readers, reader'[v] = reader[v],
             \A u \in Turns : run[u].pc = "start" /\ run'[u].pc = "announce" => Holds(Thread(u), RunnerOf(u))
      PROVE  Harmless(v)'
  <2>1. ASSUME NEW u \in Turns, run'[u].pc \in EarlyPcs, run'[u].kind # "message"
        PROVE  /\ reader[v].pc = "scanned" /\ reader[v].target = u => Ended(u)'
               /\ reader[v].pc = "reconcile" /\ Concerns(v, u) => Ended(u)'
    <3>1. CASE run[u].pc \in EarlyPcs /\ (Ended(u) => Ended(u)')
      BY <1>1, <2>1, <3>1 DEF ReaderInv, Harmless
    <3>2. CASE run[u].pc = "start" /\ run'[u].pc = "announce"
      <4>1. run[u].kind # "message" /\ u \notin known
        BY <1>1, <2>1, <3>2 DEF RequestInv, RunPcs
      <4>2. ~(reader[v].pc = "scanned" /\ reader[v].target = u)
        BY <1>0, <4>1 DEF ReaderInv, Harmless
      <4>3. ASSUME reader[v].pc = "reconcile", Concerns(v, u) PROVE FALSE
        <5>1. Ahead(lock[run[u].thread], ReaderOf(v), RunnerOf(u))
          BY <3>2, <4>1, <4>3 DEF QueueInv
        <5>2. lock[run[u].thread] # <<>> /\ Head(lock[run[u].thread]) = RunnerOf(u)
          BY <1>2, <3>2 DEF Holds, Thread
        <5>3. lock[run[u].thread] \in Seq(Actors)
          BY <1>0, <3>2
        <5> QED
          BY <5>1, <5>2, <5>3, QueueMovesUp, ActorsTyped
      <4> QED
        BY <4>2, <4>3
    <3> QED
      BY <1>1, <2>1, <3>1, <3>2
  <2>2. ASSUME NEW u \in Turns, run'[u].pc \in EarlyPcs, run'[u].kind # "message"
        PROVE  Concerns(v, u)' => Concerns(v, u)
    BY <1>1, <1>2, <2>2 DEF Concerns, Thread
  <2> QED
    BY <1>0, <1>2, <2>1, <2>2 DEF ReaderInv, Harmless
<1>3. CASE Passes
  BY <1>2, <1>3 DEF Passes, ReaderInv
<1>4. ASSUME NEW t \in Turns, RunWaits(t) PROVE ReaderInv'
  <2>1. \A u \in Turns : ~(run[u].pc = "start" /\ run'[u].pc = "announce")
    BY <1>4 DEF RunWaits, OthersStay
  <2> QED
    BY <1>2, <1>4, <2>1 DEF RunWaits, OthersStay, ReaderInv
<1>5. ASSUME NEW t \in Turns, RunLeaves(t) PROVE ReaderInv'
  <2>1. \A u \in Turns : run[u].pc = "start" /\ run'[u].pc = "announce" => Holds(Thread(u), RunnerOf(u))
    BY <1>5 DEF RunLeaves, OthersStay
  <2> QED
    BY <1>2, <1>5, <2>1 DEF RunLeaves, OthersStay, ReaderInv
<1>6. ASSUME NEW t \in Turns, CancelMoves(t) PROVE ReaderInv'
  <2>1. \A u \in Turns : ~(run[u].pc = "start" /\ run'[u].pc = "announce")
    BY <1>6 DEF CancelMoves, SameTurns
  <2> QED
    BY <1>2, <1>6, <2>1 DEF CancelMoves, ReaderInv
<1>7. ASSUME NEW w \in Readers, ReadMoves(w) PROVE ReaderInv'
  <2>1. \A u \in Turns : /\ ~(run[u].pc = "start" /\ run'[u].pc = "announce")
                         /\ run'[u].pc \in EarlyPcs => run[u].pc \in EarlyPcs
                         /\ Thread(u)' = Thread(u)
    BY <1>7 DEF ReadMoves, SameTurns, Thread
  <2>2. \A v \in Readers : v # w => reader'[v] = reader[v]
    BY <1>0, <1>7 DEF ReadMoves, ReadThread, Snapshot, ReadEvents, SnapshotEvents, Reconcile
  <2>3. Harmless(w)'
    <3>1. ASSUME NEW th \in Threads, ReadThread(w, th) PROVE Harmless(w)'
      <4>1. reader'[w] = [pc |-> "reconcile", thread |-> th, target |-> None, active |-> registry.active[th]]
            /\ th \notin registry.reserved
        BY <1>0, <3>1 DEF ReadThread, Snapshot
      <4>2. ASSUME NEW u \in Turns, run'[u].pc \in EarlyPcs, run'[u].kind # "message", Concerns(w, u)'
            PROVE  Ended(u)'
        <5>1. /\ run[u].pc \in EarlyPcs /\ run[u].kind # "message" /\ (Ended(u) => Ended(u)')
              /\ run[u].thread = th /\ registry.active[th] # u
          BY <1>1, <2>1, <4>1, <4>2 DEF Concerns, Thread
        <5>2. registry \in Registries
          BY DEF TypeOK
        <5>3. SlotFacts
          BY <5>2, SlotFactsHold
        <5>4. run[u].pc \in RunPcs /\ u \notin registry.turns
          BY <4>1, <5>1, <5>3 DEF SlotFacts, EarlyPcs, StartPcs, RunPcs
        <5> QED
          BY <5>1, <5>4 DEF RegisteredInv
      <4> QED
        BY <4>1, <4>2 DEF Harmless
    <3>2. ASSUME NEW t \in Turns, ReadEvents(w, t) PROVE Harmless(w)'
      <4>1. reader'[w] = [IdleReader EXCEPT !.pc = "scanned", !.thread = Thread(t), !.target = t]
            /\ t \in known /\ t \notin registry.turns
        BY <1>0, <3>2 DEF ReadEvents
      <4>2. reader'[w].pc = "scanned" /\ reader'[w].thread = Thread(t) /\ reader'[w].target = t
        BY <4>1 DEF IdleReader
      <4>3. Thread(t) \in Threads
        BY <4>1 DEF RequestInv, Thread
      <4>4. ASSUME run'[t].pc \in EarlyPcs, run'[t].kind # "message" PROVE Ended(t)'
        <5>1. /\ run[t].pc \in EarlyPcs /\ run[t].kind # "message" /\ (Ended(t) => Ended(t)')
          BY <1>1, <2>1, <4>4
        <5>2. run[t].pc \in RunPcs
          BY <4>1, <5>1 DEF RequestInv, EarlyPcs
        <5> QED
          BY <4>1, <5>1, <5>2 DEF RegisteredInv
      <4> QED
        BY <1>0, <4>1, <4>2, <4>3, <4>4 DEF Harmless
    <3>3. ASSUME SnapshotEvents(w) PROVE Harmless(w)'
      <4>1. /\ reader'[w].pc = "reconcile" /\ reader'[w].thread = reader[w].thread
            /\ reader'[w].target = reader[w].target /\ reader[w].pc = "scanned"
        BY <1>0, <3>3 DEF SnapshotEvents, Snapshot
      <4>2. reader[w].target \in Turns /\ reader[w].thread \in Threads /\ reader[w].target \in known
        BY <1>0, <4>1 DEF ReaderInv, Harmless
      <4>3. ASSUME NEW u \in Turns, run'[u].pc \in EarlyPcs, run'[u].kind # "message", Concerns(w, u)'
            PROVE  Ended(u)'
        <5>1. /\ run[u].pc \in EarlyPcs /\ run[u].kind # "message" /\ (Ended(u) => Ended(u)')
          BY <1>1, <2>1, <4>3
        <5>2. reader[w].target = u
          BY <1>0, <4>1, <4>2, <4>3 DEF Concerns
        <5> QED
          BY <4>1, <5>1, <5>2 DEF ReaderInv, Harmless
      <4> QED
        BY <1>0, <4>1, <4>2, <4>3 DEF Harmless
    <3>4. ASSUME Reconcile(w) PROVE Harmless(w)'
      <4>1. reader'[w].pc = "idle" /\ reader'[w].target = None
        BY <1>0, <3>4 DEF Reconcile, IdleReader
      <4> QED
        BY <4>1 DEF Harmless
    <3> QED
      BY <1>7, <3>1, <3>2, <3>3, <3>4 DEF ReadMoves
  <2>4. ASSUME NEW v \in Readers
        PROVE  Harmless(v)'
    <3>1. CASE v = w
      BY <2>3, <3>1
    <3>2. CASE v # w
      BY <1>2, <2>1, <2>2, <3>2
    <3> QED
      BY <3>1, <3>2
  <2> QED
    BY <2>4 DEF ReaderInv
<1>8. CASE Restarts
  BY <1>8 DEF Restarts, ReaderInv, Harmless, IdleReader, EarlyPcs
<1> QED
  BY <1>3, <1>4, <1>5, <1>6, <1>7, <1>8 DEF QueueStep

\* What the actor c does to a queue: nothing, join it, leave its head or go to its end.
Shifts(s, z, c) ==
    \/ z = s
    \/ z = Append(s, c)
    \/ s # <<>> /\ Head(s) = c /\ (z = Tail(s) \/ z = Append(Tail(s), c))

\* Whatever one actor does to a queue, the others keep their places.
LEMMA QueueTurns ==
    ASSUME NEW s \in Seq(Actors), NEW z, NEW a \in Actors, NEW b \in Actors, NEW c \in Actors,
           Shifts(s, z, c)
    PROVE  /\ Waiting(s, a) /\ a # c => Waiting(z, a)
           /\ ~Waiting(s, b) /\ b # c => ~Waiting(z, b)
           /\ Ahead(s, a, b) /\ a # c /\ b # c => Ahead(z, a, b)
<1>1. CASE z = s
  BY <1>1
<1>2. CASE z = Append(s, c)
  BY <1>2, QueueGrows
<1>3. CASE s # <<>> /\ Head(s) = c /\ z = Tail(s)
  BY <1>3, QueueMovesUp
<1>4. CASE s # <<>> /\ Head(s) = c /\ z = Append(Tail(s), c)
  <2>1. /\ Tail(s) \in Seq(Actors)
        /\ Waiting(s, a) /\ a # c => Waiting(Tail(s), a)
        /\ ~Waiting(s, b) => ~Waiting(Tail(s), b)
        /\ Ahead(s, a, b) /\ a # c => Ahead(Tail(s), a, b)
    BY <1>4, QueueMovesUp
  <2> QED
    BY <1>4, <2>1, QueueGrows
<1> QED
  BY <1>1, <1>2, <1>3, <1>4 DEF Shifts

\* In particular one is ahead of another as before.
LEMMA AheadStays ==
    ASSUME NEW s \in Seq(Actors), NEW z, NEW a \in Actors, NEW b \in Actors, NEW c \in Actors,
           Shifts(s, z, c), Ahead(s, a, b), a # c, b # c
    PROVE  Ahead(z, a, b)
BY QueueTurns

\* The operations on the lock of a thread do nothing else.
LEMMA LockTurns ==
    ASSUME TypeOK, NEW th \in Threads, NEW c \in Actors,
           \/ lock' = Queued(th, c)
           \/ Holds(th, c) /\ (lock' = Released(th) \/ lock' = Requeued(th, c))
    PROVE  \A ti \in Threads : Shifts(lock[ti], lock'[ti], c)
BY DEF TypeOK, Queued, Holds, Released, Requeued, Shifts

\* What a step of a read leaves: it waits behind whoever waited before.
ReadPlaced(w) ==
    /\ \A th \in Threads : Shifts(lock[th], lock'[th], ReaderOf(w))
    /\ reader'[w].pc = "reconcile" =>
          /\ Waiting(lock'[reader'[w].thread], ReaderOf(w))
          /\ \A u \in Turns : ~(/\ run[u].pc = "start" /\ run[u].kind # "message"
                                /\ run[u].thread = reader'[w].thread
                                /\ reader'[w].target \in {None, u})

\* The reads that could touch a request that waits for its record are ahead of it.
LEMMA QueuesKept ==
    ASSUME TypeOK, RequestInv, SlotInv, QuestionInv, RowInv, AnswerNeverDenied,
           SavedInv, RecordInv, EarlyInv, RegisteredInv, ReaderInv, QueueInv, TurnStep, QueueStep
    PROVE  QueueInv'
<1>0. /\ reader \in [Readers -> Reads] /\ lock \in [Threads -> Seq(Actors)]
      /\ None \notin Turns
      /\ \A u \in Turns : run[u].pc # "idle" => run[u].thread \in Threads /\ Thread(u) \in Threads
      /\ \A v \in Readers : reader[v].pc = "reconcile" => reader[v].thread \in Threads
  BY TurnAssumption DEF TypeOK, RequestInv, ReaderInv, Harmless, Thread
<1>1. \A u \in Turns : run'[u].pc \in {"idle", "loaded", "reserved"} =>
         /\ run[u].pc \in {"idle", "loaded", "reserved"}
         /\ \A th \in Threads : ~Waiting(lock[th], RunnerOf(u))
  BY StepsMoveRuns DEF RunsMove, QueueInv
<1>2. ASSUME NEW u \in Turns, run'[u].pc = "start", run'[u].kind # "message"
      PROVE  /\ run'[u].thread = run[u].thread /\ run[u].thread \in Threads
             /\ run[u].kind # "message" /\ run[u].pc \in {"start", "reserved"}
  BY <1>0, <1>2, StepsMoveRuns DEF RunsMove, RequestInv
<1>3. ASSUME NEW c \in Actors, UNCHANGED reader, \A v \in Readers : c # ReaderOf(v),
             \A th \in Threads : Shifts(lock[th], lock'[th], c),
             \A u \in Turns : c = RunnerOf(u) =>
                /\ run'[u].pc \notin {"idle", "loaded", "reserved"}
                /\ run'[u].pc = "start" /\ run'[u].kind # "message" =>
                      run[u].pc = "reserved" /\ lock' = Queued(Thread(u), RunnerOf(u)),
             \A u \in Turns : c # RunnerOf(u) /\ run'[u].pc = "start" => run[u].pc = "start"
      PROVE  QueueInv'
  <2>1. ASSUME NEW v \in Readers, reader'[v].pc = "reconcile"
        PROVE  Waiting(lock'[reader'[v].thread], ReaderOf(v))
    <3>1. Waiting(lock[reader[v].thread], ReaderOf(v)) /\ reader[v].thread \in Threads
      BY <1>0, <1>3, <2>1 DEF QueueInv
    <3> QED
      BY <1>0, <1>3, <3>1, QueueTurns, ActorsTyped
  <2>2. ASSUME NEW u \in Turns, run'[u].pc \in {"idle", "loaded", "reserved"}, NEW th \in Threads
        PROVE  ~Waiting(lock'[th], RunnerOf(u))
    <3>1. ~Waiting(lock[th], RunnerOf(u)) /\ c # RunnerOf(u)
      BY <1>1, <1>3, <2>2
    <3> QED
      BY <1>0, <1>3, <3>1, QueueTurns, ActorsTyped
  <2>3. ASSUME NEW u \in Turns, NEW v \in Readers, run'[u].pc = "start", run'[u].kind # "message",
               reader'[v].pc = "reconcile", Concerns(v, u)'
        PROVE  Ahead(lock'[run'[u].thread], ReaderOf(v), RunnerOf(u))
    <3> DEFINE th == run[u].thread
    <3>1. /\ run'[u].thread = th /\ th \in Threads /\ run[u].kind # "message"
          /\ reader[v].pc = "reconcile" /\ Concerns(v, u) /\ reader[v].thread = th
      BY <1>2, <1>3, <2>3 DEF Concerns, Thread
    <3>2. CASE c = RunnerOf(u)
      <4>1. run[u].pc = "reserved" /\ lock'[th] = Append(lock[th], RunnerOf(u))
        BY <1>0, <1>3, <2>3, <3>1, <3>2 DEF Queued, Thread
      <4>2. Waiting(lock[th], ReaderOf(v)) /\ ~Waiting(lock[th], RunnerOf(u))
        BY <3>1, <4>1 DEF QueueInv
      <4> QED
        BY <1>0, <3>1, <4>1, <4>2, QueueGrows, ActorsTyped
    <3>3. CASE c # RunnerOf(u)
      <4>1. Ahead(lock[th], ReaderOf(v), RunnerOf(u))
        BY <1>3, <2>3, <3>1, <3>3 DEF QueueInv
      <4> QED
        <5>1. /\ lock[th] \in Seq(Actors) /\ Shifts(lock[th], lock'[th], c)
              /\ ReaderOf(v) \in Actors /\ RunnerOf(u) \in Actors /\ ReaderOf(v) # c
          BY <1>0, <1>3, <3>1, ActorsTyped
        <5>2. Ahead(lock'[th], ReaderOf(v), RunnerOf(u))
          BY <3>3, <4>1, <5>1, AheadStays
        <5> QED
          BY <3>1, <5>2
    <3> QED
      BY <3>2, <3>3
  <2> QED
    BY <2>1, <2>2, <2>3 DEF QueueInv
<1>4. CASE Passes
  <2>1. ASSUME NEW u \in Turns, NEW v \in Readers, run'[u].pc = "start", run'[u].kind # "message",
               reader'[v].pc = "reconcile", Concerns(v, u)'
        PROVE  Ahead(lock'[run'[u].thread], ReaderOf(v), RunnerOf(u))
    <3>1. /\ run'[u].thread = run[u].thread /\ run[u].kind # "message" /\ run[u].pc = "start"
          /\ reader[v].pc = "reconcile" /\ Concerns(v, u) /\ lock' = lock
      BY <1>2, <1>4, <2>1 DEF Concerns, Thread, Passes
    <3> QED
      BY <3>1 DEF QueueInv
  <2>2. UNCHANGED <<lock, reader>>
    BY <1>4 DEF Passes
  <2> QED
    BY <1>1, <2>1, <2>2 DEF QueueInv
<1>5. ASSUME NEW t \in Turns, RunWaits(t) PROVE QueueInv'
  <2>1. \A th \in Threads : Shifts(lock[th], lock'[th], RunnerOf(t))
    BY <1>0, <1>5, LockTurns, ActorsTyped DEF RunWaits
  <2>2. /\ UNCHANGED reader /\ RunnerOf(t) \in Actors
        /\ \A v \in Readers : RunnerOf(t) # ReaderOf(v)
        /\ \A u \in Turns : RunnerOf(t) = RunnerOf(u) => u = t
        /\ \A u \in Turns : u # t => run'[u] = run[u]
    BY <1>5, ActorsTyped DEF RunWaits, OthersStay
  <2>3. /\ run'[t].pc \notin {"idle", "loaded", "reserved"}
        /\ run'[t].pc = "start" => run[t].pc = "reserved"
        /\ lock' = Queued(Thread(t), RunnerOf(t))
    BY <1>5 DEF RunWaits
  <2> QED
    BY <1>3, <2>1, <2>2, <2>3
<1>6. ASSUME NEW t \in Turns, RunLeaves(t) PROVE QueueInv'
  <2>1. \A th \in Threads : Shifts(lock[th], lock'[th], RunnerOf(t))
    BY <1>0, <1>6, LockTurns, ActorsTyped DEF RunLeaves
  <2>2. /\ UNCHANGED reader /\ RunnerOf(t) \in Actors
        /\ \A v \in Readers : RunnerOf(t) # ReaderOf(v)
        /\ \A u \in Turns : RunnerOf(t) = RunnerOf(u) => u = t
        /\ \A u \in Turns : u # t => run'[u] = run[u]
    BY <1>6, ActorsTyped DEF RunLeaves, OthersStay
  <2>3. /\ run'[t].pc \notin {"idle", "loaded", "reserved"}
        /\ run'[t].pc = "start" => run'[t].kind = "message"
    BY <1>6 DEF RunLeaves
  <2> QED
    BY <1>3, <2>1, <2>2, <2>3
<1>7. ASSUME NEW t \in Turns, CancelMoves(t) PROVE QueueInv'
  <2>1. \A th \in Threads : Shifts(lock[th], lock'[th], CancelerOf(t))
    BY <1>0, <1>7, LockTurns, ActorsTyped DEF CancelMoves
  <2>2. /\ UNCHANGED reader /\ CancelerOf(t) \in Actors
        /\ \A v \in Readers : CancelerOf(t) # ReaderOf(v)
        /\ \A u \in Turns : CancelerOf(t) # RunnerOf(u)
        /\ \A u \in Turns : run'[u].pc = run[u].pc
    BY <1>7, ActorsTyped DEF CancelMoves, SameTurns
  <2> QED
    BY <1>3, <2>1, <2>2
<1>8. ASSUME NEW w \in Readers, ReadMoves(w) PROVE QueueInv'
  <2>1. \A v \in Readers : v # w => reader'[v] = reader[v]
    BY <1>0, <1>8 DEF ReadMoves, ReadThread, Snapshot, ReadEvents, SnapshotEvents, Reconcile
  <2>2. ReadPlaced(w)
    <3>1. ASSUME NEW th \in Threads, ReadThread(w, th) PROVE ReadPlaced(w)
      <4>1. /\ reader'[w] = [pc |-> "reconcile", thread |-> th, target |-> None,
                            active |-> registry.active[th]]
            /\ th \notin registry.reserved /\ lock' = Queued(th, ReaderOf(w))
        BY <1>0, <3>1 DEF ReadThread, Snapshot, Queued
      <4>2. \A ti \in Threads : Shifts(lock[ti], lock'[ti], ReaderOf(w))
        BY <4>1, LockTurns, ActorsTyped
      <4>3. Waiting(lock'[th], ReaderOf(w))
        <5>1. lock'[th] = Append(lock[th], ReaderOf(w))
          BY <1>0, <4>1 DEF Queued
        <5> QED
          BY <1>0, <5>1, QueueGrows, ActorsTyped
      <4>4. \A u \in Turns : run[u].pc = "start" => run[u].thread # th
        BY <4>1 DEF SlotInv, StartPcs
      <4> QED
        BY <4>1, <4>2, <4>3, <4>4 DEF ReadPlaced
    <3>2. ASSUME NEW t \in Turns, ReadEvents(w, t) PROVE ReadPlaced(w)
      <4>1. reader'[w].pc = "scanned" /\ lock' = lock
        BY <1>0, <3>2 DEF ReadEvents, IdleReader
      <4> QED
        BY <4>1 DEF ReadPlaced, Shifts
    <3>3. ASSUME SnapshotEvents(w) PROVE ReadPlaced(w)
      <4>1. /\ reader'[w].pc = "reconcile" /\ reader'[w].thread = reader[w].thread
            /\ reader'[w].target = reader[w].target /\ reader[w].pc = "scanned"
            /\ lock' = Queued(reader[w].thread, ReaderOf(w))
        BY <1>0, <3>3 DEF SnapshotEvents, Snapshot, Queued
      <4>2. reader[w].target \in Turns /\ reader[w].thread \in Threads /\ reader[w].target \in known
        BY <1>0, <4>1 DEF ReaderInv, Harmless
      <4>3. \A ti \in Threads : Shifts(lock[ti], lock'[ti], ReaderOf(w))
        BY <4>1, <4>2, LockTurns, ActorsTyped
      <4>4. Waiting(lock'[reader[w].thread], ReaderOf(w))
        <5>1. lock'[reader[w].thread] = Append(lock[reader[w].thread], ReaderOf(w))
          BY <1>0, <4>1, <4>2 DEF Queued
        <5> QED
          BY <1>0, <4>2, <5>1, QueueGrows, ActorsTyped
      <4>5. \A u \in Turns : run[u].pc = "start" /\ run[u].kind # "message" => u # reader[w].target
        BY <4>2 DEF RequestInv, RunPcs
      <4> QED
        BY <1>0, <4>1, <4>2, <4>3, <4>4, <4>5 DEF ReadPlaced
    <3>4. ASSUME Reconcile(w) PROVE ReadPlaced(w)
      <4>1. /\ reader'[w].pc = "idle" /\ reader[w].thread \in Threads
            /\ Holds(reader[w].thread, ReaderOf(w)) /\ lock' = Released(reader[w].thread)
        BY <1>0, <3>4 DEF Reconcile, IdleReader
      <4>2. \A ti \in Threads : Shifts(lock[ti], lock'[ti], ReaderOf(w))
        BY <4>1, LockTurns, ActorsTyped
      <4> QED
        BY <4>1, <4>2 DEF ReadPlaced
    <3> QED
      BY <1>8, <3>1, <3>2, <3>3, <3>4 DEF ReadMoves
  <2>3. /\ ReaderOf(w) \in Actors /\ \A u \in Turns : ReaderOf(w) # RunnerOf(u)
        /\ \A v \in Readers : v # w => ReaderOf(v) # ReaderOf(w)
        /\ \A u \in Turns : run'[u].pc = run[u].pc /\ Thread(u)' = Thread(u)
    BY <1>8, ActorsTyped DEF ReadMoves, SameTurns, Thread
  <2>4. ASSUME NEW v \in Readers, reader'[v].pc = "reconcile"
        PROVE  Waiting(lock'[reader'[v].thread], ReaderOf(v))
    <3>1. CASE v = w
      BY <2>2, <2>4, <3>1 DEF ReadPlaced
    <3>2. CASE v # w
      <4>1. Waiting(lock[reader[v].thread], ReaderOf(v)) /\ reader[v].thread \in Threads
        BY <1>0, <2>1, <2>4, <3>2 DEF QueueInv
      <4>2. Shifts(lock[reader[v].thread], lock'[reader[v].thread], ReaderOf(w))
        BY <2>2, <4>1 DEF ReadPlaced
      <4> QED
        BY <1>0, <2>1, <2>3, <3>2, <4>1, <4>2, QueueTurns, ActorsTyped
    <3> QED
      BY <3>1, <3>2
  <2>5. ASSUME NEW u \in Turns, run'[u].pc \in {"idle", "loaded", "reserved"}, NEW th \in Threads
        PROVE  ~Waiting(lock'[th], RunnerOf(u))
    <3>1. ~Waiting(lock[th], RunnerOf(u)) /\ Shifts(lock[th], lock'[th], ReaderOf(w))
      BY <1>1, <2>2, <2>5 DEF ReadPlaced
    <3> QED
      BY <1>0, <2>3, <3>1, QueueTurns, ActorsTyped
  <2>6. ASSUME NEW u \in Turns, NEW v \in Readers, run'[u].pc = "start", run'[u].kind # "message",
               reader'[v].pc = "reconcile", Concerns(v, u)'
        PROVE  Ahead(lock'[run'[u].thread], ReaderOf(v), RunnerOf(u))
    <3> DEFINE th == run[u].thread
    <3>1. /\ run'[u].thread = th /\ th \in Threads /\ run[u].kind # "message" /\ run[u].pc = "start"
      BY <1>2, <2>3, <2>6
    <3>2. v # w
      BY <2>2, <2>6, <3>1 DEF ReadPlaced, Concerns, Thread
    <3>3. reader[v].pc = "reconcile" /\ Concerns(v, u)
      BY <2>1, <2>3, <2>6, <3>2 DEF Concerns
    <3>4. Ahead(lock[th], ReaderOf(v), RunnerOf(u))
      BY <3>1, <3>3 DEF QueueInv
    <3>5. Shifts(lock[th], lock'[th], ReaderOf(w))
      BY <2>2, <3>1 DEF ReadPlaced
    <3> QED
      <4>1. /\ lock[th] \in Seq(Actors) /\ ReaderOf(w) \in Actors
            /\ ReaderOf(v) \in Actors /\ RunnerOf(u) \in Actors
            /\ ReaderOf(v) # ReaderOf(w) /\ RunnerOf(u) # ReaderOf(w)
        BY <1>0, <2>3, <3>1, <3>2, ActorsTyped
      <4>2. Ahead(lock'[th], ReaderOf(v), RunnerOf(u))
        BY <3>4, <3>5, <4>1, AheadStays
      <4> QED
        BY <3>1, <4>2
  <2> QED
    BY <2>4, <2>5, <2>6 DEF QueueInv
<1>9. CASE Restarts
  BY <1>0, <1>9 DEF Restarts, QueueInv, IdleReader, Waiting
<1> QED
  BY <1>4, <1>5, <1>6, <1>7, <1>8, <1>9 DEF QueueStep

-----------------------------------------------------------------------------
(* Types.                                                                    *)

\* A call that works or fails keeps within the bound.
LEMMA FaultsBounded ==
    ASSUME TypeOK
    PROVE  /\ Works \/ Fails => faults' \in 0 .. MaxFaults
           /\ UNCHANGED faults => faults' \in 0 .. MaxFaults
BY TurnAssumption DEF TypeOK, Works, Fails

\* The lock holds actors, whoever of a turn queues, leaves or queues again.
LEMMA LocksTyped ==
    ASSUME TypeOK, NEW t \in Turns, Thread(t) \in Threads
    PROVE  /\ lock' = Queued(Thread(t), RunnerOf(t)) => lock' \in [Threads -> Seq(Actors)]
           /\ lock' = Queued(Thread(t), CancelerOf(t)) => lock' \in [Threads -> Seq(Actors)]
           /\ Holds(Thread(t), RunnerOf(t)) /\ lock' = Released(Thread(t)) => lock' \in [Threads -> Seq(Actors)]
           /\ Holds(Thread(t), RunnerOf(t)) /\ lock' = Requeued(Thread(t), RunnerOf(t))
                 => lock' \in [Threads -> Seq(Actors)]
           /\ Holds(Thread(t), CancelerOf(t)) /\ lock' = Released(Thread(t)) => lock' \in [Threads -> Seq(Actors)]
<1>1. RunnerOf(t) \in Actors /\ CancelerOf(t) \in Actors
  BY ActorsTyped
<1> QED
  BY <1>1, LockEdited

\* A row or record that is written has its type.
LEMMA FilesTyped ==
    ASSUME TypeOK, NEW t \in Turns, PairOf(t) \in Turns
    PROVE  /\ \A row \in Pairs : pair' = [pair EXCEPT ![PairOf(t)] = row] => pair' \in [Turns -> Pairs]
           /\ \A row \in Pairs : pair' = [pair EXCEPT ![t] = row] => pair' \in [Turns -> Pairs]
           /\ UNCHANGED pair => pair' \in [Turns -> Pairs]
           /\ \A s \in Terminal \cup {"started"} : \A f \in Turns \cup {None} :
                 record' = [record EXCEPT ![t] = [status |-> s, from |-> f]] => record' \in [Turns -> Records]
           /\ UNCHANGED record => record' \in [Turns -> Records]
<1>1. pair \in [Turns -> Pairs] /\ record \in [Turns -> Records]
  BY DEF TypeOK
<1>2. \A s \in Terminal \cup {"started"} : \A f \in Turns \cup {None} :
         [status |-> s, from |-> f] \in Records
  BY DEF Records
<1> QED
  BY <1>1, <1>2

\* So have the two writes of a failure, both or the first of them only.
LEMMA FailuresTyped ==
    ASSUME TypeOK, NEW t \in Turns, PairOf(t) \in Turns
    PROVE  /\ \A s \in {"failed", "refused"} : WriteFailure(t, s) =>
                 pair' \in [Turns -> Pairs] /\ record' \in [Turns -> Records]
           /\ WriteFailurePart(t) => pair' \in [Turns -> Pairs] /\ record' \in [Turns -> Records]
           /\ UNCHANGED <<pair, record>> => pair' \in [Turns -> Pairs] /\ record' \in [Turns -> Records]
<1>1. pair \in [Turns -> Pairs] /\ record \in [Turns -> Records]
  BY DEF TypeOK
<1>2. FailedRow(t) \in Pairs
  BY RowsTyped
<1>3. \A s \in {"failed", "refused"} : FailedRecord(t, s) \in Records
  BY RowsTyped DEF Terminal, PairOf
<1> QED
  BY <1>1, <1>2, <1>3 DEF WriteFailure, WriteFailurePart

\* Every variable holds what TypeOK says of it.
LEMMA TypesKept ==
    ASSUME TypeOK, RequestInv, SlotInv, QuestionInv, RowInv, SavedInv, ReaderInv, Next
    PROVE  TypeOK'
<1>0. /\ pair \in [Turns -> Pairs] /\ response \in [Turns -> Turns \cup {None}]
      /\ answered \subseteq Turns /\ record \in [Turns -> Records]
      /\ stream \in [Turns -> Seq(EventTypes)] /\ stale \subseteq Threads
      /\ registry \in Registries /\ lock \in [Threads -> Seq(Actors)]
      /\ run \in [Turns -> Runs] /\ cancel \in [Turns -> CancelPcs]
      /\ reader \in [Readers -> Reads] /\ known \subseteq Turns
      /\ faults \in 0 .. MaxFaults /\ crashes \in 0 .. MaxCrashes
  BY DEF TypeOK
<1>f. /\ Works => faults' \in 0 .. MaxFaults
      /\ Fails => faults' \in 0 .. MaxFaults
  BY FaultsBounded
<1>g. /\ \A t \in Turns, pc \in Pcs : Goto(t, pc) => run' \in [Turns -> Runs]
      /\ \A t \in Turns, pc \in Pcs \ {"done"} : Settled(t, pc) => run' \in [Turns -> Runs]
  BY GotoMoves, SettledMoves DEF MovedTo
<1>t. /\ \A t \in Turns : run[t].pc # "idle" => Thread(t) \in Threads /\ PairOf(t) \in Turns
      /\ \A t \in Turns : cancel[t] # "idle" => run[t].pc # "idle"
  BY DEF RequestInv, RunPcs, Thread, PairOf
<1>1. ASSUME NEW t \in Turns, NEW th \in Threads, LoadMessage(t, th) PROVE TypeOK'
  <2>1. run' \in [Turns -> Runs]
    <3>1. [IdleRun EXCEPT !.pc = "loaded", !.thread = th, !.pair = t] \in Runs
      BY RunBegins
    <3> QED
      BY <1>0, <1>1, <3>1 DEF LoadMessage
  <2> QED
    BY <1>0, <1>1, <2>1 DEF LoadMessage, files, TypeOK
<1>2. ASSUME NEW t \in Turns, NEW p \in Turns, LoadRegenerate(t, p) PROVE TypeOK'
  <2>1. run' \in [Turns -> Runs]
    <3>1. Thread(p) \in Threads /\ pair[p].turn \in Turns \cup {None}
      BY <1>0, <1>t, <1>2 DEF LoadRegenerate, QuestionInv, Pairs
    <3>2. \A k \in Kinds, f \in Turns \cup {None} :
             [IdleRun EXCEPT !.pc = "loaded", !.kind = k, !.thread = Thread(p), !.pair = p,
                             !.from = f] \in Runs
      BY <3>1, RunBegins
    <3> QED
      BY <1>0, <1>2, <3>1, <3>2 DEF LoadRegenerate, Kinds
  <2> QED
    BY <1>0, <1>2, <2>1 DEF LoadRegenerate, files, TypeOK
<1>3. ASSUME NEW t \in Turns, ReserveThread(t) PROVE TypeOK'
  <2>0. Thread(t) \in Threads /\ PairOf(t) \in Turns
    BY <1>t, <1>3 DEF ReserveThread
  <2>1. run' \in [Turns -> Runs]
    BY <1>0, <1>g, <1>3 DEF ReserveThread, Pcs, StartPcs, RunPcs
  <2>2. registry' \in Registries
    BY <1>0, <1>3, <2>0, RegistryEdited DEF ReserveThread
  <2> QED
    BY <1>0, <1>3, <2>1, <2>2 DEF ReserveThread, files, TypeOK
<1>4. ASSUME NEW t \in Turns, Refuse(t) PROVE TypeOK'
  <2>0. Thread(t) \in Threads /\ PairOf(t) \in Turns
    BY <1>t, <1>4 DEF Refuse
  <2>1. run' \in [Turns -> Runs]
    BY <1>0, <1>g, <1>4 DEF Refuse, Pcs, StartPcs, RunPcs
  <2>2. registry' \in Registries
    BY <1>0, <1>4, <2>0, RegistryEdited DEF Refuse
  <2>3. faults' \in 0 .. MaxFaults
    BY <1>0, <1>f, <1>4 DEF Refuse
  <2> QED
    BY <1>0, <1>4, <2>1, <2>2, <2>3 DEF Refuse, files, TypeOK
<1>5. ASSUME NEW t \in Turns, FindStale(t) PROVE TypeOK'
  <2>0. Thread(t) \in Threads /\ PairOf(t) \in Turns
    BY <1>t, <1>5 DEF FindStale
  <2>1. run' \in [Turns -> Runs]
    BY <1>0, <1>g, <1>5 DEF FindStale, Pcs, StartPcs, RunPcs
  <2>2. registry' \in Registries
    BY <1>0, <1>5, <2>0, RegistryEdited DEF FindStale
  <2>3. lock' \in [Threads -> Seq(Actors)]
    BY <1>0, <1>5, <2>0, LocksTyped DEF FindStale
  <2> QED
    BY <1>0, <1>5, <2>1, <2>2, <2>3 DEF FindStale, files, TypeOK
<1>6. ASSUME NEW t \in Turns, MarkThreadStale(t) PROVE TypeOK'
  <2>0. Thread(t) \in Threads /\ PairOf(t) \in Turns
    BY <1>t, <1>6 DEF MarkThreadStale
  <2>1. run' \in [Turns -> Runs]
    BY <1>0, <1>g, <1>6 DEF MarkThreadStale, Pcs, StartPcs, RunPcs
  <2>2. lock' \in [Threads -> Seq(Actors)]
    BY <1>0, <1>6, <2>0, LocksTyped DEF MarkThreadStale
  <2>3. stale' \subseteq Threads
    BY <1>0, <1>6, <2>0 DEF MarkThreadStale
  <2>4. faults' \in 0 .. MaxFaults
    BY <1>0, <1>f, <1>6 DEF MarkThreadStale
  <2> QED
    BY <1>0, <1>6, <2>1, <2>2, <2>3, <2>4 DEF MarkThreadStale, files, TypeOK
<1>7. ASSUME NEW t \in Turns, SayStale(t) PROVE TypeOK'
  <2>1. run' \in [Turns -> Runs]
    BY <1>0, <1>g, <1>7 DEF SayStale, Pcs, StartPcs, RunPcs
  <2>2. stream' \in [Turns -> Seq(EventTypes)]
    BY <1>0, <1>7, EmitTyped DEF SayStale, EventTypes
  <2>3. faults' \in 0 .. MaxFaults
    BY <1>0, <1>f, <1>7 DEF SayStale
  <2> QED
    BY <1>0, <1>7, <2>1, <2>2, <2>3 DEF SayStale, files, TypeOK
<1>8. ASSUME NEW t \in Turns, Accept(t) PROVE TypeOK'
  <2>0. Thread(t) \in Threads /\ PairOf(t) \in Turns
    BY <1>t, <1>8 DEF Accept
  <2>1. run' \in [Turns -> Runs]
    BY <1>0, <1>g, <1>8 DEF Accept, Pcs, StartPcs, RunPcs
  <2>2. lock' \in [Threads -> Seq(Actors)]
    BY <1>0, <1>8, <2>0, LocksTyped DEF Accept
  <2> QED
    BY <1>0, <1>8, <2>1, <2>2 DEF Accept, files, TypeOK
<1>9. ASSUME NEW t \in Turns, AppendPendingPair(t) PROVE TypeOK'
  <2>0. Thread(t) \in Threads /\ PairOf(t) \in Turns
    BY <1>t, <1>9 DEF AppendPendingPair
  <2>1. run' \in [Turns -> Runs]
    BY <1>0, <1>g, <1>9 DEF AppendPendingPair, Pcs, StartPcs, RunPcs
  <2>2. pair' \in [Turns -> Pairs]
    BY <1>9, <2>0, RowsTyped, FilesTyped DEF AppendPendingPair
  <2>3. known' \subseteq Turns
    BY <1>0, <1>9, <2>0 DEF AppendPendingPair
  <2>4. lock' \in [Threads -> Seq(Actors)]
    BY <1>0, <1>9, <2>0, LocksTyped DEF AppendPendingPair
  <2>5. registry' \in Registries
    BY <1>0, <1>9, <2>0, RegistryEdited DEF AppendPendingPair, GiveUp
  <2>6. faults' \in 0 .. MaxFaults
    BY <1>0, <1>f, <1>9 DEF AppendPendingPair
  <2> QED
    BY <1>0, <1>9, <2>1, <2>2, <2>3, <2>4, <2>5, <2>6 DEF AppendPendingPair, files, TypeOK
<1>10. ASSUME NEW t \in Turns, RecordTurnStarted(t) PROVE TypeOK'
  <2>0. Thread(t) \in Threads /\ PairOf(t) \in Turns
    BY <1>t, <1>10 DEF RecordTurnStarted
  <2>1. run' \in [Turns -> Runs]
    BY <1>0, <1>g, <1>10 DEF RecordTurnStarted, Pcs, StartPcs, RunPcs
  <2>2. record' \in [Turns -> Records]
    <3>1. run[t].from \in Turns \cup {None}
      BY <1>0 DEF Runs
    <3> QED
      BY <1>10, <2>0, <3>1, FilesTyped DEF RecordTurnStarted
  <2>3. lock' \in [Threads -> Seq(Actors)]
    BY <1>0, <1>10, <2>0, LocksTyped DEF RecordTurnStarted
  <2>4. registry' \in Registries
    BY <1>0, <1>10, <2>0, RegistryEdited DEF RecordTurnStarted, GiveUp
  <2>5. faults' \in 0 .. MaxFaults
    BY <1>0, <1>f, <1>10 DEF RecordTurnStarted
  <2> QED
    BY <1>0, <1>10, <2>1, <2>2, <2>3, <2>4, <2>5 DEF RecordTurnStarted, files, TypeOK
<1>11. ASSUME NEW t \in Turns, Announce(t) PROVE TypeOK'
  <2>0. Thread(t) \in Threads /\ PairOf(t) \in Turns
    BY <1>t, <1>11 DEF Announce
  <2>1. run' \in [Turns -> Runs]
    BY <1>0, <1>g, <1>11 DEF Announce, Pcs, StartPcs, RunPcs
  <2>2. stream' \in [Turns -> Seq(EventTypes)]
    BY <1>0, <1>11, EmitTyped DEF Announce, EventTypes
  <2>3. registry' \in Registries
    BY <1>0, <1>11, <2>0, RegistryEdited DEF Announce, GiveUp
  <2>4. faults' \in 0 .. MaxFaults
    BY <1>0, <1>f, <1>11 DEF Announce
  <2> QED
    BY <1>0, <1>11, <2>1, <2>2, <2>3, <2>4 DEF Announce, files, TypeOK
<1>12. ASSUME NEW t \in Turns, Register(t) PROVE TypeOK'
  <2>0. Thread(t) \in Threads /\ PairOf(t) \in Turns
    BY <1>t, <1>12 DEF Register
  <2>1. run' \in [Turns -> Runs]
    BY <1>0, <1>g, <1>12 DEF Register, Pcs, StartPcs, RunPcs
  <2>2. registry' \in Registries
    BY <1>0, <1>12, <2>0, RegistryEdited DEF Register
  <2>3. known' \subseteq Turns
    BY <1>0, <1>12, <2>0 DEF Register
  <2> QED
    BY <1>0, <1>12, <2>1, <2>2, <2>3 DEF Register, files, TypeOK
<1>13. ASSUME NEW t \in Turns, StartFails(t) PROVE TypeOK'
  <2>0. Thread(t) \in Threads /\ PairOf(t) \in Turns
    BY <1>t, <1>13 DEF StartFails, MarkFailed
  <2>1. run' \in [Turns -> Runs]
    BY <1>0, <1>g, <1>13 DEF StartFails, MarkFailed, Pcs, StartPcs, RunPcs
  <2>2. pair' \in [Turns -> Pairs]
    BY <1>13, <2>0, FailuresTyped DEF StartFails, MarkFailed
  <2>3. record' \in [Turns -> Records]
    BY <1>13, <2>0, FailuresTyped DEF StartFails, MarkFailed
  <2>4. lock' \in [Threads -> Seq(Actors)]
    BY <1>0, <1>13, <2>0, LocksTyped DEF StartFails, MarkFailed
  <2>5. faults' \in 0 .. MaxFaults
    BY <1>0, <1>f, <1>13 DEF StartFails, MarkFailed
  <2> QED
    BY <1>0, <1>13, <2>1, <2>2, <2>3, <2>4, <2>5 DEF StartFails, files, TypeOK, MarkFailed
<1>14. ASSUME NEW t \in Turns, SayFailed(t, "startSay", "done") PROVE TypeOK'
  <2>1. run' \in [Turns -> Runs]
    BY <1>0, <1>g, <1>14 DEF SayFailed, Pcs, StartPcs, RunPcs
  <2>2. stream' \in [Turns -> Seq(EventTypes)]
    BY <1>0, <1>14, EmitTyped DEF SayFailed, EventTypes
  <2>3. faults' \in 0 .. MaxFaults
    BY <1>0, <1>f, <1>14 DEF SayFailed
  <2> QED
    BY <1>0, <1>14, <2>1, <2>2, <2>3 DEF SayFailed, files, TypeOK
<1>15. ASSUME NEW t \in Turns, CodexReady(t) PROVE TypeOK'
  <2>1. registry' \in Registries
    BY <1>0, <1>15, RegistryEdited DEF CodexReady
  <2> QED
    BY <1>0, <1>15, <2>1 DEF CodexReady, files, TypeOK
<1>16. ASSUME NEW t \in Turns, WriteDelta(t) PROVE TypeOK'
  <2>1. run' \in [Turns -> Runs]
    BY <1>0, <1>16, RunTouched DEF WriteDelta
  <2>2. stream' \in [Turns -> Seq(EventTypes)]
    BY <1>0, <1>16, EmitTyped DEF WriteDelta, EventTypes
  <2>3. faults' \in 0 .. MaxFaults
    BY <1>0, <1>f, <1>16 DEF WriteDelta
  <2> QED
    BY <1>0, <1>16, <2>1, <2>2, <2>3 DEF WriteDelta, files, TypeOK
<1>17. ASSUME NEW t \in Turns, CodexSettles(t) PROVE TypeOK'
  <2>1. run' \in [Turns -> Runs]
    <3>1. PICK o \in Outcomes(t) : run' = [run EXCEPT ![t].pc = "draining", ![t].outcome = o]
      BY <1>17 DEF CodexSettles
    <3>2. o \in {"none", "answer", "permission", "interrupted", "error"}
      BY DEF Outcomes
    <3> QED
      BY <3>1, <3>2, RunTouched DEF MovedTo
  <2> QED
    BY <1>0, <1>17, <2>1 DEF CodexSettles, files, TypeOK
<1>18. ASSUME NEW t \in Turns, Drained(t) PROVE TypeOK'
  <2>0. Thread(t) \in Threads /\ PairOf(t) \in Turns
    BY <1>t, <1>18 DEF Drained
  <2>1. run' \in [Turns -> Runs]
    BY <1>0, <1>g, <1>18 DEF Drained, Pcs, StartPcs, RunPcs
  <2>2. lock' \in [Threads -> Seq(Actors)]
    BY <1>0, <1>18, <2>0, LocksTyped DEF Drained
  <2> QED
    BY <1>0, <1>18, <2>1, <2>2 DEF Drained, files, TypeOK
<1>19. ASSUME NEW t \in Turns, PersistIntent(t) PROVE TypeOK'
  <2>0. Thread(t) \in Threads /\ PairOf(t) \in Turns
    BY <1>t, <1>19 DEF PersistIntent
  <2>1. run' \in [Turns -> Runs]
    BY <1>0, <1>g, <1>19 DEF PersistIntent, ToLock, Pcs, StartPcs, RunPcs
  <2>2. lock' \in [Threads -> Seq(Actors)]
    BY <1>0, <1>19, <2>0, LocksTyped DEF PersistIntent, ToLock
  <2>3. faults' \in 0 .. MaxFaults
    BY <1>0, <1>f, <1>19 DEF PersistIntent, ToLock
  <2> QED
    BY <1>0, <1>19, <2>1, <2>2, <2>3 DEF PersistIntent, files, TypeOK
<1>20. ASSUME NEW t \in Turns, SaveAnswer(t) PROVE TypeOK'
  <2>0. Thread(t) \in Threads /\ PairOf(t) \in Turns
    BY <1>t, <1>20 DEF SaveAnswer
  <2>1. run' \in [Turns -> Runs]
    BY <1>0, <1>g, <1>20 DEF SaveAnswer, Pcs, StartPcs, RunPcs
  <2>2. pair' \in [Turns -> Pairs]
    <3>1. AnswerRow(t) \in Pairs
      BY <2>0, RowsTyped DEF PairOf
    <3> QED
      BY <1>20, <2>0, <3>1, FilesTyped DEF SaveAnswer
  <2>3. response' \in [Turns -> Turns \cup {None}]
    BY <1>0, <1>20, <2>0 DEF SaveAnswer
  <2>4. answered' \subseteq Turns
    BY <1>0, <1>20, <2>0 DEF SaveAnswer
  <2>5. lock' \in [Threads -> Seq(Actors)]
    BY <1>0, <1>20, <2>0, LocksTyped DEF SaveAnswer
  <2>6. faults' \in 0 .. MaxFaults
    BY <1>0, <1>f, <1>20 DEF SaveAnswer
  <2> QED
    BY <1>0, <1>20, <2>1, <2>2, <2>3, <2>4, <2>5, <2>6 DEF SaveAnswer, files, TypeOK
<1>21. ASSUME NEW t \in Turns, MarkCompleted(t) PROVE TypeOK'
  <2>0. Thread(t) \in Threads /\ PairOf(t) \in Turns
    BY <1>t, <1>21 DEF MarkCompleted
  <2>1. run' \in [Turns -> Runs]
    BY <1>0, <1>g, <1>21 DEF MarkCompleted, Pcs, StartPcs, RunPcs
  <2>2. record' \in [Turns -> Records]
    <3>1. run[t].from \in Turns \cup {None}
      BY <1>0 DEF Runs
    <3> QED
      BY <1>21, <2>0, <3>1, FilesTyped DEF MarkCompleted, Terminal
  <2>3. lock' \in [Threads -> Seq(Actors)]
    BY <1>0, <1>21, <2>0, LocksTyped DEF MarkCompleted
  <2>4. faults' \in 0 .. MaxFaults
    BY <1>0, <1>f, <1>21 DEF MarkCompleted
  <2> QED
    BY <1>0, <1>21, <2>1, <2>2, <2>3, <2>4 DEF MarkCompleted, files, TypeOK
<1>22. ASSUME NEW t \in Turns, Publish(t) PROVE TypeOK'
  <2>1. run' \in [Turns -> Runs]
    BY <1>0, <1>g, <1>22 DEF Publish, Pcs, StartPcs, RunPcs
  <2>2. stream' \in [Turns -> Seq(EventTypes)]
    BY <1>0, <1>22, EmitTyped DEF Publish, EventTypes
  <2>3. faults' \in 0 .. MaxFaults
    BY <1>0, <1>f, <1>22 DEF Publish
  <2> QED
    BY <1>0, <1>22, <2>1, <2>2, <2>3 DEF Publish, files, TypeOK
<1>23. ASSUME NEW t \in Turns, Warn(t) PROVE TypeOK'
  <2>1. run' \in [Turns -> Runs]
    BY <1>0, <1>g, <1>23 DEF Warn, Pcs, StartPcs, RunPcs
  <2>2. stream' \in [Turns -> Seq(EventTypes)]
    BY <1>0, <1>23, EmitTyped DEF Warn, EventTypes
  <2>3. faults' \in 0 .. MaxFaults
    BY <1>0, <1>f, <1>23 DEF Warn
  <2> QED
    BY <1>0, <1>23, <2>1, <2>2, <2>3 DEF Warn, files, TypeOK
<1>24. ASSUME NEW t \in Turns, Salvage(t) PROVE TypeOK'
  <2>1. run' \in [Turns -> Runs]
    BY <1>0, <1>g, <1>24 DEF Salvage, Pcs, StartPcs, RunPcs
  <2>2. stream' \in [Turns -> Seq(EventTypes)]
    BY <1>0, <1>24, EmitTyped DEF Salvage, EventTypes
  <2>3. faults' \in 0 .. MaxFaults
    BY <1>0, <1>f, <1>24 DEF Salvage
  <2> QED
    BY <1>0, <1>24, <2>1, <2>2, <2>3 DEF Salvage, files, TypeOK
<1>25. ASSUME NEW t \in Turns, RunFails(t) PROVE TypeOK'
  <2>0. Thread(t) \in Threads /\ PairOf(t) \in Turns
    BY <1>t, <1>25 DEF RunFails, MarkFailed
  <2>1. run' \in [Turns -> Runs]
    BY <1>0, <1>g, <1>25 DEF RunFails, MarkFailed, Pcs, StartPcs, RunPcs
  <2>2. pair' \in [Turns -> Pairs]
    BY <1>25, <2>0, FailuresTyped DEF RunFails, MarkFailed
  <2>3. record' \in [Turns -> Records]
    BY <1>25, <2>0, FailuresTyped DEF RunFails, MarkFailed
  <2>4. lock' \in [Threads -> Seq(Actors)]
    BY <1>0, <1>25, <2>0, LocksTyped DEF RunFails, MarkFailed
  <2>5. faults' \in 0 .. MaxFaults
    BY <1>0, <1>f, <1>25 DEF RunFails, MarkFailed
  <2> QED
    BY <1>0, <1>25, <2>1, <2>2, <2>3, <2>4, <2>5 DEF RunFails, files, TypeOK, MarkFailed
<1>26. ASSUME NEW t \in Turns, RunRefused(t) PROVE TypeOK'
  <2>0. Thread(t) \in Threads /\ PairOf(t) \in Turns
    BY <1>t, <1>26 DEF RunRefused
  <2>1. run' \in [Turns -> Runs]
    BY <1>0, <1>g, <1>26 DEF RunRefused, Pcs, StartPcs, RunPcs
  <2>2. pair' \in [Turns -> Pairs]
    BY <1>26, <2>0, FailuresTyped DEF RunRefused
  <2>3. record' \in [Turns -> Records]
    BY <1>26, <2>0, FailuresTyped DEF RunRefused
  <2>4. lock' \in [Threads -> Seq(Actors)]
    BY <1>0, <1>26, <2>0, LocksTyped DEF RunRefused
  <2>5. faults' \in 0 .. MaxFaults
    BY <1>0, <1>f, <1>26 DEF RunRefused
  <2> QED
    BY <1>0, <1>26, <2>1, <2>2, <2>3, <2>4, <2>5 DEF RunRefused, files, TypeOK
<1>27. ASSUME NEW t \in Turns, SayRefused(t) PROVE TypeOK'
  <2>0. Thread(t) \in Threads /\ PairOf(t) \in Turns
    BY <1>t, <1>27 DEF SayRefused
  <2>1. run' \in [Turns -> Runs]
    BY <1>0, <1>g, <1>27 DEF SayRefused, ToLock, Pcs, StartPcs, RunPcs
  <2>2. stream' \in [Turns -> Seq(EventTypes)]
    BY <1>0, <1>27, EmitTyped DEF SayRefused, ToLock, EventTypes
  <2>3. lock' \in [Threads -> Seq(Actors)]
    BY <1>0, <1>27, <2>0, LocksTyped DEF SayRefused, ToLock
  <2>4. faults' \in 0 .. MaxFaults
    BY <1>0, <1>f, <1>27 DEF SayRefused, ToLock
  <2> QED
    BY <1>0, <1>27, <2>1, <2>2, <2>3, <2>4 DEF SayRefused, files, TypeOK
<1>28. ASSUME NEW t \in Turns, SayFailed(t, "sayFailed", "end") PROVE TypeOK'
  <2>1. run' \in [Turns -> Runs]
    BY <1>0, <1>g, <1>28 DEF SayFailed, Pcs, StartPcs, RunPcs
  <2>2. stream' \in [Turns -> Seq(EventTypes)]
    BY <1>0, <1>28, EmitTyped DEF SayFailed, EventTypes
  <2>3. faults' \in 0 .. MaxFaults
    BY <1>0, <1>f, <1>28 DEF SayFailed
  <2> QED
    BY <1>0, <1>28, <2>1, <2>2, <2>3 DEF SayFailed, files, TypeOK
<1>29. ASSUME NEW t \in Turns, EndRun(t) PROVE TypeOK'
  <2>0. Thread(t) \in Threads /\ PairOf(t) \in Turns
    BY <1>t, <1>29 DEF EndRun
  <2>1. run' \in [Turns -> Runs]
    BY <1>0, <1>g, <1>29 DEF EndRun, Pcs, StartPcs, RunPcs
  <2>2. registry' \in Registries
    BY <1>0, <1>29, <2>0, RegistryEdited DEF EndRun
  <2> QED
    BY <1>0, <1>29, <2>1, <2>2 DEF EndRun, files, TypeOK
<1>30. ASSUME NEW t \in Turns, CancelArrives(t) PROVE TypeOK'
  <2>1. cancel' \in [Turns -> CancelPcs]
    BY <1>0, <1>30 DEF CancelArrives, CancelGoto, CancelPcs
  <2> QED
    BY <1>0, <1>30, <2>1 DEF CancelArrives, files, TypeOK
<1>31. ASSUME NEW t \in Turns, CancelLoads(t) PROVE TypeOK'
  <2>0. Thread(t) \in Threads /\ PairOf(t) \in Turns
    BY <1>t, <1>31 DEF CancelLoads
  <2>1. cancel' \in [Turns -> CancelPcs]
    BY <1>0, <1>31 DEF CancelLoads, CancelGoto, CancelPcs
  <2>2. registry' \in Registries
    BY <1>0, <1>31, <2>0, RegistryEdited DEF CancelLoads
  <2> QED
    BY <1>0, <1>31, <2>1, <2>2 DEF CancelLoads, files, TypeOK
<1>32. ASSUME NEW t \in Turns, Interrupt(t) PROVE TypeOK'
  <2>0. Thread(t) \in Threads /\ PairOf(t) \in Turns
    BY <1>t, <1>32 DEF Interrupt
  <2>1. run' \in [Turns -> Runs]
    <3>1. Running(t) \in BOOLEAN
      BY DEF Running
    <3> QED
      BY <1>0, <1>32, <3>1, RunTouched DEF Interrupt
  <2>2. lock' \in [Threads -> Seq(Actors)]
    BY <1>0, <1>32, <2>0, LocksTyped DEF Interrupt
  <2>3. cancel' \in [Turns -> CancelPcs]
    BY <1>0, <1>32 DEF Interrupt, CancelGoto, CancelPcs
  <2>4. faults' \in 0 .. MaxFaults
    BY <1>0, <1>f, <1>32 DEF Interrupt
  <2> QED
    BY <1>0, <1>32, <2>1, <2>2, <2>3, <2>4 DEF Interrupt, files, TypeOK
<1>33. ASSUME NEW t \in Turns, MarkCanceled(t) PROVE TypeOK'
  <2>0. Thread(t) \in Threads /\ PairOf(t) \in Turns
    BY <1>t, <1>33 DEF MarkCanceled
  <2>1. pair' \in [Turns -> Pairs]
    <3>1. CanceledRow(t) \in Pairs
      BY RowsTyped
    <3> QED
      BY <1>33, <2>0, <3>1, FilesTyped DEF MarkCanceled
  <2>2. record' \in [Turns -> Records]
    <3>1. (IF pair[PairOf(t)].answer THEN pair[PairOf(t)].turn ELSE None) \in Turns \cup {None}
      BY <1>0, <2>0 DEF Pairs
    <3> QED
      BY <1>33, <2>0, <3>1, FilesTyped DEF MarkCanceled, Terminal
  <2>3. registry' \in Registries
    BY <1>0, <1>33, <2>0, RegistryEdited DEF MarkCanceled
  <2>4. lock' \in [Threads -> Seq(Actors)]
    BY <1>0, <1>33, <2>0, LocksTyped DEF MarkCanceled
  <2>5. cancel' \in [Turns -> CancelPcs]
    BY <1>0, <1>33 DEF MarkCanceled, CancelGoto, CancelPcs
  <2>6. faults' \in 0 .. MaxFaults
    BY <1>0, <1>f, <1>33 DEF MarkCanceled
  <2> QED
    BY <1>0, <1>33, <2>1, <2>2, <2>3, <2>4, <2>5, <2>6 DEF MarkCanceled, files, TypeOK
<1>34. ASSUME NEW t \in Turns, SayCanceled(t) PROVE TypeOK'
  <2>0. Thread(t) \in Threads /\ PairOf(t) \in Turns
    BY <1>t, <1>34 DEF SayCanceled
  <2>1. stream' \in [Turns -> Seq(EventTypes)]
    BY <1>0, <1>34, EmitTyped DEF SayCanceled, EventTypes
  <2>2. registry' \in Registries
    BY <1>0, <1>34, <2>0, RegistryEdited DEF SayCanceled
  <2>3. cancel' \in [Turns -> CancelPcs]
    BY <1>0, <1>34 DEF SayCanceled, CancelGoto, CancelPcs
  <2>4. faults' \in 0 .. MaxFaults
    BY <1>0, <1>f, <1>34 DEF SayCanceled
  <2> QED
    BY <1>0, <1>34, <2>1, <2>2, <2>3, <2>4 DEF SayCanceled, files, TypeOK
<1>35. ASSUME NEW v \in Readers, NEW th \in Threads, ReadThread(v, th) PROVE TypeOK'
  <2>1. reader' \in [Readers -> Reads]
    <3>1. registry.active[th] \in Turns \cup {None}
      BY <1>0 DEF Registries
    <3> QED
      BY <1>0, <1>35, <3>1 DEF ReadThread, Snapshot, Reads
  <2>2. lock' \in [Threads -> Seq(Actors)]
    <3>1. th \in Threads /\ ReaderOf(v) \in Actors
      BY <1>35, ActorsTyped DEF ReadThread, ReaderInv, Harmless
    <3> QED
      BY <1>0, <1>35, <3>1, LockEdited DEF ReadThread, Snapshot, Queued
  <2> QED
    BY <1>0, <1>35, <2>1, <2>2 DEF ReadThread, files, TypeOK
<1>36. ASSUME NEW v \in Readers, NEW t \in Turns, ReadEvents(v, t) PROVE TypeOK'
  <2>1. reader' \in [Readers -> Reads]
    <3>1. Thread(t) \in Threads
      BY <1>0, <1>t, <1>36 DEF ReadEvents, RequestInv
    <3>2. [IdleReader EXCEPT !.pc = "scanned", !.thread = Thread(t), !.target = t] \in Reads
      BY <3>1 DEF IdleReader, Reads
    <3> QED
      BY <1>0, <1>36, <3>2 DEF ReadEvents
  <2> QED
    BY <1>0, <1>36, <2>1 DEF ReadEvents, files, TypeOK
<1>37. ASSUME NEW v \in Readers, SnapshotEvents(v) PROVE TypeOK'
  <2>1. reader' \in [Readers -> Reads]
    <3>1. /\ registry.active[reader[v].thread] \in Turns \cup {None}
          /\ reader[v].thread \in Threads /\ reader[v].target \in Turns
      BY <1>0, <1>37 DEF SnapshotEvents, ReaderInv, Harmless, Registries
    <3> QED
      BY <1>0, <1>37, <3>1 DEF SnapshotEvents, Snapshot, Reads
  <2>2. lock' \in [Threads -> Seq(Actors)]
    <3>1. reader[v].thread \in Threads /\ ReaderOf(v) \in Actors
      BY <1>37, ActorsTyped DEF SnapshotEvents, ReaderInv, Harmless
    <3> QED
      BY ZenonT(30), <1>0, <1>37, <3>1, LockEdited DEF SnapshotEvents, Snapshot, Queued
  <2> QED
    BY <1>0, <1>37, <2>1, <2>2 DEF SnapshotEvents, files, TypeOK
<1>38. ASSUME NEW v \in Readers, Reconcile(v) PROVE TypeOK'
  <2>1. pair' \in [Turns -> Pairs]
    <3>1. \A p \in Turns : [pair[p] EXCEPT !.status = "failed"] \in Pairs
      BY <1>0 DEF Pairs, PairStatus
    <3> QED
      BY <1>0, <1>38, <3>1 DEF Reconcile
  <2>2. response' \in [Turns -> Turns \cup {None}]
    <3>1. \A p \in Turns : pair[p].turn \in Turns \cup {None}
      BY <1>0 DEF Pairs
    <3> QED
      BY <1>0, <1>38, <3>1 DEF Reconcile, RepairedResponse
  <2>3. record' \in [Turns -> Records]
    <3>1. RepairedRecord(v) \in [Turns -> Records]
      <4>1. ASSUME NEW u \in Turns, \E p \in PairsOf(v) : pair[p].answer /\ pair[p].turn = u
            PROVE  pair[CHOOSE p \in PairsOf(v) : pair[p].answer /\ pair[p].turn = u].from
                      \in Turns \cup {None}
        <5>1. (CHOOSE p \in PairsOf(v) : pair[p].answer /\ pair[p].turn = u) \in Turns
          BY <4>1 DEF PairsOf
        <5> QED
          BY <1>0, <5>1 DEF Pairs
      <4>2. \A f \in Turns \cup {None} : [status |-> "completed", from |-> f] \in Records
        BY DEF Records, Terminal
      <4> QED
        BY <1>0, <4>1, <4>2 DEF RepairedRecord
    <3>2. \A u \in Turns : [RepairedRecord(v)[u] EXCEPT !.status = "failed"] \in Records
      BY <3>1 DEF Records, Terminal
    <3> QED
      BY <1>38, <3>1, <3>2 DEF Reconcile
  <2>4. stream' \in [Turns -> Seq(EventTypes)]
    <3>1. \A s \in Seq(EventTypes), e \in EventTypes : Append(s, e) \in Seq(EventTypes)
      OBVIOUS
    <3> QED
      BY <1>0, <1>38, <3>1 DEF Reconcile, RepairedStream, EventTypes
  <2>5. lock' \in [Threads -> Seq(Actors)]
    <3>1. reader[v].thread \in Threads /\ ReaderOf(v) \in Actors
      BY <1>38, ActorsTyped DEF Reconcile, ReaderInv, Harmless
    <3> QED
      BY <1>0, <1>38, <3>1, LockEdited DEF Reconcile, Snapshot, Queued
  <2>6. reader' \in [Readers -> Reads]
    BY <1>0, <1>38 DEF Reconcile, IdleReader, Reads
  <2> QED
    BY <1>0, <1>38, <2>1, <2>2, <2>3, <2>4, <2>5, <2>6 DEF Reconcile, files, TypeOK
<1>39. ASSUME Crash PROVE TypeOK'
  <2>1. registry' \in Registries /\ crashes' \in 0 .. MaxCrashes
    BY <1>0, <1>39, RegistryEdited, TurnAssumption DEF Crash
  <2>2. lock' \in [Threads -> Seq(Actors)] /\ reader' \in [Readers -> Reads]
    BY <1>39 DEF Crash, IdleReader, Reads
  <2>3. run' \in [Turns -> Runs]
    <3>1. \A t \in Turns : run[t].pc # "idle" => Over(t) \in Runs
      BY <1>t, RunBegins DEF Over, Thread, PairOf
    <3> QED
      BY <1>0, <1>39, <3>1 DEF Crash
  <2>4. cancel' \in [Turns -> CancelPcs]
    BY <1>39 DEF Crash, CancelPcs
  <2> QED
    BY <1>0, <1>39, <2>1, <2>2, <2>3, <2>4 DEF Crash, files, TypeOK
<1> QED
  BY <1>1, <1>2, <1>3, <1>4, <1>5, <1>6, <1>7, <1>8, <1>9, <1>10, <1>11, <1>12, <1>13, <1>14,
     <1>15, <1>16, <1>17, <1>18, <1>19, <1>20, <1>21, <1>22, <1>23, <1>24, <1>25, <1>26,
     <1>27, <1>28, <1>29, <1>30, <1>31, <1>32, <1>33, <1>34, <1>35, <1>36, <1>37, <1>38, <1>39
  DEF Next, Request, Start, Proceed, Cancel, Read

-----------------------------------------------------------------------------
(* The theorems.                                                             *)
\* Nothing takes the answer of a pair or its response away.
AnswersStay == \A p \in Turns : pair[p].answer => pair'[p].answer /\ response'[p] # None

\* No step does.
LEMMA StepsKeepAnswers ==
    ASSUME TypeOK, RequestInv, SlotInv, QuestionInv, RowInv, AnswerNeverDenied,
           SavedInv, RecordInv, EarlyInv, TurnStep
    PROVE  AnswersStay
<1>0. /\ run \in [Turns -> Runs] /\ pair \in [Turns -> Pairs] /\ record \in [Turns -> Records]
      /\ cancel \in [Turns -> CancelPcs]
      /\ \A t \in Turns : /\ run[t].pc \in Pcs /\ run[t].thread \in Threads \cup {None}
                           /\ run[t].pair \in Turns \cup {None}
      /\ \A p \in Turns : pair[p].turn \in Turns \cup {None}
      /\ \A t \in registry.turns : run[t].pc \in RunPcs
      /\ None \notin Turns /\ None \notin Threads
  BY TurnAssumption DEF TypeOK, SlotInv, SlotsBalanced, Runs, Pairs
<1>1. CASE Stands
  BY <1>0, <1>1 DEF Stands, SameTurns, KeepsFiles, AnswersStay, SavedInv, QuestionInv
<1>2. ASSUME NEW t \in Turns, Loads(t) PROVE AnswersStay
  BY <1>0, <1>2 DEF Loads, KeepsFiles, AnswersStay, SavedInv, QuestionInv
<1>3. ASSUME NEW t \in Turns, NEW to \in Pcs, Goes(t, to) PROVE AnswersStay
  BY <1>0, <1>3 DEF Goes, KeepsFiles, MovedTo, AnswersStay, SavedInv, QuestionInv
<1>4. ASSUME NEW t \in Turns, NEW to \in CancelPcs, Cancels(t, to) PROVE AnswersStay
  BY <1>0, <1>4
  DEF Cancels, CancelIs, KeepsFiles, SameTurns, CancelPcs, AnswersStay, SavedInv, QuestionInv
<1>5. ASSUME NEW t \in Turns, AppendsPair(t) PROVE AnswersStay
  BY <1>0, <1>5 DEF AppendsPair, MovedTo, RowIs, AnswersStay, SavedInv, QuestionInv
<1>6. ASSUME NEW t \in Turns, StartsRecord(t) PROVE AnswersStay
  BY <1>0, <1>6 DEF StartsRecord, MovedTo, AnswersStay, SavedInv, QuestionInv
<1>7. ASSUME NEW t \in Turns, SavesAnswer(t) PROVE AnswersStay
  BY <1>0, <1>7
  DEF SavesAnswer, MovedTo, RowIs, ResponseIs, Answerable, Canceled, PairOf, AnswersStay,
      SavedInv, QuestionInv
<1>8. ASSUME NEW t \in Turns, LeavesResponse(t) PROVE AnswersStay
  BY <1>0, <1>8 DEF LeavesResponse, MovedTo, ResponseIs, AnswersStay, SavedInv, QuestionInv
<1>9. ASSUME NEW t \in Turns, CompletesRecord(t) PROVE AnswersStay
  BY <1>0, <1>9 DEF CompletesRecord, MovedTo, AnswersStay, SavedInv, QuestionInv
<1>10. ASSUME NEW t \in Turns, NEW status \in {"failed", "refused"},
              FailsRecord(t, status)
       PROVE  AnswersStay
  BY <1>0, <1>10 DEF FailsRecord, MovedTo, RowIs, AnswersStay, SavedInv, QuestionInv
<1>11. ASSUME NEW t \in Turns, FailsRow(t) PROVE AnswersStay
  BY <1>0, <1>11 DEF FailsRow, MovedTo, RowIs, AnswersStay, SavedInv, QuestionInv
<1>12. ASSUME NEW t \in Turns, CancelsRecord(t) PROVE AnswersStay
  BY <1>0, <1>12 DEF CancelsRecord, SameTurns, RowIs, CancelIs, AnswersStay, SavedInv, QuestionInv
<1>13. ASSUME NEW t \in Turns, CancelsRow(t) PROVE AnswersStay
  BY <1>0, <1>13 DEF CancelsRow, SameTurns, RowIs, CancelIs, AnswersStay, SavedInv, QuestionInv
<1>14. ASSUME NEW v \in Readers, Reconciles(v) PROVE AnswersStay
  BY <1>0, <1>14, ReconcileMoves DEF Reconciles, SameTurns, AnswersStay, SavedInv, QuestionInv
<1>15. CASE Dies
  BY <1>0, <1>15 DEF Dies, KeepsFiles, AnswersStay, SavedInv, QuestionInv
<1> QED
  BY <1>1, <1>2, <1>3, <1>4, <1>5, <1>6, <1>7, <1>8, <1>9, <1>10, <1>11, <1>12, <1>13, <1>14,
     <1>15
  DEF TurnStep

\* The invariant holds of the empty files and the empty process.
LEMMA TurnInvHoldsAtFirst == Init => TurnInv
<1> SUFFICES ASSUME Init PROVE TurnInv
  OBVIOUS
<1>1. /\ None \notin Turns /\ None \notin Threads /\ 0 \in 0 .. MaxFaults /\ 0 \in 0 .. MaxCrashes
      /\ MaxTurns \in Nat
  BY TurnAssumption
<1>2. /\ \A t \in Turns : /\ run[t].pc = "idle" /\ run[t].kind = "message" /\ cancel[t] = "idle"
                          /\ pair[t] = NoPair /\ record[t] = NoRecord /\ stream[t] = <<>>
      /\ \A v \in Readers : reader[v].pc = "idle" /\ reader[v].target = None
      /\ \A p \in Turns : pair[p].turn = None /\ ~pair[p].answer
      /\ known = {} /\ \A th \in Threads : lock[th] = <<>>
      /\ \A t \in Turns : record[t].status = "none"
  BY DEF Init, IdleRun, IdleReader, NoPair, NoRecord
<1>3. TypeOK
  <2>1. registry \in Registries
    BY DEF Init, EmptyRegistry, Registries
  <2>2. run \in [Turns -> Runs]
    BY RunBegins DEF Init
  <2>3. pair \in [Turns -> Pairs] /\ record \in [Turns -> Records]
    BY DEF Init, NoPair, NoRecord, Pairs, Records, PairStatus
  <2>4. reader \in [Readers -> Reads] /\ cancel \in [Turns -> CancelPcs]
    BY DEF Init, IdleReader, Reads, CancelPcs
  <2>5. stream \in [Turns -> Seq(EventTypes)] /\ lock \in [Threads -> Seq(Actors)]
    BY DEF Init
  <2> QED
    BY <1>1, <2>1, <2>2, <2>3, <2>4, <2>5 DEF Init, TypeOK
<1>4. SlotInv
  <2>1. /\ registry.active = [th \in Threads |-> None] /\ registry.turns = {}
        /\ registry.reserved = {} /\ registry.admitted = {} /\ registry.held = 0
    BY DEF Init, EmptyRegistry
  <2> QED
    BY <1>1, <1>2, <2>1, FS_EmptySet DEF SlotInv, SlotsBalanced, StartPcs
<1>5. RequestInv /\ QuestionInv /\ RowInv
  BY <1>1, <1>2 DEF RequestInv, QuestionInv, RowInv, Begun, RunPcs
<1>6. AnswerNeverDenied /\ SavedInv /\ RecordInv
  BY <1>2 DEF AnswerNeverDenied, SavedInv, RecordInv, NotBegun, PrePcs, Begun, RunPcs
<1>7. StreamInv
  BY <1>2 DEF StreamInv, EventsTellTheRecord
<1>8. EarlyInv /\ RegisteredInv /\ ReaderInv /\ QueueInv
  BY <1>2 DEF EarlyInv, RegisteredInv, ReaderInv, Harmless, QueueInv, EarlyPcs, Waiting
<1> QED
  BY <1>3, <1>4, <1>5, <1>6, <1>7, <1>8 DEF TurnInv

\* No step breaks it.
LEMMA TurnInvIsKept == TurnInv /\ [Next]_vars => TurnInv'
<1> SUFFICES ASSUME TurnInv, [Next]_vars PROVE TurnInv'
  OBVIOUS
<1>0. /\ TypeOK /\ RequestInv /\ SlotInv /\ QuestionInv /\ RowInv /\ AnswerNeverDenied /\ SavedInv
      /\ RecordInv /\ StreamInv /\ EarlyInv /\ RegisteredInv /\ ReaderInv /\ QueueInv
  BY DEF TurnInv
<1>1. CASE Next
  <2>1. TurnStep /\ SlotStep /\ StreamStep /\ QueueStep
    BY <1>0, <1>1, StepsOfTurns, StepsOfSlots, StepsOfStreams, StepsOfQueues
  <2>2. TypeOK'
    BY <1>0, <1>1, TypesKept
  <2>3. SlotInv'
    BY <1>0, <2>1, SlotsKept
  <2>4. RequestInv' /\ QuestionInv' /\ RowInv'
    BY <1>0, <2>1, RequestKept, QuestionKept, RowKept
  <2>5. AnswerNeverDenied' /\ SavedInv' /\ RecordInv'
    BY <1>0, <2>1, AnswersTrue, SavedKept, RecordKept
  <2>6. StreamInv' /\ EarlyInv' /\ RegisteredInv'
    BY <1>0, <2>1, StreamsKept, EarlyKept, RegisteredKept
  <2>7. ReaderInv' /\ QueueInv'
    BY <1>0, <2>1, ReadsKept, QueuesKept
  <2> QED
    BY <2>2, <2>3, <2>4, <2>5, <2>6, <2>7 DEF TurnInv
<1>2. CASE UNCHANGED vars
  <2>0. /\ UNCHANGED <<pair, response, answered, record, stream, stale, registry, lock, run>>
        /\ UNCHANGED <<cancel, reader, known, faults, crashes>>
    BY <1>2 DEF vars, files
  <2>1. TypeOK'
    BY <1>0, <2>0 DEF TypeOK
  <2>6. SlotInv'
    <3>1. KeepsSlots
      BY <1>0, <2>0 DEF KeepsSlots, SameSlots, TypeOK
    <3> QED
      BY <1>0, <3>1, SlotsKept DEF SlotStep
  <2>2. RequestInv' /\ QuestionInv' /\ RowInv'
    BY <1>0, <2>0 DEF RequestInv, QuestionInv, RowInv
  <2>3. AnswerNeverDenied' /\ SavedInv' /\ RecordInv'
    BY <1>0, <2>0 DEF AnswerNeverDenied, SavedInv, RecordInv
  <2>4. StreamInv' /\ EarlyInv' /\ RegisteredInv'
    BY <1>0, <2>0 DEF StreamInv, EventsTellTheRecord, EarlyInv, RegisteredInv, Ended
  <2>5. ReaderInv' /\ QueueInv'
    BY <1>0, <2>0 DEF ReaderInv, Harmless, QueueInv, Concerns, Thread, Ended
  <2> QED
    BY <2>1, <2>2, <2>3, <2>4, <2>5, <2>6 DEF TurnInv
<1> QED
  BY <1>1, <1>2

\* The invariant behind the theorems below: what each request, run, cancel and
\* read may assume of the registry, of the lock and of the files.
THEOREM TurnInvariance == Spec => []TurnInv
<1>1. Init => TurnInv
  BY TurnInvHoldsAtFirst
<1>2. TurnInv /\ [Next]_vars => TurnInv'
  BY TurnInvIsKept
<1> QED
  BY <1>1, <1>2, PTL DEF Spec

\* Every variable keeps its type.
THEOREM TypeCorrect == Spec => []TypeOK
<1>1. TurnInv => TypeOK
  BY DEF TurnInv
<1> QED
  BY <1>1, TurnInvariance, PTL

\* The registry lends at most its slots, and each belongs to a request or run
\* that will give it back: no path of a request, of a run or of a cancel gives a
\* slot back twice, gives back that of another turn, or forgets it.
THEOREM SlotsStayBalanced == Spec => []SlotsBalanced
<1>1. TurnInv => SlotsBalanced
  BY DEF TurnInv, SlotInv
<1> QED
  BY <1>1, TurnInvariance, PTL

\* The turn whose answer a pair shows was not failed, refused or canceled: a
\* cancel, a failure and a reconciliation that come to the files after the
\* answer leave its record alone, and an answer that comes after them is not
\* saved.
THEOREM AnswersAreNotDenied == Spec => []AnswerNeverDenied
<1>1. TurnInv => AnswerNeverDenied
  BY DEF TurnInv
<1> QED
  BY <1>1, TurnInvariance, PTL

\* What the event stream of a turn told is what its record says, then and ever
\* after.
THEOREM EventsAreTrue == Spec => []EventsTellTheRecord
<1>1. TurnInv => EventsTellTheRecord
  BY DEF TurnInv, StreamInv
<1> QED
  BY <1>1, TurnInvariance, PTL

\* A pair that was answered stays answered and keeps a response: a regeneration
\* that fails or is stopped, and a crash with its repair, take nothing away.
THEOREM AnswersAreKept == Spec => AnswerIsKept
<1>1. TurnInv /\ [Next]_vars =>
         [\A p \in Turns : pair[p].answer => pair'[p].answer /\ response'[p] # None]_vars
  <2> SUFFICES ASSUME TurnInv, Next
               PROVE  \A p \in Turns : pair[p].answer => pair'[p].answer /\ response'[p] # None
    OBVIOUS
  <2>1. /\ TypeOK /\ RequestInv /\ SlotInv /\ QuestionInv /\ RowInv /\ AnswerNeverDenied
        /\ SavedInv /\ RecordInv /\ EarlyInv
    BY DEF TurnInv
  <2>2. TurnStep
    BY <2>1, StepsOfTurns
  <2> QED
    BY <2>1, <2>2, StepsKeepAnswers DEF AnswersStay
<1> QED
  BY <1>1, TurnInvariance, PTL DEF Spec, AnswerIsKept

-----------------------------------------------------------------------------
(* The stream of a turn.                                                   *)

\* An append that fails leaves no row of its own.
AppendsAreKnown == "kept" \notin AppendFaults

KnowsEnd(c) == got[c] # <<>> /\ IsTerminal(got[c][Len(got[c])])

\* The id of a row is its place, whatever is cached, torn or tried again.
NumberedInv ==
    /\ \A i \in 1 .. Len(rows) : rows[i].id = i
    /\ written = NoEvent => next \in {0, Len(rows) + 1}
    /\ written # NoEvent => Len(rows) > 0 /\ written = rows[Len(rows)] /\ queue # <<>>

\* A connection that repairs the stream waits for its own append, the only one.
RepairInv ==
    \A i \in 1 .. Len(queue) :
       queue[i].by # "run" =>
          /\ conn[queue[i].by].pc = "repair"
          /\ \A j \in 1 .. Len(queue) : queue[j].by = queue[i].by => i = j

Subscribed == {"loading", "loaded", "open"}
Served == Subscribed \cup {"scan", "reconcile", "repair", "reload"}

\* A browser that was told the end is done; the cursor of every other one is
\* in the file, and its connection skips nothing past it.
CursorInv(c) ==
    LET k == conn[c]
    IN  /\ KnowsEnd(c) => k.pc = "done"
        /\ k.pc # "done" => LastId(c) <= Len(rows)
        /\ k.pc \in Served =>
              /\ k.after <= LastId(c) /\ (k.after = LastId(c) \/ LastId(c) \in k.sent)
              /\ \A i \in k.sent : i <= LastId(c) /\ i \in 1 .. Len(rows) /\ rows[i].kind = "delta"
        /\ k.pc \in Served \ {"open"} => k.after = LastId(c) /\ k.sent = {}
        /\ k.pc \in Served \ {"loaded", "open"} => k.replay = {}

\* What is buffered is in order, and it is new to the browser or was sent,
\* unless the replay still has an end to send, which closes the connection.
BufferInv(c) ==
    LET k == conn[c]
    IN  k.pc \in Subscribed =>
           \A i \in 1 .. Len(k.buffer) :
              LET e == k.buffer[i]
              IN  /\ e.id \in 1 .. Len(rows) /\ e = rows[e.id]
                  /\ \/ e.id > LastId(c) \/ e.id \in k.sent
                     \/ \E j \in k.replay : j > e.id /\ IsTerminal(rows[j])
                  /\ written # NoEvent => e.id < Len(rows)
                  /\ \A j \in 1 .. Len(k.buffer) : i < j => e.id < k.buffer[j].id

\* So is the replay.
ReplayInv(c) ==
    LET k == conn[c]
    IN  /\ k.pc \in {"loaded", "open", "replaying"} => \A i \in k.replay : i \in 1 .. Len(rows)
        /\ k.pc \in {"loaded", "open"} => \A i \in k.replay : i > LastId(c) \/ i \in k.sent
        /\ k.pc = "replaying" => \A i \in k.replay : i > LastId(c)

Unpublished(j) == written # NoEvent /\ j = Len(rows)
Buffers(k, j) == \E i \in 1 .. Len(k.buffer) : k.buffer[i].id = j

\* No event of the process or the answer is lost: what the browser has not seen
\* is still to be sent, by the replay or after all of it.  An end that is not
\* is superseded by one that is.
CoverInv(c) ==
    LET k == conn[c]
    IN  /\ k.pc \in {"loaded", "open"} =>
              \A j \in LastId(c) + 1 .. Len(rows) :
                 \/ j \in k.replay
                 \/ (\A i \in k.replay : i < j)
                    /\ (rows[j].kind = "delta" => Buffers(k, j) \/ Unpublished(j))
                 \/ IsTerminal(rows[j]) /\ \E i \in k.replay : i > j /\ IsTerminal(rows[i])
        /\ k.pc = "replaying" =>
              \A i \in k.replay : \A j \in LastId(c) + 1 .. i :
                 rows[j].kind = "delta" => j \in k.replay

FollowerInv(c) == CursorInv(c) /\ BufferInv(c) /\ ReplayInv(c) /\ CoverInv(c)

\* The inductive invariant of a stream.
FeedInv ==
    /\ StreamTypeOK /\ NumberedInv /\ RepairInv
    /\ \A c \in Followers : FollowerInv(c)

-----------------------------------------------------------------------------
(* Rows, queues and cursors.                                               *)

RowType == [id : Nat \ {0}, kind : EventKinds]
AppendType == [kind : EventKinds, by : Followers \cup {"run"}]
ConnectionType ==
    [pc : ConnectionPcs, after : Nat, replay : SUBSET Nat, presumed : Nat,
     buffer : Seq(Event), sent : SUBSET Nat]

\* What is appended to a sequence comes last, and the rest stays.
LEMMA LastOfAppended ==
    ASSUME NEW S, NEW s \in Seq(S), NEW e \in S
    PROVE  /\ Append(s, e) \in Seq(S) /\ Append(s, e) # <<>>
           /\ Len(s) \in Nat /\ Len(Append(s, e)) = Len(s) + 1
           /\ \A i \in 1 .. Len(s) : Append(s, e)[i] = s[i] /\ s[i] \in S
           /\ Append(s, e)[Len(s) + 1] = e
           /\ Append(s, e)[Len(Append(s, e))] = e
<1>1. /\ Append(s, e) \in Seq(S) /\ Append(s, e) # <<>> /\ Len(s) \in Nat
      /\ Len(Append(s, e)) = Len(s) + 1
      /\ \A i \in 1 .. Len(s) : Append(s, e)[i] = s[i]
      /\ Append(s, e)[Len(s) + 1] = e
  BY AppendProperties, LenProperties
<1>2. \A i \in 1 .. Len(s) : s[i] \in S
  BY ElementOfSeq
<1> QED BY <1>1, <1>2

\* The rest of a sequence without its head.
LEMMA RestOf ==
    ASSUME NEW S, NEW s \in Seq(S), s # <<>>
    PROVE  /\ Tail(s) \in Seq(S) /\ Len(s) \in Nat /\ Len(s) > 0
           /\ Len(Tail(s)) = Len(s) - 1
           /\ Head(s) = s[1] /\ Head(s) \in S
           /\ \A i \in 1 .. Len(Tail(s)) : Tail(s)[i] = s[i + 1]
<1>1. Len(s) \in Nat /\ Len(s) > 0
  BY EmptySeq, LenProperties
<1> QED BY <1>1, HeadTailProperties, ElementOfSeq

\* The greatest of some rows.
LEMMA GreatestRow ==
    ASSUME NEW n \in Nat, NEW S \in SUBSET (1 .. n), S # {}
    PROVE  \E m \in S : \A x \in S : x <= m
<1> DEFINE D == {n - x : x \in S}
<1>1. D \in SUBSET Nat /\ D # {}
  OBVIOUS
<1>2. PICK least \in D : \A d \in D : <<d, least>> \notin OpToRel(<, Nat)
  <2> HIDE DEF D
  <2> QED BY <1>1, NatLessThanWellFounded, WFMin
<1>3. PICK m \in S : least = n - m
  BY <1>2
<1>4. ASSUME NEW x \in S PROVE x <= m
  <2>1. n - x \in D
    OBVIOUS
  <2>2. ~(n - x < least)
    BY <1>1, <1>2, <2>1 DEF OpToRel
  <2> QED BY <1>3, <2>2
<1> QED BY <1>4

LEMMA StreamTypes ==
    ASSUME StreamTypeOK
    PROVE  /\ Len(rows) \in Nat /\ rows \in Seq(Event)
           /\ \A i \in 1 .. Len(rows) : rows[i] \in RowType /\ rows[i] \in Event
           /\ \A c \in Followers :
                 /\ conn[c] \in ConnectionType /\ got[c] \in Seq(Event)
                 /\ LastId(c) \in Nat
                 /\ Len(conn[c].buffer) \in Nat
                 /\ \A i \in 1 .. Len(conn[c].buffer) : conn[c].buffer[i] \in Event
<1>1. rows \in Seq(RowType) /\ RowType \subseteq Event
  BY DEF StreamTypeOK, RowType, Event
<1>2. Len(rows) \in Nat /\ \A i \in 1 .. Len(rows) : rows[i] \in RowType
  BY <1>1, LenProperties, ElementOfSeq
<1>3. rows \in Seq(Event)
  BY <1>1, SeqMonotonic
<1>4. ASSUME NEW c \in Followers
      PROVE  conn[c] \in ConnectionType /\ got[c] \in Seq(Event)
  BY DEF StreamTypeOK, ConnectionType
<1>5. ASSUME NEW c \in Followers PROVE LastId(c) \in Nat
  <2>1. got[c] \in Seq(Event)
    BY <1>4
  <2>2. CASE got[c] = <<>>
    BY <2>2 DEF LastId
  <2>3. CASE got[c] # <<>>
    <3>1. Len(got[c]) \in Nat /\ Len(got[c]) > 0
      BY <2>1, <2>3, RestOf
    <3>2. got[c][Len(got[c])] \in Event
      BY <2>1, <3>1, ElementOfSeq
    <3> QED BY <2>3, <3>2 DEF LastId, Event
  <2> QED BY <2>2, <2>3
<1>6. ASSUME NEW c \in Followers
      PROVE  /\ Len(conn[c].buffer) \in Nat
             /\ \A i \in 1 .. Len(conn[c].buffer) : conn[c].buffer[i] \in Event
  <2>1. conn[c].buffer \in Seq(Event)
    BY <1>4 DEF ConnectionType
  <2> QED BY <2>1, LenProperties, ElementOfSeq
<1> QED BY <1>1, <1>2, <1>3, <1>4, <1>5, <1>6

LEMMA ClosedIsTyped ==
    ASSUME NEW pc \in ConnectionPcs
    PROVE  Closed(pc) \in ConnectionType
<1>1. <<>> \in Seq(Event)
  BY EmptySeq
<1> QED BY <1>1 DEF Closed, ConnectionType

\* The cursor of a browser that has handled an event.
LEMMA CursorAdvances ==
    ASSUME StreamTypeOK, NEW c \in Followers, NEW e \in Event,
           got' = [got EXCEPT ![c] = Append(got[c], e)]
    PROVE  /\ got' \in [Followers -> Seq(Event)]
           /\ got'[c] = Append(got[c], e)
           /\ LastId(c)' = e.id
           /\ KnowsEnd(c)' <=> IsTerminal(e)
<1>1. got \in [Followers -> Seq(Event)]
  BY DEF StreamTypeOK
<1>2. got'[c] = Append(got[c], e) /\ got[c] \in Seq(Event)
  BY <1>1
<1>3. /\ Append(got[c], e) \in Seq(Event) /\ Append(got[c], e) # <<>>
      /\ Append(got[c], e)[Len(Append(got[c], e))] = e
  BY <1>2, LastOfAppended
<1>4. LastId(c)' = e.id
  BY <1>2, <1>3 DEF LastId
<1>5. KnowsEnd(c)' <=> IsTerminal(e)
  BY <1>2, <1>3 DEF KnowsEnd, IsTerminal
<1> QED BY <1>1, <1>2, <1>3, <1>4, <1>5

-----------------------------------------------------------------------------
(* What happens to the connection of one follower.                         *)

LEMMA FollowerStays ==
    ASSUME NEW c \in Followers, FollowerInv(c), UNCHANGED <<rows, written>>,
           conn'[c] = conn[c], got'[c] = got[c]
    PROVE  FollowerInv(c)'
<1>1. LastId(c)' = LastId(c) /\ (KnowsEnd(c)' <=> KnowsEnd(c))
  BY DEF LastId, KnowsEnd
<1>2. CursorInv(c)'
  BY <1>1 DEF FollowerInv, CursorInv
<1>3. BufferInv(c)'
  BY <1>1 DEF FollowerInv, BufferInv, IsTerminal
<1>4. ReplayInv(c)'
  BY <1>1 DEF FollowerInv, ReplayInv
<1>5. CoverInv(c)'
  BY <1>1 DEF FollowerInv, CoverInv, Unpublished, Buffers, IsTerminal
<1> QED BY <1>2, <1>3, <1>4, <1>5 DEF FollowerInv

\* A connection that is closed owes nothing, as long as the browser that was not
\* told the end may come back.
LEMMA FollowerLeaves ==
    ASSUME NEW c \in Followers, NEW pc \in {"idle", "away", "refused", "done"},
           conn'[c] = Closed(pc),
           KnowsEnd(c)' => pc = "done",
           pc # "done" => LastId(c)' <= Len(rows')
    PROVE  FollowerInv(c)'
<1>1. conn'[c].pc = pc
  BY DEF Closed
<1>2. CursorInv(c)'
  BY <1>1 DEF CursorInv, Served, Subscribed
<1>3. BufferInv(c)' /\ ReplayInv(c)' /\ CoverInv(c)'
  BY <1>1 DEF BufferInv, ReplayInv, CoverInv, Subscribed
<1> QED BY <1>2, <1>3 DEF FollowerInv

LEMMA FollowerConnects ==
    ASSUME FeedInv, NEW c \in Followers, NEW pc \in {"loading", "scan"},
           conn[c].pc \in {"idle", "away"},
           conn'[c] = [Closed(pc) EXCEPT !.after = LastId(c)],
           UNCHANGED <<rows, written, got>>
    PROVE  FollowerInv(c)'
<1>1. /\ conn'[c].pc = pc /\ conn'[c].after = LastId(c) /\ conn'[c].replay = {}
      /\ conn'[c].buffer = <<>> /\ conn'[c].sent = {}
  BY DEF Closed
<1>2. LastId(c) \in Nat /\ LastId(c)' = LastId(c) /\ (KnowsEnd(c)' <=> KnowsEnd(c))
  BY StreamTypes DEF FeedInv, LastId, KnowsEnd
<1>3. CursorInv(c)'
  BY <1>1, <1>2 DEF FeedInv, FollowerInv, CursorInv, Served, Subscribed
<1>4. BufferInv(c)'
  <2>1. Len(conn'[c].buffer) = 0
    BY <1>1, EmptySeq
  <2> QED BY <2>1 DEF BufferInv
<1>5. ReplayInv(c)' /\ CoverInv(c)'
  BY <1>1 DEF ReplayInv, CoverInv
<1> QED BY <1>3, <1>4, <1>5 DEF FollowerInv

\* A replay has every delta past the cursor, and of the ends the last one.
LEMMA ReplayCovers ==
    ASSUME FeedInv, NEW id \in Nat
    PROVE  /\ \A i \in ReplayAfter(id) : i \in 1 .. Len(rows) /\ i > id
           /\ \A j \in id + 1 .. Len(rows) :
                 \/ j \in ReplayAfter(id)
                 \/ (IsTerminal(rows[j]) /\ \E i \in ReplayAfter(id) : i > j /\ IsTerminal(rows[i]))
<1>1. Len(rows) \in Nat /\ \A i \in 1 .. Len(rows) : rows[i].id = i
  BY StreamTypes DEF FeedInv, NumberedInv
<1>2. \A i \in ReplayAfter(id) : i \in 1 .. Len(rows) /\ i > id
  BY <1>1 DEF ReplayAfter
<1>3. ASSUME NEW j \in id + 1 .. Len(rows), j \notin ReplayAfter(id)
      PROVE  IsTerminal(rows[j]) /\ \E i \in ReplayAfter(id) : i > j /\ IsTerminal(rows[i])
  <2>1. Superseded(j)
    BY <1>1, <1>3 DEF ReplayAfter
  <2> DEFINE Ends == {i \in 1 .. Len(rows) : IsTerminal(rows[i])}
  <2>2. PICK later \in Ends : later > j
    BY <2>1, <1>1 DEF Superseded
  <2>3. PICK m \in Ends : \A x \in Ends : x <= m
    <3>1. Ends \in SUBSET (1 .. Len(rows)) /\ Ends # {}
      BY <2>2
    <3> HIDE DEF Ends
    <3> QED BY <1>1, <3>1, GreatestRow
  <2>4. ~Superseded(m)
    BY <1>1, <2>3 DEF Superseded
  <2>5. m > j /\ m \in ReplayAfter(id)
    BY <1>1, <2>2, <2>3, <2>4 DEF ReplayAfter
  <2> QED BY <2>1, <2>3, <2>5 DEF Superseded
<1> QED BY <1>2, <1>3

LEMMA FollowerLoads ==
    ASSUME FeedInv, NEW c \in Followers, conn[c].pc = "loading",
           conn'[c] = [conn[c] EXCEPT !.pc = "loaded", !.replay = ReplayAfter(conn[c].after)],
           UNCHANGED <<rows, written, got>>
    PROVE  FollowerInv(c)'
<1> DEFINE k == conn[c]
           n == ReplayAfter(k.after)
<1>1. /\ Len(rows) \in Nat /\ LastId(c) \in Nat /\ k \in ConnectionType
      /\ \A i \in 1 .. Len(k.buffer) : k.buffer[i] \in Event
      /\ k.after = LastId(c) /\ k.sent = {} /\ k.replay = {}
  BY StreamTypes DEF FeedInv, FollowerInv, CursorInv, Served, Subscribed
<1>2. /\ conn'[c].pc = "loaded" /\ conn'[c].after = LastId(c) /\ conn'[c].replay = n
      /\ conn'[c].buffer = k.buffer /\ conn'[c].sent = {}
  BY <1>1 DEF ConnectionType
<1>3. LastId(c)' = LastId(c) /\ (KnowsEnd(c)' <=> KnowsEnd(c))
  BY DEF LastId, KnowsEnd
<1>4. /\ \A i \in n : i \in 1 .. Len(rows) /\ i > LastId(c)
      /\ \A j \in LastId(c) + 1 .. Len(rows) :
            j \in n \/ (IsTerminal(rows[j]) /\ \E i \in n : i > j /\ IsTerminal(rows[i]))
  BY <1>1, ReplayCovers
<1> HIDE DEF n
<1>5. CursorInv(c)'
  BY <1>1, <1>2, <1>3 DEF FeedInv, FollowerInv, CursorInv, Served, Subscribed
<1>6. BufferInv(c)'
  BY <1>1, <1>2, <1>3 DEF FeedInv, FollowerInv, BufferInv, Subscribed
<1>7. ReplayInv(c)'
  BY <1>2, <1>3, <1>4 DEF ReplayInv
<1>8. CoverInv(c)'
  BY <1>2, <1>3, <1>4 DEF CoverInv, IsTerminal
<1> QED BY <1>5, <1>6, <1>7, <1>8 DEF FollowerInv

LEMMA FollowerOpens ==
    ASSUME FeedInv, NEW c \in Followers, conn[c].pc = "loaded",
           conn'[c] = [conn[c] EXCEPT !.pc = "open"],
           UNCHANGED <<rows, written, got>>
    PROVE  FollowerInv(c)'
<1>1. conn[c] \in ConnectionType /\ FollowerInv(c)
  BY StreamTypes DEF FeedInv
<1>2. /\ conn'[c].pc = "open" /\ conn'[c].after = conn[c].after
      /\ conn'[c].replay = conn[c].replay
      /\ conn'[c].buffer = conn[c].buffer /\ conn'[c].sent = conn[c].sent
  BY <1>1 DEF ConnectionType
<1>3. LastId(c)' = LastId(c) /\ (KnowsEnd(c)' <=> KnowsEnd(c))
  BY DEF LastId, KnowsEnd
<1>4. CursorInv(c)'
  BY <1>1, <1>2, <1>3 DEF FollowerInv, CursorInv, Served, Subscribed
<1>5. BufferInv(c)'
  BY <1>1, <1>2, <1>3 DEF FollowerInv, BufferInv, Subscribed, IsTerminal
<1>6. ReplayInv(c)'
  BY <1>1, <1>2, <1>3 DEF FollowerInv, ReplayInv
<1>7. CoverInv(c)'
  BY <1>1, <1>2, <1>3 DEF FollowerInv, CoverInv, Buffers, Unpublished, IsTerminal
<1> QED BY <1>4, <1>5, <1>6, <1>7 DEF FollowerInv

\* The replay of a turn that is not live starts, or the turn is looked at first.
LEMMA FollowerReplays ==
    ASSUME FeedInv, NEW c \in Followers, conn[c].pc \in {"scan", "reload"},
           conn'[c].pc = "replaying", conn'[c].replay = ReplayAfter(conn[c].after),
           UNCHANGED <<rows, written, got>>
    PROVE  FollowerInv(c)'
<1> DEFINE n == ReplayAfter(conn[c].after)
<1>1. /\ Len(rows) \in Nat /\ LastId(c) \in Nat
      /\ conn[c].after = LastId(c)
  BY StreamTypes DEF FeedInv, FollowerInv, CursorInv, Served, Subscribed
<1>2. LastId(c)' = LastId(c) /\ (KnowsEnd(c)' <=> KnowsEnd(c))
  BY DEF LastId, KnowsEnd
<1>3. /\ \A i \in n : i \in 1 .. Len(rows) /\ i > LastId(c)
      /\ \A j \in LastId(c) + 1 .. Len(rows) : j \in n \/ IsTerminal(rows[j])
  BY <1>1, ReplayCovers
<1> HIDE DEF n
<1>4. conn'[c].replay = n
  BY DEF n
<1>5. CursorInv(c)'
  BY <1>1, <1>2 DEF FeedInv, FollowerInv, CursorInv, Served, Subscribed
<1>6. BufferInv(c)'
  BY DEF BufferInv, Subscribed
<1>7. ReplayInv(c)'
  BY <1>2, <1>3, <1>4 DEF ReplayInv
<1>8. CoverInv(c)'
  BY <1>1, <1>2, <1>3, <1>4 DEF CoverInv, IsTerminal
<1> QED BY <1>5, <1>6, <1>7, <1>8 DEF FollowerInv

LEMMA FollowerReconciles ==
    ASSUME FeedInv, NEW c \in Followers, conn[c].pc \in {"scan", "reconcile", "repair"},
           NEW pc \in {"reconcile", "repair", "reload"},
           conn'[c] = [conn[c] EXCEPT !.pc = pc],
           UNCHANGED <<rows, got>>
    PROVE  FollowerInv(c)'
<1>1. conn[c] \in ConnectionType /\ FollowerInv(c)
  BY StreamTypes DEF FeedInv
<1>2. /\ conn'[c].pc = pc /\ conn'[c].after = conn[c].after
      /\ conn'[c].sent = conn[c].sent /\ conn'[c].replay = conn[c].replay
  BY <1>1 DEF ConnectionType
<1>3. LastId(c)' = LastId(c) /\ (KnowsEnd(c)' <=> KnowsEnd(c))
  BY DEF LastId, KnowsEnd
<1>4. CursorInv(c)'
  BY <1>1, <1>2, <1>3 DEF FollowerInv, CursorInv, Served, Subscribed
<1>5. BufferInv(c)' /\ ReplayInv(c)' /\ CoverInv(c)'
  BY <1>2 DEF BufferInv, ReplayInv, CoverInv, Subscribed
<1> QED BY <1>4, <1>5 DEF FollowerInv

\* A browser is told the end.
LEMMA FollowerIsTold ==
    ASSUME FeedInv, NEW c \in Followers, NEW e \in Event, IsTerminal(e),
           got' = [got EXCEPT ![c] = Append(got[c], e)],
           conn'[c] = Closed("done")
    PROVE  FollowerInv(c)'
BY FollowerLeaves

\* The cursor of an open connection that has sent it.
LEMMA OpenCursor ==
    ASSUME NEW c \in Followers, conn'[c].pc = "open", ~KnowsEnd(c)', LastId(c)' <= Len(rows'),
           conn'[c].after <= LastId(c)', LastId(c)' \in conn'[c].sent,
           \A x \in conn'[c].sent :
              x <= LastId(c)' /\ x \in 1 .. Len(rows') /\ rows'[x].kind = "delta"
    PROVE  CursorInv(c)'
BY DEF CursorInv, Served, Subscribed

\* pump sends a row of the replay that the browser has not seen.
LEMMA FollowerGetsReplayed ==
    ASSUME FeedInv, NEW c \in Followers, NEW i \in conn[c].replay,
           conn[c].pc = "open", FirstRow(conn[c], i), ~Skipped(conn[c], rows[i]),
           ~IsTerminal(rows[i]),
           got' = [got EXCEPT ![c] = Append(got[c], rows[i])],
           conn'[c] = [WithoutRow(conn[c], i) EXCEPT !.sent = conn[c].sent \cup {rows[i].id}],
           UNCHANGED <<rows, written>>
    PROVE  FollowerInv(c)'
<1> DEFINE k == conn[c]
<1>1. /\ Len(rows) \in Nat /\ LastId(c) \in Nat /\ k \in ConnectionType
      /\ \A x \in 1 .. Len(k.buffer) : k.buffer[x] \in Event
      /\ \A x \in 1 .. Len(rows) : rows[x] \in Event /\ rows[x].id = x
      /\ FollowerInv(c) /\ StreamTypeOK
  BY StreamTypes DEF FeedInv, NumberedInv
<1>2. i \in 1 .. Len(rows) /\ rows[i].id = i /\ rows[i] \in Event /\ i > LastId(c)
  BY <1>1 DEF FollowerInv, ReplayInv, Skipped
<1>3. /\ LastId(c)' = i /\ ~KnowsEnd(c)'
  BY <1>1, <1>2, CursorAdvances
<1>4. /\ conn'[c].pc = "open" /\ conn'[c].after = k.after
      /\ conn'[c].replay = k.replay \ {i}
      /\ conn'[c].buffer = k.buffer /\ conn'[c].sent = k.sent \cup {i}
  BY <1>1, <1>2 DEF ConnectionType, WithoutRow
<1>5. rows[i].kind = "delta" /\ \A x \in k.replay : i <= x
  BY DEF IsTerminal, FirstRow
<1>6. \A x \in k.replay \ {i} : x > i /\ x \in 1 .. Len(rows)
  BY <1>1, <1>5 DEF FollowerInv, ReplayInv
<1>7. CursorInv(c)'
  <2>1. /\ k.after \in Nat /\ k.after <= LastId(c)
        /\ \A x \in k.sent : x <= LastId(c) /\ x \in 1 .. Len(rows) /\ rows[x].kind = "delta"
    BY <1>1 DEF FollowerInv, CursorInv, Served, Subscribed, ConnectionType
  <2>2. k.after <= i /\ \A x \in k.sent \cup {i} : x <= i /\ x \in 1 .. Len(rows)
    BY <1>1, <1>2, <2>1
  <2>3. \A x \in k.sent \cup {i} : rows[x].kind = "delta"
    BY <1>5, <2>1
  <2>4. conn'[c].after <= LastId(c)' /\ LastId(c)' \in conn'[c].sent
    BY <1>3, <1>4, <2>2
  <2>5. \A x \in conn'[c].sent :
           x <= LastId(c)' /\ x \in 1 .. Len(rows') /\ rows'[x].kind = "delta"
    BY <1>3, <1>4, <2>2, <2>3
  <2>6. LastId(c)' <= Len(rows')
    BY <1>1, <1>2, <1>3
  <2> HIDE DEF k
  <2> QED BY <1>3, <1>4, <2>4, <2>5, <2>6, OpenCursor
<1>8. \A j \in LastId(c) + 1 .. Len(rows) :
         \/ j \in k.replay
         \/ /\ \A x \in k.replay : x < j
            /\ rows[j].kind = "delta" => Buffers(k, j) \/ Unpublished(j)
         \/ IsTerminal(rows[j]) /\ \E x \in k.replay : x > j /\ IsTerminal(rows[x])
  BY <1>1 DEF FollowerInv, CoverInv
<1>9. BufferInv(c)'
  <2> SUFFICES ASSUME NEW b \in 1 .. Len(k.buffer)
               PROVE  \/ k.buffer[b].id > i \/ k.buffer[b].id \in k.sent \cup {i}
                      \/ \E j \in k.replay \ {i} : j > k.buffer[b].id /\ IsTerminal(rows[j])
    <3>1. \A x \in 1 .. Len(k.buffer) :
             LET e == k.buffer[x]
             IN  /\ e.id \in 1 .. Len(rows) /\ e = rows[e.id]
                 /\ written # NoEvent => e.id < Len(rows)
                 /\ \A j \in 1 .. Len(k.buffer) : x < j => e.id < k.buffer[j].id
      BY <1>1 DEF FollowerInv, BufferInv, Subscribed
    <3> QED BY <1>3, <1>4, <3>1 DEF BufferInv, IsTerminal
  <2> DEFINE id == k.buffer[b].id
  <2>1. /\ id \in 1 .. Len(rows)
        /\ \/ id > LastId(c) \/ id \in k.sent
           \/ \E j \in k.replay : j > id /\ IsTerminal(rows[j])
    BY <1>1 DEF FollowerInv, BufferInv, Subscribed
  <2>2. ~IsTerminal(rows[i])
    OBVIOUS
  <2>3. CASE id \in k.sent
    BY <2>3
  <2>4. CASE \E j \in k.replay : j > id /\ IsTerminal(rows[j])
    BY <2>2, <2>4
  <2>5. CASE id > LastId(c) /\ id < i
    <3>1. id \notin k.replay /\ ~\A x \in k.replay : x < id
      BY <1>2, <1>5, <2>1, <2>5
    <3>2. \E x \in k.replay : x > id /\ IsTerminal(rows[x])
      BY <1>1, <1>8, <2>1, <2>5, <3>1
    <3> QED BY <2>2, <3>2
  <2> QED BY <1>2, <2>1, <2>3, <2>4, <2>5
<1>10. ReplayInv(c)'
  BY <1>3, <1>4, <1>6 DEF ReplayInv
<1>11. CoverInv(c)'
  <2> SUFFICES ASSUME NEW j \in i + 1 .. Len(rows)
               PROVE  \/ j \in k.replay \ {i}
                      \/ /\ \A x \in k.replay \ {i} : x < j
                         /\ rows[j].kind = "delta" => Buffers(k, j) \/ Unpublished(j)
                      \/ /\ IsTerminal(rows[j])
                         /\ \E x \in k.replay \ {i} : x > j /\ IsTerminal(rows[x])
    BY <1>3, <1>4 DEF CoverInv, Buffers, Unpublished, IsTerminal
  <2>1. j \in LastId(c) + 1 .. Len(rows) /\ j # i
    BY <1>1, <1>2
  <2> QED BY <1>8, <2>1
<1> QED BY <1>7, <1>9, <1>10, <1>11 DEF FollowerInv

\* pump passes over a row that was sent.
LEMMA FollowerPassesReplayed ==
    ASSUME FeedInv, NEW c \in Followers, NEW i \in conn[c].replay,
           conn[c].pc = "open", Skipped(conn[c], rows[i]),
           conn'[c] = WithoutRow(conn[c], i),
           UNCHANGED <<rows, written, got>>
    PROVE  FollowerInv(c)'
<1> DEFINE k == conn[c]
<1>1. /\ Len(rows) \in Nat /\ LastId(c) \in Nat /\ k \in ConnectionType
      /\ \A x \in 1 .. Len(rows) : rows[x] \in Event /\ rows[x].id = x
      /\ FollowerInv(c) /\ StreamTypeOK
  BY StreamTypes DEF FeedInv, NumberedInv
<1>2. /\ i \in 1 .. Len(rows) /\ i <= LastId(c) /\ rows[i].kind = "delta"
  <2>1. i \in 1 .. Len(rows) /\ (i > LastId(c) \/ i \in k.sent)
    BY <1>1 DEF FollowerInv, ReplayInv
  <2>2. i <= k.after \/ i \in k.sent
    BY <1>1, <2>1 DEF Skipped
  <2>3. k.after <= LastId(c) /\ k.after \in Nat
    BY <1>1 DEF FollowerInv, CursorInv, Served, Subscribed, ConnectionType
  <2>4. i \in k.sent
    BY <1>1, <2>1, <2>2, <2>3
  <2> QED BY <1>1, <2>1, <2>4 DEF FollowerInv, CursorInv, Served, Subscribed
<1>3. LastId(c)' = LastId(c) /\ (KnowsEnd(c)' <=> KnowsEnd(c))
  BY DEF LastId, KnowsEnd
<1>4. /\ conn'[c].pc = "open" /\ conn'[c].after = k.after
      /\ conn'[c].replay = k.replay \ {i}
      /\ conn'[c].buffer = k.buffer /\ conn'[c].sent = k.sent
  BY <1>1 DEF ConnectionType, WithoutRow
<1>5. CursorInv(c)'
  BY <1>1, <1>3, <1>4 DEF FollowerInv, CursorInv, Served, Subscribed
<1>6. ~IsTerminal(rows[i])
  BY <1>2 DEF IsTerminal
<1>7. BufferInv(c)'
  <2> SUFFICES ASSUME NEW b \in 1 .. Len(k.buffer)
               PROVE  \/ k.buffer[b].id > LastId(c) \/ k.buffer[b].id \in k.sent
                      \/ \E j \in k.replay \ {i} : j > k.buffer[b].id /\ IsTerminal(rows[j])
    BY <1>1, <1>3, <1>4 DEF FollowerInv, BufferInv, Subscribed, IsTerminal
  <2>1. \/ k.buffer[b].id > LastId(c) \/ k.buffer[b].id \in k.sent
        \/ \E j \in k.replay : j > k.buffer[b].id /\ IsTerminal(rows[j])
    BY <1>1 DEF FollowerInv, BufferInv, Subscribed
  <2> QED BY <1>6, <2>1
<1>8. ReplayInv(c)'
  BY <1>1, <1>3, <1>4 DEF FollowerInv, ReplayInv
<1>9. CoverInv(c)'
  <2> SUFFICES ASSUME NEW j \in LastId(c) + 1 .. Len(rows)
               PROVE  \/ j \in k.replay \ {i}
                      \/ /\ \A x \in k.replay \ {i} : x < j
                         /\ rows[j].kind = "delta" => Buffers(k, j) \/ Unpublished(j)
                      \/ /\ IsTerminal(rows[j])
                         /\ \E x \in k.replay \ {i} : x > j /\ IsTerminal(rows[x])
    BY <1>3, <1>4 DEF CoverInv, Buffers, Unpublished, IsTerminal
  <2>1. \/ j \in k.replay
        \/ /\ \A x \in k.replay : x < j
           /\ rows[j].kind = "delta" => Buffers(k, j) \/ Unpublished(j)
        \/ IsTerminal(rows[j]) /\ \E x \in k.replay : x > j /\ IsTerminal(rows[x])
    BY <1>1 DEF FollowerInv, CoverInv
  <2>2. j # i
    BY <1>1, <1>2
  <2> QED BY <1>6, <2>1, <2>2
<1> QED BY <1>5, <1>7, <1>8, <1>9 DEF FollowerInv

\* The head of the buffer is a row of the file, and the rest comes after it.
LEMMA BufferHead ==
    ASSUME FeedInv, NEW c \in Followers, conn[c].pc \in Subscribed, conn[c].buffer # <<>>
    PROVE  LET b == conn[c].buffer
           IN  /\ b \in Seq(Event) /\ Head(b) = b[1] /\ Len(b) \in Nat /\ Len(b) > 0
               /\ Head(b).id \in 1 .. Len(rows) /\ Head(b) = rows[Head(b).id] /\ Head(b) \in Event
               /\ \/ Head(b).id > LastId(c) \/ Head(b).id \in conn[c].sent
                  \/ \E j \in conn[c].replay : j > Head(b).id /\ IsTerminal(rows[j])
               /\ Tail(b) \in Seq(Event) /\ Len(Tail(b)) = Len(b) - 1
               /\ \A i \in 1 .. Len(Tail(b)) :
                     Tail(b)[i] = b[i + 1] /\ Head(b).id < b[i + 1].id
<1> DEFINE b == conn[c].buffer
<1>1. b \in Seq(Event) /\ FollowerInv(c) /\ StreamTypeOK
  BY StreamTypes DEF FeedInv, ConnectionType
<1>2. /\ Tail(b) \in Seq(Event) /\ Len(b) \in Nat /\ Len(b) > 0 /\ Len(Tail(b)) = Len(b) - 1
      /\ Head(b) = b[1] /\ Head(b) \in Event
      /\ \A i \in 1 .. Len(Tail(b)) : Tail(b)[i] = b[i + 1]
  BY <1>1, RestOf
<1>3. 1 \in 1 .. Len(b) /\ \A i \in 1 .. Len(Tail(b)) : i + 1 \in 1 .. Len(b) /\ 1 < i + 1
  BY <1>2
<1>4. /\ b[1].id \in 1 .. Len(rows) /\ b[1] = rows[b[1].id]
      /\ \/ b[1].id > LastId(c) \/ b[1].id \in conn[c].sent
         \/ \E j \in conn[c].replay : j > b[1].id /\ IsTerminal(rows[j])
      /\ \A j \in 1 .. Len(b) : 1 < j => b[1].id < b[j].id
  BY <1>1, <1>3 DEF FollowerInv, BufferInv
<1> QED BY <1>1, <1>2, <1>3, <1>4

\* pump sends what was buffered, once the replay is through.
LEMMA FollowerGetsBuffered ==
    ASSUME FeedInv, NEW c \in Followers, conn[c].pc = "open",
           conn[c].replay = {}, conn[c].buffer # <<>>,
           LET e == Head(conn[c].buffer)
           IN  /\ ~Skipped(conn[c], e) /\ ~IsTerminal(e)
               /\ got' = [got EXCEPT ![c] = Append(got[c], e)]
               /\ conn'[c] = [conn[c] EXCEPT !.buffer = Tail(conn[c].buffer),
                                             !.sent = conn[c].sent \cup {e.id}],
           UNCHANGED <<rows, written>>
    PROVE  FollowerInv(c)'
<1> DEFINE k == conn[c]
           e == Head(k.buffer)
<1>1. /\ Len(rows) \in Nat /\ LastId(c) \in Nat /\ k \in ConnectionType
      /\ \A x \in 1 .. Len(rows) : rows[x] \in Event /\ rows[x].id = x
      /\ FollowerInv(c) /\ StreamTypeOK
  BY StreamTypes DEF FeedInv, NumberedInv
<1>2. /\ Len(k.buffer) \in Nat /\ Len(k.buffer) > 0 /\ e = k.buffer[1]
      /\ e.id \in 1 .. Len(rows) /\ e = rows[e.id] /\ e \in Event
      /\ e.id > LastId(c) \/ e.id \in k.sent
      /\ Len(Tail(k.buffer)) = Len(k.buffer) - 1
      /\ \A i \in 1 .. Len(Tail(k.buffer)) :
            Tail(k.buffer)[i] = k.buffer[i + 1] /\ e.id < k.buffer[i + 1].id
  BY BufferHead DEF Subscribed
<1>3. e.id > LastId(c) /\ e.kind = "delta"
  BY <1>2 DEF Skipped, IsTerminal
<1>4. LastId(c)' = e.id /\ ~KnowsEnd(c)'
  BY <1>1, <1>2, CursorAdvances
<1>5. /\ conn'[c].pc = "open" /\ conn'[c].after = k.after /\ conn'[c].replay = {}
      /\ conn'[c].buffer = Tail(k.buffer) /\ conn'[c].sent = k.sent \cup {e.id}
  BY <1>1 DEF ConnectionType
<1> HIDE DEF e
<1>6. CursorInv(c)'
  <2>1. /\ k.after \in Nat /\ k.after <= LastId(c)
        /\ \A x \in k.sent : x <= LastId(c) /\ x \in 1 .. Len(rows) /\ rows[x].kind = "delta"
    BY <1>1 DEF FollowerInv, CursorInv, Served, Subscribed, ConnectionType
  <2>2. k.after <= e.id /\ \A x \in k.sent \cup {e.id} : x <= e.id /\ x \in 1 .. Len(rows)
    BY <1>1, <1>2, <1>3, <2>1
  <2>3. \A x \in k.sent \cup {e.id} : rows[x].kind = "delta"
    BY <1>2, <1>3, <2>1
  <2>4. conn'[c].after <= LastId(c)' /\ LastId(c)' \in conn'[c].sent
    BY <1>4, <1>5, <2>2
  <2>5. \A x \in conn'[c].sent :
           x <= LastId(c)' /\ x \in 1 .. Len(rows') /\ rows'[x].kind = "delta"
    BY <1>4, <1>5, <2>2, <2>3
  <2>6. LastId(c)' <= Len(rows')
    BY <1>1, <1>2, <1>4
  <2> HIDE DEF k
  <2> QED BY <1>4, <1>5, <2>4, <2>5, <2>6, OpenCursor
<1>7. BufferInv(c)'
  <2>1. \A i \in 1 .. Len(k.buffer) :
           LET d == k.buffer[i]
           IN  /\ d.id \in 1 .. Len(rows) /\ d = rows[d.id]
               /\ written # NoEvent => d.id < Len(rows)
               /\ \A j \in 1 .. Len(k.buffer) : i < j => d.id < k.buffer[j].id
    BY <1>1 DEF FollowerInv, BufferInv, Subscribed
  <2>2. ASSUME NEW i \in 1 .. Len(Tail(k.buffer))
        PROVE  LET d == Tail(k.buffer)[i]
               IN  /\ d.id \in 1 .. Len(rows) /\ d = rows[d.id] /\ d.id > e.id
                   /\ written # NoEvent => d.id < Len(rows)
                   /\ \A j \in 1 .. Len(Tail(k.buffer)) : i < j => d.id < Tail(k.buffer)[j].id
    <3>1. i + 1 \in 1 .. Len(k.buffer) /\ Tail(k.buffer)[i] = k.buffer[i + 1]
      BY <1>2
    <3>2. \A j \in 1 .. Len(Tail(k.buffer)) :
             /\ j + 1 \in 1 .. Len(k.buffer) /\ Tail(k.buffer)[j] = k.buffer[j + 1]
             /\ i < j => i + 1 < j + 1
      BY <1>2
    <3> QED BY <1>2, <2>1, <3>1, <3>2
  <2> QED BY <1>4, <1>5, <2>2 DEF BufferInv
<1>8. ReplayInv(c)'
  BY <1>5 DEF ReplayInv
<1>9. CoverInv(c)'
  <2> SUFFICES ASSUME NEW j \in e.id + 1 .. Len(rows), rows[j].kind = "delta"
               PROVE  \/ \E i \in 1 .. Len(Tail(k.buffer)) : Tail(k.buffer)[i].id = j
                      \/ Unpublished(j)
    BY <1>4, <1>5 DEF CoverInv, Buffers, Unpublished
  <2>1. j \in LastId(c) + 1 .. Len(rows) /\ j > e.id
    BY <1>1, <1>2, <1>3
  <2>2. Buffers(k, j) \/ Unpublished(j)
    BY <1>1, <2>1 DEF FollowerInv, CoverInv, IsTerminal
  <2>3. ASSUME NEW i \in 1 .. Len(k.buffer), k.buffer[i].id = j
        PROVE  i - 1 \in 1 .. Len(Tail(k.buffer)) /\ Tail(k.buffer)[i - 1].id = j
    <3>1. i # 1
      BY <1>2, <2>1, <2>3
    <3>2. i - 1 \in 1 .. Len(Tail(k.buffer)) /\ (i - 1) + 1 = i
      BY <1>2, <3>1
    <3> QED BY <1>2, <2>3, <3>2
  <2> QED BY <2>2, <2>3 DEF Buffers
<1> QED BY <1>6, <1>7, <1>8, <1>9 DEF FollowerInv

\* pump passes over what the replay has sent.
LEMMA FollowerPassesBuffered ==
    ASSUME FeedInv, NEW c \in Followers, conn[c].pc = "open",
           conn[c].replay = {}, conn[c].buffer # <<>>,
           Skipped(conn[c], Head(conn[c].buffer)),
           conn'[c] = [conn[c] EXCEPT !.buffer = Tail(conn[c].buffer)],
           UNCHANGED <<rows, written, got>>
    PROVE  FollowerInv(c)'
<1> DEFINE k == conn[c]
           e == Head(k.buffer)
<1>1. /\ Len(rows) \in Nat /\ LastId(c) \in Nat /\ k \in ConnectionType
      /\ FollowerInv(c) /\ StreamTypeOK
  BY StreamTypes DEF FeedInv
<1>2. /\ Len(k.buffer) \in Nat /\ Len(k.buffer) > 0 /\ e = k.buffer[1]
      /\ e.id \in 1 .. Len(rows)
      /\ Len(Tail(k.buffer)) = Len(k.buffer) - 1
      /\ \A i \in 1 .. Len(Tail(k.buffer)) :
            Tail(k.buffer)[i] = k.buffer[i + 1] /\ e.id < k.buffer[i + 1].id
  BY BufferHead DEF Subscribed
<1>3. LastId(c)' = LastId(c) /\ (KnowsEnd(c)' <=> KnowsEnd(c))
  BY DEF LastId, KnowsEnd
<1>4. /\ conn'[c].pc = "open" /\ conn'[c].after = k.after /\ conn'[c].replay = {}
      /\ conn'[c].buffer = Tail(k.buffer) /\ conn'[c].sent = k.sent
  BY <1>1 DEF ConnectionType
<1>5. e.id <= LastId(c)
  BY <1>1, <1>2 DEF FollowerInv, CursorInv, Served, Subscribed, Skipped, ConnectionType
<1> HIDE DEF e
<1>6. CursorInv(c)'
  BY <1>1, <1>3, <1>4 DEF FollowerInv, CursorInv, Served, Subscribed
<1>7. BufferInv(c)'
  <2>1. \A i \in 1 .. Len(k.buffer) :
           LET d == k.buffer[i]
           IN  /\ d.id \in 1 .. Len(rows) /\ d = rows[d.id]
               /\ d.id > LastId(c) \/ d.id \in k.sent
               /\ written # NoEvent => d.id < Len(rows)
               /\ \A j \in 1 .. Len(k.buffer) : i < j => d.id < k.buffer[j].id
    BY <1>1 DEF FollowerInv, BufferInv, Subscribed
  <2>2. ASSUME NEW i \in 1 .. Len(Tail(k.buffer))
        PROVE  LET d == Tail(k.buffer)[i]
               IN  /\ d.id \in 1 .. Len(rows) /\ d = rows[d.id]
                   /\ d.id > LastId(c) \/ d.id \in k.sent
                   /\ written # NoEvent => d.id < Len(rows)
                   /\ \A j \in 1 .. Len(Tail(k.buffer)) : i < j => d.id < Tail(k.buffer)[j].id
    <3>1. i + 1 \in 1 .. Len(k.buffer) /\ Tail(k.buffer)[i] = k.buffer[i + 1]
      BY <1>2
    <3>2. \A j \in 1 .. Len(Tail(k.buffer)) :
             /\ j + 1 \in 1 .. Len(k.buffer) /\ Tail(k.buffer)[j] = k.buffer[j + 1]
             /\ i < j => i + 1 < j + 1
      BY <1>2
    <3> QED BY <1>2, <2>1, <3>1, <3>2
  <2> QED BY <1>3, <1>4, <2>2 DEF BufferInv
<1>8. ReplayInv(c)'
  BY <1>4 DEF ReplayInv
<1>9. CoverInv(c)'
  <2> SUFFICES ASSUME NEW j \in LastId(c) + 1 .. Len(rows), rows[j].kind = "delta"
               PROVE  \/ \E i \in 1 .. Len(Tail(k.buffer)) : Tail(k.buffer)[i].id = j
                      \/ Unpublished(j)
    BY <1>3, <1>4 DEF CoverInv, Buffers, Unpublished
  <2>1. j > e.id
    BY <1>1, <1>2, <1>5
  <2>2. Buffers(k, j) \/ Unpublished(j)
    BY <1>1 DEF FollowerInv, CoverInv, IsTerminal
  <2>3. ASSUME NEW i \in 1 .. Len(k.buffer), k.buffer[i].id = j
        PROVE  i - 1 \in 1 .. Len(Tail(k.buffer)) /\ Tail(k.buffer)[i - 1].id = j
    <3>1. i # 1
      BY <1>2, <2>1, <2>3
    <3>2. i - 1 \in 1 .. Len(Tail(k.buffer)) /\ (i - 1) + 1 = i
      BY <1>2, <3>1
    <3> QED BY <1>2, <2>3, <3>2
  <2> QED BY <2>2, <2>3 DEF Buffers
<1> QED BY <1>6, <1>7, <1>8, <1>9 DEF FollowerInv

\* createReplayEventStream sends a row.
LEMMA FollowerIsReplayed ==
    ASSUME FeedInv, NEW c \in Followers, NEW i \in conn[c].replay,
           conn[c].pc = "replaying", FirstRow(conn[c], i), ~IsTerminal(rows[i]),
           got' = [got EXCEPT ![c] = Append(got[c], rows[i])],
           conn'[c] = [WithoutRow(conn[c], i) EXCEPT !.sent = conn[c].sent \cup {rows[i].id}],
           UNCHANGED <<rows, written>>
    PROVE  FollowerInv(c)'
<1> DEFINE k == conn[c]
<1>1. /\ Len(rows) \in Nat /\ LastId(c) \in Nat /\ k \in ConnectionType
      /\ \A x \in 1 .. Len(rows) : rows[x] \in Event /\ rows[x].id = x
      /\ FollowerInv(c) /\ StreamTypeOK
  BY StreamTypes DEF FeedInv, NumberedInv
<1>2. i \in 1 .. Len(rows) /\ rows[i].id = i /\ rows[i] \in Event /\ i > LastId(c)
  BY <1>1 DEF FollowerInv, ReplayInv
<1>3. LastId(c)' = i /\ ~KnowsEnd(c)'
  BY <1>1, <1>2, CursorAdvances
<1>4. conn'[c].pc = "replaying" /\ conn'[c].replay = k.replay \ {i}
  BY <1>1 DEF ConnectionType, WithoutRow
<1>5. \A x \in k.replay \ {i} : x > i /\ x \in 1 .. Len(rows)
  BY <1>1, <1>2 DEF FollowerInv, ReplayInv, FirstRow
<1>6. CursorInv(c)'
  BY <1>2, <1>3, <1>4 DEF CursorInv, Served, Subscribed
<1>7. BufferInv(c)'
  BY <1>4 DEF BufferInv, Subscribed
<1>8. ReplayInv(c)'
  BY <1>3, <1>4, <1>5 DEF ReplayInv
<1>9. CoverInv(c)'
  <2> SUFFICES ASSUME NEW x \in k.replay \ {i}, NEW j \in i + 1 .. x, rows[j].kind = "delta"
               PROVE  j \in k.replay \ {i}
    BY <1>3, <1>4 DEF CoverInv
  <2>1. x \in 1 .. Len(rows) /\ j \in LastId(c) + 1 .. x /\ j # i
    BY <1>1, <1>2, <1>5
  <2> QED BY <1>1, <2>1 DEF FollowerInv, CoverInv
<1> QED BY <1>6, <1>7, <1>8, <1>9 DEF FollowerInv

\* A row is written: it is still to be published.
LEMMA FollowerSeesRow ==
    ASSUME FeedInv, NEW c \in Followers, NEW row \in RowType, row.id = Len(rows) + 1,
           written = NoEvent, rows' = Append(rows, row), written' = row,
           UNCHANGED <<conn, got>>
    PROVE  FollowerInv(c)'
<1> DEFINE k == conn[c]
<1>1. /\ Len(rows) \in Nat /\ LastId(c) \in Nat /\ k \in ConnectionType
      /\ FollowerInv(c) /\ StreamTypeOK /\ rows \in Seq(RowType)
  BY StreamTypes DEF FeedInv, StreamTypeOK, RowType
<1>2. row # NoEvent
  BY StreamAssumption DEF RowType, Event
<1>3. /\ Len(rows') = Len(rows) + 1 /\ rows'[Len(rows) + 1] = row
      /\ \A i \in 1 .. Len(rows) : rows'[i] = rows[i]
  BY <1>1, LastOfAppended
<1>4. LastId(c)' = LastId(c) /\ (KnowsEnd(c)' <=> KnowsEnd(c))
  BY DEF LastId, KnowsEnd
<1>5. \A i \in 1 .. Len(rows) : i \in 1 .. Len(rows') /\ i < Len(rows')
  BY <1>1, <1>3
<1>6. CursorInv(c)'
  BY <1>1, <1>3, <1>4, <1>5 DEF FollowerInv, CursorInv
<1>7. BufferInv(c)'
  <2>1. k.pc \in Subscribed => \A j \in k.replay : j \in 1 .. Len(rows)
    BY <1>1 DEF FollowerInv, CursorInv, ReplayInv, Served, Subscribed
  <2>2. k.pc \in Subscribed =>
           \A i \in 1 .. Len(k.buffer) :
              LET e == k.buffer[i]
              IN  /\ e.id \in 1 .. Len(rows) /\ e = rows[e.id]
                  /\ \/ e.id > LastId(c) \/ e.id \in k.sent
                     \/ \E j \in k.replay : j > e.id /\ IsTerminal(rows[j])
                  /\ \A j \in 1 .. Len(k.buffer) : i < j => e.id < k.buffer[j].id
    BY <1>1 DEF FollowerInv, BufferInv
  <2>3. k.pc \in Subscribed =>
           \A i \in 1 .. Len(k.buffer) :
              LET e == k.buffer[i]
              IN  /\ e.id \in 1 .. Len(rows') /\ e = rows'[e.id] /\ e.id < Len(rows')
                  /\ \/ e.id > LastId(c) \/ e.id \in k.sent
                     \/ \E j \in k.replay : j > e.id /\ IsTerminal(rows'[j])
    BY <1>3, <1>5, <2>1, <2>2
  <2> QED BY <1>4, <2>2, <2>3 DEF BufferInv, IsTerminal
<1>8. ReplayInv(c)'
  BY <1>1, <1>4, <1>5 DEF FollowerInv, ReplayInv
<1>9. CoverInv(c)'
  <2>1. ASSUME k.pc \in {"loaded", "open"}, NEW j \in LastId(c) + 1 .. Len(rows')
        PROVE  \/ j \in k.replay
               \/ /\ \A i \in k.replay : i < j
                  /\ rows'[j].kind = "delta" => Buffers(k, j) \/ Unpublished(j)'
               \/ IsTerminal(rows'[j]) /\ \E i \in k.replay : i > j /\ IsTerminal(rows'[i])
    <3>1. \A i \in k.replay : i \in 1 .. Len(rows)
      BY <1>1, <2>1 DEF FollowerInv, ReplayInv
    <3>2. CASE j = Len(rows')
      BY <1>2, <1>5, <3>1, <3>2 DEF Unpublished
    <3>3. CASE j # Len(rows')
      <4>1. j \in LastId(c) + 1 .. Len(rows) /\ j \in 1 .. Len(rows)
        BY <1>1, <1>3, <2>1, <3>3
      <4>2. \/ j \in k.replay
            \/ /\ \A i \in k.replay : i < j
               /\ rows[j].kind = "delta" => Buffers(k, j)
            \/ IsTerminal(rows[j]) /\ \E i \in k.replay : i > j /\ IsTerminal(rows[i])
        BY <1>1, <2>1, <4>1 DEF FollowerInv, CoverInv, Unpublished
      <4> QED BY <1>3, <3>1, <4>1, <4>2
    <3> QED BY <3>2, <3>3
  <2>2. ASSUME k.pc = "replaying", NEW i \in k.replay, NEW j \in LastId(c) + 1 .. i,
               rows'[j].kind = "delta"
        PROVE  j \in k.replay
    <3>1. i \in 1 .. Len(rows) /\ j \in 1 .. Len(rows)
      BY <1>1, <2>2 DEF FollowerInv, ReplayInv
    <3> QED BY <1>1, <1>3, <2>2, <3>1 DEF FollowerInv, CoverInv
  <2> QED BY <1>4, <2>1, <2>2 DEF CoverInv, Buffers, Unpublished, IsTerminal
<1> QED BY <1>6, <1>7, <1>8, <1>9 DEF FollowerInv

\* The row is published: a connection that is subscribed has it in the buffer,
\* has sent it or is closed.
LEMMA FollowerHears ==
    ASSUME FeedInv, NEW c \in Followers, written # NoEvent, written' = NoEvent,
           conn'[c] = EnqueueLive(conn[c], written),
           UNCHANGED <<rows, got>>
    PROVE  FollowerInv(c)' /\ conn'[c] \in ConnectionType
<1> DEFINE k == conn[c]
<1>1. /\ Len(rows) \in Nat /\ LastId(c) \in Nat /\ k \in ConnectionType
      /\ \A i \in 1 .. Len(k.buffer) : k.buffer[i] \in Event
      /\ Len(k.buffer) \in Nat
      /\ FollowerInv(c) /\ StreamTypeOK
  BY StreamTypes DEF FeedInv
<1>2. /\ Len(rows) > 0 /\ written = rows[Len(rows)] /\ written.id = Len(rows)
      /\ written \in Event /\ Len(rows) \in 1 .. Len(rows)
  <2>1. Len(rows) > 0 /\ written = rows[Len(rows)] /\ \A i \in 1 .. Len(rows) : rows[i].id = i
    BY DEF FeedInv, NumberedInv
  <2>2. Len(rows) \in 1 .. Len(rows)
    BY <1>1, <2>1
  <2> QED BY <1>1, <2>1, <2>2 DEF StreamTypeOK
<1>3. LastId(c)' = LastId(c) /\ (KnowsEnd(c)' <=> KnowsEnd(c))
  BY DEF LastId, KnowsEnd
<1>4. CASE conn'[c] = k /\ (k.pc \in Subscribed => Skipped(k, written) \/ Buffered(k, written))
  <2>1. CursorInv(c)' /\ BufferInv(c)' /\ ReplayInv(c)'
    BY <1>1, <1>3, <1>4 DEF FollowerInv, CursorInv, BufferInv, ReplayInv, IsTerminal
  <2>2. k.pc \in Subscribed => Len(rows) <= LastId(c) \/ Buffers(k, Len(rows))
    <3>1. ASSUME k.pc \in Subscribed, Skipped(k, written) PROVE Len(rows) <= LastId(c)
      <4>1. /\ k.after \in Nat /\ k.after <= LastId(c) /\ \A i \in k.sent : i <= LastId(c)
        BY <1>1, <3>1 DEF FollowerInv, CursorInv, Served, ConnectionType
      <4> QED BY <1>1, <1>2, <3>1, <4>1 DEF Skipped
    <3>2. Buffered(k, written) => Buffers(k, Len(rows))
      BY <1>2 DEF Buffered, Buffers
    <3> QED BY <1>4, <3>1, <3>2
  <2>3. CoverInv(c)'
    <3>1. ASSUME k.pc \in {"loaded", "open"}, NEW j \in LastId(c) + 1 .. Len(rows), Unpublished(j)
          PROVE  Buffers(k, j)
      BY <1>1, <2>2, <3>1 DEF Unpublished, Subscribed
    <3> QED BY <1>1, <1>3, <1>4, <3>1 DEF FollowerInv, CoverInv, Buffers, Unpublished, IsTerminal
  <2> QED BY <1>1, <1>4, <2>1, <2>3 DEF FollowerInv
<1>5. CASE conn'[c] = Closed("away") /\ k.pc \in Subscribed
  <2>1. ~KnowsEnd(c) /\ LastId(c) <= Len(rows)
    BY <1>1, <1>5 DEF FollowerInv, CursorInv, Subscribed
  <2>2. FollowerInv(c)'
    BY <1>3, <1>5, <2>1, FollowerLeaves
  <2> QED BY <1>5, <2>2, ClosedIsTyped DEF ConnectionPcs
<1>6. CASE /\ k.pc \in Subscribed /\ ~Skipped(k, written) /\ ~Buffered(k, written)
           /\ conn'[c] = [k EXCEPT !.buffer = Append(k.buffer, written)]
  <2> DEFINE b == Append(k.buffer, written)
  <2>1. /\ b \in Seq(Event) /\ Len(b) = Len(k.buffer) + 1 /\ b[Len(k.buffer) + 1] = written
        /\ \A i \in 1 .. Len(k.buffer) : b[i] = k.buffer[i]
    <3>1. k.buffer \in Seq(Event)
      BY <1>1 DEF ConnectionType
    <3> QED BY <1>2, <3>1, LastOfAppended
  <2> HIDE DEF b
  <2>2. /\ conn'[c].pc = k.pc /\ conn'[c].after = k.after /\ conn'[c].replay = k.replay
        /\ conn'[c].buffer = b /\ conn'[c].sent = k.sent /\ conn'[c] \in ConnectionType
    BY <1>1, <1>6, <2>1 DEF ConnectionType, b
  <2>3. CursorInv(c)' /\ ReplayInv(c)'
    BY <1>1, <1>3, <2>2 DEF FollowerInv, CursorInv, ReplayInv
  <2>4. \A i \in 1 .. Len(k.buffer) :
           LET e == k.buffer[i]
           IN  /\ e.id \in 1 .. Len(rows) /\ e = rows[e.id] /\ e.id < Len(rows)
               /\ \/ e.id > LastId(c) \/ e.id \in k.sent
                  \/ \E j \in k.replay : j > e.id /\ IsTerminal(rows[j])
               /\ \A j \in 1 .. Len(k.buffer) : i < j => e.id < k.buffer[j].id
    BY <1>1, <1>6 DEF FollowerInv, BufferInv
  <2>5. LastId(c) < Len(rows)
    <3>1. /\ k.after = LastId(c) \/ LastId(c) \in k.sent
          /\ LastId(c) <= Len(rows)
      BY <1>1, <1>6 DEF FollowerInv, CursorInv, Served, Subscribed
    <3>2. k.after < Len(rows) /\ Len(rows) \notin k.sent
      BY <1>1, <1>2, <1>6 DEF Skipped, ConnectionType
    <3> QED BY <1>1, <3>1, <3>2
  <2>6. BufferInv(c)'
    <3>1. ASSUME NEW i \in 1 .. Len(b)
          PROVE  LET e == b[i]
                 IN  /\ e.id \in 1 .. Len(rows) /\ e = rows[e.id]
                     /\ \/ e.id > LastId(c) \/ e.id \in k.sent
                        \/ \E j \in k.replay : j > e.id /\ IsTerminal(rows[j])
                     /\ \A j \in 1 .. Len(b) : i < j => e.id < b[j].id
      <4>1. CASE i = Len(b)
        <5>1. b[i] = written /\ \A j \in 1 .. Len(b) : ~(i < j)
          BY <1>1, <2>1, <4>1
        <5> QED BY <1>2, <2>5, <5>1
      <4>2. CASE i # Len(b)
        <5>1. i \in 1 .. Len(k.buffer) /\ b[i] = k.buffer[i]
          BY <1>1, <2>1, <4>2
        <5>2. ASSUME NEW j \in 1 .. Len(b), i < j PROVE b[i].id < b[j].id
          <6>1. j = Len(k.buffer) + 1 \/ (j \in 1 .. Len(k.buffer) /\ b[j] = k.buffer[j])
            BY <1>1, <2>1
          <6> QED BY <1>2, <2>1, <2>4, <5>1, <5>2, <6>1
        <5> QED BY <2>4, <5>1, <5>2
      <4> QED BY <4>1, <4>2
    <3> QED BY <1>3, <2>2, <3>1 DEF BufferInv
  <2>7. CoverInv(c)'
    <3>1. \A j : Buffers(k, j) => \E i \in 1 .. Len(b) : b[i].id = j
      BY <1>1, <2>1 DEF Buffers
    <3>2. \A j : Unpublished(j) => \E i \in 1 .. Len(b) : b[i].id = j
      <4>1. Len(b) \in 1 .. Len(b) /\ b[Len(b)] = written
        BY <1>1, <2>1
      <4> QED BY <1>2, <4>1 DEF Unpublished
    <3>3. k.pc \in {"loaded", "open"} =>
             \A j \in LastId(c) + 1 .. Len(rows) :
                \/ j \in k.replay
                \/ (\A i \in k.replay : i < j)
                   /\ (rows[j].kind = "delta" => \E i \in 1 .. Len(b) : b[i].id = j)
                \/ IsTerminal(rows[j]) /\ \E i \in k.replay : i > j /\ IsTerminal(rows[i])
      BY <1>1, <3>1, <3>2 DEF FollowerInv, CoverInv
    <3>4. k.pc # "replaying"
      BY <1>6 DEF Subscribed
    <3> QED BY <1>3, <2>2, <3>3, <3>4 DEF CoverInv, Buffers, IsTerminal
  <2> QED BY <2>2, <2>3, <2>6, <2>7 DEF FollowerInv
<1> QED BY <1>4, <1>5, <1>6 DEF EnqueueLive, Subscribed

-----------------------------------------------------------------------------
(* The steps of the stream.                                                *)

LEMMA OneFollowerMoves ==
    ASSUME FeedInv, NEW c \in Followers, NEW k \in ConnectionType,
           conn' = [conn EXCEPT ![c] = k],
           got' \in [Followers -> Seq(Event)], \A d \in Followers \ {c} : got'[d] = got[d],
           conn[c].pc # "repair",
           UNCHANGED <<rows, torn, next, queue, written, producer, losses>>,
           drops' \in 0 .. MaxDrops,
           FollowerInv(c)'
    PROVE  FeedInv'
<1>1. /\ conn \in [Followers -> ConnectionType] /\ conn'[c] = k
      /\ \A d \in Followers \ {c} : conn'[d] = conn[d]
  BY DEF FeedInv, StreamTypeOK, ConnectionType
<1>2. StreamTypeOK'
  <2>1. conn' \in [Followers -> ConnectionType]
    BY <1>1
  <2> QED BY <2>1 DEF FeedInv, StreamTypeOK, producer, ConnectionType
<1>3. NumberedInv'
  BY DEF FeedInv, NumberedInv
<1>4. RepairInv'
  <2>1. \A i \in 1 .. Len(queue) : queue[i].by # "run" => queue[i].by \in Followers
    <3>1. queue \in Seq(AppendType)
      BY DEF FeedInv, StreamTypeOK, AppendType
    <3>2. \A i \in 1 .. Len(queue) : queue[i] \in AppendType
      BY <3>1, ElementOfSeq, LenProperties
    <3> QED BY <3>2 DEF AppendType
  <2>2. \A d \in Followers : conn[d].pc = "repair" => conn'[d].pc = "repair"
    BY <1>1
  <2> QED BY <2>1, <2>2 DEF FeedInv, RepairInv
<1>5. ASSUME NEW d \in Followers PROVE FollowerInv(d)'
  <2>1. CASE d = c
    BY <2>1
  <2>2. CASE d # c
    BY <1>1, <2>2, FollowerStays DEF FeedInv
  <2> QED BY <2>1, <2>2
<1> QED BY <1>2, <1>3, <1>4, <1>5 DEF FeedInv

LEMMA QueueTypes ==
    ASSUME StreamTypeOK
    PROVE  /\ queue \in Seq(AppendType) /\ Len(queue) \in Nat
           /\ \A i \in 1 .. Len(queue) :
                 queue[i] \in AppendType /\ queue[i].by \in Followers \cup {"run"}
           /\ queue # <<>> =>
                 /\ Head(queue) = queue[1] /\ Head(queue) \in AppendType /\ Len(queue) > 0
                 /\ Tail(queue) \in Seq(AppendType) /\ Len(Tail(queue)) = Len(queue) - 1
                 /\ \A i \in 1 .. Len(Tail(queue)) : Tail(queue)[i] = queue[i + 1]
<1>1. queue \in Seq(AppendType)
  BY DEF StreamTypeOK, AppendType
<1>2. Len(queue) \in Nat /\ \A i \in 1 .. Len(queue) : queue[i] \in AppendType
  BY <1>1, LenProperties, ElementOfSeq
<1> QED BY <1>1, <1>2, RestOf DEF AppendType

\* The run or a Stop asks for an append, or nobody does.
LEMMA RepairsStay ==
    ASSUME FeedInv, NEW kind \in EventKinds,
           queue' \in {queue, Append(queue, [kind |-> kind, by |-> "run"])},
           UNCHANGED conn
    PROVE  RepairInv' /\ queue' \in Seq(AppendType)
<1> DEFINE e == [kind |-> kind, by |-> "run"]
<1>1. /\ queue \in Seq(AppendType) /\ Len(queue) \in Nat
      /\ e \in AppendType
  BY QueueTypes DEF FeedInv, AppendType
<1>2. CASE queue' = queue
  BY <1>1, <1>2 DEF FeedInv, RepairInv
<1>3. CASE queue' = Append(queue, e)
  <2>1. /\ Append(queue, e) \in Seq(AppendType) /\ Len(queue') = Len(queue) + 1
        /\ \A i \in 1 .. Len(queue) : queue'[i] = queue[i]
        /\ queue'[Len(queue) + 1].by = "run"
    BY <1>1, <1>3, LastOfAppended
  <2>2. \A i \in 1 .. Len(queue') : queue'[i].by # "run" => i \in 1 .. Len(queue)
    BY <1>1, <2>1
  <2> QED BY <1>1, <1>3, <2>1, <2>2 DEF FeedInv, RepairInv
<1> QED BY <1>2, <1>3

\* The first append is through; whoever asked for it waits no more.
LEMMA RepairsShrink ==
    ASSUME FeedInv, queue # <<>>, queue' = Tail(queue),
           \A d \in Followers : Head(queue).by # d /\ conn[d].pc = "repair"
                                   => conn'[d].pc = "repair"
    PROVE  RepairInv' /\ queue' \in Seq(AppendType)
<1>1. /\ Len(queue) \in Nat /\ Len(queue) > 0 /\ Head(queue) = queue[1]
      /\ Tail(queue) \in Seq(AppendType) /\ Len(Tail(queue)) = Len(queue) - 1
      /\ \A i \in 1 .. Len(Tail(queue)) : Tail(queue)[i] = queue[i + 1]
      /\ \A i \in 1 .. Len(queue) : queue[i].by \in Followers \cup {"run"}
  BY QueueTypes DEF FeedInv
<1>2. ASSUME NEW i \in 1 .. Len(Tail(queue)), queue[i + 1].by # "run"
      PROVE  /\ conn'[queue[i + 1].by].pc = "repair"
             /\ \A j \in 1 .. Len(Tail(queue)) : queue[j + 1].by = queue[i + 1].by => i = j
  <2>1. i + 1 \in 1 .. Len(queue) /\ 1 \in 1 .. Len(queue) /\ i + 1 # 1
    BY <1>1
  <2>2. conn[queue[i + 1].by].pc = "repair" /\ queue[1].by # queue[i + 1].by
    BY <1>2, <2>1 DEF FeedInv, RepairInv
  <2>3. conn'[queue[i + 1].by].pc = "repair"
    BY <1>1, <1>2, <2>1, <2>2
  <2>4. ASSUME NEW j \in 1 .. Len(Tail(queue)), queue[j + 1].by = queue[i + 1].by PROVE i = j
    <3>1. j + 1 \in 1 .. Len(queue)
      BY <1>1
    <3>2. i + 1 = j + 1
      BY <1>2, <2>1, <2>4, <3>1 DEF FeedInv, RepairInv
    <3> QED BY <3>2
  <2> QED BY <2>3, <2>4
<1> QED BY <1>1, <1>2 DEF RepairInv

\* The turn goes on.
LEMMA TurnKeepsFeed ==
    ASSUME FeedInv,
           CodexEvent \/ SettleRun \/ SettleCancel \/ Tell \/ LeaveRegistry \/ Evict
    PROVE  FeedInv'
<1>1. UNCHANGED <<rows, written, conn, got>>
  BY DEF CodexEvent, SettleRun, SettleCancel, Tell, LeaveRegistry, Evict
<1>2. \A c \in Followers : FollowerInv(c)'
  BY <1>1, FollowerStays DEF FeedInv
<1>3. PICK kind \in EventKinds : queue' \in {queue, Append(queue, [kind |-> kind, by |-> "run"])}
  BY DEF CodexEvent, SettleRun, SettleCancel, Tell, LeaveRegistry, Evict, Ask, EventKinds
<1>4. RepairInv' /\ queue' \in Seq(AppendType)
  BY <1>1, <1>3, RepairsStay
<1>5. StreamTypeOK'
  <2> USE DEF CodexEvent, SettleRun, SettleCancel, Tell, LeaveRegistry, Evict, bounds, producer
  <2>1. UNCHANGED <<torn, drops, losses>>
    OBVIOUS
  <2>2. next' \in Nat /\ outcome' \in {"none", "answered", "failed"}
    BY DEF FeedInv, StreamTypeOK
  <2>3. live' \in {live, FALSE} /\ running' \in {running, FALSE}
    OBVIOUS
  <2>4. deltas' \in 0 .. MaxEvents /\ tells' \in 0 .. MaxTells
    <3>1. /\ deltas \in 0 .. MaxEvents /\ tells \in 0 .. MaxTells
          /\ MaxEvents \in Nat /\ MaxTells \in Nat
      BY StreamAssumption DEF FeedInv, StreamTypeOK
    <3>2. deltas' = deltas \/ (deltas < MaxEvents /\ deltas' = deltas + 1)
      OBVIOUS
    <3>3. tells' = tells \/ (tells < MaxTells /\ tells' = tells + 1)
      OBVIOUS
    <3> HIDE DEF CodexEvent, SettleRun, SettleCancel, Tell, LeaveRegistry, Evict
    <3> QED BY <3>1, <3>2, <3>3
  <2>5. live' \in BOOLEAN /\ running' \in BOOLEAN
    BY <2>3, Zenon DEF FeedInv, StreamTypeOK
  <2> QED BY <1>1, <1>4, <2>1, <2>2, <2>4, <2>5 DEF FeedInv, StreamTypeOK, AppendType
<1>6. NumberedInv'
  <2>1. queue # <<>> => queue' # <<>>
    <3>1. \A e \in AppendType : Append(queue, e) # <<>>
      BY QueueTypes, LastOfAppended DEF FeedInv
    <3>2. [kind |-> kind, by |-> "run"] \in AppendType
      BY DEF AppendType
    <3> QED BY <1>3, <3>1, <3>2
  <2>2. next' = next \/ (written = NoEvent /\ next' = 0)
    BY DEF CodexEvent, SettleRun, SettleCancel, Tell, LeaveRegistry, Evict
  <2> QED BY <1>1, <2>1, <2>2 DEF FeedInv, NumberedInv
<1> QED BY <1>2, <1>4, <1>5, <1>6 DEF FeedInv

LEMMA WriteKeepsFeed ==
    ASSUME FeedInv, WriteRow
    PROVE  FeedInv'
<1>1. /\ queue # <<>> /\ written = NoEvent /\ rows' = Append(rows, Row) /\ written' = Row
      /\ UNCHANGED <<queue, conn, got, next, outcome, live, running, deltas, drops, losses>>
      /\ torn' = FALSE
  BY DEF WriteRow, bounds
<1>2. /\ Len(rows) \in Nat /\ rows \in Seq(RowType) /\ StreamTypeOK
      /\ Head(queue) \in AppendType
  BY <1>1, StreamTypes, QueueTypes DEF FeedInv, StreamTypeOK, RowType
<1>3. Row \in RowType /\ Row.id = Len(rows) + 1
  BY <1>1, <1>2 DEF FeedInv, NumberedInv, Row, Number, RowType, AppendType
<1>4. \A c \in Followers : FollowerInv(c)'
  BY <1>1, <1>3, FollowerSeesRow
<1>5. /\ rows' \in Seq(RowType) /\ Len(rows') = Len(rows) + 1 /\ rows'[Len(rows) + 1] = Row
      /\ \A i \in 1 .. Len(rows) : rows'[i] = rows[i]
  BY <1>1, <1>2, <1>3, LastOfAppended
<1>6. StreamTypeOK'
  <2>1. tells' \in 0 .. MaxTells
    BY <1>2, StreamAssumption DEF WriteRow, Tried, StreamTypeOK
  <2>2. written' \in Event
    BY <1>1, <1>3 DEF RowType, Event
  <2> QED BY <1>1, <1>2, <1>5, <2>1, <2>2 DEF StreamTypeOK, RowType
<1>7. NumberedInv'
  <2>1. Row # NoEvent
    BY <1>3, StreamAssumption DEF RowType, Event
  <2>2. \A i \in 1 .. Len(rows') : rows'[i].id = i
    BY <1>2, <1>3, <1>5 DEF FeedInv, NumberedInv
  <2> QED BY <1>1, <1>2, <1>5, <2>1, <2>2 DEF NumberedInv
<1>8. RepairInv'
  BY <1>1 DEF FeedInv, RepairInv
<1> QED BY <1>4, <1>6, <1>7, <1>8 DEF FeedInv

LEMMA FailKeepsFeed ==
    ASSUME AppendsAreKnown, FeedInv, FailAppend
    PROVE  FeedInv'
<1>1. /\ queue # <<>> /\ written = NoEvent /\ queue' = Tail(queue) /\ torn' \in BOOLEAN
      /\ conn' = [c \in Followers |->
            IF Head(queue).by = c THEN Closed("refused") ELSE conn[c]]
      /\ UNCHANGED <<rows, next, written, got, outcome, live, running, deltas, tells, drops, losses>>
  BY DEF FailAppend, AppendsAreKnown, Refused, producer, bounds, FeedInv, StreamTypeOK
<1>2. /\ Head(queue) = queue[1] /\ 1 \in 1 .. Len(queue)
      /\ Head(queue).by \in Followers => conn[Head(queue).by].pc = "repair"
  <2>1. Head(queue) = queue[1] /\ Len(queue) \in Nat /\ Len(queue) > 0
    BY <1>1, QueueTypes DEF FeedInv
  <2> QED BY <2>1, StreamAssumption DEF FeedInv, RepairInv
<1>3. ASSUME NEW c \in Followers PROVE FollowerInv(c)' /\ conn'[c] \in ConnectionType
  <2>1. CASE Head(queue).by = c
    <3>1. ~KnowsEnd(c) /\ LastId(c) <= Len(rows)
      BY <1>2, <2>1 DEF FeedInv, FollowerInv, CursorInv
    <3>2. conn'[c] = Closed("refused") /\ LastId(c)' = LastId(c) /\ (KnowsEnd(c)' <=> KnowsEnd(c))
      BY <1>1, <2>1 DEF LastId, KnowsEnd
    <3> QED BY <1>1, <3>1, <3>2, FollowerLeaves, ClosedIsTyped DEF ConnectionPcs
  <2>2. CASE Head(queue).by # c
    BY <1>1, <2>2, FollowerStays, StreamTypes DEF FeedInv
  <2> QED BY <2>1, <2>2
<1>4. RepairInv' /\ queue' \in Seq(AppendType)
  BY <1>1, RepairsShrink
<1>5. StreamTypeOK'
  <2>1. conn' \in [Followers -> ConnectionType]
    BY <1>1, <1>3
  <2> QED BY <1>1, <1>4, <2>1 DEF FeedInv, StreamTypeOK, ConnectionType, AppendType
<1>6. NumberedInv'
  BY <1>1 DEF FeedInv, NumberedInv
<1> QED BY <1>3, <1>4, <1>5, <1>6 DEF FeedInv

LEMMA PublishKeepsFeed ==
    ASSUME FeedInv, PublishRow
    PROVE  FeedInv'
<1>1. /\ queue # <<>> /\ written # NoEvent /\ written' = NoEvent /\ queue' = Tail(queue)
      /\ next' = written.id + 1
      /\ conn' = [c \in Followers |->
            IF Head(queue).by = c THEN [conn[c] EXCEPT !.pc = "reload"]
            ELSE EnqueueLive(conn[c], written)]
      /\ UNCHANGED <<rows, torn, got, outcome, live, running, deltas, tells, drops, losses>>
  BY DEF PublishRow, producer, bounds, FeedInv, NumberedInv
<1>2. /\ Head(queue) = queue[1] /\ 1 \in 1 .. Len(queue)
      /\ Head(queue).by \in Followers => conn[Head(queue).by].pc = "repair"
  <2>1. Head(queue) = queue[1] /\ Len(queue) \in Nat /\ Len(queue) > 0
    BY <1>1, QueueTypes DEF FeedInv
  <2> QED BY <2>1, StreamAssumption DEF FeedInv, RepairInv
<1>3. ASSUME NEW c \in Followers PROVE FollowerInv(c)' /\ conn'[c] \in ConnectionType
  <2>1. CASE Head(queue).by = c
    <3>1. conn'[c] = [conn[c] EXCEPT !.pc = "reload"] /\ conn[c].pc = "repair"
      BY <1>1, <1>2, <2>1
    <3>2. conn'[c] \in ConnectionType
      BY <3>1, StreamTypes DEF FeedInv, ConnectionType, ConnectionPcs
    <3> QED BY <1>1, <3>1, <3>2, FollowerReconciles
  <2>2. CASE Head(queue).by # c
    BY <1>1, <2>2, FollowerHears
  <2> QED BY <2>1, <2>2
<1>4. RepairInv' /\ queue' \in Seq(AppendType)
  <2>1. ASSUME NEW d \in Followers, Head(queue).by # d, conn[d].pc = "repair"
        PROVE  conn'[d].pc = "repair"
    BY <1>1, <2>1 DEF EnqueueLive
  <2> QED BY <1>1, <2>1, RepairsShrink
<1>5. /\ written = rows[Len(rows)] /\ Len(rows) \in Nat /\ Len(rows) > 0
      /\ written.id = Len(rows)
  <2>1. Len(rows) \in Nat
    BY StreamTypes DEF FeedInv
  <2>2. Len(rows) > 0 /\ written = rows[Len(rows)] /\ \A i \in 1 .. Len(rows) : rows[i].id = i
    BY <1>1 DEF FeedInv, NumberedInv
  <2> QED BY <2>1, <2>2
<1>6. StreamTypeOK'
  <2>1. conn' \in [Followers -> ConnectionType]
    BY <1>1, <1>3
  <2>2. next' \in Nat
    BY <1>1, <1>5
  <2>3. StreamTypeOK
    BY DEF FeedInv
  <2> QED BY <1>1, <1>4, <2>1, <2>2, <2>3 DEF StreamTypeOK, ConnectionType, AppendType
<1>7. NumberedInv'
  BY <1>1, <1>5 DEF FeedInv, NumberedInv
<1> QED BY <1>3, <1>4, <1>6, <1>7 DEF FeedInv

LEMMA StreamStarts ==
    ASSUME StreamInit
    PROVE  FeedInv
<1>1. /\ Len(rows) = 0 /\ Len(queue) = 0 /\ written = NoEvent /\ next = 0
      /\ rows \in Seq(RowType) /\ queue \in Seq(AppendType) /\ <<>> \in Seq(Event)
  BY EmptySeq DEF StreamInit
<1>2. StreamTypeOK
  <2>1. conn \in [Followers -> ConnectionType]
    BY ClosedIsTyped DEF StreamInit, ConnectionPcs
  <2>2. got \in [Followers -> Seq(Event)]
    BY <1>1 DEF StreamInit
  <2>3. deltas \in 0 .. MaxEvents /\ tells \in 0 .. MaxTells
        /\ drops \in 0 .. MaxDrops /\ losses \in 0 .. MaxLosses
    BY StreamAssumption DEF StreamInit
  <2>4. torn \in BOOLEAN /\ live \in BOOLEAN /\ running \in BOOLEAN
    BY DEF StreamInit
  <2> QED BY <1>1, <2>1, <2>2, <2>3, <2>4
       DEF StreamInit, StreamTypeOK, RowType, AppendType, ConnectionType
<1>3. NumberedInv /\ RepairInv
  BY <1>1 DEF NumberedInv, RepairInv
<1>4. ASSUME NEW c \in Followers PROVE FollowerInv(c)
  <2>1. conn[c].pc = "idle" /\ ~KnowsEnd(c) /\ LastId(c) = 0
    BY DEF StreamInit, Closed, KnowsEnd, LastId
  <2>2. CursorInv(c)
    BY <1>1, <2>1 DEF CursorInv, Served, Subscribed
  <2>3. BufferInv(c) /\ ReplayInv(c) /\ CoverInv(c)
    BY <2>1 DEF BufferInv, ReplayInv, CoverInv, Subscribed
  <2> QED BY <2>2, <2>3 DEF FollowerInv
<1> QED BY <1>2, <1>3, <1>4 DEF FeedInv

\* The browser handles an event.
LEMMA HandleKeepsFeed ==
    ASSUME FeedInv, NEW c \in Followers, NEW k \in ConnectionType, NEW e \in Event,
           conn[c].pc # "repair", Handle(c, k, e),
           UNCHANGED <<rows, torn, next, queue, written, producer, bounds>>,
           ~IsTerminal(e) /\ conn'[c] = [k EXCEPT !.sent = k.sent \cup {e.id}] => FollowerInv(c)'
    PROVE  FeedInv'
<1> DEFINE n == IF IsTerminal(e) THEN Closed("done") ELSE [k EXCEPT !.sent = k.sent \cup {e.id}]
<1>1. /\ conn \in [Followers -> ConnectionType] /\ got \in [Followers -> Seq(Event)]
      /\ drops \in 0 .. MaxDrops
  BY DEF FeedInv, StreamTypeOK, ConnectionType
<1>2. conn' = [conn EXCEPT ![c] = n] /\ got' = [got EXCEPT ![c] = Append(got[c], e)]
  BY DEF Handle
<1>3. n \in ConnectionType
  <2>1. Closed("done") \in ConnectionType
    BY ClosedIsTyped DEF ConnectionPcs
  <2>2. [k EXCEPT !.sent = k.sent \cup {e.id}] \in ConnectionType
    BY DEF ConnectionType, Event
  <2> QED BY <2>1, <2>2
<1>4. conn'[c] = n
  BY <1>1, <1>2
<1>5. FollowerInv(c)'
  BY <1>2, <1>4, FollowerIsTold
<1>6. got' \in [Followers -> Seq(Event)]
  BY <1>2, CursorAdvances DEF FeedInv
<1>7. \A d \in Followers \ {c} : got'[d] = got[d]
  BY <1>1, <1>2
<1> HIDE DEF n
<1> QED BY <1>1, <1>2, <1>3, <1>5, <1>6, <1>7, OneFollowerMoves DEF bounds

\* The connection moves, and the browser sees nothing of it.
LEMMA ConnectionKeepsFeed ==
    ASSUME FeedInv, NEW c \in Followers, NEW k \in ConnectionType,
           conn' = [conn EXCEPT ![c] = k], conn[c].pc # "repair",
           UNCHANGED <<rows, torn, next, queue, written, got, producer, losses>>,
           drops' \in 0 .. MaxDrops,
           conn'[c] = k => FollowerInv(c)'
    PROVE  FeedInv'
<1>1. conn \in [Followers -> ConnectionType] /\ got \in [Followers -> Seq(Event)]
  BY DEF FeedInv, StreamTypeOK, ConnectionType
<1>2. conn'[c] = k
  BY <1>1
<1> QED BY <1>1, <1>2, OneFollowerMoves

LEMMA ConnectKeepsFeed ==
    ASSUME FeedInv, NEW c \in Followers, Connect(c)
    PROVE  FeedInv'
<1> DEFINE pc == IF live THEN "loading" ELSE "scan"
           k == [Closed(pc) EXCEPT !.after = LastId(c)]
<1>1. drops \in 0 .. MaxDrops /\ LastId(c) \in Nat
  BY StreamTypes DEF FeedInv, StreamTypeOK
<1>2. pc \in {"loading", "scan"}
  OBVIOUS
<1> HIDE DEF pc
<1>3. k \in ConnectionType
  BY <1>1, <1>2, ClosedIsTyped DEF ConnectionPcs, ConnectionType
<1>4. conn' = [conn EXCEPT ![c] = k] /\ conn[c].pc \in {"idle", "away"}
  BY DEF Connect, pc
<1>5. ASSUME conn'[c] = k PROVE FollowerInv(c)'
  BY <1>2, <1>4, <1>5, FollowerConnects DEF Connect
<1> HIDE DEF k
<1> QED BY <1>1, <1>3, <1>4, <1>5, ConnectionKeepsFeed DEF Connect, bounds

LEMMA LoadKeepsFeed ==
    ASSUME FeedInv, NEW c \in Followers, LoadReplay(c) \/ Open(c) \/ Scan(c) \/ Reload(c)
    PROVE  FeedInv'
<1> DEFINE k == conn'[c]
<1>1. /\ conn \in [Followers -> ConnectionType] /\ drops \in 0 .. MaxDrops
      /\ Len(rows) \in Nat /\ \A id \in Nat : ReplayAfter(id) \in SUBSET Nat
  <2>1. conn \in [Followers -> ConnectionType] /\ drops \in 0 .. MaxDrops /\ Len(rows) \in Nat
    BY StreamTypes DEF FeedInv, StreamTypeOK, ConnectionType
  <2>2. \A id \in Nat : ReplayAfter(id) \subseteq 1 .. Len(rows)
    BY DEF ReplayAfter
  <2> QED BY <2>1, <2>2
<1>2. conn[c] \in ConnectionType /\ ReplayAfter(conn[c].after) \in SUBSET Nat
  BY <1>1 DEF ConnectionType
<1>3. Presumed(conn[c].after) \in Nat
  BY <1>1 DEF Presumed
<1>4. /\ conn[c].pc # "repair" /\ drops' = drops
      /\ UNCHANGED <<rows, torn, next, queue, written, got, producer, losses>>
  BY DEF LoadReplay, Open, Scan, Reload, bounds
<1>5. CASE LoadReplay(c)
  <2>1. k = [conn[c] EXCEPT !.pc = "loaded", !.replay = ReplayAfter(conn[c].after)]
    BY <1>1, <1>5 DEF LoadReplay, ConnectionType
  <2>2. k \in ConnectionType
    BY <1>2, <2>1 DEF ConnectionType, ConnectionPcs
  <2>3. FollowerInv(c)'
    BY <1>4, <1>5, <2>1, FollowerLoads DEF LoadReplay
  <2>4. conn' = [conn EXCEPT ![c] = k]
    BY <1>1, <1>5 DEF LoadReplay
  <2> QED BY <1>1, <1>4, <2>2, <2>3, <2>4, ConnectionKeepsFeed
<1>6. CASE Open(c)
  <2>1. k = [conn[c] EXCEPT !.pc = "open"]
    BY <1>1, <1>6 DEF Open, ConnectionType
  <2>2. k \in ConnectionType
    BY <1>2, <2>1 DEF ConnectionType, ConnectionPcs
  <2>3. FollowerInv(c)'
    BY <1>4, <1>6, <2>1, FollowerOpens DEF Open
  <2>4. conn' = [conn EXCEPT ![c] = k]
    BY <1>1, <1>6 DEF Open
  <2> QED BY <1>1, <1>4, <2>2, <2>3, <2>4, ConnectionKeepsFeed
<1>7. CASE Scan(c)
  <2>1. /\ conn' = [conn EXCEPT ![c] = k] /\ conn[c].pc = "scan"
        /\ \/ k = [conn[c] EXCEPT !.pc = "replaying", !.replay = ReplayAfter(conn[c].after)]
           \/ k = [conn[c] EXCEPT !.pc = "reconcile"]
    BY <1>1, <1>7 DEF Scan
  <2>2. k \in ConnectionType
    BY <1>2, <2>1 DEF ConnectionType, ConnectionPcs
  <2>3. CASE k = [conn[c] EXCEPT !.pc = "replaying", !.replay = ReplayAfter(conn[c].after)]
    <3>1. k.pc = "replaying" /\ k.replay = ReplayAfter(conn[c].after)
      BY <1>1, <2>3 DEF ConnectionType
    <3>2. FollowerInv(c)'
      BY <1>4, <2>1, <3>1, FollowerReplays
    <3> QED BY <1>1, <1>4, <2>1, <2>2, <3>2, ConnectionKeepsFeed
  <2>4. CASE k = [conn[c] EXCEPT !.pc = "reconcile"]
    <3>1. FollowerInv(c)'
      BY <1>4, <2>1, <2>4, FollowerReconciles
    <3> QED BY <1>1, <1>4, <2>1, <2>2, <3>1, ConnectionKeepsFeed
  <2> QED BY <2>1, <2>3, <2>4
<1>8. CASE Reload(c)
  <2>1. /\ conn' = [conn EXCEPT ![c] = k] /\ conn[c].pc = "reload"
        /\ k = [conn[c] EXCEPT !.pc = "replaying", !.replay = ReplayAfter(conn[c].after),
                               !.presumed = Presumed(conn[c].after)]
    BY <1>1, <1>8 DEF Reload, ConnectionType
  <2>2. k \in ConnectionType
    BY <1>2, <1>3, <2>1 DEF ConnectionType, ConnectionPcs
  <2>3. k.pc = "replaying" /\ k.replay = ReplayAfter(conn[c].after)
    BY <1>1, <2>1 DEF ConnectionType
  <2>4. FollowerInv(c)'
    BY <1>4, <2>1, <2>3, FollowerReplays
  <2> QED BY <1>1, <1>4, <2>1, <2>2, <2>4, ConnectionKeepsFeed
<1> QED BY <1>5, <1>6, <1>7, <1>8

LEMMA PumpKeepsFeed ==
    ASSUME FeedInv, NEW c \in Followers, Pump(c)
    PROVE  FeedInv'
<1> DEFINE k == conn[c]
<1>1. /\ k \in ConnectionType /\ drops \in 0 .. MaxDrops /\ k.pc = "open"
      /\ UNCHANGED <<rows, torn, next, queue, written, producer, bounds>>
  BY StreamTypes DEF FeedInv, StreamTypeOK, Pump
<1>2. ASSUME NEW i \in k.replay, FirstRow(k, i), Send(c, WithoutRow(k, i), rows[i])
      PROVE  FeedInv'
  <2> DEFINE n == WithoutRow(k, i)
  <2>1. i \in 1 .. Len(rows) /\ rows[i] \in Event
    BY <1>1, StreamTypes DEF FeedInv, FollowerInv, ReplayInv
  <2>2. n \in ConnectionType /\ n.sent = k.sent /\ (Skipped(n, rows[i]) <=> Skipped(k, rows[i]))
    BY <1>1 DEF WithoutRow, ConnectionType, Skipped
  <2>3. CASE Skipped(k, rows[i])
    <3>1. conn' = [conn EXCEPT ![c] = n] /\ UNCHANGED got
      BY <1>2, <2>2, <2>3 DEF Send
    <3>2. ASSUME conn'[c] = n PROVE FollowerInv(c)'
      BY <1>1, <2>3, <3>1, <3>2, FollowerPassesReplayed
    <3> HIDE DEF n
    <3> QED BY <1>1, <2>2, <3>1, <3>2, ConnectionKeepsFeed DEF bounds
  <2>4. CASE ~Skipped(k, rows[i])
    <3>1. Handle(c, n, rows[i])
      BY <1>2, <2>2, <2>4 DEF Send
    <3>2. ASSUME ~IsTerminal(rows[i]), conn'[c] = [n EXCEPT !.sent = n.sent \cup {rows[i].id}]
          PROVE  FollowerInv(c)'
      <4>1. got' = [got EXCEPT ![c] = Append(got[c], rows[i])]
        BY <3>1 DEF Handle
      <4> QED BY <1>1, <1>2, <2>2, <2>4, <3>2, <4>1, FollowerGetsReplayed
    <3> HIDE DEF n
    <3> QED BY <1>1, <2>1, <2>2, <3>1, <3>2, HandleKeepsFeed
  <2> QED BY <2>3, <2>4
<1>3. ASSUME k.replay = {}, k.buffer # <<>>,
             Send(c, [k EXCEPT !.buffer = Tail(k.buffer)], Head(k.buffer))
      PROVE  FeedInv'
  <2> DEFINE n == [k EXCEPT !.buffer = Tail(k.buffer)]
             e == Head(k.buffer)
  <2>1. e \in Event /\ Tail(k.buffer) \in Seq(Event)
    <3>1. k.buffer \in Seq(Event)
      BY <1>1 DEF ConnectionType
    <3> QED BY <1>3, <3>1, RestOf
  <2>2. /\ n \in ConnectionType /\ n.sent = k.sent
        /\ (Skipped(n, e) <=> Skipped(k, e))
        /\ [n EXCEPT !.sent = n.sent \cup {e.id}]
             = [k EXCEPT !.buffer = Tail(k.buffer), !.sent = k.sent \cup {e.id}]
    BY <1>1, <2>1 DEF ConnectionType, Skipped
  <2>3. CASE Skipped(k, e)
    <3>1. conn' = [conn EXCEPT ![c] = n] /\ UNCHANGED got
      BY <1>3, <2>2, <2>3 DEF Send
    <3>2. ASSUME conn'[c] = n PROVE FollowerInv(c)'
      BY <1>1, <1>3, <2>3, <3>1, <3>2, FollowerPassesBuffered
    <3> HIDE DEF n
    <3> QED BY <1>1, <2>2, <3>1, <3>2, ConnectionKeepsFeed DEF bounds
  <2>4. CASE ~Skipped(k, e)
    <3>1. Handle(c, n, e)
      BY <1>3, <2>2, <2>4 DEF Send
    <3>2. ASSUME ~IsTerminal(e), conn'[c] = [n EXCEPT !.sent = n.sent \cup {e.id}]
          PROVE  FollowerInv(c)'
      <4>1. got' = [got EXCEPT ![c] = Append(got[c], e)]
        BY <3>1 DEF Handle
      <4> QED BY <1>1, <1>3, <2>2, <2>4, <3>2, <4>1, FollowerGetsBuffered
    <3> HIDE DEF n, e
    <3> QED BY <1>1, <2>1, <2>2, <3>1, <3>2, HandleKeepsFeed
  <2> QED BY <2>3, <2>4
<1> QED BY <1>2, <1>3 DEF Pump, FirstRow

LEMMA ReplayKeepsFeed ==
    ASSUME FeedInv, NEW c \in Followers, Replay(c)
    PROVE  FeedInv'
<1> DEFINE k == conn[c]
<1>1. /\ k \in ConnectionType /\ drops \in 0 .. MaxDrops /\ k.pc = "replaying"
      /\ UNCHANGED <<rows, torn, next, queue, written, producer, bounds>>
  BY StreamTypes DEF FeedInv, StreamTypeOK, Replay
<1>2. ASSUME NEW i \in k.replay, FirstRow(k, i), Handle(c, WithoutRow(k, i), rows[i])
      PROVE  FeedInv'
  <2> DEFINE n == WithoutRow(k, i)
  <2>1. i \in 1 .. Len(rows) /\ rows[i] \in Event
    BY <1>1, StreamTypes DEF FeedInv, FollowerInv, ReplayInv
  <2>2. n \in ConnectionType /\ n.sent = k.sent
    BY <1>1 DEF WithoutRow, ConnectionType
  <2>3. ASSUME ~IsTerminal(rows[i]), conn'[c] = [n EXCEPT !.sent = n.sent \cup {rows[i].id}]
        PROVE  FollowerInv(c)'
    <3>1. got' = [got EXCEPT ![c] = Append(got[c], rows[i])]
      BY <1>2 DEF Handle
    <3> QED BY <1>1, <1>2, <2>2, <2>3, <3>1, FollowerIsReplayed
  <2> HIDE DEF n
  <2>4. Handle(c, n, rows[i])
    BY <1>2 DEF n
  <2> QED BY <1>1, <2>1, <2>2, <2>3, <2>4, HandleKeepsFeed
<1>3. ASSUME k.presumed # 0, Handle(c, k, [id |-> k.presumed, kind |-> "presumed"])
      PROVE  FeedInv'
  <2> DEFINE e == [id |-> k.presumed, kind |-> "presumed"]
  <2>1. e \in Event /\ IsTerminal(e)
    BY <1>1, <1>3 DEF Event, IsTerminal, ConnectionType
  <2> QED BY <1>1, <1>3, <2>1, HandleKeepsFeed
<1>4. ASSUME conn' = [conn EXCEPT ![c] = Closed("away")], UNCHANGED got
      PROVE  FeedInv'
  <2>1. ~KnowsEnd(c) /\ LastId(c) <= Len(rows)
    BY <1>1 DEF FeedInv, FollowerInv, CursorInv
  <2>2. LastId(c)' = LastId(c) /\ (KnowsEnd(c)' <=> KnowsEnd(c)) /\ Closed("away") \in ConnectionType
    BY <1>4, ClosedIsTyped DEF LastId, KnowsEnd, ConnectionPcs
  <2>3. ASSUME conn'[c] = Closed("away") PROVE FollowerInv(c)'
    BY <1>1, <2>1, <2>2, <2>3, FollowerLeaves
  <2> QED BY <1>1, <1>4, <2>2, <2>3, ConnectionKeepsFeed DEF bounds
<1> QED BY <1>2, <1>3, <1>4 DEF Replay, FirstRow

LEMMA DropKeepsFeed ==
    ASSUME FeedInv, NEW c \in Followers, Drop(c)
    PROVE  FeedInv'
<1>1. /\ conn[c].pc \in {"loading", "loaded", "open", "scan", "replaying"}
      /\ conn' = [conn EXCEPT ![c] = Closed("away")]
      /\ UNCHANGED <<rows, torn, next, queue, written, got, producer, losses>>
  BY DEF Drop
<1>2. drops' \in 0 .. MaxDrops
  BY StreamAssumption DEF Drop, FeedInv, StreamTypeOK
<1>3. ~KnowsEnd(c) /\ LastId(c) <= Len(rows)
  BY <1>1 DEF FeedInv, FollowerInv, CursorInv
<1>4. LastId(c)' = LastId(c) /\ (KnowsEnd(c)' <=> KnowsEnd(c)) /\ Closed("away") \in ConnectionType
  BY <1>1, ClosedIsTyped DEF LastId, KnowsEnd, ConnectionPcs
<1>5. ASSUME conn'[c] = Closed("away") PROVE FollowerInv(c)'
  BY <1>1, <1>3, <1>4, <1>5, FollowerLeaves
<1> QED BY <1>1, <1>2, <1>4, <1>5, ConnectionKeepsFeed

\* A reader looks at a turn nobody runs, and may repair its stream.
LEMMA ReconcileKeepsFeed ==
    ASSUME FeedInv, NEW c \in Followers, ReconcileTurn(c)
    PROVE  FeedInv'
<1> DEFINE e == [kind |-> "end", by |-> c]
<1>1. /\ conn[c].pc = "reconcile" /\ \A d \in Followers : conn[d].pc # "repair"
      /\ outcome' = IF outcome = "none" THEN "failed" ELSE outcome
      /\ UNCHANGED <<rows, torn, next, written, live, running, deltas, tells, got, drops, losses>>
  BY DEF ReconcileTurn, bounds
<1>2. PICK pc \in {"repair", "reload"} :
         /\ conn' = [conn EXCEPT ![c].pc = pc]
         /\ queue' = IF pc = "repair" THEN Append(queue, e) ELSE queue
  BY DEF ReconcileTurn, Ask
<1>3. /\ conn \in [Followers -> ConnectionType] /\ conn[c] \in ConnectionType
      /\ queue \in Seq(AppendType) /\ Len(queue) \in Nat /\ e \in AppendType
      /\ \A i \in 1 .. Len(queue) : queue[i].by \in Followers \cup {"run"}
  BY StreamTypes, QueueTypes DEF FeedInv, StreamTypeOK, ConnectionType, AppendType, EventKinds
<1>4. conn'[c] = [conn[c] EXCEPT !.pc = pc] /\ \A d \in Followers \ {c} : conn'[d] = conn[d]
  BY <1>2, <1>3 DEF ConnectionType
<1>5. conn' \in [Followers -> ConnectionType]
  <2>1. [conn[c] EXCEPT !.pc = pc] \in ConnectionType
    BY <1>3 DEF ConnectionType, ConnectionPcs
  <2> QED BY <1>2, <1>3, <1>4, <2>1 DEF ConnectionType
<1>6. \A i \in 1 .. Len(queue) : queue[i].by = "run"
  BY <1>1, <1>3 DEF FeedInv, RepairInv
<1>7. queue' \in Seq(AppendType) /\ (queue # <<>> => queue' # <<>>)
  BY <1>2, <1>3, LastOfAppended
<1>8. RepairInv'
  <2>1. CASE pc = "reload"
    BY <1>2, <1>6, <2>1 DEF RepairInv
  <2>2. CASE pc = "repair"
    <3>1. /\ Len(queue') = Len(queue) + 1 /\ queue'[Len(queue) + 1] = e
          /\ \A i \in 1 .. Len(queue) : queue'[i].by = "run"
      BY <1>2, <1>3, <1>6, <2>2, LastOfAppended
    <3>2. conn'[c].pc = "repair"
      BY <1>3, <1>4, <2>2 DEF ConnectionType
    <3>3. \A i \in 1 .. Len(queue') : queue'[i].by # "run" => i = Len(queue) + 1
      BY <1>3, <3>1
    <3>4. c # "run"
      BY StreamAssumption
    <3> QED BY <3>1, <3>2, <3>3, <3>4 DEF RepairInv
  <2> QED BY <2>1, <2>2
<1>9. ASSUME NEW d \in Followers PROVE FollowerInv(d)'
  <2>1. CASE d = c
    BY <1>1, <1>4, <2>1, FollowerReconciles
  <2>2. CASE d # c
    BY <1>1, <1>4, <2>2, FollowerStays DEF FeedInv
  <2> QED BY <2>1, <2>2
<1>10. StreamTypeOK'
  <2>1. StreamTypeOK
    BY DEF FeedInv
  <2>2. outcome' \in {"none", "answered", "failed"}
    BY <1>1, <2>1 DEF StreamTypeOK
  <2> QED BY <1>1, <1>5, <1>7, <2>1, <2>2 DEF StreamTypeOK, ConnectionType, AppendType
<1>11. NumberedInv'
  BY <1>1, <1>7 DEF FeedInv, NumberedInv
<1> QED BY <1>8, <1>9, <1>10, <1>11 DEF FeedInv

\* The file and what the browsers have handled outlive the process.
LEMMA LossKeepsFeed ==
    ASSUME FeedInv, LoseStreams
    PROVE  FeedInv'
<1>1. /\ next' = 0 /\ queue' = <<>> /\ written' = NoEvent /\ live' = FALSE /\ running' = FALSE
      /\ tells' = MaxTells /\ torn' \in {torn, TRUE}
      /\ conn' = [c \in Followers |->
            IF conn[c].pc \in {"idle", "done", "refused"} THEN conn[c] ELSE Closed("away")]
      /\ UNCHANGED <<rows, outcome, deltas, got, drops>>
  BY DEF LoseStreams
<1>2. <<>> \in Seq(AppendType) /\ Len(queue') = 0
  BY <1>1, EmptySeq
<1>3. ASSUME NEW c \in Followers PROVE FollowerInv(c)' /\ conn'[c] \in ConnectionType
  <2>1. /\ FollowerInv(c) /\ LastId(c)' = LastId(c) /\ (KnowsEnd(c)' <=> KnowsEnd(c))
        /\ conn[c] \in ConnectionType /\ Closed("away") \in ConnectionType
    BY <1>1, StreamTypes, ClosedIsTyped DEF FeedInv, LastId, KnowsEnd, ConnectionPcs
  <2>2. CASE conn[c].pc \in {"idle", "done", "refused"}
    <3>1. conn'[c] = conn[c]
      BY <1>1, <2>2
    <3>2. CursorInv(c)'
      BY <1>1, <2>1, <2>2, <3>1 DEF FollowerInv, CursorInv, Served, Subscribed
    <3>3. BufferInv(c)' /\ ReplayInv(c)' /\ CoverInv(c)'
      BY <2>2, <3>1 DEF BufferInv, ReplayInv, CoverInv, Subscribed
    <3> QED BY <2>1, <3>1, <3>2, <3>3 DEF FollowerInv
  <2>3. CASE conn[c].pc \notin {"idle", "done", "refused"}
    <3>1. conn'[c] = Closed("away") /\ ~KnowsEnd(c) /\ LastId(c) <= Len(rows)
      BY <1>1, <2>1, <2>3 DEF FollowerInv, CursorInv
    <3> QED BY <1>1, <2>1, <3>1, FollowerLeaves
  <2> QED BY <2>2, <2>3
<1>4. StreamTypeOK'
  <2>1. StreamTypeOK
    BY DEF FeedInv
  <2>2. conn' \in [Followers -> ConnectionType]
    BY <1>1, <1>3
  <2>3. tells' \in 0 .. MaxTells /\ losses' \in 0 .. MaxLosses /\ drops' \in 0 .. MaxDrops
    BY <1>1, <2>1, StreamAssumption DEF LoseStreams, StreamTypeOK
  <2>4. torn' \in BOOLEAN
    BY <1>1, <2>1, Zenon DEF StreamTypeOK
  <2> QED BY <1>1, <1>2, <2>1, <2>2, <2>3, <2>4
       DEF StreamTypeOK, ConnectionType, AppendType
<1>5. NumberedInv' /\ RepairInv'
  BY <1>1, <1>2 DEF FeedInv, NumberedInv, RepairInv
<1> QED BY <1>3, <1>4, <1>5 DEF FeedInv

LEMMA FeedStep ==
    ASSUME AppendsAreKnown, FeedInv, [StreamNext]_streamVars
    PROVE  FeedInv'
<1>1. CASE CodexEvent \/ SettleCancel \/ Turn \/ Evict
  BY <1>1, TurnKeepsFeed DEF Turn
<1>2. CASE WriteRow
  BY <1>2, WriteKeepsFeed
<1>3. CASE PublishRow
  BY <1>3, PublishKeepsFeed
<1>4. CASE FailAppend
  BY <1>4, FailKeepsFeed
<1>5. ASSUME NEW c \in Followers, Connect(c) \/ Serve(c) \/ Drop(c)
      PROVE  FeedInv'
  BY <1>5, ConnectKeepsFeed, LoadKeepsFeed, PumpKeepsFeed, ReplayKeepsFeed, ReconcileKeepsFeed,
     DropKeepsFeed DEF Serve
<1>6. CASE LoseStreams
  BY <1>6, LossKeepsFeed
<1>7. CASE UNCHANGED streamVars
  <2>1. \A c \in Followers : FollowerInv(c)'
    BY <1>7, FollowerStays DEF streamVars, FeedInv
  <2>2. StreamTypeOK'
    BY <1>7 DEF streamVars, FeedInv, StreamTypeOK
  <2>3. NumberedInv' /\ RepairInv'
    BY <1>7 DEF streamVars, FeedInv, NumberedInv, RepairInv
  <2> QED BY <2>1, <2>2, <2>3 DEF FeedInv
<1> QED BY <1>1, <1>2, <1>3, <1>4, <1>5, <1>6, <1>7 DEF StreamNext

\* Numbers are places, cursors are in the file, and what a browser has not seen
\* is still on its way to it.
THEOREM FeedInvariance ==
    ASSUME AppendsAreKnown
    PROVE  StreamSpec => []FeedInv
<1>1. StreamInit => FeedInv
  BY StreamStarts
<1>2. FeedInv /\ [StreamNext]_streamVars => FeedInv'
  BY FeedStep
<1> QED BY <1>1, <1>2, PTL DEF StreamSpec

\* Every variable of a stream keeps its type.
THEOREM StreamTypeCorrect ==
    ASSUME AppendsAreKnown
    PROVE  StreamSpec => []StreamTypeOK
<1>1. FeedInv => StreamTypeOK
  BY DEF FeedInv
<1> QED BY <1>1, FeedInvariance, PTL

-----------------------------------------------------------------------------
(* The stream implements TurnFeed.                                         *)

\* A function on the first numbers is a sequence.
LEMMA SequenceOf ==
    ASSUME NEW S, NEW n \in Nat, NEW f \in [1 .. n -> S]
    PROVE  f \in Seq(S) /\ Len(f) = n
<1>1. f \in Seq(S)
  BY SeqDef
<1>2. Len(f) \in Nat /\ 1 .. Len(f) = 1 .. n
  BY <1>1, LenProperties
<1> QED BY <1>1, <1>2

\* What is shown once a browser has handled an event.
LEMMA ShownGrows ==
    ASSUME NEW s \in Seq(Event), NEW e \in Event, s = <<>> \/ ~IsTerminal(s[Len(s)])
    PROVE  /\ Shown(s) \in Seq(Nat) /\ Len(Shown(s)) = Len(s) /\ Len(s) \in Nat
           /\ \A i \in 1 .. Len(s) : Shown(s)[i] = s[i].id
           /\ e.kind # "presumed" => Shown(Append(s, e)) = Append(Shown(s), e.id)
           /\ e.kind = "presumed" => Shown(Append(s, e)) = Shown(s)
<1> DEFINE t == Append(s, e)
           ids == [i \in 1 .. Len(s) |-> s[i].id]
<1>1. /\ t # <<>> /\ Len(s) \in Nat /\ Len(t) = Len(s) + 1 /\ t[Len(t)] = e
      /\ t[Len(s) + 1] = e
      /\ \A i \in 1 .. Len(s) : t[i] = s[i] /\ s[i] \in Event
  BY LastOfAppended
<1>2. Shown(s) = ids
  BY DEF Shown, IsTerminal
<1>3. ids \in [1 .. Len(s) -> Nat]
  BY <1>1 DEF Event
<1>4. Shown(s) \in Seq(Nat) /\ Len(Shown(s)) = Len(s)
  BY <1>1, <1>2, <1>3, SequenceOf
<1>5. \A i \in 1 .. Len(s) : Shown(s)[i] = s[i].id
  BY <1>2
<1>6. ASSUME e.kind = "presumed" PROVE Shown(t) = Shown(s)
  <2>1. Shown(t) = [i \in 1 .. Len(s) |-> t[i].id]
    BY <1>1, <1>6 DEF Shown
  <2> QED BY <1>1, <1>2, <2>1
<1>7. ASSUME e.kind # "presumed" PROVE Shown(t) = Append(Shown(s), e.id)
  <2>1. Shown(t) = [i \in 1 .. Len(s) + 1 |-> t[i].id]
    BY <1>1, <1>7 DEF Shown
  <2>2. [i \in 1 .. Len(s) + 1 |-> t[i].id] \in [1 .. Len(s) + 1 -> Nat]
    BY <1>1 DEF Event
  <2>3. Shown(t) \in Seq(Nat) /\ Len(Shown(t)) = Len(s) + 1
    BY <1>1, <2>1, <2>2, SequenceOf
  <2>4. e.id \in Nat
    BY DEF Event
  <2>5. /\ Append(Shown(s), e.id) \in Seq(Nat)
        /\ Len(Append(Shown(s), e.id)) = Len(s) + 1
        /\ Append(Shown(s), e.id)[Len(s) + 1] = e.id
        /\ \A i \in 1 .. Len(s) : Append(Shown(s), e.id)[i] = Shown(s)[i]
    BY <1>4, <2>4, LastOfAppended
  <2>6. \A i \in 1 .. Len(s) + 1 : Shown(t)[i] = Append(Shown(s), e.id)[i]
    <3>1. \A i \in 1 .. Len(s) + 1 : Shown(t)[i] = t[i].id
      BY <2>1
    <3>2. \A i \in 1 .. Len(s) + 1 : i \in 1 .. Len(s) \/ i = Len(s) + 1
      BY <1>1
    <3> QED BY <1>1, <1>5, <2>5, <3>1, <3>2
  <2> QED BY <2>3, <2>5, <2>6, SeqEqual
<1> QED BY <1>1, <1>4, <1>5, <1>6, <1>7

Log == [i \in 1 .. Len(rows) |-> rows[i].kind]

LEMMA LogOfRows ==
    ASSUME StreamTypeOK
    PROVE  /\ Log \in Seq(EventKinds) /\ Len(Log) = Len(rows)
           /\ \A i \in 1 .. Len(rows) : Log[i] = rows[i].kind
<1>1. Len(rows) \in Nat /\ \A i \in 1 .. Len(rows) : rows[i] \in RowType
  BY StreamTypes
<1>2. Log \in [1 .. Len(rows) -> EventKinds]
  BY <1>1 DEF Log, RowType
<1> QED BY <1>1, <1>2, SequenceOf DEF Log

LEMMA FeedStarts ==
    ASSUME StreamInit
    PROVE  Feed!Init
<1>1. Len(rows) = 0 /\ StreamTypeOK
  BY StreamStarts, EmptySeq DEF FeedInv, StreamInit
<1>2. Log = <<>>
  BY <1>1, LogOfRows, EmptySeq
<1>3. ASSUME NEW c \in Followers PROVE Shown(got[c]) = <<>>
  <2>1. got[c] = <<>> /\ got[c] \in Seq(Event)
    BY <1>1, StreamTypes DEF StreamInit
  <2>2. [id |-> 1, kind |-> "delta"] \in Event
    BY DEF Event, EventKinds
  <2>3. Shown(got[c]) \in Seq(Nat) /\ Len(Shown(got[c])) = 0
    BY <2>1, <2>2, ShownGrows, EmptySeq
  <2> QED BY <2>3, EmptySeq
<1>4. \A c \in Followers : ~(got[c] # <<>> /\ IsTerminal(got[c][Len(got[c])]))
  BY DEF StreamInit
<1> QED BY <1>2, <1>3, <1>4 DEF Feed!Init, Log

\* A row that is written is recorded.
LEMMA WriteRecords ==
    ASSUME FeedInv, WriteRow
    PROVE  Feed!Next
<1>1. rows' = Append(rows, Row) /\ UNCHANGED got
  BY DEF WriteRow
<1>2. StreamTypeOK /\ StreamTypeOK' /\ rows \in Seq(RowType) /\ Row \in RowType
  <2>1. StreamTypeOK /\ StreamTypeOK'
    BY WriteKeepsFeed DEF FeedInv
  <2>2. rows \in Seq(RowType) /\ Head(queue) \in AppendType /\ Len(rows) \in Nat
    BY <2>1, QueueTypes, StreamTypes DEF StreamTypeOK, RowType, WriteRow
  <2>3. Number \in Nat \ {0} /\ Head(queue).kind \in EventKinds
    <3>1. next \in Nat
      BY <2>1 DEF StreamTypeOK
    <3> QED BY <2>2, <3>1 DEF Number, AppendType
  <2> QED BY <2>1, <2>2, <2>3 DEF Row, RowType
<1>3. /\ Len(rows) \in Nat /\ Len(rows') = Len(rows) + 1 /\ rows'[Len(rows) + 1] = Row
      /\ \A i \in 1 .. Len(rows) : rows'[i] = rows[i]
  BY <1>1, <1>2, LastOfAppended
<1>4. /\ Log \in Seq(EventKinds) /\ Len(Log) = Len(rows)
      /\ \A i \in 1 .. Len(rows) : Log[i] = rows[i].kind
      /\ Log' \in Seq(EventKinds) /\ Len(Log') = Len(rows) + 1
      /\ \A i \in 1 .. Len(rows) + 1 : Log'[i] = rows'[i].kind
  <2>1. Len(rows') \in Nat /\ \A i \in 1 .. Len(rows') : rows'[i] \in RowType
    <3>1. rows' \in Seq(RowType)
      BY <1>1, <1>2, LastOfAppended
    <3> QED BY <3>1, LenProperties, ElementOfSeq
  <2>2. Log' \in [1 .. Len(rows') -> EventKinds]
    BY <2>1 DEF Log, RowType
  <2>3. Log' \in Seq(EventKinds) /\ Len(Log') = Len(rows')
    BY <2>1, <2>2, SequenceOf
  <2> QED BY <1>2, <1>3, <2>3, LogOfRows DEF Log
<1>5. /\ Append(Log, Row.kind) \in Seq(EventKinds)
      /\ Len(Append(Log, Row.kind)) = Len(rows) + 1
      /\ Append(Log, Row.kind)[Len(rows) + 1] = Row.kind
      /\ \A i \in 1 .. Len(rows) : Append(Log, Row.kind)[i] = Log[i]
  <2>1. Row.kind \in EventKinds
    BY <1>2 DEF RowType
  <2> QED BY <1>4, <2>1, LastOfAppended
<1>6. Log' = Append(Log, Row.kind)
  <2>1. \A i \in 1 .. Len(rows) + 1 : i \in 1 .. Len(rows) \/ i = Len(rows) + 1
    BY <1>3
  <2>2. \A i \in 1 .. Len(rows) + 1 : Log'[i] = Append(Log, Row.kind)[i]
    BY <1>3, <1>4, <1>5, <2>1
  <2> HIDE DEF Log
  <2> QED BY <1>4, <1>5, <2>2, SeqEqual
<1>7. PICK kind \in {"delta", "end"} : kind = Row.kind
  BY <1>2 DEF RowType, EventKinds
<1>8. Log' = Append(Log, kind)
  BY <1>6, <1>7
<1>9. Feed!Record(kind)
  BY <1>1, <1>8 DEF Feed!Record, Log, Shown, IsTerminal
<1> QED BY <1>9 DEF Feed!Next

\* A browser that was not told the end sees the next row.
LEMMA HandledIsSeen ==
    ASSUME FeedInv, NEW c \in Followers, NEW k, NEW i \in 1 .. Len(rows),
           ~KnowsEnd(c), Handle(c, k, rows[i]), UNCHANGED rows,
           i > LastId(c), \A j \in LastId(c) + 1 .. Len(rows) : j < i => IsTerminal(rows[j])
    PROVE  Feed!Next
<1> DEFINE s == got[c]
           e == rows[i]
<1>1. /\ StreamTypeOK /\ s \in Seq(Event) /\ Len(rows) \in Nat /\ LastId(c) \in Nat
      /\ \A j \in 1 .. Len(rows) : rows[j] \in RowType /\ rows[j] \in Event /\ rows[j].id = j
      /\ got \in [Followers -> Seq(Event)]
  BY StreamTypes DEF FeedInv, NumberedInv, StreamTypeOK
<1>2. /\ e \in Event /\ e.id = i /\ e.kind \in EventKinds /\ e.kind # "presumed"
  BY <1>1 DEF RowType, EventKinds
<1>3. got' = [got EXCEPT ![c] = Append(s, e)]
  BY DEF Handle
<1>4. /\ Shown(s) \in Seq(Nat) /\ Len(Shown(s)) = Len(s) /\ Len(s) \in Nat
      /\ \A j \in 1 .. Len(s) : Shown(s)[j] = s[j].id
      /\ Shown(Append(s, e)) = Append(Shown(s), i)
  <2>1. s = <<>> \/ ~IsTerminal(s[Len(s)])
    BY DEF KnowsEnd
  <2> HIDE DEF s, e
  <2> QED BY <1>1, <1>2, <2>1, ShownGrows
<1>5. Feed!Last(c) = LastId(c)
  <2>1. Feed!Last(c) = IF Shown(s) = <<>> THEN 0 ELSE Shown(s)[Len(Shown(s))]
    BY DEF Feed!Last
  <2>2. CASE s = <<>>
    <3>1. Shown(s) = <<>>
      BY <1>4, <2>2, EmptySeq
    <3> QED BY <2>1, <2>2, <3>1 DEF LastId
  <2>3. CASE s # <<>>
    <3>1. Len(s) > 0
      BY <1>1, <2>3, RestOf
    <3>2. Shown(s) # <<>> /\ Shown(s)[Len(Shown(s))] = s[Len(s)].id
      BY <1>4, <3>1, EmptySeq
    <3> QED BY <2>1, <2>3, <3>2 DEF LastId
  <2> QED BY <2>2, <2>3
<1>6. /\ Len(Log) = Len(rows)
      /\ \A j \in 1 .. Len(rows) : Log[j] = rows[j].kind /\ Log[j] \in {"delta", "end"}
      /\ Log' = Log
  BY <1>1, LogOfRows DEF RowType, EventKinds, Log
<1> DEFINE told == {d \in Followers : got[d] # <<>> /\ IsTerminal(got[d][Len(got[d])])}
           seen == [d \in Followers |-> Shown(got[d])]
<1>7. /\ c \notin told
      /\ told' = IF Log[i] = "end" THEN told \cup {c} ELSE told
  <2>1. KnowsEnd(c)' <=> IsTerminal(e)
    BY <1>1, <1>2, <1>3, CursorAdvances
  <2>2. \A d \in Followers \ {c} : got'[d] = got[d]
    BY <1>1, <1>3
  <2>3. IsTerminal(e) <=> Log[i] = "end"
    BY <1>2, <1>6 DEF IsTerminal, EventKinds
  <2> QED BY <2>1, <2>2, <2>3 DEF KnowsEnd
<1>8. seen' = [seen EXCEPT ![c] = Append(seen[c], i)]
  <2>1. \A d \in Followers \ {c} : got'[d] = got[d]
    BY <1>1, <1>3
  <2>2. got'[c] = Append(s, e)
    BY <1>1, <1>3
  <2>3. seen' = [d \in Followers |-> Shown(got'[d])]
    BY DEF Shown
  <2>4. \A d \in Followers : seen'[d] = Shown(got'[d]) /\ seen[d] = Shown(got[d])
    BY <2>3
  <2>5. \A d \in Followers \ {c} : seen'[d] = seen[d]
    BY <2>1, <2>4
  <2>6. seen'[c] = Append(seen[c], i)
    BY <1>4, <2>2, <2>4
  <2> QED BY <2>3, <2>5, <2>6
<1>9. \A j \in 1 .. Len(Log) : LastId(c) < j /\ j < i => Log[j] = "end"
  BY <1>1, <1>6 DEF IsTerminal
<1>10. Feed!See(c, i)
  BY <1>5, <1>6, <1>7, <1>8, <1>9 DEF Feed!See, Log
<1> QED BY <1>6, <1>10 DEF Feed!Next, Log

\* A browser is told of a failure that no row tells.
LEMMA PresumedIsTold ==
    ASSUME FeedInv, NEW c \in Followers, NEW k, NEW e \in Event, e.kind = "presumed",
           ~KnowsEnd(c), Handle(c, k, e), UNCHANGED rows
    PROVE  Feed!Next
<1> DEFINE s == got[c]
           told == {d \in Followers : got[d] # <<>> /\ IsTerminal(got[d][Len(got[d])])}
           seen == [d \in Followers |-> Shown(got[d])]
<1>1. StreamTypeOK /\ s \in Seq(Event) /\ got \in [Followers -> Seq(Event)]
  BY StreamTypes DEF FeedInv, StreamTypeOK
<1>2. got' = [got EXCEPT ![c] = Append(s, e)]
  BY DEF Handle
<1>3. got'[c] = Append(s, e) /\ \A d \in Followers \ {c} : got'[d] = got[d]
  BY <1>1, <1>2
<1>4. Shown(Append(s, e)) = Shown(s)
  <2>1. s = <<>> \/ ~IsTerminal(s[Len(s)])
    BY DEF KnowsEnd
  <2> HIDE DEF s
  <2> QED BY <1>1, <2>1, ShownGrows
<1>5. told' = told \cup {c}
  <2>1. IsTerminal(e)
    BY DEF IsTerminal
  <2>2. KnowsEnd(c)'
    BY <1>1, <1>2, <2>1, CursorAdvances
  <2> QED BY <1>3, <2>2 DEF KnowsEnd
<1>6. seen' = seen
  <2>1. seen' = [d \in Followers |-> Shown(got'[d])]
    BY DEF Shown
  <2>2. \A d \in Followers : Shown(got'[d]) = Shown(got[d])
    BY <1>3, <1>4
  <2> QED BY <2>1, <2>2
<1>7. Feed!Presume(c)
  BY <1>5, <1>6 DEF Feed!Presume
<1> QED BY <1>7 DEF Feed!Next

\* What pump sends is the next row.
LEMMA PumpShows ==
    ASSUME FeedInv, NEW c \in Followers, Pump(c)
    PROVE  Feed!Next \/ UNCHANGED <<rows, got>>
<1> DEFINE k == conn[c]
<1>1. /\ k \in ConnectionType /\ k.pc = "open" /\ UNCHANGED rows
      /\ Len(rows) \in Nat /\ LastId(c) \in Nat /\ FollowerInv(c)
      /\ \A j \in 1 .. Len(rows) : rows[j] \in RowType /\ rows[j].id = j
  BY StreamTypes DEF FeedInv, NumberedInv, Pump
<1>2. ~KnowsEnd(c)
  BY <1>1 DEF FollowerInv, CursorInv
<1>3. ASSUME NEW i \in k.replay, FirstRow(k, i), Send(c, WithoutRow(k, i), rows[i])
      PROVE  Feed!Next \/ UNCHANGED <<rows, got>>
  <2> DEFINE n == WithoutRow(k, i)
  <2>1. i \in 1 .. Len(rows) /\ (i > LastId(c) \/ i \in k.sent)
    BY <1>1 DEF FollowerInv, ReplayInv
  <2>2. n.after = k.after /\ n.sent = k.sent
    BY <1>1 DEF WithoutRow, ConnectionType
  <2>3. CASE Skipped(n, rows[i])
    BY <1>1, <1>3, <2>3 DEF Send
  <2>4. CASE ~Skipped(n, rows[i])
    <3>1. Handle(c, n, rows[i]) /\ i > LastId(c)
      BY <1>1, <1>3, <2>1, <2>2, <2>4 DEF Send, Skipped
    <3>2. ASSUME NEW j \in LastId(c) + 1 .. Len(rows), j < i PROVE IsTerminal(rows[j])
      <4>1. j \notin k.replay /\ ~\A x \in k.replay : x < j
        BY <1>1, <1>3, <2>1, <3>2 DEF FirstRow
      <4> QED BY <1>1, <4>1 DEF FollowerInv, CoverInv
    <3> HIDE DEF n
    <3> QED BY <1>1, <1>2, <2>1, <3>1, <3>2, HandledIsSeen
  <2> QED BY <2>3, <2>4
<1>4. ASSUME k.replay = {}, k.buffer # <<>>,
             Send(c, [k EXCEPT !.buffer = Tail(k.buffer)], Head(k.buffer))
      PROVE  Feed!Next \/ UNCHANGED <<rows, got>>
  <2> DEFINE e == Head(k.buffer)
             n == [k EXCEPT !.buffer = Tail(k.buffer)]
  <2>1. /\ Len(k.buffer) \in Nat /\ Len(k.buffer) > 0 /\ e = k.buffer[1]
    <3>1. k.buffer \in Seq(Event)
      BY <1>1 DEF ConnectionType
    <3> QED BY <1>4, <3>1, RestOf
  <2>2. PICK i \in 1 .. Len(rows) : i = e.id
    BY <1>1, <2>1 DEF FollowerInv, BufferInv, Subscribed
  <2>3. /\ e = rows[i] /\ (i > LastId(c) \/ i \in k.sent)
        /\ written # NoEvent => i < Len(rows)
        /\ \A x \in 1 .. Len(k.buffer) : 1 < x => i < k.buffer[x].id
    BY <1>1, <1>4, <2>1, <2>2 DEF FollowerInv, BufferInv, Subscribed
  <2>4. n.after = k.after /\ n.sent = k.sent
    BY <1>1 DEF ConnectionType
  <2>5. CASE Skipped(n, e)
    BY <1>1, <1>4, <2>5 DEF Send
  <2>6. CASE ~Skipped(n, e)
    <3>1. Handle(c, n, e) /\ i > LastId(c)
      BY <1>4, <2>2, <2>3, <2>4, <2>6 DEF Send, Skipped
    <3>2. ASSUME NEW j \in LastId(c) + 1 .. Len(rows), j < i PROVE IsTerminal(rows[j])
      <4>1. ~Buffers(k, j)
        <5> SUFFICES ASSUME NEW x \in 1 .. Len(k.buffer), k.buffer[x].id = j PROVE FALSE
          BY DEF Buffers
        <5>1. x = 1 \/ 1 < x
          BY <2>1
        <5> QED BY <1>1, <2>1, <2>2, <2>3, <3>2, <5>1
      <4>2. ~Unpublished(j)
        BY <1>1, <2>3, <3>2 DEF Unpublished
      <4>3. rows[j].kind # "delta"
        BY <1>1, <1>4, <4>1, <4>2 DEF FollowerInv, CoverInv, IsTerminal
      <4> QED BY <4>3 DEF IsTerminal
    <3>3. Handle(c, n, rows[i])
      BY <2>3, <3>1
    <3> HIDE DEF n, e
    <3> QED BY <1>1, <1>2, <3>1, <3>2, <3>3, HandledIsSeen
  <2> QED BY <2>5, <2>6
<1> QED BY <1>3, <1>4 DEF Pump, FirstRow

\* So is what the replay of a turn that is not live sends.
LEMMA ReplayShows ==
    ASSUME FeedInv, NEW c \in Followers, Replay(c)
    PROVE  Feed!Next \/ UNCHANGED <<rows, got>>
<1> DEFINE k == conn[c]
<1>1. /\ k \in ConnectionType /\ k.pc = "replaying" /\ UNCHANGED rows
      /\ Len(rows) \in Nat /\ LastId(c) \in Nat /\ FollowerInv(c)
      /\ \A j \in 1 .. Len(rows) : rows[j] \in RowType
  BY StreamTypes DEF FeedInv, Replay
<1>2. ~KnowsEnd(c)
  BY <1>1 DEF FollowerInv, CursorInv
<1>3. ASSUME NEW i \in k.replay, FirstRow(k, i), Handle(c, WithoutRow(k, i), rows[i])
      PROVE  Feed!Next
  <2>1. i \in 1 .. Len(rows) /\ i > LastId(c)
    BY <1>1 DEF FollowerInv, ReplayInv
  <2>2. ASSUME NEW j \in LastId(c) + 1 .. Len(rows), j < i PROVE IsTerminal(rows[j])
    <3>1. j \notin k.replay /\ j \in LastId(c) + 1 .. i
      BY <1>1, <1>3, <2>1, <2>2 DEF FirstRow
    <3> QED BY <1>1, <3>1 DEF FollowerInv, CoverInv, IsTerminal
  <2> QED BY <1>1, <1>2, <1>3, <2>1, <2>2, HandledIsSeen
<1>4. ASSUME k.presumed # 0, Handle(c, k, [id |-> k.presumed, kind |-> "presumed"])
      PROVE  Feed!Next
  <2> DEFINE e == [id |-> k.presumed, kind |-> "presumed"]
  <2>1. e \in Event /\ e.kind = "presumed"
    BY <1>1, <1>4 DEF Event, ConnectionType
  <2>2. Handle(c, k, e)
    BY <1>4
  <2> HIDE DEF e
  <2> QED BY <1>1, <1>2, <2>1, <2>2, PresumedIsTold
<1> QED BY <1>1, <1>3, <1>4 DEF Replay, FirstRow

\* Every step of the stream is a step of the feed, or none.
LEMMA StreamStepsAreFeedSteps ==
    ASSUME AppendsAreKnown, FeedInv, [StreamNext]_streamVars
    PROVE  [Feed!Next]_Feed!vars
<1>1. ASSUME UNCHANGED <<rows, got>> PROVE UNCHANGED Feed!vars
  BY <1>1 DEF Feed!vars, Shown, IsTerminal
<1>2. CASE CodexEvent \/ SettleCancel \/ Turn \/ Evict \/ PublishRow \/ LoseStreams
  <2>1. UNCHANGED <<rows, got>>
    BY <1>2 DEF CodexEvent, SettleCancel, Turn, SettleRun, Tell, LeaveRegistry, Evict, PublishRow,
       LoseStreams
  <2> QED BY <1>1, <2>1
<1>3. CASE WriteRow
  BY <1>3, WriteRecords
<1>4. CASE FailAppend
  <2>1. UNCHANGED <<rows, got>>
    BY <1>4 DEF FailAppend, AppendsAreKnown
  <2> QED BY <1>1, <2>1
<1>5. ASSUME NEW c \in Followers, Connect(c) \/ Serve(c) \/ Drop(c)
      PROVE  Feed!Next \/ UNCHANGED <<rows, got>>
  <2>1. CASE Pump(c) \/ Replay(c)
    BY <2>1, PumpShows, ReplayShows
  <2>2. CASE ~(Pump(c) \/ Replay(c))
    BY <1>5, <2>2 DEF Connect, Serve, Drop, LoadReplay, Open, Scan, ReconcileTurn, Reload
  <2> QED BY <2>1, <2>2
<1>6. CASE UNCHANGED streamVars
  BY <1>1, <1>6 DEF streamVars
<1> QED BY <1>1, <1>2, <1>3, <1>4, <1>5, <1>6 DEF StreamNext

\* Over replays, live events, lost connections and restarts, every browser is
\* shown the stream in order, every event once and none left out but an end
\* that another end supersedes.
THEOREM StreamImplementsFeed ==
    ASSUME AppendsAreKnown
    PROVE  StreamSpec => ImplementsFeed
<1>1. StreamInit => Feed!Init
  BY FeedStarts
<1>2. FeedInv /\ [StreamNext]_streamVars => [Feed!Next]_Feed!vars
  BY StreamStepsAreFeedSteps
<1> QED BY <1>1, <1>2, FeedInvariance, PTL DEF StreamSpec, ImplementsFeed, Feed!Spec

=============================================================================
