------------------------- MODULE PsychiatristStream -------------------------
(***************************************************************************)
(* The event stream of one Psychiatrist turn: the chain of appends to its   *)
(* file, the numbers the events get, the live connections that are loaded   *)
(* with the replay while events arrive, the replays of a turn that is not   *)
(* live, and browsers that reconnect with the id they saw last.             *)
(*                                                                          *)
(* Who decides how the turn ends is in PsychiatristTurn; here the turn just *)
(* gets an outcome, its run and its Stop tell it, and it leaves the         *)
(* registry at any time after that.  An event is a number and whether it is *)
(* terminal ("end").                                                        *)
(***************************************************************************)
EXTENDS Integers, Sequences

CONSTANTS
    Followers,    \* browsers
    AppendFaults, \* what a failing append may leave: "nothing", "torn", "kept"
    MaxRows,      \* limits.maxStreamRows
    MaxPending,   \* sseLimits.maxPendingEvents
    MaxEvents,    \* bound: the events Codex sends
    MaxTells,     \* bound: the attempts to append the terminal event
    MaxDrops,     \* bound: how many connections are lost
    MaxLosses,    \* bound: how often the process dies
    NoEvent       \* no event is being published

\* The end is an answer, a failure or a cancellation; one that no row tells is
\* presumed.
EventKinds == {"delta", "end"}
Event == [id : Nat \ {0}, kind : EventKinds \cup {"presumed"}]

ASSUME StreamAssumption ==
    /\ AppendFaults \subseteq {"nothing", "torn", "kept"}
    /\ {MaxRows, MaxPending} \subseteq Nat \ {0}
    /\ {MaxEvents, MaxTells, MaxDrops, MaxLosses} \subseteq Nat
    /\ "run" \notin Followers
    /\ NoEvent \notin Event

VARIABLES
    \* durable
    rows,     \* streams/{turn}.jsonl
    torn,     \* the file ends with part of a row
    outcome,  \* of the turn: "none", "answered" (or canceled), "failed"
    \* of the process
    next,     \* nextEventNumbersByPath, 0 when the path is not cached
    queue,    \* the chain of appends of the path, the one under way first
    written,  \* the event appended and not published yet
    live,     \* the turn is in the registry
    running,  \* Codex may still send events
    deltas, tells,
    \* of each browser and its connection
    conn,
    got,      \* the events the browser has handled
    drops, losses

producer == <<outcome, live, running, deltas, tells>>
bounds == <<drops, losses>>
streamVars == <<rows, torn, outcome, next, queue, written, live, running, deltas, tells,
                conn, got, drops, losses>>

IsTerminal(e) == e.kind # "delta"

\* A connection: where it stands, the after id it was opened with, the rows of
\* the replay still to be sent, the id under which a failure no row tells is told
\* after them (0: none), the live buffer and the ids it has sent.
Closed(pc) == [pc |-> pc, after |-> 0, replay |-> {}, presumed |-> 0, buffer |-> <<>>,
               sent |-> {}]
ConnectionPcs == {"idle", "away", "loading", "loaded", "open", "scan", "reconcile", "repair",
                  "reload", "replaying", "refused", "done"}

StreamTypeOK ==
    /\ rows \in Seq([id : Nat \ {0}, kind : EventKinds]) /\ torn \in BOOLEAN
    /\ outcome \in {"none", "answered", "failed"}
    /\ next \in Nat
    /\ queue \in Seq([kind : EventKinds, by : Followers \cup {"run"}])
    /\ written \in Event \cup {NoEvent}
    /\ live \in BOOLEAN /\ running \in BOOLEAN
    /\ deltas \in 0 .. MaxEvents /\ tells \in 0 .. MaxTells
    /\ conn \in [Followers -> [pc : ConnectionPcs, after : Nat, replay : SUBSET Nat, presumed : Nat,
                               buffer : Seq(Event), sent : SUBSET Nat]]
    /\ got \in [Followers -> Seq(Event)]
    /\ drops \in 0 .. MaxDrops /\ losses \in 0 .. MaxLosses

StreamInit ==
    /\ rows = <<>> /\ torn = FALSE /\ outcome = "none"
    /\ next = 0 /\ queue = <<>> /\ written = NoEvent
    /\ live = TRUE /\ running = TRUE
    /\ deltas = 0 /\ tells = 0
    /\ conn = [c \in Followers |-> Closed("idle")]
    /\ got = [c \in Followers |-> <<>>]
    /\ drops = 0 /\ losses = 0

-----------------------------------------------------------------------------
(* The turn. *)

Asked(kind) == \E i \in 1 .. Len(queue) : queue[i].kind = kind
Ask(kind, by) == queue' = Append(queue, [kind |-> kind, by |-> by])

CodexEvent ==
    /\ running /\ deltas < MaxEvents
    /\ deltas' = deltas + 1
    /\ Ask("delta", "run")
    /\ UNCHANGED <<rows, torn, outcome, next, written, live, running, tells, conn, got, bounds>>

\* The queue of the run is drained; then the turn gets its outcome,
\* unless Stop gave it one.
SettleRun ==
    /\ running /\ ~Asked("delta") /\ written = NoEvent
    /\ running' = FALSE
    /\ IF outcome = "none" THEN outcome' \in {"answered", "failed"} ELSE UNCHANGED outcome
    /\ UNCHANGED <<rows, torn, next, queue, written, live, deltas, tells, conn, got, bounds>>

\* Stop does not wait for the queue of the run.
SettleCancel ==
    /\ live /\ running /\ outcome = "none"
    /\ outcome' = "answered"
    /\ UNCHANGED <<rows, torn, next, queue, written, live, running, deltas, tells, conn, got,
                   bounds>>

HasEnd == \E i \in 1 .. Len(rows) : rows[i].kind = "end"

\* Whoever gave the outcome appends the terminal event, and tries again when
\* that fails.
Tell ==
    /\ outcome # "none" /\ tells < MaxTells
    /\ ~\E i \in 1 .. Len(queue) : queue[i] = [kind |-> "end", by |-> "run"]
    /\ tells' = tells + 1
    /\ Ask("end", "run")
    /\ UNCHANGED <<rows, torn, outcome, next, written, live, running, deltas, conn, got, bounds>>

\* The run ends, or a Stop finds the turn over.
LeaveRegistry ==
    /\ live /\ outcome # "none"
    /\ live' = FALSE
    /\ UNCHANGED <<rows, torn, outcome, next, queue, written, running, deltas, tells, conn, got,
                   bounds>>

-----------------------------------------------------------------------------
(* appendPsychiatristStreamEvent: one append of a path at a time. *)

\* A torn row is not counted, and the append cuts it off.
Number == IF next = 0 THEN Len(rows) + 1 ELSE next
Row == [id |-> Number, kind |-> Head(queue).kind]

\* The appends of the run that are still to be tried after a success.
Tried(kind) == tells' = IF kind = "end" THEN MaxTells ELSE tells

WriteRow ==
    /\ queue # <<>> /\ written = NoEvent
    /\ Len(rows) < MaxRows
    /\ rows' = Append(rows, Row) /\ torn' = FALSE
    /\ written' = Row
    /\ IF Head(queue).by = "run" THEN Tried(Head(queue).kind) ELSE UNCHANGED tells
    /\ UNCHANGED <<outcome, next, queue, live, running, deltas, conn, got, bounds>>

\* The caller of a failed append is told: a reader answers with an error.
Refused(entry) ==
    conn' = [c \in Followers |->
       IF entry.by = c THEN Closed("refused") ELSE conn[c]]

\* The number stays the same for the next append.
FailAppend ==
    /\ queue # <<>> /\ written = NoEvent
    /\ \/ ("nothing" \in AppendFaults \/ Len(rows) = MaxRows) /\ UNCHANGED <<rows, torn>>
       \/ "torn" \in AppendFaults /\ Len(rows) < MaxRows /\ torn' = TRUE /\ UNCHANGED rows
       \/ /\ "kept" \in AppendFaults /\ Len(rows) < MaxRows
          /\ rows' = Append(rows, Row) /\ torn' = FALSE
    /\ queue' = Tail(queue) /\ Refused(Head(queue))
    /\ UNCHANGED <<next, written, got, producer, bounds>>

Skipped(k, e) == e.id <= k.after \/ e.id \in k.sent
Buffered(k, e) == \E i \in 1 .. Len(k.buffer) : k.buffer[i].id = e.id

\* Faulty form: what is published while the replay is loaded is not buffered.
EnqueueLiveWhenOpen(k, e) ==
    IF k.pc # "open" \/ Skipped(k, e) \/ Buffered(k, e) THEN k
    ELSE IF Len(k.buffer) = MaxPending THEN Closed("away")
    ELSE [k EXCEPT !.buffer = Append(k.buffer, e)]

\* enqueueLive: a connection that is too slow is closed with an error.
EnqueueLive(k, e) ==
    IF k.pc \notin {"loading", "loaded", "open"} \/ Skipped(k, e) \/ Buffered(k, e) THEN k
    ELSE IF Len(k.buffer) = MaxPending THEN Closed("away")
    ELSE [k EXCEPT !.buffer = Append(k.buffer, e)]

\* The event is durable: it is numbered for good and the subscribers get it.
PublishRow ==
    /\ written # NoEvent
    /\ next' = written.id + 1
    /\ conn' = [c \in Followers |->
          IF Head(queue).by = c THEN [conn[c] EXCEPT !.pc = "reload"]
          ELSE EnqueueLive(conn[c], written)]
    /\ written' = NoEvent /\ queue' = Tail(queue)
    /\ UNCHANGED <<rows, torn, got, producer, bounds>>

\* Another path took the entry of this one in the bounded cache.
Evict ==
    /\ next # 0 /\ written = NoEvent /\ queue = <<>>
    /\ next' = 0
    /\ UNCHANGED <<rows, torn, queue, written, conn, got, producer, bounds>>

-----------------------------------------------------------------------------
(* The connections. *)

LastId(c) == IF got[c] = <<>> THEN 0 ELSE got[c][Len(got[c])].id

\* EventSource names the event it saw last.  Whether the turn is live and the
\* subscription are one step.
Connect(c) ==
    /\ conn[c].pc \in {"idle", "away"}
    /\ conn' = [conn EXCEPT ![c] =
          [Closed(IF live THEN "loading" ELSE "scan") EXCEPT !.after = LastId(c)]]
    /\ UNCHANGED <<rows, torn, next, queue, written, got, producer, bounds>>

\* The rows after an id; of several terminal events the last one is kept.
Superseded(i) ==
    /\ IsTerminal(rows[i])
    /\ \E j \in i + 1 .. Len(rows) : IsTerminal(rows[j]) /\ rows[j].id # rows[i].id

ReplayAfter(id) == {i \in 1 .. Len(rows) : rows[i].id > id /\ ~Superseded(i)}

\* The file is read some time before the connection goes on with what it read.
LoadReplay(c) ==
    /\ conn[c].pc = "loading"
    /\ conn' = [conn EXCEPT ![c].pc = "loaded",
                            ![c].replay = ReplayAfter(conn[c].after)]
    /\ UNCHANGED <<rows, torn, next, queue, written, got, producer, bounds>>

Open(c) ==
    /\ conn[c].pc = "loaded"
    /\ conn' = [conn EXCEPT ![c].pc = "open"]
    /\ UNCHANGED <<rows, torn, next, queue, written, got, producer, bounds>>

\* Faulty form: nothing remembers what was sent.
HandleForgetting(c, k, e) ==
    /\ got' = [got EXCEPT ![c] = Append(got[c], e)]
    /\ conn' = [conn EXCEPT ![c] = IF IsTerminal(e) THEN Closed("done") ELSE k]

\* The browser handles an event; a terminal one closes the connection.
Handle(c, k, e) ==
    /\ got' = [got EXCEPT ![c] = Append(got[c], e)]
    /\ conn' = [conn EXCEPT ![c] =
          IF IsTerminal(e) THEN Closed("done") ELSE [k EXCEPT !.sent = k.sent \cup {e.id}]]

Send(c, k, e) ==
    IF Skipped(k, e) THEN conn' = [conn EXCEPT ![c] = k] /\ UNCHANGED got ELSE Handle(c, k, e)

FirstRow(k, i) == i \in k.replay /\ \A j \in k.replay : i <= j
WithoutRow(k, i) == [k EXCEPT !.replay = k.replay \ {i}]

\* pump: the replay first, then the buffer.
Pump(c) ==
    LET k == conn[c]
    IN  /\ k.pc = "open"
        /\ \/ \E i \in k.replay : FirstRow(k, i) /\ Send(c, WithoutRow(k, i), rows[i])
           \/ /\ k.replay = {} /\ k.buffer # <<>>
              /\ Send(c, [k EXCEPT !.buffer = Tail(k.buffer)], Head(k.buffer))
        /\ UNCHANGED <<rows, torn, next, queue, written, producer, bounds>>

\* loadInactiveReplay: a replay that ends is enough; another is reconciled.
Scan(c) ==
    /\ conn[c].pc = "scan"
    /\ conn' = [conn EXCEPT ![c] =
          IF HasEnd THEN [conn[c] EXCEPT !.pc = "replaying",
                                         !.replay = ReplayAfter(conn[c].after)]
          ELSE [conn[c] EXCEPT !.pc = "reconcile"]]
    /\ UNCHANGED <<rows, torn, next, queue, written, got, producer, bounds>>

\* reconcileInactivePsychiatristTurns: a turn nobody runs has failed; an end
\* that is known and not in the stream is appended, still under the lock of
\* the thread.
ReconcileTurn(c) ==
    /\ conn[c].pc = "reconcile"
    /\ \A d \in Followers : conn[d].pc # "repair"
    /\ outcome' = IF outcome = "none" THEN "failed" ELSE outcome
    /\ IF outcome = "answered" /\ ~HasEnd
       THEN Ask("end", c) /\ conn' = [conn EXCEPT ![c].pc = "repair"]
       ELSE UNCHANGED queue /\ conn' = [conn EXCEPT ![c].pc = "reload"]
    /\ UNCHANGED <<rows, torn, next, written, live, running, deltas, tells, got, bounds>>

\* The failure of the turn is told though no event in the stream does.
Presumed(after) ==
    IF ~HasEnd /\ outcome = "failed" /\ Len(rows) + 1 > after THEN Len(rows) + 1 ELSE 0

Reload(c) ==
    LET after == conn[c].after
    IN  /\ conn[c].pc = "reload"
        /\ conn' = [conn EXCEPT ![c].pc = "replaying",
                                ![c].replay = ReplayAfter(after),
                                ![c].presumed = Presumed(after)]
        /\ UNCHANGED <<rows, torn, next, queue, written, got, producer, bounds>>

\* createReplayEventStream.  The browser comes back when the stream is over
\* and did not tell the end.
Replay(c) ==
    LET k == conn[c]
    IN  /\ k.pc = "replaying"
        /\ \/ \E i \in k.replay : FirstRow(k, i) /\ Handle(c, WithoutRow(k, i), rows[i])
           \/ /\ k.replay = {} /\ k.presumed # 0
              /\ Handle(c, k, [id |-> k.presumed, kind |-> "presumed"])
           \/ /\ k.replay = {} /\ k.presumed = 0
              /\ conn' = [conn EXCEPT ![c] = Closed("away")] /\ UNCHANGED got
        /\ UNCHANGED <<rows, torn, next, queue, written, producer, bounds>>

Drop(c) ==
    /\ conn[c].pc \in {"loading", "loaded", "open", "scan", "replaying"}
    /\ drops < MaxDrops /\ drops' = drops + 1
    /\ conn' = [conn EXCEPT ![c] = Closed("away")]
    /\ UNCHANGED <<rows, torn, next, queue, written, got, producer, losses>>

\* The process dies.  The row being written may be torn.
LoseStreams ==
    /\ losses < MaxLosses /\ losses' = losses + 1
    /\ IF queue # <<>> /\ written = NoEvent THEN torn' \in {torn, TRUE} ELSE UNCHANGED torn
    /\ next' = 0 /\ queue' = <<>> /\ written' = NoEvent
    /\ live' = FALSE /\ running' = FALSE /\ tells' = MaxTells
    /\ conn' = [c \in Followers |->
          IF conn[c].pc \in {"idle", "done", "refused"} THEN conn[c] ELSE Closed("away")]
    /\ UNCHANGED <<rows, outcome, deltas, got, drops>>

-----------------------------------------------------------------------------
Turn == SettleRun \/ Tell \/ LeaveRegistry
\* A full stream refuses the append; other failures need not happen.
Advance == WriteRow \/ PublishRow \/ (Len(rows) = MaxRows /\ FailAppend)
Serve(c) ==
    \/ LoadReplay(c) \/ Open(c) \/ Pump(c)
    \/ Scan(c) \/ ReconcileTurn(c) \/ Reload(c) \/ Replay(c)
Reconnect(c) == conn[c].pc = "away" /\ Connect(c)

StreamNext ==
    \/ CodexEvent \/ SettleCancel \/ Turn
    \/ WriteRow \/ PublishRow \/ FailAppend \/ Evict
    \/ \E c \in Followers : Connect(c) \/ Serve(c) \/ Drop(c)
    \/ LoseStreams

StreamSpec == StreamInit /\ [][StreamNext]_streamVars

\* The run settles and goes on, the chain advances, connections are served as
\* the browser reads, and EventSource reconnects by itself.
FairStreamSpec ==
    /\ StreamSpec
    /\ WF_streamVars(SettleRun) /\ WF_streamVars(Tell) /\ WF_streamVars(LeaveRegistry)
    /\ WF_streamVars(Advance)
    /\ \A c \in Followers : WF_streamVars(Serve(c)) /\ WF_streamVars(Reconnect(c))

-----------------------------------------------------------------------------
(* Properties. *)

\* What was shown of the stream: a failure no row tells is none of it.
Shown(s) ==
    LET n == IF s # <<>> /\ s[Len(s)].kind = "presumed" THEN Len(s) - 1 ELSE Len(s)
    IN  [i \in 1 .. n |-> s[i].id]

\* Each browser is shown the stream in order, every event once, none left out
\* but an end that another end supersedes; over replays, live events, lost
\* connections and restarts.
Feed == INSTANCE TurnFeed WITH
    log <- [i \in 1 .. Len(rows) |-> rows[i].kind],
    seen <- [c \in Followers |-> Shown(got[c])],
    told <- {c \in Followers : got[c] # <<>> /\ IsTerminal(got[c][Len(got[c])])}

ImplementsFeed == Feed!Spec

\* When the stream has an end, every browser that follows the turn is shown
\* it, or was refused because its own repair of the stream failed.  (Without
\* an end in the stream a live connection is told nothing: the append of the
\* terminal event is the only thing that ends it.)
EveryFollowerIsTold ==
    \A c \in Followers :
       conn[c].pc # "idle" /\ HasEnd ~> conn[c].pc \in {"done", "refused"}
=============================================================================
