-------------------------- MODULE PsychiatristDock --------------------------
(***************************************************************************)
(* The Psychiatrist dock of the reader page: the thread it has loaded, the  *)
(* transcript it shows, the phase of the turn it follows and its            *)
(* EventSource, against a server that other tabs use too, whose answers     *)
(* arrive in any order, fail, or are lost after they took effect.           *)
(*                                                                          *)
(* The page keeps the dock for one memory in one language: another one      *)
(* mounts another dock.  What the server does with a turn is in             *)
(* PsychiatristTurn and how it delivers events in PsychiatristStream; here  *)
(* a turn runs, is stored, is told and leaves the registry.  A pair is      *)
(* named by the turn that asked its question; an answer is the sequence of  *)
(* the deltas that make it up.                                              *)
(***************************************************************************)
EXTENDS Integers, Sequences, FiniteSetsExt

CONSTANTS
    MaxTurns,   \* bound: the turns, named in the order they start
    MaxRequests, \* bound: the requests under way at a time
    MaxDeltas,  \* the deltas of an answer
    MaxThreads, \* bound: the threads of the variant, one after the other
    MaxStops,   \* bound: how often Stop is pressed
    MaxTroubles, \* bound: Stops, faults and changes of the content together
    MaxFaults,  \* bound: calls that fail, terminal events that are malformed
    StartsWhileLoading, \* whether the user starts a turn while a load is under way
    None

ASSUME DockAssumption ==
    /\ StartsWhileLoading \in BOOLEAN
    /\ {MaxDeltas, MaxThreads} \subseteq Nat \ {0}
    /\ {MaxTurns, MaxRequests, MaxStops, MaxFaults, MaxTroubles} \subseteq Nat

Turns == 1 .. MaxTurns
Slots == 1 .. MaxRequests

VARIABLES
    \* the server
    latest,     \* the thread that matches the content
    turn,       \* its turns
    stored,     \* the pairs as a thread response tells them
    \* the dock
    thread, load, phase,
    shown,      \* transcriptPairs
    running,    \* runningPairId and runningTurnId
    retry,      \* webSourceRetryPairId
    stop,       \* pendingStopReconciliation
    malformed,  \* malformedTerminalReconciliation
    message,    \* whether errorMessage is not empty: its block holds Retry and Allow
    source,     \* the EventSource and the event it delivers next
    request,    \* the requests under way
    \* the bounds
    stops, faults

server == <<latest, turn, stored>>
follow == <<phase, running, malformed, source>>
dock == <<thread, load, shown, retry, stop, message, follow>>
vars == <<server, dock, request, stops, faults>>

Kinds == {"message", "regenerate", "retry"}
Ends == {"completed", "failed", "refused", "canceled"}
Statuses == {"pending", "running", "completed", "failed", "canceled"}
Calls == {"load", "message", "regenerate", "cancel"}

ASSUME NoneAssumption == None \notin Nat \cup Kinds \cup Ends \cup Statuses \cup Calls

Unborn == [phase |-> "none", active |-> FALSE, thread |-> None, pair |-> None,
           kind |-> None, deltas |-> 0, end |-> None]
NoPair == [status |-> None, turn |-> None, answer |-> None, retry |-> FALSE]
Blank == [status |-> None, turn |-> None, text |-> <<>>, draft |-> None, from |-> None,
          retry |-> FALSE]
Nobody == [pair |-> None, turn |-> None]
Closed == [turn |-> None, at |-> 0]
Untried == [turn |-> None, attempts |-> 0]
Free == [call |-> None, pc |-> "free", why |-> None, thread |-> None, pair |-> None,
         turn |-> None, allow |-> FALSE, token |-> 0, reply |-> None]

Whole(t) == [k \in 1 .. MaxDeltas |-> <<t, k>>]
ActiveTurns(th) == {t \in Turns : turn[t].active /\ turn[t].thread = th}
IsPairOf(p, th) == turn[p].thread = th /\ turn[p].kind = "message"
PairsOf(th) == [p \in Turns |-> IF IsPairOf(p, th) THEN stored[p] ELSE NoPair]

IsCalm == stops + faults + latest <= MaxTroubles
Fails == IsCalm /\ faults < MaxFaults /\ faults' = faults + 1
Works == UNCHANGED faults

Threads == 1 .. MaxThreads
Named == Turns \cup {None}
Answers == Seq(Turns \X Nat)
TurnRecords ==
    [phase : {"none", "running", "settled", "told"}, active : BOOLEAN,
     thread : Threads \cup {None}, pair : Named, kind : Kinds \cup {None},
     deltas : 0 .. MaxDeltas, end : Ends \cup {None}]
Pairs == [status : Statuses \cup {None}, turn : Named, answer : Named, retry : BOOLEAN]
Rows == [status : Statuses \cup {None}, turn : Named, text : Answers, draft : Named, from : Named,
         retry : BOOLEAN]
ThreadReplies == [ok : {TRUE}, thread : Threads, active : Named, pairs : [Turns -> Pairs]]
StartReplies == [ok : {TRUE}, turn : Turns, pair : Turns]
CancelReplies == [ok : {TRUE}, canceled : BOOLEAN]
Refusals == [ok : {FALSE}, code : {"stale", "other"}]
Replies == {None} \cup ThreadReplies \cup StartReplies \cup CancelReplies \cup Refusals
Reasons == {"plain", "stop", "malformed", "refresh", "failed"}
Requests == [call : Calls \cup {None}, pc : {"free", "sent", "half", "answered"},
             why : Reasons \cup {None}, thread : Threads \cup {None}, pair : Named, turn : Named,
             allow : BOOLEAN, token : 0 .. MaxStops, reply : Replies]

TypeOK ==
    /\ latest \in Threads
    /\ turn \in [Turns -> TurnRecords] /\ stored \in [Turns -> Pairs]
    /\ thread \in Threads \cup {None}
    /\ load \in {"idle", "loading", "ready", "error"}
    /\ phase \in {"idle", "starting", "running", "stopping"}
    /\ shown \in [Turns -> Rows]
    /\ running \in [pair : Named, turn : Named] /\ retry \in Named
    /\ stop \in {None} \cup [kind : {"terminal", "ambiguous"}, token : 0 .. MaxStops]
    /\ malformed \in [turn : Named, attempts : 0 .. 1]
    /\ message \in BOOLEAN
    /\ source \in [turn : Named, at : Nat]
    /\ request \in [Slots -> Requests]
    /\ stops \in 0 .. MaxStops /\ faults \in 0 .. MaxFaults

-----------------------------------------------------------------------------
(* The transcript *)

\* toPsychiatristTranscriptPairs, of the pairs of a thread response.
ToTranscriptPair(pair) ==
    [Blank EXCEPT !.status = pair.status, !.turn = pair.turn, !.retry = pair.retry,
                  !.text = IF pair.answer = None THEN <<>> ELSE Whole(pair.answer)]

\* The event at a place of the stream of a turn: its type and, of a delta,
\* its number.
Length(t) == 1 + turn[t].deltas + IF turn[t].phase = "told" THEN 1 ELSE 0
EventAt(t, at) ==
    IF at = 1 THEN [type |-> "started", k |-> 0]
    ELSE IF at <= 1 + turn[t].deltas THEN [type |-> "delta", k |-> at - 1]
    ELSE [type |-> turn[t].end, k |-> 0]

\* Draft and retry state of a row are dropped.
Settled(row, status, text, t) ==
    [Blank EXCEPT !.status = status, !.text = text, !.turn = t]
Original(row) == IF row.from = None THEN row.turn ELSE row.from

\* The text of a draft is never shown, and is not kept here.
ApplyDelta(row, t, k) ==
    IF row.draft = None /\ row.turn = t
    THEN [row EXCEPT !.text = Append(row.text, <<t, k>>)] ELSE row

\* Faulty form: a regeneration writes over the answer from its first delta.
ApplyStartedInPlace(row, t) == [row EXCEPT !.status = "running", !.turn = t, !.text = <<>>]

\* A regeneration gets a draft beside the answer the row keeps.
ApplyStarted(row, t) ==
    IF turn[t].kind = "regenerate"
    THEN [row EXCEPT !.status = "running", !.turn = t, !.draft = t, !.from = row.turn]
    ELSE [row EXCEPT !.status = "running", !.turn = t]

ApplyCanceled(row, t) ==
    IF row.status = "completed" \/ row.draft = t
    THEN Settled(row, "completed", row.text, Original(row))
    ELSE Settled(row, "canceled", <<>>, t)

\* A failure keeps the answer beside a draft; being refused web sources keeps
\* it also without one.
ApplyFailed(row, t, refused) ==
    LET keeps == row.text # <<>> /\ (row.draft = t \/ (refused /\ turn[t].kind = "regenerate"))
        after == IF keeps THEN Settled(row, "completed", row.text, Original(row))
                 ELSE Settled(row, "failed", <<>>, t)
    IN  [after EXCEPT !.retry = refused]

\* Events that name no pair find the row by its turn: the cancellation the
\* stream tells and the failure of a first answer.
NamesPair(t, e) ==
    ~(e.type = "canceled" \/ (e.type = "failed" /\ turn[t].kind = "message"))

\* The row a first answer starts with.
FirstRow(t) == [Blank EXCEPT !.status = "running", !.turn = t]

Applied(row, t, e) ==
    IF e.type = "started" THEN ApplyStarted(row, t)
    ELSE IF e.type = "delta" THEN ApplyDelta(row, t, e.k)
    ELSE IF e.type = "completed" THEN Settled(row, "completed", Whole(t), t)
    ELSE IF e.type = "canceled" THEN ApplyCanceled(row, t)
    ELSE ApplyFailed(row, t, e.type = "refused")

\* applyPsychiatristStreamEvent.  Only the start of a first answer adds a row.
ApplyStreamEvent(t, e, named) ==
    LET p == turn[t].pair
        row == shown[p]
        new == IF row.status = None
               THEN IF e.type = "started" /\ turn[t].kind = "message" THEN FirstRow(t) ELSE row
               ELSE IF named \/ row.turn = t THEN Applied(row, t, e) ELSE row
    IN  [shown EXCEPT ![p] = new]

-----------------------------------------------------------------------------
(* The server *)

\* What the end of a turn leaves of its pair: an answer stays.
StorePair(p, t, end) ==
    IF end = "completed" THEN [NoPair EXCEPT !.status = "completed", !.turn = t, !.answer = t]
    ELSE IF stored[p].answer # None THEN [stored[p] EXCEPT !.retry = end = "refused"]
    ELSE [NoPair EXCEPT !.turn = t, !.retry = end = "refused",
                        !.status = IF end = "canceled" THEN end ELSE "failed"]

StartTurn(t, p, kind) ==
    /\ turn' = [turn EXCEPT ![t] = [Unborn EXCEPT !.phase = "running", !.active = TRUE,
                        !.thread = latest, !.pair = p, !.kind = kind]]
    /\ stored' = IF kind = "message"
                 THEN [stored EXCEPT ![t] = [NoPair EXCEPT !.status = "pending", !.turn = t]]
                 ELSE stored

EndTurn(t, end, told) ==
    /\ turn' = [turn EXCEPT ![t].end = end, ![t].phase = told]
    /\ stored' = [stored EXCEPT ![turn[t].pair] = StorePair(turn[t].pair, t, end)]

\* Ids are given in order, so that the last pair of a list is the greatest.
IsNext(t) == turn[t].phase = "none" /\ \A u \in Turns : turn[u].phase = "none" => t <= u

\* What may become of a pair: its answer is regenerated, or its question is
\* asked again with web sources after it was refused them.
ModesOf(p, allow) ==
    {kind \in {"regenerate", "retry"} :
       /\ turn[p].thread = latest
       /\ IF kind = "regenerate" THEN stored[p].answer # None
          ELSE allow /\ stored[p].answer = None /\ stored[p].retry}

\* Another tab asks, or regenerates.
StartElsewhere(t) ==
    /\ IsNext(t) /\ ActiveTurns(latest) = {}
    /\ \/ StartTurn(t, t, "message")
       \/ \E p \in Turns, kind \in Kinds : kind \in ModesOf(p, TRUE) /\ StartTurn(t, p, kind)
    /\ UNCHANGED <<latest, dock, request, stops, faults>>

\* The memory is imported or translated again: its thread is another one.
\* (Before the first load it makes no difference which one it is.)
ChangeContent ==
    /\ thread # None /\ latest < MaxThreads /\ IsCalm
    /\ latest' = latest + 1
    /\ UNCHANGED <<turn, stored, dock, request, stops, faults>>

Progress(t) ==
    /\ turn[t].phase = "running" /\ turn[t].deltas < MaxDeltas
    /\ turn' = [turn EXCEPT ![t].deltas = turn[t].deltas + 1]
    /\ UNCHANGED <<latest, stored, dock, request, stops, faults>>

\* The pair is stored before the terminal event tells it.
Settle(t) ==
    /\ turn[t].phase = "running"
    /\ \E end \in {"completed", "failed", "refused"} :
          /\ end = "refused" => turn[t].kind # "retry"
          /\ EndTurn(t, end, "settled")
    /\ UNCHANGED <<latest, dock, request, stops, faults>>

Tell(t) ==
    /\ turn[t].phase = "settled"
    /\ turn' = [turn EXCEPT ![t].phase = "told"]
    /\ UNCHANGED <<latest, stored, dock, request, stops, faults>>

Unregister(t) ==
    /\ turn[t].phase = "told" /\ turn[t].active
    /\ turn' = [turn EXCEPT ![t].active = FALSE]
    /\ UNCHANGED <<latest, stored, dock, request, stops, faults>>

\* A response: what the server says, or an error instead of it.
Said(i, reply) ==
    \E r \in {reply, [ok |-> FALSE, code |-> "other"]} :
       /\ \/ r = reply /\ Works
          \/ r # reply /\ Fails
       /\ request' = [request EXCEPT ![i].pc = "answered", ![i].reply = r]
Refused(i, code) ==
    /\ request' = [request EXCEPT ![i].pc = "answered",
                                  ![i].reply = [ok |-> FALSE, code |-> code]]
    /\ Works

\* The message and regenerate routes.  Only the first looks for the latest thread:
\* a regenerate that starts in an outdated one is taken here as one that started
\* before the content changed.
ServeStart(i) ==
    LET r == request[i]
        modes == IF r.call = "message" THEN {"message"} ELSE ModesOf(r.pair, r.allow)
    IN  /\ r.call \in {"message", "regenerate"} /\ r.pc = "sent"
        /\ \/ /\ r.thread # latest
              /\ Refused(i, "stale") /\ UNCHANGED <<turn, stored>>
           \/ /\ r.thread = latest
              /\ ActiveTurns(latest) # {} \/ modes = {} \/ \A t \in Turns : ~IsNext(t)
              /\ Refused(i, "other") /\ UNCHANGED <<turn, stored>>
           \/ /\ r.thread = latest /\ ActiveTurns(latest) = {}
              /\ \E t \in Turns, kind \in modes :
                    LET p == IF kind = "message" THEN t ELSE r.pair
                    IN  /\ IsNext(t)
                        /\ StartTurn(t, p, kind)
                        /\ Said(i, [ok |-> TRUE, turn |-> t, pair |-> p])
        /\ UNCHANGED <<latest, dock, stops>>

\* The cancel route: the turn may not be ready yet, may be over already, or is
\* canceled and told so, and leaves the registry before the answer does.
ServeCancel(i) ==
    LET t == request[i].turn
    IN  /\ request[i].call = "cancel" /\ request[i].pc = "sent"
        /\ \/ /\ ~turn[t].active \/ turn[t].deltas = 0
              /\ Refused(i, "other") /\ UNCHANGED <<turn, stored>>
           \/ /\ turn[t].active /\ turn[t].phase = "running"
              /\ EndTurn(t, "canceled", "told")
              /\ request' = [request EXCEPT ![i].pc = "half"]
              /\ Works
           \/ /\ turn[t].active /\ turn[t].phase # "running"
              /\ turn' = [turn EXCEPT ![t].active = FALSE] /\ UNCHANGED stored
              /\ Said(i, [ok |-> TRUE, canceled |-> turn[t].end = "canceled"])
        /\ UNCHANGED <<latest, dock, stops>>

AnswerCancel(i) ==
    /\ request[i].call = "cancel" /\ request[i].pc = "half"
    /\ turn' = [turn EXCEPT ![request[i].turn].active = FALSE]
    /\ Said(i, [ok |-> TRUE, canceled |-> TRUE])
    /\ UNCHANGED <<latest, stored, dock, stops>>

\* A thread response reads the pairs first and the registry after them.
ServePairs(i) ==
    /\ request[i].call = "load" /\ request[i].pc = "sent"
    /\ \/ /\ request' = [request EXCEPT ![i].pc = "half",
                 ![i].reply = [ok |-> TRUE, thread |-> latest, active |-> None,
                               pairs |-> PairsOf(latest)]]
          /\ Works
       \/ /\ request' = [request EXCEPT ![i].pc = "answered",
                                        ![i].reply = [ok |-> FALSE, code |-> "other"]]
          /\ Fails
    /\ UNCHANGED <<server, dock, stops>>

ServeThread(i) ==
    LET active == ActiveTurns(request[i].reply.thread)
    IN  /\ request[i].call = "load" /\ request[i].pc = "half"
        /\ request' = [request EXCEPT ![i].pc = "answered",
              ![i].reply.active = IF active = {} THEN None ELSE Max(active)]
        /\ UNCHANGED <<server, dock, stops, faults>>

-----------------------------------------------------------------------------
(* The turn the dock follows *)

IsBusy == phase # "idle"
RetryOffered == load = "error" /\ message

ClearRunningTurnState ==
    /\ phase' = "idle" /\ running' = Nobody
    /\ malformed' = Untried /\ source' = Closed

ConnectRunningStream(t) == source' = [turn |-> t, at |-> 1]

FollowTurn(t) ==
    /\ phase' = "running"
    /\ running' = [pair |-> turn[t].pair, turn |-> t]
    /\ ConnectRunningStream(t)
    /\ UNCHANGED malformed

AdoptRunningTurn(t) == FollowTurn(t) /\ retry' = None

\* syncPersistedWebSourceRetryState: the last pair that wants web sources.
Wanting(pairs) == {p \in Turns : pairs[p].retry}

\* Faulty form: the last pair of all is taken.
SyncRetryOfLast(pairs) ==
    retry' = IF Wanting(pairs) = {} THEN None ELSE Max({p \in Turns : pairs[p] # NoPair})

SyncRetry(pairs) ==
    retry' = IF Wanting(pairs) = {} THEN None ELSE Max(Wanting(pairs))

-----------------------------------------------------------------------------
(* The user *)

Call(call) == [Free EXCEPT !.call = call, !.pc = "sent", !.thread = thread]

\* A load begins, in the place of the request whose answer asked for it.  Its
\* token names the Stop it reconciles.
LoadThread(i, why, token) ==
    /\ load' = "loading" /\ message' = FALSE
    /\ request' = [request EXCEPT ![i] =
          [Free EXCEPT !.call = "load", !.pc = "sent", !.why = why, !.token = token,
             !.thread = IF why \in {"failed", "malformed"} THEN thread ELSE None,
             !.pair = IF why = "stop" THEN running.pair ELSE None,
             !.turn = IF why \in {"stop", "malformed"} THEN running.turn ELSE None]]

OpenDock(i) ==
    /\ load = "idle"
    /\ LoadThread(i, "plain", 0)
    /\ UNCHANGED <<server, thread, shown, retry, stop, follow, stops, faults>>

\* The code asks for the state of the last load that ended or began to send, and
\* for none to regenerate; only the constant asks for every load under way.
MayStart == (\E j \in Slots : request[j].call = "load") => StartsWhileLoading

SubmitPrompt(i) ==
    /\ thread # None /\ load = "ready" /\ ~IsBusy /\ MayStart
    /\ phase' = "starting" /\ message' = FALSE
    /\ request' = [request EXCEPT ![i] = Call("message")]
    /\ UNCHANGED <<server, thread, load, shown, retry, stop, running, malformed, source, stops,
                   faults>>

RegeneratePairById(i, p, allow) ==
    /\ thread # None /\ MayStart
    /\ phase' = "starting" /\ message' = FALSE
    /\ request' = [request EXCEPT ![i] =
          [Call("regenerate") EXCEPT !.pair = p, !.allow = allow]]
    /\ UNCHANGED <<server, thread, load, shown, retry, stop, running, malformed, source, stops,
                   faults>>

RegeneratePair(i, p) ==
    /\ shown[p].status = "completed" /\ ~IsBusy
    /\ RegeneratePairById(i, p, FALSE)

\* The button is in the block of the error message.  Every response and event
\* that asks for web sources names its pair, so that it always regenerates.
ApproveWebSourcesForTurn(i) ==
    /\ retry # None /\ message /\ load = "ready" /\ ~IsBusy
    /\ RegeneratePairById(i, retry, TRUE)

HandleStop(i) ==
    /\ phase = "running" /\ load = "ready" /\ running # Nobody /\ thread # None
    /\ IsCalm /\ stops < MaxStops /\ stops' = stops + 1
    /\ phase' = "stopping" /\ message' = FALSE
    /\ request' = [request EXCEPT ![i] =
          [Call("cancel") EXCEPT !.pair = running.pair, !.turn = running.turn,
                                    !.token = stops']]
    /\ UNCHANGED <<server, thread, load, shown, retry, stop, running, malformed, source, faults>>

\* A Stop that is not reconciled yet is, again; any other load is just
\* repeated.
RetryThreadLoad(i) ==
    /\ RetryOffered
    /\ IF phase = "stopping" /\ stop # None
       THEN LoadThread(i, "stop", stop.token) /\ UNCHANGED malformed
       ELSE LoadThread(i, "plain", 0) /\ malformed' = Untried
    /\ UNCHANGED <<server, thread, shown, retry, stop, phase, running, source, stops, faults>>

-----------------------------------------------------------------------------
(* Responses *)

Done(i) == request' = [request EXCEPT ![i] = Free]
Answered(i, call) == request[i].call = call /\ request[i].pc = "answered"
Read(i) == request[i].reply

\* isCurrentThreadRequestGeneration.
IsCurrent(i) == thread = request[i].thread

\* A reconciliation of a malformed terminal event is overtaken when its turn is
\* no longer the one that runs.
IsOvertaken(i) ==
    /\ request[i].why = "malformed"
    /\ ~(malformed.turn = request[i].turn /\ IsCurrent(i)
         /\ running.turn = request[i].turn /\ phase = "running")

DropResponse(i) ==
    /\ \/ Answered(i, "load") /\ IsOvertaken(i)
       \/ /\ request[i].call \in {"message", "regenerate"} /\ request[i].pc = "answered"
          /\ ~IsCurrent(i)
       \/ /\ Answered(i, "cancel")
          /\ \/ ~IsCurrent(i) \/ running # [pair |-> request[i].pair, turn |-> request[i].turn]
             \/ ~Read(i).ok /\ phase # "stopping"
    /\ Done(i)
    /\ UNCHANGED <<server, dock, stops, faults>>

LoadFails(i) ==
    /\ Answered(i, "load") /\ ~IsOvertaken(i) /\ ~Read(i).ok
    /\ load' = "error" /\ message' = TRUE
    /\ Done(i)
    /\ UNCHANGED <<server, thread, shown, retry, stop, follow, stops, faults>>

ShowThread(i) ==
    /\ thread' = Read(i).thread
    /\ shown' = [p \in Turns |-> ToTranscriptPair(Read(i).pairs[p])]
    /\ load' = "ready"
    /\ Done(i)

\* loadThread.  A running turn is adopted, or nothing runs.  After a refused
\* start the message of the refusal comes back, unless a turn of this thread
\* runs.
ReceiveThread(i) ==
    LET active == Read(i).active
        again == \/ request[i].why = "refresh"
                 \/ request[i].why = "failed" /\ Read(i).thread = request[i].thread
                      /\ active = None
    IN  /\ Answered(i, "load") /\ request[i].why # "stop"
        /\ ~IsOvertaken(i) /\ Read(i).ok
        /\ ShowThread(i)
        /\ \/ active # None /\ AdoptRunningTurn(active) /\ message' = again
           \/ /\ active = None
              /\ ClearRunningTurnState
              /\ SyncRetry(Read(i).pairs)
              /\ message' = (again \/ message \/ Wanting(Read(i).pairs) # {})
        /\ UNCHANGED <<server, stop, stops, faults>>

\* reconcilePendingStop.  The load shows the thread whatever became of the
\* Stop; the turn is let go of when this Stop is still the one to reconcile.
ReceiveStop(i) ==
    LET active == Read(i).active
        wants == message \/ Wanting(Read(i).pairs) # {}
        mine == /\ stop # None /\ stop.token = request[i].token
                /\ running = [pair |-> request[i].pair, turn |-> request[i].turn]
        adopts == active # None /\ (active # running.turn \/ stop.kind = "ambiguous")
    IN  /\ Answered(i, "load") /\ request[i].why = "stop" /\ Read(i).ok
        /\ ShowThread(i)
        /\ \/ /\ ~mine
              /\ SyncRetry(Read(i).pairs) /\ message' = wants
              /\ UNCHANGED <<stop, follow>>
           \/ /\ mine /\ adopts
              /\ AdoptRunningTurn(active) /\ message' = (active = running.turn) /\ stop' = None
           \/ /\ mine /\ ~adopts
              /\ SyncRetry(Read(i).pairs) /\ message' = wants
              /\ ClearRunningTurnState /\ stop' = None
        /\ UNCHANGED <<server, stops, faults>>

\* The answers of the message and regenerate routes.  A second row of a pair
\* that a load has shown already gets no event and is not kept here.
ReceiveStarted(i) ==
    LET r == request[i]
        t == r.reply.turn
    IN  /\ r.call \in {"message", "regenerate"} /\ r.pc = "answered"
        /\ IsCurrent(i) /\ Read(i).ok
        /\ FollowTurn(t)
        /\ retry' = None
        /\ shown' = IF r.call = "message" /\ shown[t].status = None
                    THEN [shown EXCEPT ![t] = FirstRow(t)]
                    ELSE shown
        /\ Done(i)
        /\ UNCHANGED <<server, thread, load, stop, message, stops, faults>>

\* A stale thread is loaded again, and so is the thread of a regeneration that
\* did not start.
ReceiveRefusal(i) ==
    LET r == request[i]
    IN  /\ r.call \in {"message", "regenerate"} /\ r.pc = "answered"
        /\ IsCurrent(i) /\ ~Read(i).ok
        /\ phase' = "idle"
        /\ IF Read(i).code = "stale" THEN LoadThread(i, "refresh", 0)
           ELSE IF r.call = "regenerate" THEN LoadThread(i, "failed", 0)
           ELSE message' = TRUE /\ Done(i) /\ UNCHANGED load
        /\ UNCHANGED <<server, thread, shown, retry, stop, running, malformed, source, stops,
                       faults>>

\* The answer of the cancel route, or its error: the thread is loaded to find
\* out what became of the turn.
ReceiveCancel(i) ==
    LET r == request[i]
    IN  /\ Answered(i, "cancel") /\ IsCurrent(i)
        /\ running = [pair |-> r.pair, turn |-> r.turn]
        /\ \/ /\ Read(i).ok
              /\ stop' = [kind |-> "terminal", token |-> r.token]
              /\ shown' = IF Read(i).canceled
                          THEN ApplyStreamEvent(r.turn, [type |-> "canceled", k |-> 0], TRUE)
                          ELSE shown
           \/ /\ ~Read(i).ok /\ phase = "stopping"
              /\ stop' = [kind |-> "ambiguous", token |-> r.token]
              /\ UNCHANGED shown
        /\ LoadThread(i, "stop", r.token)
        /\ UNCHANGED <<server, thread, retry, follow, stops, faults>>

-----------------------------------------------------------------------------
(* The stream *)

HasEvent == source.turn # None /\ source.at <= Length(source.turn)
Event == EventAt(source.turn, source.at)

\* isCurrentStreamGeneration: a thread shown since makes the stream mute.
IsCurrentStream == thread = turn[source.turn].thread /\ running.turn = source.turn

\* The EventSource closes itself at a terminal event.
DropEvent ==
    /\ HasEvent /\ ~IsCurrentStream
    /\ source' = IF Event.type \in Ends THEN Closed ELSE [source EXCEPT !.at = @ + 1]
    /\ UNCHANGED <<server, thread, load, shown, retry, stop, message, phase, running, malformed,
                   request, stops, faults>>

ShowEvent ==
    /\ HasEvent /\ IsCurrentStream /\ Event.type \notin Ends
    /\ shown' = ApplyStreamEvent(source.turn, Event, NamesPair(source.turn, Event))
    /\ source' = [source EXCEPT !.at = @ + 1]
    /\ UNCHANGED <<server, thread, load, retry, stop, message, phase, running, malformed, request,
                   stops, faults>>

EndOfTurn ==
    LET p == turn[source.turn].pair
        asks == Event.type = "refused" /\ shown[p].status # None
    IN  /\ HasEvent /\ IsCurrentStream /\ Event.type \in Ends
        /\ shown' = ApplyStreamEvent(source.turn, Event, NamesPair(source.turn, Event))
        /\ message' = (message \/ asks \/ Event.type = "failed")
        /\ retry' = IF asks THEN p ELSE retry
        /\ stop' = None
        /\ ClearRunningTurnState
        /\ UNCHANGED <<server, thread, load, request, stops, faults>>

\* Faulty form: a second malformed terminal event is given up on silently.
GiveUpSilently(i) ==
    /\ HasEvent /\ IsCurrentStream /\ Event.type \in Ends /\ Fails
    /\ source' = Closed
    /\ IF malformed.turn = source.turn
       THEN UNCHANGED <<load, message, malformed, request>>
       ELSE /\ malformed' = [turn |-> source.turn, attempts |-> 1]
            /\ LoadThread(i, "malformed", 0)
    /\ UNCHANGED <<server, thread, shown, retry, stop, phase, running, stops>>

\* A terminal event that does not parse: the thread is loaded to find out what
\* became of the turn, once, and then the user is asked to.
HandleMalformedTerminal(i) ==
    /\ HasEvent /\ IsCurrentStream /\ Event.type \in Ends /\ Fails
    /\ source' = Closed
    /\ IF malformed.turn = source.turn
       THEN load' = "error" /\ message' = TRUE /\ UNCHANGED <<malformed, request>>
       ELSE /\ malformed' = [turn |-> source.turn, attempts |-> 1]
            /\ LoadThread(i, "malformed", 0)
    /\ UNCHANGED <<server, thread, shown, retry, stop, phase, running, stops>>

-----------------------------------------------------------------------------
Init ==
    /\ latest = 1
    /\ turn = [t \in Turns |-> Unborn]
    /\ stored = [p \in Turns |-> NoPair]
    /\ thread = None /\ load = "idle" /\ phase = "idle"
    /\ shown = [p \in Turns |-> Blank]
    /\ running = Nobody /\ retry = None /\ stop = None /\ malformed = Untried
    /\ message = FALSE /\ source = Closed
    /\ request = [i \in Slots |-> Free]
    /\ stops = 0 /\ faults = 0

\* A request takes the first free slot.
Use(i) ==
    /\ request[i] = Free /\ \A j \in Slots : j < i => request[j] # Free
    /\ \/ OpenDock(i) \/ SubmitPrompt(i) \/ ApproveWebSourcesForTurn(i)
       \/ HandleStop(i) \/ RetryThreadLoad(i) \/ HandleMalformedTerminal(i)
       \/ \E p \in Turns : RegeneratePair(i, p)

RunTurn(t) == Progress(t) \/ Settle(t) \/ Tell(t) \/ Unregister(t)
Serve(i) == ServeStart(i) \/ ServeCancel(i) \/ AnswerCancel(i) \/ ServePairs(i) \/ ServeThread(i)
Receive(i) ==
    \/ DropResponse(i) \/ LoadFails(i) \/ ReceiveThread(i) \/ ReceiveStop(i)
    \/ ReceiveStarted(i) \/ ReceiveRefusal(i) \/ ReceiveCancel(i)
Listen == DropEvent \/ ShowEvent \/ EndOfTurn

Next ==
    \/ ChangeContent
    \/ \E t \in Turns : StartElsewhere(t) \/ RunTurn(t)
    \/ \E i \in Slots : Use(i) \/ Serve(i) \/ Receive(i)
    \/ Listen

Spec == Init /\ [][Next]_vars

-----------------------------------------------------------------------------
(* Properties *)

\* An idle dock shows whole answers: the answer of a completed row is that of
\* the turn the row names, which the server completed, never a draft, a prefix,
\* or deltas appended to what a load has shown.
IdleShowsWholeAnswers ==
    ~IsBusy => \A p \in Turns :
       (shown[p].status = "completed" /\ shown[p].text # <<>>) =>
          LET t == shown[p].turn
          IN  /\ turn[t].pair = p /\ turn[t].end = "completed"
              /\ shown[p].text = Whole(t)

\* The permission to use web sources goes with a pair of the thread it is
\* asked in, one of whose turns was refused them.
PermissionIsForTheAsker ==
    \A i \in Slots : request[i].allow =>
       /\ turn[request[i].pair].thread = request[i].thread
       /\ \E t \in Turns : turn[t].pair = request[i].pair /\ turn[t].end = "refused"

\* A busy dock waits for something that ends, or offers Retry: for the answer of
\* a start or a Stop it will not drop, for a load it will not drop, or for the
\* end of the turn it follows.  (Calls are answered and turns end by timeouts.)
\* Not so where the loads of a Stop and of a malformed end meet: the one may be
\* dropped after the other failed, or show another thread than the turn's.
BusyWaits ==
    LET follows == source.turn = running.turn /\ running.turn # None /\ IsCurrentStream
        awaits(i) ==
           /\ request[i].call = "load" => ~IsOvertaken(i)
           /\ request[i].call # "load" => IsCurrent(i)
           /\ request[i].call = "cancel" => running.turn = request[i].turn
    IN  \/ phase = "idle" \/ RetryOffered
        \/ stop # None /\ malformed # Untried
        \/ \E i \in Slots :
              /\ request[i] # Free /\ awaits(i)
              /\ phase = "starting" => request[i].call \in {"message", "regenerate"}
              /\ phase = "stopping" => request[i].call = "cancel" \/ request[i].why = "stop"
        \/ phase # "starting" /\ follows
=============================================================================
