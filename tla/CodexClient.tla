----------------------------- MODULE CodexClient -----------------------------
(* CodexAppServerClient of translation/codex-app-server.ts: one client, the   *)
(* WebSocket connections it opens, its requests with their timers, and the    *)
(* turn it waits for, against an app-server that answers in any order, late   *)
(* or never, sends notifications of other turns, and may hang up.             *)
(*                                                                            *)
(* A client serves one owner: a translation run makes calls of translateChunk *)
(* one after the other and may give one up by closing the client; a           *)
(* Psychiatrist turn makes one call of runConversationTurn and closes the     *)
(* client after it. While a call waits for its turn the owner may interrupt.  *)
(*                                                                            *)
(* Frames that arrive in one chunk are handled one after the other before the *)
(* code that awaits the first of them goes on; everything else (a timer, an   *)
(* event of the socket, a request of the owner) waits for such continuations: *)
(* Resumable.                                                                 *)
EXTENDS Naturals, FiniteSets

CONSTANTS
    Kinds,        \* the owners checked
    MaxCalls,     \* calls of a translation run on its client
    MaxSockets,   \* connections opened
    MaxRequests,  \* requests sent
    None

ASSUME CodexAssumption ==
    /\ Kinds \subseteq {"translation", "conversation"}
    /\ MaxCalls \in Nat \ {0} /\ MaxSockets \in Nat /\ MaxRequests \in Nat
    /\ None \notin Nat

Sockets == 1 .. MaxSockets
Ids == 1 .. MaxRequests

\* The thread a conversation reuses, and an earlier turn on it that the server
\* may still be working on. Other threads and turns are named by the requests
\* that created them.
Old == 0
Turns == Ids \cup {Old}
ThreadIds == Ids \cup {Old}

VARIABLES
    kind,        \* whose client it is
    owner,       \* "holding", or "released" once the owner has closed the client
    socket,      \* the phase of each openUnixWebSocketConnection
    connection,  \* the field of that name: the socket requests are sent on
    initialized, \* the field of that name
    closed,      \* connectionClosed
    schema,      \* outputSchemaMode
    nextId,      \* requestId
    pending,     \* pendingRequests: the id and who awaits it
    call,        \* the call of the owner under way
    waiter,      \* what waitForTurnCompletion or waitForTextTurnCompletion keeps
    consumer,    \* what the owner's onEvent has answered and seen
    interrupt,   \* the cancelTurn of the owner under way
    asked,       \* the requests the server has not answered
    turn         \* the turns of the server

connected == <<connection, initialized, closed>>
requests == <<nextId, pending, asked>>
vars == <<kind, owner, socket, connected, schema, requests, call, waiter,
          consumer, interrupt, turn>>

AnswerPcs == {"initialize", "account", "thread", "turn"}
CallPcs == AnswerPcs \cup {"idle", "opening", "cwd", "output", "cleanup", "again"}

IdleWaiter == [on |-> FALSE, thread |-> None, turn |-> None, settled |-> None, request |-> None]
IdleCall == [pc |-> "idle", made |-> 0, reuse |-> FALSE, structured |-> FALSE,
             cwd |-> FALSE, reply |-> None, result |-> None]
NoTurn == [phase |-> "none", thread |-> None]
FreshConsumer == [refused |-> FALSE, foreign |-> FALSE]

\* What an awaited promise is settled with: an error (of the wire, of the
\* connection or of a timer), success, the thread or turn that a response names
\* (None if it names none) and whether it brings the output at once, or the
\* output of a turn.
Error(code) == [kind |-> "error", code |-> code]
Done == [kind |-> "done"]
Named(id, output) == [kind |-> "named", id |-> id, output |-> output]
Output(t) == [kind |-> "output", turn |-> t]

\* The errors of the wire that the client tells apart, by their wording: the
\* output schema is unsupported, the reused thread is gone, anything else.
ErrorCodes == {"other", "schema", "thread"}

Errors == {Error(code) : code \in ErrorCodes}
Names == {Named(id, output) : id \in Ids \cup {None}, output \in BOOLEAN}
Outputs == {Output(t) : t \in Turns}

ASSUME NoneAssumption == None \notin {Done} \cup Errors \cup Names \cup Outputs

Replies == Errors \cup {Done} \cup Names \cup {None}
Results == Errors \cup Outputs \cup {None}

Calls == [pc : CallPcs, made : 0 .. MaxCalls, reuse : BOOLEAN, structured : BOOLEAN,
          cwd : BOOLEAN, reply : Replies, result : Results]
Waiters == [on : BOOLEAN, thread : ThreadIds \cup {None}, turn : Turns \cup {None},
            settled : Results, request : Ids \cup {None}]
Requests == [id : Ids, method : AnswerPcs \cup {"interrupt"}, socket : Sockets,
             thread : ThreadIds \cup {None}]

TypeOK ==
    /\ kind \in Kinds
    /\ owner \in {"holding", "released"}
    /\ socket \in [Sockets -> {"none", "connecting", "upgrading", "open", "ending", "closed"}]
    /\ connection \in Sockets \cup {None}
    /\ initialized \in BOOLEAN
    /\ closed \in BOOLEAN
    /\ schema \in {"unknown", "structured", "prompt_only"}
    /\ nextId \in 1 .. MaxRequests + 1
    /\ pending \subseteq [id : Ids, for : {"call", "interrupt"}]
    /\ call \in Calls
    /\ waiter \in Waiters
    /\ consumer \in [refused : BOOLEAN, foreign : BOOLEAN]
    /\ interrupt \in [pc : {"idle", "asked", "done"}, reply : Errors \cup {Done, None}]
    /\ asked \subseteq Requests
    /\ turn \in [Turns -> [phase : {"none", "created", "announced", "ended"},
                           thread : ThreadIds \cup {None}]]

Init ==
    /\ kind \in Kinds
    /\ owner = "holding"
    /\ socket = [s \in Sockets |-> "none"]
    /\ connection = None
    /\ initialized = FALSE
    /\ closed = FALSE
    /\ schema = "unknown"
    /\ nextId = 1
    /\ pending = {}
    /\ call = IdleCall
    /\ waiter = IdleWaiter
    /\ consumer = FreshConsumer
    /\ interrupt = [pc |-> "idle", reply |-> None]
    /\ asked = {}
    /\ turn = [t \in Turns |-> IF t = Old THEN [phase |-> "announced", thread |-> Old] ELSE NoTurn]

\* Something the code awaits is settled; it goes on before the next event.
Resumable ==
    \/ call.reply # None
    \/ call.pc = "output" /\ waiter.settled # None
    \/ interrupt.reply # None

-----------------------------------------------------------------------------
(* Requests                                                                  *)

\* request(): registered, with a timer, and sent.
Ask(method, for, thread, s) ==
    /\ nextId <= MaxRequests
    /\ nextId' = nextId + 1
    /\ pending' = pending \cup {[id |-> nextId, for |-> for]}
    /\ asked' = asked \cup {[id |-> nextId, method |-> method, socket |-> s, thread |-> thread]}

\* The call is over: its temporary directory is removed first, if it has one.
Ended(result) ==
    [call EXCEPT !.pc = IF call.cwd THEN "cleanup" ELSE "idle", !.reply = None, !.result = result]

\* The call goes on with a request of its own. A closed client throws instead.
AskNext(method) ==
    \/ /\ ~closed
       /\ Ask(method, "call", None, connection')
       /\ call' = [call EXCEPT !.pc = method, !.reply = None]
    \/ /\ closed
       /\ call' = Ended(Error("other"))
       /\ UNCHANGED requests

\* The waiter is subscribed to the thread and the turn requested. If the
\* request throws, it is unsubscribed.
StartTurn(thread) ==
    \/ /\ ~closed
       /\ Ask("turn", "call", thread, connection)
       /\ waiter' = [on |-> TRUE, thread |-> thread, turn |-> None, settled |-> None,
                     request |-> nextId]
       /\ call' = [call EXCEPT !.pc = "turn", !.reply = None]
    \/ /\ closed
       /\ waiter' = IdleWaiter
       /\ call' = Ended(Error("other"))
       /\ UNCHANGED requests

\* The answer to request id settles whoever awaits it. An answer nobody awaits
\* any more is dropped.
Settle(id, reply) ==
    /\ pending' = {p \in pending : p.id # id}
    /\ call' = IF [id |-> id, for |-> "call"] \in pending
               THEN [call EXCEPT !.reply = reply] ELSE call
    /\ interrupt' = IF [id |-> id, for |-> "interrupt"] \in pending
                    THEN [interrupt EXCEPT !.reply = reply] ELSE interrupt

\* The turn timer or a listener settles the output of the turn, once.
Settled(w, value) == IF w.settled = None THEN [w EXCEPT !.settled = value] ELSE w

\* Faulty form: the waiter does not listen for the end of the connection.
RejectRequestsOnly ==
    /\ pending' = {}
    /\ call' = IF \E p \in pending : p.for = "call"
               THEN [call EXCEPT !.reply = Error("other")] ELSE call
    /\ interrupt' = IF \E p \in pending : p.for = "interrupt"
                    THEN [interrupt EXCEPT !.reply = Error("other")] ELSE interrupt
    /\ waiter' = waiter

\* What handleConnectionClosed rejects: every pending request, and through
\* closeListeners the output of the turn.
RejectAll ==
    /\ pending' = {}
    /\ call' = IF \E p \in pending : p.for = "call"
               THEN [call EXCEPT !.reply = Error("other")] ELSE call
    /\ interrupt' = IF \E p \in pending : p.for = "interrupt"
                    THEN [interrupt EXCEPT !.reply = Error("other")] ELSE interrupt
    /\ waiter' = IF waiter.on THEN Settled(waiter, Error("other")) ELSE waiter

\* handleConnectionClosed, the first time only.
ConnectionClosed ==
    /\ closed' = TRUE
    /\ IF closed THEN UNCHANGED <<pending, call, interrupt, waiter>> ELSE RejectAll

-----------------------------------------------------------------------------
(* The connection: openUnixWebSocketConnection                               *)

\* The socket of the latest call of ensureInitialized that opened one.
Latest == CHOOSE s \in Sockets : socket[s] # "none" /\ \A r \in Sockets : r > s => socket[r] = "none"

Connected(s) ==
    /\ ~Resumable
    /\ socket[s] = "connecting"
    /\ socket' = [socket EXCEPT ![s] = "upgrading"]
    /\ UNCHANGED <<kind, owner, connected, schema, requests, call, waiter, consumer, interrupt, turn>>

\* finishOpening: the promise of the connection resolves.
Upgraded(s) ==
    /\ ~Resumable
    /\ socket[s] = "upgrading"
    /\ socket' = [socket EXCEPT ![s] = "open"]
    /\ call' = [call EXCEPT !.reply = Done]
    /\ UNCHANGED <<kind, owner, connected, schema, requests, waiter, consumer, interrupt, turn>>

\* failOpening: an error, an early end, a refused upgrade, or the timer.
OpeningFails(s) ==
    /\ ~Resumable
    /\ socket[s] \in {"connecting", "upgrading"}
    /\ socket' = [socket EXCEPT ![s] = "closed"]
    /\ call' = [call EXCEPT !.reply = Error("other")]
    /\ UNCHANGED <<kind, owner, connected, schema, requests, waiter, consumer, interrupt, turn>>

\* An open connection ends: by its socket, by a frame the decoder or the parser
\* refuses (the socket is destroyed), or by a close frame, which is answered
\* before the socket ends. Frames come at any time, events of the socket alone.
StreamEnds(s) ==
    /\ socket[s] = "open"
    /\ \E phase \in {"closed", "ending"} : socket' = [socket EXCEPT ![s] = phase]
    /\ ConnectionClosed
    /\ UNCHANGED <<kind, owner, connection, initialized, schema, nextId, asked, consumer, turn>>

SocketEnds(s) ==
    /\ ~Resumable
    /\ socket[s] = "ending"
    /\ socket' = [socket EXCEPT ![s] = "closed"]
    /\ UNCHANGED <<kind, owner, connected, schema, requests, call, waiter, consumer, interrupt, turn>>

-----------------------------------------------------------------------------
(* The owner                                                                 *)

\* translateChunk or runConversationTurn is called; ensureInitialized opens a
\* connection unless one is initialized. Room for the requests of a call with
\* two attempts and an interrupt is part of the bound on requests.
Begin ==
    /\ ~Resumable
    /\ owner = "holding"
    /\ call.pc = "idle"
    /\ call.made < (IF kind = "conversation" THEN 1 ELSE MaxCalls)
    /\ nextId + 6 <= MaxRequests
    /\ consumer' = FreshConsumer
    /\ interrupt' = [pc |-> "idle", reply |-> None]
    /\ \E reuse \in BOOLEAN :
          LET begun == [IdleCall EXCEPT !.made = call.made + 1, !.reuse = reuse,
                           !.structured = kind = "translation" /\ schema # "prompt_only"]
          IN  /\ reuse => kind = "conversation"
              /\ \/ /\ closed
                    /\ call' = [begun EXCEPT !.result = Error("other")]
                    /\ UNCHANGED <<socket, requests>>
                 \/ /\ ~closed /\ initialized
                    /\ Ask("account", "call", None, connection)
                    /\ call' = [begun EXCEPT !.pc = "account"]
                    /\ UNCHANGED socket
                 \/ /\ ~closed /\ ~initialized
                    /\ \E s \in Sockets :
                          /\ socket[s] = "none"
                          /\ \A r \in Sockets : r < s => socket[r] # "none"
                          /\ socket' = [socket EXCEPT ![s] = "connecting"]
                    /\ call' = [begun EXCEPT !.pc = "opening"]
                    /\ UNCHANGED requests
    /\ UNCHANGED <<kind, owner, connected, schema, waiter, turn>>

\* cancelTurn, once the owner has been told the turn.
StartInterrupt ==
    /\ ~Resumable
    /\ owner = "holding" /\ ~closed
    /\ interrupt.pc = "idle"
    /\ call.pc \in {"turn", "output"} /\ waiter.turn # None
    /\ Ask("interrupt", "interrupt", waiter.thread, connection)
    /\ interrupt' = [interrupt EXCEPT !.pc = "asked"]
    /\ UNCHANGED <<kind, owner, socket, connected, schema, call, waiter, consumer, turn>>

EndInterrupt ==
    /\ interrupt.reply # None
    /\ interrupt' = [pc |-> "done", reply |-> None]
    /\ UNCHANGED <<kind, owner, socket, connected, schema, requests, call, waiter, consumer, turn>>

\* close(): by a translation run when it ends or gives a canceled call up, by a
\* Psychiatrist turn after its call.
Close ==
    /\ ~Resumable
    /\ owner = "holding"
    /\ call.made > 0
    /\ kind = "conversation" => call.pc = "idle"
    /\ owner' = "released"
    /\ ConnectionClosed
    /\ socket' = IF connection = None THEN socket ELSE [socket EXCEPT ![connection] = "closed"]
    /\ UNCHANGED <<kind, connection, initialized, schema, nextId, asked, consumer, turn>>

-----------------------------------------------------------------------------
(* The call goes on                                                          *)

\* onEvent is called with an event about turn t and accepts it or not.
Heard(k, t, accepted) ==
    [refused |-> k.refused \/ ~accepted,
     foreign |-> k.foreign \/ t # waiter.request]

\* ensureInitialized after its connection is open. The field is assigned even if
\* the client has been closed meanwhile.
ResumeOpening ==
    /\ call.pc = "opening" /\ call.reply # None
    /\ \/ /\ call.reply = Done
          /\ connection' = Latest
          /\ AskNext("initialize")
       \/ /\ call.reply # Done
          /\ call' = Ended(call.reply)
          /\ UNCHANGED <<connection, requests>>
    /\ UNCHANGED <<kind, owner, socket, initialized, closed, schema, waiter, consumer, interrupt, turn>>

ResumeInitialize ==
    /\ call.pc = "initialize" /\ call.reply # None
    /\ \/ /\ call.reply = Done
          /\ initialized' = TRUE
          /\ UNCHANGED connection
          /\ AskNext("account")
       \/ /\ call.reply # Done
          /\ call' = Ended(call.reply)
          /\ UNCHANGED <<connection, initialized, requests>>
    /\ UNCHANGED <<kind, owner, socket, closed, schema, waiter, consumer, interrupt, turn>>

\* probe() has its answer: the turn is started on the thread to reuse, or a
\* directory is made for a new one.
ResumeAccount ==
    /\ call.pc = "account" /\ call.reply # None
    /\ \/ /\ call.reply = Done /\ call.reuse
          /\ StartTurn(Old)
       \/ /\ call.reply = Done /\ ~call.reuse
          /\ call' = [call EXCEPT !.pc = "cwd", !.reply = None]
          /\ UNCHANGED <<requests, waiter>>
       \/ /\ call.reply # Done
          /\ call' = Ended(call.reply)
          /\ UNCHANGED <<requests, waiter>>
    /\ UNCHANGED <<kind, owner, socket, connected, schema, consumer, interrupt, turn>>

\* createRuntimeCwd, then thread/start.
MakeCwd ==
    /\ ~Resumable
    /\ call.pc = "cwd"
    /\ UNCHANGED connection
    /\ \/ /\ ~closed
          /\ Ask("thread", "call", None, connection)
          /\ call' = [call EXCEPT !.pc = "thread", !.cwd = TRUE]
       \/ /\ closed
          /\ call' = [call EXCEPT !.pc = "cleanup", !.cwd = TRUE, !.result = Error("other")]
          /\ UNCHANGED requests
       \/ /\ call' = Ended(Error("other"))
          /\ UNCHANGED requests
    /\ UNCHANGED <<kind, owner, socket, initialized, closed, schema, waiter, consumer, interrupt, turn>>

\* thread/start is answered: the owner is told the thread and may refuse it.
ResumeThread ==
    /\ call.pc = "thread" /\ call.reply # None
    /\ \/ /\ call.reply \notin Errors \cup {Named(None, FALSE)}
          /\ \/ StartTurn(call.reply.id) /\ UNCHANGED consumer
             \/ /\ consumer' = [consumer EXCEPT !.refused = TRUE]
                /\ call' = Ended(Error("other"))
                /\ UNCHANGED <<requests, waiter>>
       \/ /\ call.reply \in Errors \cup {Named(None, FALSE)}
          /\ call' = Ended(Error("other"))
          /\ UNCHANGED <<requests, waiter, consumer>>
    /\ UNCHANGED <<kind, owner, socket, connected, schema, interrupt, turn>>

\* turn/start failed: a translation asks again without the schema the server
\* does not support, a conversation on a thread that is gone takes a new one.
TurnRefused ==
    /\ waiter' = IdleWaiter
    /\ call' = CASE call.structured /\ call.reply = Error("schema") ->
                      [call EXCEPT !.pc = "again", !.reply = None]
                 [] call.reuse /\ call.reply = Error("thread") ->
                      [call EXCEPT !.pc = "cwd", !.reuse = FALSE, !.reply = None]
                 [] OTHER -> Ended(call.reply)
    /\ UNCHANGED consumer

\* turn/start is answered. The turn the response names is recorded and announced:
\* a translation announces it through its waiter, which stays silent once it is
\* settled and fails the call once the consumer has refused; a conversation calls
\* the consumer whatever happened before. Output in the response ends the call
\* (for a conversation only if the turn has a name).
TurnStarted ==
    \E accepted \in BOOLEAN :
       LET named == call.reply.id # None
           w == [waiter EXCEPT !.turn = IF named THEN call.reply.id ELSE waiter.turn]
           told == named /\ (kind = "conversation" \/ waiter.settled = None)
           refused == (told /\ ~accepted) \/ (kind = "translation" /\ named /\ consumer.refused)
           immediate == call.reply.output /\ (kind = "translation" \/ w.turn # None)
       IN  /\ ~told => accepted
           /\ consumer' = IF told THEN Heard(consumer, call.reply.id, accepted) ELSE consumer
           /\ \/ /\ refused
                 /\ waiter' = IdleWaiter
                 /\ call' = Ended(Error("other"))
              \/ /\ ~refused /\ immediate
                 /\ waiter' = IdleWaiter
                 /\ call' = Ended(Output(waiter.request))
              \/ /\ ~refused /\ ~immediate
                 /\ waiter' = w
                 /\ call' = [call EXCEPT !.pc = "output", !.reply = None]

ResumeTurn ==
    /\ call.pc = "turn" /\ call.reply # None
    /\ \/ call.reply.kind = "error" /\ TurnRefused
       \/ call.reply.kind = "named" /\ TurnStarted
    /\ UNCHANGED <<kind, owner, socket, connected, schema, requests, interrupt, turn>>

\* The output of the turn is settled; the waiter is unsubscribed.
ResumeOutput ==
    /\ call.pc = "output" /\ waiter.settled # None
    /\ call' = Ended(waiter.settled)
    /\ waiter' = IdleWaiter
    /\ UNCHANGED <<kind, owner, socket, connected, schema, requests, consumer, interrupt, turn>>

\* removeRuntimeCwd, whose failure is only logged. Then the call returns, or the
\* second attempt of a translation begins; what was learned about schemas stays.
Cleanup ==
    /\ ~Resumable
    /\ \/ /\ call.pc = "cleanup"
          /\ call' = [call EXCEPT !.pc = "idle", !.cwd = FALSE]
          /\ schema' = IF call.structured /\ call.result.kind = "output" THEN "structured" ELSE schema
       \/ /\ call.pc = "again"
          /\ call' = [call EXCEPT !.pc = "cwd", !.cwd = FALSE, !.structured = FALSE]
          /\ schema' = "prompt_only"
    /\ UNCHANGED <<kind, owner, socket, connected, requests, waiter, consumer, interrupt, turn>>

-----------------------------------------------------------------------------
(* Timers                                                                    *)

RequestTimer ==
    /\ ~Resumable
    /\ \E p \in pending : Settle(p.id, Error("other"))
    /\ UNCHANGED <<kind, owner, socket, connected, schema, nextId, waiter, consumer, asked, turn>>

\* Faulty form: the timer of a turn is stopped once the turn has been announced.
TurnTimerUntilStarted ==
    /\ ~Resumable
    /\ waiter.on /\ waiter.settled = None /\ waiter.turn = None
    /\ waiter' = [waiter EXCEPT !.settled = Error("other")]
    /\ UNCHANGED <<kind, owner, socket, connected, schema, requests, call, consumer, interrupt, turn>>

TurnTimer ==
    /\ ~Resumable
    /\ waiter.on /\ waiter.settled = None
    /\ waiter' = [waiter EXCEPT !.settled = Error("other")]
    /\ UNCHANGED <<kind, owner, socket, connected, schema, requests, call, consumer, interrupt, turn>>

-----------------------------------------------------------------------------
(* The server, and the client's handling of what it sends                    *)

\* How the server may answer request q. A turn it has announced is not refused.
AnswersTo(q) ==
    IF q.method = "thread" THEN {Named(q.id, FALSE), Named(None, FALSE), Error("other")}
    ELSE IF q.method = "turn"
    THEN {name \in Names : name.id \in {q.id, None}} \cup {e \in Errors : turn[q.id].phase = "none"}
    ELSE {Done, Error("other")}

\* handleMessage with a response. A turn exists from here on or earlier.
Answer ==
    /\ \E q \in asked : \E reply \in AnswersTo(q) :
          /\ socket[q.socket] = "open"
          /\ asked' = asked \ {q}
          /\ Settle(q.id, reply)
          /\ turn' = IF q.method = "turn" /\ reply.kind = "named" /\ turn[q.id].phase = "none"
                     THEN [turn EXCEPT ![q.id] = [phase |-> "created", thread |-> q.thread]]
                     ELSE turn
    /\ UNCHANGED <<kind, owner, socket, connected, schema, nextId, waiter, consumer>>

\* A notification reaches the listeners over any open connection.
Online == \E s \in Sockets : socket[s] = "open"

\* Faulty form: any turn of the thread counts while the turn is not known.
MatchesThread(t) ==
    waiter.on /\ waiter.thread = turn[t].thread /\ waiter.turn \in {None, t}

\* matchesTurnNotification.
Matches(t) ==
    waiter.on /\ waiter.thread = turn[t].thread /\ waiter.turn = t

\* Faulty form: only the response names the turn.
AnnouncedUnrecorded(thread, t) ==
    waiter' = waiter

\* turn/started of the thread: the turn is recorded, whatever has been settled.
Announced(thread, t) ==
    waiter' = [waiter EXCEPT !.turn = t]

\* turn/started. The server sends it once for every turn it creates, before
\* anything else about the turn, and before or after it answers turn/start.
NotifyStarted ==
    /\ Online
    /\ \E t \in Ids :
          LET creating == {q \in asked : q.id = t /\ q.method = "turn"}
              thread == IF creating = {} THEN turn[t].thread ELSE (CHOOSE q \in creating : TRUE).thread
          IN  /\ turn[t].phase = "created" \/ (turn[t].phase = "none" /\ creating # {})
              /\ turn' = [turn EXCEPT ![t] = [phase |-> "announced", thread |-> thread]]
              /\ IF waiter.on /\ waiter.thread = thread
                 THEN \E accepted \in BOOLEAN :
                         \/ /\ waiter.settled # None
                            /\ Announced(thread, t)
                            /\ UNCHANGED consumer
                         \/ /\ waiter.settled = None /\ accepted
                            /\ Announced(thread, t)
                            /\ consumer' = Heard(consumer, t, TRUE)
                         \/ /\ waiter.settled = None /\ ~accepted
                            /\ waiter' = [waiter EXCEPT !.turn = t, !.settled = Error("other")]
                            /\ consumer' = Heard(consumer, t, FALSE)
                 ELSE UNCHANGED <<waiter, consumer>>
    /\ UNCHANGED <<kind, owner, socket, connected, schema, requests, call, interrupt>>

\* A delta, the state of the process, or an item that starts or completes and
\* may bring the output: the consumer is told first and may refuse.
NotifyItem ==
    /\ Online
    /\ \E t \in Turns, output \in BOOLEAN, accepted \in BOOLEAN :
          /\ turn[t].phase = "announced"
          /\ Matches(t) /\ waiter.settled = None
          /\ consumer' = Heard(consumer, t, accepted)
          /\ waiter' = CASE ~accepted -> [waiter EXCEPT !.settled = Error("other")]
                         [] accepted /\ output -> [waiter EXCEPT !.settled = Output(t)]
                         [] OTHER -> waiter
    /\ UNCHANGED <<kind, owner, socket, connected, schema, requests, call, interrupt, turn>>

\* turn/completed, with output or without (interrupted, or nothing final).
NotifyCompleted ==
    /\ Online
    /\ \E t \in Turns, value \in {"output", "none"} :
          /\ turn[t].phase = "announced"
          /\ turn' = [turn EXCEPT ![t].phase = "ended"]
          /\ waiter' = IF Matches(t)
                       THEN Settled(waiter, IF value = "output" THEN Output(t) ELSE Error("other"))
                       ELSE waiter
    /\ UNCHANGED <<kind, owner, socket, connected, schema, requests, call, consumer, interrupt>>

-----------------------------------------------------------------------------
(* The specification                                                         *)

Continue ==
    \/ ResumeOpening \/ ResumeInitialize \/ ResumeAccount \/ ResumeThread
    \/ ResumeTurn \/ ResumeOutput \/ EndInterrupt

Next ==
    \/ \E s \in Sockets : Connected(s) \/ Upgraded(s) \/ OpeningFails(s) \/ StreamEnds(s) \/ SocketEnds(s)
    \/ Begin \/ StartInterrupt \/ Close
    \/ Continue \/ MakeCwd \/ Cleanup
    \/ RequestTimer \/ TurnTimer
    \/ Answer \/ NotifyStarted \/ NotifyItem \/ NotifyCompleted

\* Continuations run, directories are made and removed, and every timer goes off
\* in the end: that of an opening, of a request, and of a turn. Nothing is asked
\* of the server or of the owner.
Fairness ==
    /\ WF_vars(Continue) /\ WF_vars(MakeCwd) /\ WF_vars(Cleanup)
    /\ \A s \in Sockets : WF_vars(OpeningFails(s))
    /\ WF_vars(RequestTimer) /\ WF_vars(TurnTimer)

Spec == Init /\ [][Next]_vars
FairSpec == Spec /\ Fairness

-----------------------------------------------------------------------------
(* Properties                                                                *)

\* A call returns the output of the turn it started, never that of an earlier
\* turn on the same thread or of a call that timed out (matchesTurnNotification;
\* "ignores stale reused-thread notifications until the current turn id is known").
AnswerIsOwn ==
    /\ waiter.settled \in Outputs => waiter.settled.turn = waiter.request
    /\ ~consumer.foreign

\* When the connection ends or the owner closes the client, whatever the call
\* awaits of the server has been rejected: nothing is left to a timer.
CloseReachesEveryone ==
    closed => /\ pending = {}
              /\ waiter.on => waiter.settled # None
              /\ call.pc \in AnswerPcs => call.reply # None
              /\ interrupt.pc = "asked" => interrupt.reply # None

\* The completion of the turn a call waits for is never missed, even if it comes
\* in the chunk that brings the response to turn/start.
CompletionIsNotMissed ==
    [][\A t \in Ids : turn[t].phase # "ended" /\ turn'[t].phase = "ended"
          /\ waiter.on /\ waiter.request = t => waiter'.settled # None]_vars

\* Every call ends, whatever the server does.
EveryCallEnds == call.pc # "idle" ~> call.pc = "idle"
=============================================================================
