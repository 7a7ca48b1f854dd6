-------------------------- MODULE CodexClientProofs --------------------------
(* Safety of the app-server client, for any number of calls, connections and  *)
(* requests, and whatever the server sends. The invariant says whose answer   *)
(* is awaited: the call has one request at a time, and the thread it asks for *)
(* a turn on has no other turn of this client.                                *)
EXTENDS CodexClient, TLAPS

\* What is awaited is pending, and nothing is awaited of a connection that has
\* ended.
Awaited ==
    /\ call.pc \in AnswerPcs /\ call.reply = None => \E p \in pending : p.for = "call"
    /\ interrupt.pc = "asked" /\ interrupt.reply = None => \E p \in pending : p.for = "interrupt"
    /\ closed => pending = {} /\ (waiter.on => waiter.settled # None)

\* Ids are given out once.
Numbered ==
    /\ \A p \in pending : p.id < nextId
    /\ \A q \in asked : q.id < nextId
    /\ \A t \in Ids : turn[t].phase # "none" => t < nextId
    /\ \A t \in Ids : turn[t].thread \in Ids => turn[t].thread < nextId
    /\ \A q \in asked : q.thread \in Ids => q.thread < nextId
    /\ call.reply \in Names /\ call.reply.id # None => call.reply.id < nextId
    /\ \A p, r \in pending : p.id = r.id => p = r
    /\ \A q, r \in asked : q.id = r.id => q = r

\* The call has one request at a time, that of the step it is in.
Matched ==
    /\ \A p, r \in pending : p.for = "call" /\ r.for = "call" => p = r
    /\ \A p \in pending : p.for = "call" => call.pc \in AnswerPcs /\ call.reply = None
    /\ \A p \in pending, q \in asked :
          p.id = q.id => q.method = (IF p.for = "call" THEN call.pc ELSE "interrupt")

\* No turn has been asked for on the thread.
Unused(thread) ==
    /\ \A t \in Ids : turn[t].thread # thread
    /\ \A q \in asked : q.method = "turn" => q.thread # thread

\* A thread has at most one turn of this client.
OneTurnPerThread ==
    /\ turn[Old].thread = Old
    /\ \A t \in Ids : turn[t].phase = "none" => turn[t].thread = None
    /\ call.made = 0 => call.pc = "idle"
    /\ call.made = 0 \/ (call.reuse /\ call.pc \in {"opening", "initialize", "account"})
          => Unused(Old)
    /\ call.pc = "thread" =>
          /\ \A p \in pending : p.for = "call" => Unused(p.id)
          /\ call.reply \in Names /\ call.reply.id # None => Unused(call.reply.id)

\* The waiter is that of the turn requested last.
Waiting ==
    /\ call.pc = "turn" => waiter.on
    /\ call.pc = "turn" => \A p \in pending : p.for = "call" => p.id = waiter.request
    /\ call.pc = "turn" /\ call.reply \in Names => call.reply.id \in {None, waiter.request}
    /\ waiter.on =>
          /\ waiter.request \in Ids /\ waiter.request < nextId
          /\ waiter.thread \in ThreadIds /\ waiter.thread < nextId
          /\ waiter.turn \in {None, waiter.request}
          /\ \A q \in asked : q.method = "turn" => (q.thread = waiter.thread <=> q.id = waiter.request)
          /\ \A q \in asked : q.id = waiter.request => q.method = "turn"
          /\ \A t \in Ids : turn[t].thread = waiter.thread => t = waiter.request
          /\ turn[waiter.request].phase # "none" => turn[waiter.request].thread = waiter.thread
          /\ turn[waiter.request].phase = "announced" => waiter.turn = waiter.request
    /\ ~waiter.on => waiter = IdleWaiter

\* Connections are opened one after the other, by the call that waits for them,
\* and a call that has got past its opening has one.
Connects ==
    /\ \E n \in 0 .. MaxSockets : \A s \in Sockets : socket[s] # "none" <=> s <= n
    /\ call.pc = "opening" => \E s \in Sockets : socket[s] # "none"
    /\ \A s \in Sockets : socket[s] \in {"connecting", "upgrading"}
          => call.pc = "opening" /\ call.reply = None
    /\ \A s, r \in Sockets : {socket[s], socket[r]} \subseteq {"connecting", "upgrading"} => s = r
    /\ connection # None => socket[connection] # "none"
    /\ initialized \/ call.pc \in AnswerPcs \cup {"cwd", "output", "again"} => connection # None

\* What a call may have been answered in its step.
Expected ==
    /\ call.pc \in {"opening", "initialize", "account"} => call.reply \in Errors \cup {Done, None}
    /\ call.pc = "thread" => \/ call.reply \in Errors \cup {None, Named(None, FALSE)}
                             \/ call.reply \in Names /\ call.reply.id # None
    /\ call.pc = "turn" => call.reply \in Errors \cup Names \cup {None}

CodexInv ==
    /\ TypeOK /\ Connects /\ Awaited /\ Numbered /\ Matched /\ OneTurnPerThread /\ Waiting
    /\ Expected /\ AnswerIsOwn

-----------------------------------------------------------------------------
(* What the steps write keeps its form                                       *)

LEMMA CallEdited ==
    ASSUME NEW c \in Calls
    PROVE  /\ \A r \in Replies : [c EXCEPT !.reply = r] \in Calls
           /\ \A p \in CallPcs : [c EXCEPT !.pc = p, !.reply = None] \in Calls
           /\ \A p \in CallPcs : [c EXCEPT !.pc = p, !.cwd = TRUE] \in Calls
           /\ \A p \in CallPcs : [c EXCEPT !.pc = p, !.cwd = FALSE] \in Calls
           /\ \A p \in CallPcs : [c EXCEPT !.pc = p, !.cwd = FALSE, !.structured = FALSE] \in Calls
           /\ \A p \in CallPcs : [c EXCEPT !.pc = p, !.reuse = FALSE, !.reply = None] \in Calls
           /\ \A p \in CallPcs, r \in Results :
                 [c EXCEPT !.pc = p, !.reply = None, !.result = r] \in Calls
           /\ \A p \in CallPcs, r \in Results :
                 [c EXCEPT !.pc = p, !.cwd = TRUE, !.result = r] \in Calls
BY DEF Calls, Replies

LEMMA WaiterEdited ==
    ASSUME NEW w \in Waiters
    PROVE  /\ \A r \in Results : [w EXCEPT !.settled = r] \in Waiters
           /\ \A t \in Turns \cup {None} : [w EXCEPT !.turn = t] \in Waiters
           /\ \A t \in Turns \cup {None}, r \in Results :
                 [w EXCEPT !.turn = t, !.settled = r] \in Waiters
           /\ \A r \in Results : Settled(w, r) \in Waiters
           /\ IdleWaiter \in Waiters
BY DEF Waiters, Settled, IdleWaiter, Results

LEMMA CallEnded ==
    ASSUME TypeOK, NEW r \in Results
    PROVE  Ended(r) \in Calls
BY CallEdited DEF TypeOK, Ended, CallPcs

LEMMA ValuesTyped ==
    /\ \A code \in ErrorCodes : Error(code) \in Errors
    /\ \A t \in Turns : Output(t) \in Outputs
    /\ Errors \subseteq Replies /\ Errors \subseteq Results /\ Outputs \subseteq Results
    /\ Names \subseteq Replies /\ Done \in Replies
    /\ Error("other") \in Errors /\ None \notin Errors
    /\ IdleCall \in [pc : CallPcs, made : {0}, reuse : {FALSE}, structured : {FALSE},
                     cwd : {FALSE}, reply : Replies, result : Results]
BY NoneAssumption DEF Errors, Outputs, Replies, Results, ErrorCodes, IdleCall, CallPcs

\* The requests are what TypeOK says.
RequestsOK ==
    /\ nextId \in 1 .. MaxRequests + 1
    /\ pending \subseteq [id : Ids, for : {"call", "interrupt"}]
    /\ asked \subseteq Requests

\* So are the connection and the owner.
WireOK ==
    /\ kind \in Kinds
    /\ owner \in {"holding", "released"}
    /\ socket \in [Sockets -> {"none", "connecting", "upgrading", "open", "ending", "closed"}]
    /\ connection \in Sockets \cup {None}
    /\ initialized \in BOOLEAN
    /\ closed \in BOOLEAN
    /\ schema \in {"unknown", "structured", "prompt_only"}

\* So are the call, its waiter and what its owner has.
CallOK ==
    /\ call \in Calls
    /\ waiter \in Waiters
    /\ consumer \in [refused : BOOLEAN, foreign : BOOLEAN]
    /\ interrupt \in [pc : {"idle", "asked", "done"}, reply : Errors \cup {Done, None}]

LEMMA AskTyped ==
    ASSUME TypeOK, NEW method \in AnswerPcs \cup {"interrupt"}, NEW for \in {"call", "interrupt"},
           NEW thread \in ThreadIds \cup {None}, NEW s \in Sockets, Ask(method, for, thread, s)
    PROVE  RequestsOK'
<1>1. nextId \in Ids /\ nextId + 1 \in 1 .. MaxRequests + 1
  BY CodexAssumption DEF TypeOK, Ask, Ids
<1>2. [id |-> nextId, for |-> for] \in [id : Ids, for : {"call", "interrupt"}]
  BY <1>1
<1>3. [id |-> nextId, method |-> method, socket |-> s, thread |-> thread] \in Requests
  BY <1>1 DEF Requests
<1> QED
  BY <1>1, <1>2, <1>3 DEF TypeOK, Ask, RequestsOK

LEMMA AskNextTyped ==
    ASSUME TypeOK, NEW method \in AnswerPcs, connection' \in Sockets, AskNext(method)
    PROVE  RequestsOK' /\ call' \in Calls
<1>1. CASE /\ Ask(method, "call", None, connection')
           /\ call' = [call EXCEPT !.pc = method, !.reply = None]
  <2>1. RequestsOK'
    BY <1>1, AskTyped
  <2>2. call' \in Calls
    BY <1>1, CallEdited DEF TypeOK, CallPcs
  <2> QED
    BY <2>1, <2>2
<1>2. CASE call' = Ended(Error("other")) /\ UNCHANGED requests
  BY <1>2, CallEnded, ValuesTyped DEF requests, RequestsOK, TypeOK
<1> QED
  BY <1>1, <1>2 DEF AskNext

LEMMA StartTurnTyped ==
    ASSUME TypeOK, NEW thread \in ThreadIds, connection \in Sockets, StartTurn(thread)
    PROVE  RequestsOK' /\ call' \in Calls /\ waiter' \in Waiters
<1>1. CASE /\ Ask("turn", "call", thread, connection)
           /\ waiter' = [on |-> TRUE, thread |-> thread, turn |-> None, settled |-> None,
                         request |-> nextId]
           /\ call' = [call EXCEPT !.pc = "turn", !.reply = None]
  <2>1. RequestsOK'
    BY <1>1, AskTyped DEF AnswerPcs
  <2>2. call' \in Calls
    BY <1>1, CallEdited DEF TypeOK, CallPcs, AnswerPcs
  <2>3. nextId \in Ids
    BY <1>1, CodexAssumption DEF TypeOK, Ask, Ids
  <2>4. waiter' \in Waiters
    BY <1>1, <2>3 DEF Waiters, Results
  <2> QED
    BY <2>1, <2>2, <2>4
<1>2. CASE call' = Ended(Error("other")) /\ waiter' = IdleWaiter /\ UNCHANGED requests
  BY <1>2, CallEnded, WaiterEdited, ValuesTyped DEF requests, RequestsOK, TypeOK
<1> QED
  BY <1>1, <1>2 DEF StartTurn

LEMMA ConnectionClosedTyped ==
    ASSUME TypeOK, ConnectionClosed
    PROVE  /\ closed' \in BOOLEAN /\ pending' \subseteq pending
           /\ call' \in Calls /\ waiter' \in Waiters
           /\ interrupt' \in [pc : {"idle", "asked", "done"}, reply : Errors \cup {Done, None}]
<1>1. Error("other") \in Replies /\ Error("other") \in Results /\ Error("other") \in Errors
  BY ValuesTyped
<1>2. [call EXCEPT !.reply = Error("other")] \in Calls /\ Settled(waiter, Error("other")) \in Waiters
  BY <1>1, CallEdited, WaiterEdited DEF TypeOK
<1> QED
  BY <1>1, <1>2 DEF TypeOK, ConnectionClosed, RejectAll

LEMMA SettleTyped ==
    ASSUME TypeOK, NEW id \in Ids, NEW reply \in Replies, Settle(id, reply),
           [id |-> id, for |-> "interrupt"] \in pending => reply \in Errors \cup {Done}
    PROVE  /\ pending' \subseteq pending /\ call' \in Calls
           /\ interrupt' \in [pc : {"idle", "asked", "done"}, reply : Errors \cup {Done, None}]
<1>1. [call EXCEPT !.reply = reply] \in Calls
  BY CallEdited DEF TypeOK
<1> QED
  BY <1>1 DEF TypeOK, Settle

-----------------------------------------------------------------------------
(* The types                                                                 *)

\* An open connection is the latest one.
LEMMA LatestExists ==
    ASSUME TypeOK, Connects, call.pc = "opening"
    PROVE  Latest \in Sockets /\ socket[Latest] # "none"
<1>1. PICK n \in 0 .. MaxSockets : \A s \in Sockets : socket[s] # "none" <=> s <= n
  BY DEF Connects
<1>2. PICK s \in Sockets : socket[s] # "none"
  BY DEF Connects
<1>3. n \in Sockets
  BY <1>1, <1>2, CodexAssumption DEF Sockets
<1>4. socket[n] # "none" /\ \A r \in Sockets : r > n => socket[r] = "none"
  BY <1>1, <1>3, CodexAssumption DEF Sockets
<1> QED
  BY <1>3, <1>4 DEF Latest

LEMMA WireStays ==
    ASSUME TypeOK, Connects, [Next]_vars
    PROVE  WireOK'
<1> USE DEF TypeOK, WireOK, connected
<1>1. ASSUME NEW s \in Sockets, Connected(s) PROVE WireOK'
  BY <1>1 DEF Connected
<1>2. ASSUME NEW s \in Sockets, Upgraded(s) PROVE WireOK'
  BY <1>2 DEF Upgraded
<1>3. ASSUME NEW s \in Sockets, OpeningFails(s) PROVE WireOK'
  BY <1>3 DEF OpeningFails
<1>4. ASSUME NEW s \in Sockets, StreamEnds(s) PROVE WireOK'
  BY <1>4 DEF StreamEnds, ConnectionClosed
<1>5. ASSUME NEW s \in Sockets, SocketEnds(s) PROVE WireOK'
  BY <1>5 DEF SocketEnds
<1>6. CASE Begin
  BY <1>6 DEF Begin
<1>7. CASE StartInterrupt
  BY <1>7 DEF StartInterrupt
<1>8. CASE Close
  BY <1>8 DEF Close, ConnectionClosed
<1>9. CASE ResumeOpening
  BY <1>9, LatestExists DEF ResumeOpening
<1>10. CASE ResumeInitialize
  BY <1>10 DEF ResumeInitialize
<1>11. CASE ResumeAccount
  BY <1>11 DEF ResumeAccount
<1>12. CASE ResumeThread
  BY <1>12 DEF ResumeThread
<1>13. CASE ResumeTurn
  BY <1>13 DEF ResumeTurn
<1>14. CASE ResumeOutput
  BY <1>14 DEF ResumeOutput
<1>15. CASE EndInterrupt
  BY <1>15 DEF EndInterrupt
<1>16. CASE MakeCwd
  BY <1>16 DEF MakeCwd
<1>17. CASE Cleanup
  BY <1>17 DEF Cleanup
<1>18. CASE RequestTimer
  BY <1>18 DEF RequestTimer
<1>19. CASE TurnTimer
  BY <1>19 DEF TurnTimer
<1>20. CASE Answer
  BY <1>20 DEF Answer
<1>21. CASE NotifyStarted
  BY <1>21 DEF NotifyStarted
<1>22. CASE NotifyItem
  BY <1>22 DEF NotifyItem
<1>23. CASE NotifyCompleted
  BY <1>23 DEF NotifyCompleted
<1>24. CASE UNCHANGED vars
  BY <1>24 DEF vars, connected, requests
<1> QED
  BY <1>1, <1>2, <1>3, <1>4, <1>5, <1>6, <1>7, <1>8, <1>9, <1>10, <1>11, <1>12, <1>13, <1>14,
     <1>15, <1>16, <1>17, <1>18, <1>19, <1>20, <1>21, <1>22, <1>23, <1>24
  DEF Next, Continue

LEMMA TurnsStay ==
    ASSUME TypeOK, [Next]_vars
    PROVE  turn' \in [Turns -> [phase : {"none", "created", "announced", "ended"},
                                thread : ThreadIds \cup {None}]]
<1> DEFINE Goal == turn' \in [Turns -> [phase : {"none", "created", "announced", "ended"},
                                        thread : ThreadIds \cup {None}]]
<1>1. ASSUME NEW s \in Sockets, Connected(s) PROVE Goal
  BY <1>1 DEF Connected, TypeOK
<1>2. ASSUME NEW s \in Sockets, Upgraded(s) PROVE Goal
  BY <1>2 DEF Upgraded, TypeOK
<1>3. ASSUME NEW s \in Sockets, OpeningFails(s) PROVE Goal
  BY <1>3 DEF OpeningFails, TypeOK
<1>4. ASSUME NEW s \in Sockets, StreamEnds(s) PROVE Goal
  BY <1>4 DEF StreamEnds, TypeOK
<1>5. ASSUME NEW s \in Sockets, SocketEnds(s) PROVE Goal
  BY <1>5 DEF SocketEnds, TypeOK
<1>6. CASE Begin
  BY <1>6 DEF Begin, TypeOK
<1>7. CASE StartInterrupt
  BY <1>7 DEF StartInterrupt, TypeOK
<1>8. CASE Close
  BY <1>8 DEF Close, TypeOK
<1>9. CASE ResumeOpening
  BY <1>9 DEF ResumeOpening, TypeOK
<1>10. CASE ResumeInitialize
  BY <1>10 DEF ResumeInitialize, TypeOK
<1>11. CASE ResumeAccount
  BY <1>11 DEF ResumeAccount, TypeOK
<1>12. CASE ResumeThread
  BY <1>12 DEF ResumeThread, TypeOK
<1>13. CASE ResumeTurn
  BY <1>13 DEF ResumeTurn, TypeOK
<1>14. CASE ResumeOutput
  BY <1>14 DEF ResumeOutput, TypeOK
<1>15. CASE EndInterrupt
  BY <1>15 DEF EndInterrupt, TypeOK
<1>16. CASE MakeCwd
  BY <1>16 DEF MakeCwd, TypeOK
<1>17. CASE Cleanup
  BY <1>17 DEF Cleanup, TypeOK
<1>18. CASE RequestTimer
  BY <1>18 DEF RequestTimer, TypeOK
<1>19. CASE TurnTimer
  BY <1>19 DEF TurnTimer, TypeOK
<1>20. CASE Answer
  <2>1. PICK q \in asked : \E reply \in AnswersTo(q) :
           turn' = IF q.method = "turn" /\ reply.kind = "named" /\ turn[q.id].phase = "none"
                   THEN [turn EXCEPT ![q.id] = [phase |-> "created", thread |-> q.thread]]
                   ELSE turn
    BY <1>20 DEF Answer
  <2>2. q.id \in Turns /\ q.thread \in ThreadIds \cup {None}
    BY DEF TypeOK, Requests, Turns
  <2> QED
    BY <2>1, <2>2 DEF TypeOK
<1>21. CASE NotifyStarted
  <2>1. PICK t \in Ids :
           LET creating == {q \in asked : q.id = t /\ q.method = "turn"}
               thread == IF creating = {} THEN turn[t].thread
                         ELSE (CHOOSE q \in creating : TRUE).thread
           IN  turn' = [turn EXCEPT ![t] = [phase |-> "announced", thread |-> thread]]
    BY <1>21 DEF NotifyStarted
  <2> DEFINE creating == {q \in asked : q.id = t /\ q.method = "turn"}
             thread == IF creating = {} THEN turn[t].thread ELSE (CHOOSE q \in creating : TRUE).thread
  <2>2. creating # {} => (CHOOSE q \in creating : TRUE) \in asked
    OBVIOUS
  <2>3. t \in Turns /\ thread \in ThreadIds \cup {None}
    BY <2>2 DEF TypeOK, Requests, Turns
  <2> QED
    BY <2>1, <2>3 DEF TypeOK
<1>22. CASE NotifyItem
  BY <1>22 DEF NotifyItem, TypeOK
<1>23. CASE NotifyCompleted
  <2>1. PICK t \in Turns : turn' = [turn EXCEPT ![t].phase = "ended"]
    BY <1>23 DEF NotifyCompleted
  <2> QED
    BY <2>1 DEF TypeOK
<1>24. CASE UNCHANGED vars
  BY <1>24 DEF vars, connected, requests, TypeOK
<1> QED
  BY <1>1, <1>2, <1>3, <1>4, <1>5, <1>6, <1>7, <1>8, <1>9, <1>10, <1>11, <1>12, <1>13, <1>14,
     <1>15, <1>16, <1>17, <1>18, <1>19, <1>20, <1>21, <1>22, <1>23, <1>24
  DEF Next, Continue

\* A name and whether the output comes with it are one of Names.
LEMMA NamesTyped ==
    ASSUME NEW id \in Ids \cup {None}, NEW output \in BOOLEAN
    PROVE  Named(id, output) \in Names
BY DEF Names

\* How the server answers.
LEMMA AnswersTyped ==
    ASSUME NEW q \in Requests, NEW reply, reply \in AnswersTo(q)
    PROVE  /\ reply \in Replies \ {None}
           /\ q.method \notin {"thread", "turn"} => reply \in Errors \cup {Done}
           /\ q.method = "thread" => reply \in Errors \cup {Named(q.id, FALSE), Named(None, FALSE)}
           /\ q.method = "turn" => \/ reply \in Errors /\ turn[q.id].phase = "none"
                                   \/ reply \in Names /\ reply.id \in {q.id, None}
<1>1. q.id \in Ids
  BY DEF Requests
<1>2. Error("other") \in Errors /\ Errors \subseteq Replies /\ Names \subseteq Replies /\ Done \in Replies
  BY ValuesTyped
<1>3. None \notin Errors \cup Names \cup {Done}
  BY NoneAssumption
<1>4. CASE q.method = "thread"
  <2>1. Named(q.id, FALSE) \in Names /\ Named(None, FALSE) \in Names
    BY <1>1, NamesTyped
  <2>2. reply \in {Named(q.id, FALSE), Named(None, FALSE), Error("other")}
    BY <1>4 DEF AnswersTo
  <2>3. reply \in Replies \ {None}
    BY <2>1, <2>2, <1>2, <1>3
  <2>4. reply \in Errors \cup {Named(q.id, FALSE), Named(None, FALSE)}
    BY <2>2, <1>2
  <2> QED
    BY <1>4, <2>3, <2>4
<1>5. CASE q.method = "turn"
  <2>1. \/ reply \in Errors /\ turn[q.id].phase = "none"
        \/ reply \in Names /\ reply.id \in {q.id, None}
    BY <1>5 DEF AnswersTo
  <2>2. reply \in Replies \ {None}
    BY <2>1, <1>2, <1>3
  <2>3. q.method \in {"thread", "turn"} /\ q.method # "thread"
    BY <1>5
  <2> QED
    BY ONLY <2>1, <2>2, <2>3
<1>6. CASE q.method \notin {"thread", "turn"}
  <2>1. reply \in {Done, Error("other")}
    BY <1>6 DEF AnswersTo
  <2> QED
    BY <1>2, <1>3, <1>6, <2>1
<1> QED
  BY <1>4, <1>5, <1>6

\* A reply that names something is one of Names.
LEMMA NamedReply ==
    ASSUME NEW r \in Replies, r # None, r.kind = "named"
    PROVE  r \in Names /\ r.id \in Ids \cup {None}
BY DEF Replies, Errors, Error, Done, Names, Named

LEMMA ExchangeStays ==
    ASSUME CodexInv, [Next]_vars
    PROVE  RequestsOK' /\ CallOK'
<1> USE DEF CodexInv
<1> DEFINE Goal == RequestsOK' /\ CallOK'
<1>0. /\ call \in Calls /\ waiter \in Waiters
      /\ consumer \in [refused : BOOLEAN, foreign : BOOLEAN]
  BY DEF TypeOK
<1>1. ASSUME NEW s \in Sockets, Connected(s) PROVE Goal
  BY <1>1 DEF Connected, TypeOK, RequestsOK, CallOK, requests
<1>2. ASSUME NEW s \in Sockets, Upgraded(s) PROVE Goal
  <2>1. call' \in Calls
    BY <1>2, CallEdited, ValuesTyped DEF Upgraded, TypeOK
  <2> QED
    BY <1>2, <2>1 DEF Upgraded, TypeOK, RequestsOK, CallOK, requests
<1>3. ASSUME NEW s \in Sockets, OpeningFails(s) PROVE Goal
  <2>1. call' \in Calls
    BY <1>3, CallEdited, ValuesTyped DEF OpeningFails, TypeOK
  <2> QED
    BY <1>3, <2>1 DEF OpeningFails, TypeOK, RequestsOK, CallOK, requests
<1>4. ASSUME NEW s \in Sockets, StreamEnds(s) PROVE Goal
  <2>1. ConnectionClosed /\ UNCHANGED <<nextId, asked, consumer>>
    BY <1>4 DEF StreamEnds
  <2> QED
    BY <2>1, ConnectionClosedTyped DEF TypeOK, RequestsOK, CallOK
<1>5. ASSUME NEW s \in Sockets, SocketEnds(s) PROVE Goal
  BY <1>5 DEF SocketEnds, TypeOK, RequestsOK, CallOK, requests
<1>6. CASE Begin
  <2>1. PICK reuse \in BOOLEAN :
          LET begun == [IdleCall EXCEPT !.made = call.made + 1, !.reuse = reuse,
                           !.structured = kind = "translation" /\ schema # "prompt_only"]
          IN  \/ call' = [begun EXCEPT !.result = Error("other")] /\ UNCHANGED requests
              \/ /\ initialized /\ Ask("account", "call", None, connection)
                 /\ call' = [begun EXCEPT !.pc = "account"]
              \/ call' = [begun EXCEPT !.pc = "opening"] /\ UNCHANGED requests
    BY <1>6 DEF Begin
  <2> DEFINE structured == kind = "translation" /\ schema # "prompt_only"
             begun == [IdleCall EXCEPT !.made = call.made + 1, !.reuse = reuse,
                          !.structured = structured]
  <2>2. call.made + 1 \in 0 .. MaxCalls
    <3>1. call.made \in 0 .. MaxCalls
      BY DEF TypeOK, Calls
    <3>2. call.made < (IF kind = "conversation" THEN 1 ELSE MaxCalls)
      BY <1>6 DEF Begin
    <3> QED
      BY <3>1, <3>2, CodexAssumption
  <2>3. /\ [begun EXCEPT !.result = Error("other")] \in Calls
        /\ [begun EXCEPT !.pc = "account"] \in Calls
        /\ [begun EXCEPT !.pc = "opening"] \in Calls
    BY ZenonT(60), <2>2, ValuesTyped DEF IdleCall, Calls, CallPcs, AnswerPcs, Replies
  <2>4. UNCHANGED requests \/ (initialized /\ Ask("account", "call", None, connection))
    BY <2>1
  <2>5. RequestsOK'
    BY <2>4, AskTyped DEF Connects, TypeOK, AnswerPcs, RequestsOK, requests
  <2>6. waiter' = waiter /\ consumer' = FreshConsumer /\ interrupt' = [pc |-> "idle", reply |-> None]
    BY <1>6 DEF Begin
  <2> QED
    BY <2>1, <2>3, <2>5, <2>6 DEF CallOK, TypeOK, FreshConsumer
<1>7. CASE StartInterrupt
  <2>1. connection \in Sockets /\ waiter.thread \in ThreadIds \cup {None}
    BY <1>7 DEF StartInterrupt, Connects, TypeOK, AnswerPcs, Waiters
  <2>2. RequestsOK'
    BY <1>7, <2>1, AskTyped DEF StartInterrupt
  <2> QED
    BY <1>7, <2>2 DEF StartInterrupt, CallOK, TypeOK
<1>8. CASE Close
  <2>1. ConnectionClosed /\ UNCHANGED <<nextId, asked, consumer>>
    BY <1>8 DEF Close
  <2> QED
    BY <2>1, ConnectionClosedTyped DEF TypeOK, RequestsOK, CallOK
<1>9. CASE ResumeOpening
  <2>1. CASE call.reply = Done /\ connection' = Latest /\ AskNext("initialize")
    <3>1. RequestsOK' /\ call' \in Calls
      BY <1>9, <2>1, LatestExists, AskNextTyped DEF ResumeOpening, AnswerPcs
    <3> QED
      BY <1>9, <3>1 DEF ResumeOpening, CallOK, TypeOK
  <2>2. CASE call' = Ended(call.reply) /\ call.reply # Done /\ UNCHANGED requests
    <3>1. call.reply \in Results
      BY <1>9, <2>2 DEF ResumeOpening, Expected, Results, AnswerPcs
    <3> QED
      BY <1>9, <2>2, <3>1, CallEnded DEF ResumeOpening, TypeOK, RequestsOK, CallOK, requests
  <2> QED
    BY <1>9, <2>1, <2>2 DEF ResumeOpening
<1>10. CASE ResumeInitialize
  <2>1. CASE call.reply = Done /\ UNCHANGED connection /\ AskNext("account")
    <3>1. connection' \in Sockets
      BY <1>10, <2>1 DEF ResumeInitialize, Connects, TypeOK, AnswerPcs
    <3>2. RequestsOK' /\ call' \in Calls
      BY <2>1, <3>1, AskNextTyped DEF AnswerPcs
    <3> QED
      BY <1>10, <3>2 DEF ResumeInitialize, CallOK, TypeOK
  <2>2. CASE call' = Ended(call.reply) /\ call.reply # Done /\ UNCHANGED requests
    <3>1. call.reply \in Results
      BY <1>10, <2>2 DEF ResumeInitialize, Expected, Results, AnswerPcs
    <3> QED
      BY <1>10, <2>2, <3>1, CallEnded DEF ResumeInitialize, TypeOK, RequestsOK, CallOK, requests
  <2> QED
    BY <1>10, <2>1, <2>2 DEF ResumeInitialize
<1>11. CASE ResumeAccount
  <2>1. CASE StartTurn(Old)
    <3>1. connection \in Sockets
      BY <1>11 DEF ResumeAccount, Connects, TypeOK, AnswerPcs
    <3>2. RequestsOK' /\ call' \in Calls /\ waiter' \in Waiters
      BY <2>1, <3>1, StartTurnTyped DEF ThreadIds, Old
    <3> QED
      BY <1>11, <3>2 DEF ResumeAccount, CallOK, TypeOK
  <2>2. CASE call' = [call EXCEPT !.pc = "cwd", !.reply = None] /\ UNCHANGED <<requests, waiter>>
    <3>1. call' \in Calls
      BY <2>2, CallEdited DEF TypeOK, CallPcs
    <3> QED
      BY <1>11, <2>2, <3>1 DEF ResumeAccount, TypeOK, RequestsOK, CallOK, requests
  <2>3. CASE call' = Ended(call.reply) /\ call.reply # Done /\ UNCHANGED <<requests, waiter>>
    <3>1. call.reply \in Results
      BY <1>11, <2>3 DEF ResumeAccount, Expected, Results, AnswerPcs
    <3> QED
      BY <1>11, <2>3, <3>1, CallEnded DEF ResumeAccount, TypeOK, RequestsOK, CallOK, requests
  <2> QED
    BY <1>11, <2>1, <2>2, <2>3 DEF ResumeAccount
<1>12. CASE ResumeThread
  <2>1. CASE /\ call.reply \notin Errors \cup {Named(None, FALSE)}
             /\ StartTurn(call.reply.id) /\ UNCHANGED consumer
    <3>1. connection \in Sockets
      BY <1>12 DEF ResumeThread, Connects, TypeOK, AnswerPcs
    <3>2. call.reply.id \in ThreadIds
      BY <1>12, <2>1 DEF ResumeThread, Expected, ThreadIds, Names, Named
    <3>3. RequestsOK' /\ call' \in Calls /\ waiter' \in Waiters
      BY <2>1, <3>1, <3>2, StartTurnTyped
    <3> QED
      BY <1>12, <2>1, <3>3 DEF ResumeThread, CallOK, TypeOK
  <2>2. CASE /\ call' = Ended(Error("other")) /\ UNCHANGED <<requests, waiter>>
             /\ consumer' \in {consumer, [consumer EXCEPT !.refused = TRUE]}
    <3>1. call' \in Calls
      BY <2>2, CallEnded, ValuesTyped
    <3> QED
      BY <1>12, <2>2, <3>1 DEF ResumeThread, TypeOK, RequestsOK, CallOK, requests
  <2> QED
    BY <1>12, <2>1, <2>2 DEF ResumeThread
<1>13. CASE ResumeTurn
  <2>1. CASE call.reply.kind = "error" /\ TurnRefused
    <3>1. call.reply \in Results
      BY <1>13, <2>1, ValuesTyped
      DEF ResumeTurn, TypeOK, Calls, Replies, Results, Names, Named, Done
    <3>2. call' \in Calls
      BY <2>1, <3>1, CallEnded, CallEdited DEF TurnRefused, TypeOK, CallPcs
    <3> QED
      BY <1>13, <2>1, <3>2, WaiterEdited
      DEF ResumeTurn, TurnRefused, TypeOK, RequestsOK, CallOK, requests
  <2>2. CASE call.reply.kind = "named" /\ TurnStarted
    <3>1. call.reply.id \in Turns \cup {None}
      <4>1. call.reply \in Replies
        BY DEF TypeOK, Calls
      <4> QED
        BY <1>13, <2>2, <4>1, NamedReply DEF ResumeTurn, Turns
    <3>2. [waiter EXCEPT !.turn = call.reply.id] \in Waiters /\ IdleWaiter \in Waiters
      BY <3>1, WaiterEdited DEF TypeOK
    <3>3. [waiter EXCEPT !.turn = waiter.turn] \in Waiters
      BY WaiterEdited DEF TypeOK, Waiters
    <3>4. waiter.request \in Ids
      BY <1>13 DEF ResumeTurn, Waiting
    <3>5. Output(waiter.request) \in Results /\ Error("other") \in Results
      BY <3>4, ValuesTyped DEF Turns
    <3>6. call' \in Calls
      <4>1. call' \in {Ended(Error("other")), Ended(Output(waiter.request)),
                       [call EXCEPT !.pc = "output", !.reply = None]}
        BY <2>2 DEF TurnStarted
      <4>2. [call EXCEPT !.pc = "output", !.reply = None] \in Calls
        BY <1>0, CallEdited DEF CallPcs
      <4>3. Ended(Error("other")) \in Calls /\ Ended(Output(waiter.request)) \in Calls
        BY <3>5, CallEnded
      <4> QED
        BY <4>1, <4>2, <4>3
    <3>7. waiter' \in Waiters
      BY <2>2, <3>2, <3>3 DEF TurnStarted
    <3>8. consumer' \in [refused : BOOLEAN, foreign : BOOLEAN]
      BY <2>2 DEF TurnStarted, Heard, TypeOK
    <3> QED
      BY <1>13, <3>6, <3>7, <3>8 DEF ResumeTurn, TypeOK, RequestsOK, CallOK, requests
  <2> QED
    BY <1>13, <2>1, <2>2 DEF ResumeTurn
<1>14. CASE ResumeOutput
  <2>1. call' \in Calls
    BY <1>14, CallEnded DEF ResumeOutput, TypeOK, Waiters
  <2> QED
    BY <1>14, <2>1, WaiterEdited DEF ResumeOutput, TypeOK, RequestsOK, CallOK, requests
<1>15. CASE EndInterrupt
  BY <1>15 DEF EndInterrupt, TypeOK, RequestsOK, CallOK, requests
<1>16. CASE MakeCwd
  <2>1. CASE /\ Ask("thread", "call", None, connection)
             /\ call' = [call EXCEPT !.pc = "thread", !.cwd = TRUE]
    <3>1. connection \in Sockets
      BY <1>16 DEF MakeCwd, Connects, TypeOK
    <3>2. RequestsOK'
      BY <2>1, <3>1, AskTyped DEF AnswerPcs
    <3>3. call' \in Calls
      BY <2>1, CallEdited DEF TypeOK, CallPcs, AnswerPcs
    <3> QED
      BY <1>16, <3>2, <3>3 DEF MakeCwd, CallOK, TypeOK
  <2>2. CASE /\ call' = [call EXCEPT !.pc = "cleanup", !.cwd = TRUE, !.result = Error("other")]
             /\ UNCHANGED requests
    <3>1. call' \in Calls
      BY <2>2, CallEdited, ValuesTyped DEF TypeOK, CallPcs
    <3> QED
      BY <1>16, <2>2, <3>1 DEF MakeCwd, TypeOK, RequestsOK, CallOK, requests
  <2>3. CASE call' = Ended(Error("other")) /\ UNCHANGED requests
    <3>1. call' \in Calls
      BY <2>3, CallEnded, ValuesTyped
    <3> QED
      BY <1>16, <2>3, <3>1 DEF MakeCwd, TypeOK, RequestsOK, CallOK, requests
  <2> QED
    BY <1>16, <2>1, <2>2, <2>3 DEF MakeCwd
<1>17. CASE Cleanup
  <2>3. \/ call' = [call EXCEPT !.pc = "idle", !.cwd = FALSE]
        \/ call' = [call EXCEPT !.pc = "cwd", !.cwd = FALSE, !.structured = FALSE]
    BY <1>17 DEF Cleanup
  <2>4. /\ [call EXCEPT !.pc = "idle", !.cwd = FALSE] \in Calls
        /\ [call EXCEPT !.pc = "cwd", !.cwd = FALSE, !.structured = FALSE] \in Calls
    BY <1>0, CallEdited DEF CallPcs
  <2>1. call' \in Calls
    BY <2>3, <2>4
  <2> QED
    BY <1>17, <2>1 DEF Cleanup, TypeOK, RequestsOK, CallOK, requests
<1>18. CASE RequestTimer
  <2>1. PICK p \in pending : Settle(p.id, Error("other"))
    BY <1>18 DEF RequestTimer
  <2>2. p.id \in Ids
    BY DEF TypeOK
  <2>3. /\ pending' \subseteq pending /\ call' \in Calls
        /\ interrupt' \in [pc : {"idle", "asked", "done"}, reply : Errors \cup {Done, None}]
    BY <2>1, <2>2, SettleTyped, ValuesTyped
  <2> QED
    BY <1>18, <2>3 DEF RequestTimer, TypeOK, RequestsOK, CallOK, requests
<1>19. CASE TurnTimer
  <2>1. waiter' \in Waiters
    BY <1>19, WaiterEdited, ValuesTyped DEF TurnTimer, TypeOK
  <2> QED
    BY <1>19, <2>1 DEF TurnTimer, TypeOK, RequestsOK, CallOK, requests
<1>20. CASE Answer
  <2>0. PICK q \in asked : \E reply \in AnswersTo(q) : Settle(q.id, reply) /\ asked' = asked \ {q}
    BY <1>20 DEF Answer
  <2>1. PICK reply \in AnswersTo(q) : Settle(q.id, reply) /\ asked' = asked \ {q}
    BY <2>0
  <2>2. q.id \in Ids /\ reply \in Replies
    BY AnswersTyped DEF TypeOK, Requests
  <2>3. [id |-> q.id, for |-> "interrupt"] \in pending => reply \in Errors \cup {Done}
    <3>1. q \in Requests
      BY DEF TypeOK
    <3>2. [id |-> q.id, for |-> "interrupt"] \in pending => q.method = "interrupt"
      BY DEF Matched
    <3> QED
      BY <3>1, <3>2, AnswersTyped
  <2>4. /\ pending' \subseteq pending /\ call' \in Calls
        /\ interrupt' \in [pc : {"idle", "asked", "done"}, reply : Errors \cup {Done, None}]
    BY <2>1, <2>2, <2>3, SettleTyped
  <2> QED
    BY <1>20, <2>1, <2>4 DEF Answer, TypeOK, RequestsOK, CallOK, requests
<1>21. CASE NotifyStarted
  <2>1. PICK t \in Ids, accepted \in BOOLEAN :
           \/ UNCHANGED <<waiter, consumer>>
           \/ waiter' = [waiter EXCEPT !.turn = t] /\ UNCHANGED consumer
           \/ waiter' = [waiter EXCEPT !.turn = t] /\ consumer' = Heard(consumer, t, TRUE)
           \/ /\ waiter' = [waiter EXCEPT !.turn = t, !.settled = Error("other")]
              /\ consumer' = Heard(consumer, t, FALSE)
    <3>1. PICK t \in Ids :
             LET creating == {q \in asked : q.id = t /\ q.method = "turn"}
                 thread == IF creating = {} THEN turn[t].thread ELSE (CHOOSE q \in creating : TRUE).thread
             IN  IF waiter.on /\ waiter.thread = thread
                 THEN \E accepted \in BOOLEAN :
                         \/ Announced(thread, t) /\ UNCHANGED consumer
                         \/ Announced(thread, t) /\ consumer' = Heard(consumer, t, TRUE)
                         \/ /\ waiter' = [waiter EXCEPT !.turn = t, !.settled = Error("other")]
                            /\ consumer' = Heard(consumer, t, FALSE)
                 ELSE UNCHANGED <<waiter, consumer>>
      BY <1>21 DEF NotifyStarted
    <3> QED
      BY <3>1, Zenon DEF Announced
  <2>2. /\ [waiter EXCEPT !.turn = t] \in Waiters
        /\ [waiter EXCEPT !.turn = t, !.settled = Error("other")] \in Waiters
    BY <1>0, WaiterEdited, ValuesTyped DEF Turns
  <2>3. waiter' \in Waiters
    BY <1>0, <2>1, <2>2
  <2>4. \A a \in BOOLEAN : Heard(consumer, t, a) \in [refused : BOOLEAN, foreign : BOOLEAN]
    BY <1>0 DEF Heard
  <2>5. consumer' \in [refused : BOOLEAN, foreign : BOOLEAN]
    BY <1>0, <2>1, <2>4
  <2> QED
    BY <1>21, <2>3, <2>5 DEF NotifyStarted, TypeOK, RequestsOK, CallOK, requests
<1>22. CASE NotifyItem
  <2>1. PICK t \in Turns, output \in BOOLEAN, accepted \in BOOLEAN :
           /\ consumer' = Heard(consumer, t, accepted)
           /\ waiter' = CASE ~accepted -> [waiter EXCEPT !.settled = Error("other")]
                          [] accepted /\ output -> [waiter EXCEPT !.settled = Output(t)]
                          [] OTHER -> waiter
    BY <1>22 DEF NotifyItem
  <2>2. waiter' \in {[waiter EXCEPT !.settled = Error("other")], waiter,
                    [waiter EXCEPT !.settled = Output(t)]}
    BY <2>1
  <2>3. waiter' \in Waiters
    <3>1. /\ [waiter EXCEPT !.settled = Error("other")] \in Waiters
          /\ [waiter EXCEPT !.settled = Output(t)] \in Waiters
      BY <1>0, WaiterEdited, ValuesTyped
    <3> QED
      BY <1>0, <2>2, <3>1
  <2>4. consumer' \in [refused : BOOLEAN, foreign : BOOLEAN]
    BY <1>0, <2>1 DEF Heard
  <2> QED
    BY <1>22, <2>3, <2>4 DEF NotifyItem, TypeOK, RequestsOK, CallOK, requests
<1>23. CASE NotifyCompleted
  <2>1. PICK t \in Turns :
           waiter' \in {waiter, Settled(waiter, Output(t)), Settled(waiter, Error("other"))}
    BY <1>23 DEF NotifyCompleted
  <2>2. waiter' \in Waiters
    <3>1. Settled(waiter, Output(t)) \in Waiters /\ Settled(waiter, Error("other")) \in Waiters
      BY <1>0, WaiterEdited, ValuesTyped
    <3> QED
      BY <1>0, <2>1, <3>1
  <2> QED
    BY <1>23, <2>2 DEF NotifyCompleted, TypeOK, RequestsOK, CallOK, requests
<1>24. CASE UNCHANGED vars
  BY <1>24 DEF vars, TypeOK, RequestsOK, CallOK, requests
<1> QED
  BY <1>1, <1>2, <1>3, <1>4, <1>5, <1>6, <1>7, <1>8, <1>9, <1>10, <1>11, <1>12, <1>13, <1>14,
     <1>15, <1>16, <1>17, <1>18, <1>19, <1>20, <1>21, <1>22, <1>23, <1>24
  DEF Next, Continue

-----------------------------------------------------------------------------
(* What is awaited                                                           *)

\* The kinds of values tell them apart.
LEMMA Apart ==
    /\ None \notin Errors \cup Names \cup Outputs \cup {Done}
    /\ \A e \in Errors : e.kind = "error"
    /\ \A n \in Names : n.kind = "named"
    /\ \A o \in Outputs : o.kind = "output"
    /\ Done.kind = "done"
    /\ Error("other") \in Errors
<1>1. None \notin Errors \cup Names \cup Outputs \cup {Done}
  BY NoneAssumption
<1>2. (\A e \in Errors : e.kind = "error") /\ Error("other") \in Errors
  BY DEF Errors, Error, ErrorCodes
<1>3. \A n \in Names : n.kind = "named"
  BY DEF Names, Named
<1>4. (\A o \in Outputs : o.kind = "output") /\ Done.kind = "done"
  BY DEF Outputs, Output, Done
<1> QED
  BY <1>1, <1>2, <1>3, <1>4

LEMMA ConnectsStays ==
    ASSUME CodexInv, TypeOK', [Next]_vars
    PROVE  Connects'
<1>0. /\ call \in Calls /\ TypeOK /\ connection \in Sockets \cup {None}
      /\ socket \in [Sockets -> {"none", "connecting", "upgrading", "open", "ending", "closed"}]
  BY DEF CodexInv, TypeOK
<1> USE DEF CodexInv
<1>1. ASSUME NEW s \in Sockets, Connected(s) PROVE Connects'
  BY <1>1, <1>0, Apart DEF Connected, Connects, connected, Calls
<1>2. ASSUME NEW s \in Sockets, Upgraded(s) PROVE Connects'
  BY <1>2, <1>0, Apart DEF Upgraded, Connects, connected, Calls
<1>3. ASSUME NEW s \in Sockets, OpeningFails(s) PROVE Connects'
  BY <1>3, <1>0, Apart DEF OpeningFails, Connects, connected, Calls
<1>4. ASSUME NEW s \in Sockets, StreamEnds(s) PROVE Connects'
  BY <1>4, <1>0, Apart
  DEF StreamEnds, ConnectionClosed, RejectAll, Matched, AnswerPcs, Connects, connected, Calls
<1>5. ASSUME NEW s \in Sockets, SocketEnds(s) PROVE Connects'
  BY <1>5, <1>0, Apart DEF SocketEnds, Connects, connected, Calls
<1>6. CASE Begin
  <2>1. PICK n \in 0 .. MaxSockets : \A s \in Sockets : socket[s] # "none" <=> s <= n
    BY <1>0 DEF Connects
  <2>2. \A s \in Sockets : socket[s] \notin {"connecting", "upgrading"}
    BY <1>6, <1>0 DEF Begin, Connects
  <2>3. connection' = connection /\ initialized' = initialized
    BY <1>6 DEF Begin, connected
  <2>4. CASE /\ socket' = socket /\ call'.pc \in {"idle", "account"}
             /\ call'.pc = "account" => initialized
    BY <1>0, <2>1, <2>2, <2>3, <2>4, CodexAssumption DEF Connects, AnswerPcs, Sockets
  <2>5. ASSUME NEW s \in Sockets, socket[s] = "none", \A r \in Sockets : r < s => socket[r] # "none",
               socket' = [socket EXCEPT ![s] = "connecting"], call'.pc = "opening", call'.reply = None
        PROVE  Connects'
    <3>1. s = n + 1
      BY <2>1, <2>5, CodexAssumption DEF Sockets
    <3>2. n + 1 \in 0 .. MaxSockets /\ \A r \in Sockets : socket'[r] # "none" <=> r <= n + 1
      BY <1>0, <2>1, <2>5, <3>1, CodexAssumption DEF Sockets
    <3>3. \A r \in Sockets : socket'[r] = IF r = s THEN "connecting" ELSE socket[r]
      BY <1>0, <2>5
    <3> QED
      BY <1>0, <2>2, <2>3, <2>5, <3>2, <3>3 DEF Connects, AnswerPcs
  <2> QED
    BY <1>6, <1>0, <2>4, <2>5 DEF Begin, IdleCall
<1>7. CASE StartInterrupt
  BY <1>7, <1>0, Apart DEF StartInterrupt, Connects, connected, Calls
<1>8. CASE Close
  BY <1>8, <1>0, Apart
  DEF Close, ConnectionClosed, RejectAll, Matched, AnswerPcs, TypeOK, Connects, connected,
      Calls
<1>9. CASE ResumeOpening
  <2>1. Latest \in Sockets /\ socket[Latest] # "none"
    BY <1>9, <1>0, LatestExists DEF ResumeOpening
  <2>2. /\ call'.pc \in {"initialize", "idle", "cleanup"}
        /\ connection' = Latest \/ (connection' = connection /\ call'.pc # "initialize")
    BY <1>9, <1>0 DEF ResumeOpening, AskNext, Ended, Calls
  <2>3. \A s \in Sockets : socket[s] \notin {"connecting", "upgrading"}
    BY <1>9 DEF ResumeOpening, Connects
  <2>4. socket' = socket /\ initialized' = initialized
    BY <1>9 DEF ResumeOpening
  <2>5. Latest # None
    BY <2>1, CodexAssumption DEF Sockets
  <2>6. connection' # None => socket[connection'] # "none"
    BY <2>1, <2>2 DEF Connects
  <2>7. initialized' \/ call'.pc \in AnswerPcs \cup {"cwd", "output", "again"} => connection' # None
    BY <2>2, <2>4, <2>5 DEF Connects, AnswerPcs
  <2> QED
    BY <2>2, <2>3, <2>4, <2>6, <2>7 DEF Connects
<1>10. CASE ResumeInitialize
  BY <1>10, <1>0, Apart
  DEF ResumeInitialize, AskNext, Ended, AnswerPcs, Connects, connected, Calls
<1>11. CASE ResumeAccount
  BY <1>11, <1>0, Apart DEF ResumeAccount, StartTurn, Ended, AnswerPcs, Connects, connected, Calls
<1>12. CASE ResumeThread
  BY <1>12, <1>0, Apart DEF ResumeThread, StartTurn, Ended, AnswerPcs, Connects, connected, Calls
<1>13. CASE ResumeTurn
  BY <1>13, <1>0, Apart
  DEF ResumeTurn, TurnRefused, TurnStarted, Ended, AnswerPcs, Connects, connected, Calls
<1>14. CASE ResumeOutput
  BY <1>14, <1>0, Apart DEF ResumeOutput, Ended, AnswerPcs, Connects, connected, Calls
<1>15. CASE EndInterrupt
  BY <1>15, <1>0, Apart DEF EndInterrupt, Connects, connected, Calls
<1>16. CASE MakeCwd
  BY <1>16, <1>0, Apart DEF MakeCwd, Ended, AnswerPcs, Connects, connected, Calls
<1>17. CASE Cleanup
  BY <1>17, <1>0, Apart DEF Cleanup, AnswerPcs, Connects, connected, Calls
<1>18. CASE RequestTimer
  BY <1>18, <1>0, Apart DEF RequestTimer, Settle, Matched, AnswerPcs, Connects, connected, Calls
<1>19. CASE TurnTimer
  BY <1>19, <1>0, Apart DEF TurnTimer, Connects, connected, Calls
<1>20. CASE Answer
  BY <1>20, <1>0, Apart DEF Answer, Settle, Matched, AnswerPcs, Connects, connected, Calls
<1>21. CASE NotifyStarted
  BY <1>21, <1>0, Apart DEF NotifyStarted, Connects, connected, Calls
<1>22. CASE NotifyItem
  BY <1>22, <1>0, Apart DEF NotifyItem, Connects, connected, Calls
<1>23. CASE NotifyCompleted
  BY <1>23, <1>0, Apart DEF NotifyCompleted, Connects, connected, Calls
<1>24. CASE UNCHANGED vars
  BY <1>24, <1>0, Apart DEF vars, connected, requests, Connects, Calls
<1> QED
  BY <1>1, <1>2, <1>3, <1>4, <1>5, <1>6, <1>7, <1>8, <1>9, <1>10, <1>11, <1>12, <1>13, <1>14,
     <1>15, <1>16, <1>17, <1>18, <1>19, <1>20, <1>21, <1>22, <1>23, <1>24
  DEF Next, Continue

-----------------------------------------------------------------------------
(* What the steps do to the call and its requests                            *)

\* The call goes on, without a request or with one of its own. A turn is asked
\* for on the thread to reuse, or on the one the call has been told of.
CallMoves ==
    /\ call.pc \in AnswerPcs => call.reply # None
    /\ call.pc # "opening" \/ call.reply # None
    /\ call'.reply = None
    /\ UNCHANGED <<closed, turn>>
    /\ interrupt' \in {interrupt, [pc |-> "idle", reply |-> None]}
    /\ \/ call.pc = "idle" /\ call'.made > 0 /\ (call'.reuse => call.made = 0)
       \/ /\ call.pc # "idle" /\ call'.made = call.made /\ (call'.reuse => call.reuse)
          /\ call'.pc = "opening" => FALSE
          /\ call'.pc \in {"initialize", "account"} => call.pc \in {"opening", "initialize"}
    /\ \/ /\ call'.pc \in CallPcs \ AnswerPcs
          /\ UNCHANGED requests
          /\ \/ waiter' = IdleWaiter
             \/ waiter' = waiter /\ call.pc # "turn"
             \/ /\ call.pc = "turn" /\ call'.pc = "output"
                /\ call.reply \in Names
                /\ waiter' = [waiter EXCEPT !.turn = IF call.reply.id = None THEN waiter.turn
                                                     ELSE call.reply.id]
       \/ /\ ~closed /\ call'.pc \in AnswerPcs \ {"turn"}
          /\ \E s \in Sockets : Ask(call'.pc, "call", None, s)
          /\ waiter' = waiter /\ call.pc # "turn"
       \/ /\ ~closed /\ call'.pc = "turn"
          /\ \E thread \in ThreadIds :
                /\ \/ call.pc = "account" /\ call.reuse /\ thread = Old
                   \/ call.pc = "thread" /\ call.reply \in Names /\ thread = call.reply.id
                /\ \E s \in Sockets : Ask("turn", "call", thread, s)
                /\ waiter' = [on |-> TRUE, thread |-> thread, turn |-> None, settled |-> None,
                              request |-> nextId]

\* What a request adds.
LEMMA AskAdds ==
    ASSUME CodexInv, NEW method, NEW for, NEW thread, NEW s, Ask(method, for, thread, s)
    PROVE  /\ nextId \in Ids /\ nextId' = nextId + 1
           /\ [id |-> nextId, for |-> for] \in pending'
           /\ pending \subseteq pending' /\ asked \subseteq asked'
           /\ \A p \in pending' : p \in pending \/ p = [id |-> nextId, for |-> for]
           /\ \A q \in asked' : \/ q \in asked
                                \/ q = [id |-> nextId, method |-> method, socket |-> s,
                                        thread |-> thread]
BY CodexAssumption DEF CodexInv, TypeOK, Ask, Ids

LEMMA BeginMoves ==
    ASSUME CodexInv, Begin
    PROVE  CallMoves
<1>1. call \in Calls /\ connection \in Sockets \cup {None} /\ call.pc = "idle" /\ call.made \in Nat
  BY CodexAssumption DEF CodexInv, TypeOK, Calls, Begin
<1>2. initialized => connection \in Sockets
  BY <1>1 DEF CodexInv, Connects
<1>3. call'.reply = None /\ call'.made > 0 /\ (call'.reuse => call.made = 0)
  <2>1. call.made < (IF kind = "conversation" THEN 1 ELSE MaxCalls)
    BY DEF Begin
  <2>2. PICK reuse \in BOOLEAN :
          /\ reuse => kind = "conversation"
          /\ call'.made = call.made + 1 /\ call'.reuse = reuse /\ call'.reply = None
    BY DEF Begin, IdleCall
  <2> QED
    BY <1>1, <2>1, <2>2
<1>4. \/ call'.pc \in {"idle", "opening"} /\ UNCHANGED requests
      \/ ~closed /\ initialized /\ call'.pc = "account" /\ Ask("account", "call", None, connection)
  BY DEF Begin, IdleCall
<1>5. \/ call'.pc \in CallPcs \ AnswerPcs /\ UNCHANGED requests
      \/ /\ ~closed /\ call'.pc \in AnswerPcs \ {"turn"}
         /\ \E s \in Sockets : Ask(call'.pc, "call", None, s)
  <2>1. CASE call'.pc \in {"idle", "opening"} /\ UNCHANGED requests
    BY <2>1 DEF CallPcs, AnswerPcs
  <2>2. CASE /\ ~closed /\ initialized /\ call'.pc = "account"
             /\ Ask("account", "call", None, connection)
    BY <1>2, <2>2 DEF AnswerPcs
  <2> QED
    BY <1>4, <2>1, <2>2
<1>6. UNCHANGED <<closed, turn, waiter>> /\ interrupt' = [pc |-> "idle", reply |-> None]
  BY DEF Begin, connected
<1>7. /\ call.pc \in AnswerPcs => call.reply # None
      /\ call.pc # "opening" \/ call.reply # None
      /\ call.pc # "turn"
  BY <1>1 DEF AnswerPcs
<1> QED
  BY <1>1, <1>3, <1>5, <1>6, <1>7 DEF CallMoves

LEMMA OwnMoves ==
    ASSUME CodexInv,
           \/ ResumeOpening \/ ResumeInitialize \/ ResumeAccount \/ ResumeThread \/ ResumeTurn
           \/ ResumeOutput \/ MakeCwd \/ Cleanup
    PROVE  CallMoves
<1>0. /\ call \in Calls /\ connection \in Sockets \cup {None} /\ call.reply \in Replies
      /\ waiter \in Waiters
  BY DEF CodexInv, TypeOK, Calls
<1>1. \A r : /\ Ended(r).pc \in {"idle", "cleanup"} /\ Ended(r).reply = None
             /\ Ended(r).made = call.made /\ Ended(r).reuse = call.reuse
  BY <1>0 DEF Ended, Calls
<1>2. {"idle", "cleanup", "output", "again", "cwd"} \subseteq CallPcs \ AnswerPcs
  BY DEF CallPcs, AnswerPcs
<1>3. ASSUME NEW method \in {"initialize", "account"}, AskNext(method), connection' \in Sockets,
             UNCHANGED <<closed, turn, interrupt, waiter>>, call.reply # None,
             call.pc \in {"opening", "initialize"}
      PROVE  CallMoves
  <2>1. CASE /\ ~closed /\ Ask(method, "call", None, connection')
             /\ call' = [call EXCEPT !.pc = method, !.reply = None]
    <3>1. /\ call'.pc = method /\ call'.reply = None /\ call'.made = call.made
          /\ call'.reuse = call.reuse
      BY <1>0, <2>1 DEF Calls
    <3>2. method \in AnswerPcs \ {"turn"}
      BY DEF AnswerPcs
    <3>3. \E s \in Sockets : Ask(call'.pc, "call", None, s)
      BY <1>3, <2>1, <3>1
    <3>4. call'.pc # "opening" /\ call.pc \notin {"idle", "turn"}
      BY <1>3, <3>1
    <3> QED
      BY <1>3, <2>1, <3>1, <3>2, <3>3, <3>4 DEF CallMoves
  <2>2. CASE call' = Ended(Error("other")) /\ UNCHANGED requests
    BY <1>1, <1>2, <1>3, <2>2 DEF CallMoves
  <2> QED
    BY <1>3, <2>1, <2>2 DEF AskNext
<1>4. ASSUME NEW thread \in ThreadIds, StartTurn(thread), connection \in Sockets,
             UNCHANGED <<closed, turn, interrupt>>, call.reply # None,
             \/ call.pc = "account" /\ call.reuse /\ thread = Old
             \/ call.pc = "thread" /\ call.reply \in Names /\ thread = call.reply.id
      PROVE  CallMoves
  <2>1. CASE /\ ~closed /\ Ask("turn", "call", thread, connection)
             /\ waiter' = [on |-> TRUE, thread |-> thread, turn |-> None, settled |-> None,
                           request |-> nextId]
             /\ call' = [call EXCEPT !.pc = "turn", !.reply = None]
    <3>1. /\ call'.pc = "turn" /\ call'.reply = None /\ call'.made = call.made
          /\ call'.reuse = call.reuse
      BY <1>0, <2>1 DEF Calls
    <3>2. \E s \in Sockets : Ask("turn", "call", thread, s)
      BY <1>4, <2>1
    <3>3. call.pc \notin {"idle", "opening"}
      BY <1>4
    <3> QED
      BY <1>4, <2>1, <3>1, <3>2, <3>3 DEF CallMoves
  <2>2. CASE call' = Ended(Error("other")) /\ waiter' = IdleWaiter /\ UNCHANGED requests
    BY <1>1, <1>2, <1>4, <2>2 DEF CallMoves
  <2> QED
    BY <1>4, <2>1, <2>2 DEF StartTurn
<1>5. ASSUME call'.pc \in {"idle", "cleanup", "output", "again", "cwd"}, UNCHANGED requests,
             call'.reply = None, call'.made = call.made, call'.reuse => call.reuse,
             UNCHANGED <<closed, turn, interrupt>>, call.pc # "idle",
             call.pc \in AnswerPcs \cup {"opening"} => call.reply # None,
             \/ waiter' = IdleWaiter
             \/ waiter' = waiter /\ call.pc # "turn"
             \/ /\ call.pc = "turn" /\ call'.pc = "output"
                /\ call.reply \in Names
                /\ waiter' = [waiter EXCEPT !.turn = IF call.reply.id = None THEN waiter.turn
                                                     ELSE call.reply.id]
      PROVE  CallMoves
  BY <1>2, <1>5 DEF CallMoves
<1>6. CASE ResumeOpening
  <2>1. Latest \in Sockets
    BY <1>6, LatestExists DEF ResumeOpening, CodexInv
  <2>2. UNCHANGED <<closed, turn, interrupt, waiter>> /\ call.reply # None /\ call.pc = "opening"
    BY <1>6 DEF ResumeOpening
  <2>3. CASE connection' = Latest /\ AskNext("initialize")
    BY <1>3, <2>1, <2>2, <2>3
  <2>4. CASE call' = Ended(call.reply) /\ UNCHANGED requests
    BY <1>1, <1>5, <2>2, <2>4
  <2> QED
    BY <1>6, <2>3, <2>4 DEF ResumeOpening
<1>7. CASE ResumeInitialize
  <2>1. connection \in Sockets
    BY <1>0, <1>7 DEF ResumeInitialize, CodexInv, Connects, AnswerPcs
  <2>2. UNCHANGED <<closed, turn, interrupt, waiter>> /\ call.reply # None /\ call.pc = "initialize"
    BY <1>7 DEF ResumeInitialize
  <2>3. CASE connection' = connection /\ AskNext("account")
    BY <1>3, <2>1, <2>2, <2>3
  <2>4. CASE call' = Ended(call.reply) /\ UNCHANGED requests
    BY <1>1, <1>5, <2>2, <2>4
  <2> QED
    BY <1>7, <2>3, <2>4 DEF ResumeInitialize
<1>8. CASE ResumeAccount
  <2>1. connection \in Sockets
    BY <1>0, <1>8 DEF ResumeAccount, CodexInv, Connects, AnswerPcs
  <2>2. UNCHANGED <<closed, turn, interrupt>> /\ call.reply # None /\ call.pc = "account"
    BY <1>8 DEF ResumeAccount, connected
  <2>3. CASE call.reuse /\ StartTurn(Old)
    BY <1>4, <2>1, <2>2, <2>3 DEF ThreadIds
  <2>4. CASE call' = [call EXCEPT !.pc = "cwd", !.reply = None] /\ UNCHANGED <<requests, waiter>>
    <3>1. /\ call'.pc = "cwd" /\ call'.reply = None /\ call'.made = call.made
          /\ call'.reuse = call.reuse
      BY <1>0, <2>4 DEF Calls
    <3> QED
      BY <1>5, <2>2, <2>4, <3>1
  <2>5. CASE call' = Ended(call.reply) /\ UNCHANGED <<requests, waiter>>
    BY <1>1, <1>5, <2>2, <2>5
  <2> QED
    BY <1>8, <2>3, <2>4, <2>5 DEF ResumeAccount
<1>9. CASE ResumeThread
  <2>1. connection \in Sockets
    BY <1>0, <1>9 DEF ResumeThread, CodexInv, Connects, AnswerPcs
  <2>2. UNCHANGED <<closed, turn, interrupt>> /\ call.reply # None /\ call.pc = "thread"
    BY <1>9 DEF ResumeThread, connected
  <2>3. CASE call.reply \notin Errors \cup {Named(None, FALSE)} /\ StartTurn(call.reply.id)
    <3>1. call.reply \in Names /\ call.reply.id # None
      BY <2>2, <2>3 DEF CodexInv, Expected
    <3>2. call.reply.id \in ThreadIds
      BY <3>1 DEF Names, Named, ThreadIds
    <3> QED
      BY <1>4, <2>1, <2>2, <2>3, <3>1, <3>2
  <2>4. CASE call' = Ended(Error("other")) /\ UNCHANGED <<requests, waiter>>
    BY <1>1, <1>5, <2>2, <2>4
  <2> QED
    BY <1>9, <2>3, <2>4 DEF ResumeThread
<1>10. CASE ResumeTurn
  <2>1. UNCHANGED <<closed, turn, interrupt, requests>> /\ call.reply # None /\ call.pc = "turn"
    BY <1>10 DEF ResumeTurn, connected
  <2>2. CASE TurnRefused
    <3>1. waiter' = IdleWaiter
      BY <2>2 DEF TurnRefused
    <3>2. \/ call' = [call EXCEPT !.pc = "again", !.reply = None]
          \/ call' = [call EXCEPT !.pc = "cwd", !.reuse = FALSE, !.reply = None]
          \/ call' = Ended(call.reply)
      BY <2>2 DEF TurnRefused
    <3>3. /\ call'.pc \in {"idle", "cleanup", "again", "cwd"} /\ call'.reply = None
          /\ call'.made = call.made /\ (call'.reuse => call.reuse)
      BY <1>0, <1>1, <3>2 DEF Calls
    <3> QED
      BY <1>5, <2>1, <3>1, <3>3
  <2>3. CASE call.reply.kind = "named" /\ TurnStarted
    <3>1. call.reply \in Names
      BY <1>0, <2>1, <2>3, NamedReply
    <3>2. \/ waiter' = IdleWaiter /\ call' \in {Ended(Error("other")), Ended(Output(waiter.request))}
          \/ /\ waiter' = [waiter EXCEPT !.turn = IF call.reply.id # None THEN call.reply.id
                                                  ELSE waiter.turn]
             /\ call' = [call EXCEPT !.pc = "output", !.reply = None]
      BY <2>3 DEF TurnStarted
    <3>3. CASE /\ waiter' = IdleWaiter
               /\ call' \in {Ended(Error("other")), Ended(Output(waiter.request))}
      BY <1>1, <1>5, <2>1, <3>3
    <3>4. CASE /\ waiter' = [waiter EXCEPT !.turn = IF call.reply.id # None THEN call.reply.id
                                                    ELSE waiter.turn]
               /\ call' = [call EXCEPT !.pc = "output", !.reply = None]
      <4>1. /\ call'.pc = "output" /\ call'.reply = None /\ call'.made = call.made
            /\ call'.reuse = call.reuse
        BY <1>0, <3>4 DEF Calls
      <4>2. waiter' = [waiter EXCEPT !.turn = IF call.reply.id = None THEN waiter.turn
                                              ELSE call.reply.id]
        BY <3>4
      <4> QED
        BY <1>5, <2>1, <3>1, <4>1, <4>2
    <3> QED
      BY <3>2, <3>3, <3>4
  <2> QED
    BY <1>10, <2>2, <2>3 DEF ResumeTurn
<1>11. CASE ResumeOutput
  BY <1>1, <1>5, <1>11 DEF ResumeOutput, connected, AnswerPcs
<1>12. CASE MakeCwd
  <2>1. connection \in Sockets /\ connection' = connection
    BY <1>0, <1>12 DEF MakeCwd, CodexInv, Connects
  <2>2. UNCHANGED <<closed, turn, interrupt, waiter>> /\ call.pc = "cwd" /\ call.reply = None
    BY <1>12 DEF MakeCwd, Resumable
  <2>3. CASE /\ ~closed /\ Ask("thread", "call", None, connection)
             /\ call' = [call EXCEPT !.pc = "thread", !.cwd = TRUE]
    <3>1. /\ call'.pc = "thread" /\ call'.reply = None /\ call'.made = call.made
          /\ call'.reuse = call.reuse
      BY <1>0, <2>2, <2>3 DEF Calls
    <3>2. \E s \in Sockets : Ask(call'.pc, "call", None, s)
      BY <2>1, <2>3, <3>1
    <3>3. "thread" \in AnswerPcs \ {"turn"} /\ "cwd" \notin AnswerPcs
      BY DEF AnswerPcs
    <3> QED
      BY <2>2, <2>3, <3>1, <3>2, <3>3 DEF CallMoves
  <2>4. CASE /\ call' = [call EXCEPT !.pc = "cleanup", !.cwd = TRUE, !.result = Error("other")]
             /\ UNCHANGED requests
    <3>1. /\ call'.pc = "cleanup" /\ call'.reply = None /\ call'.made = call.made
          /\ call'.reuse = call.reuse
      BY <1>0, <2>2, <2>4 DEF Calls
    <3> QED
      BY <1>2, <1>5, <2>2, <2>4, <3>1
  <2>5. CASE call' = Ended(Error("other")) /\ UNCHANGED requests
    BY <1>1, <1>2, <1>5, <2>2, <2>5
  <2> QED
    BY <1>12, <2>3, <2>4, <2>5 DEF MakeCwd
<1>13. CASE Cleanup
  <2>1. /\ UNCHANGED <<closed, turn, interrupt, waiter, requests>>
        /\ call.pc \in {"cleanup", "again"} /\ call.reply = None
    BY <1>13 DEF Cleanup, Resumable, connected
  <2>2. /\ call'.pc \in {"idle", "cwd"} /\ call'.reply = None /\ call'.made = call.made
        /\ call'.reuse = call.reuse
    BY <1>0, <1>13, <2>1 DEF Cleanup, Calls
  <2>3. call.pc \notin AnswerPcs \cup {"opening"}
    BY <2>1 DEF AnswerPcs
  <2> QED
    BY <1>5, <2>1, <2>2, <2>3
<1> QED
  BY <1>6, <1>7, <1>8, <1>9, <1>10, <1>11, <1>12, <1>13

\* What a step may do to the call, its requests and its waiter.
LEMMA StepKinds ==
    ASSUME CodexInv, [Next]_vars
    PROVE  \/ CallMoves
           \/ \E s \in Sockets : Upgraded(s) \/ OpeningFails(s)
           \/ StartInterrupt \/ EndInterrupt
           \/ ConnectionClosed /\ UNCHANGED <<nextId, asked, consumer, turn>>
           \/ RequestTimer \/ TurnTimer
           \/ Answer \/ NotifyStarted \/ NotifyItem \/ NotifyCompleted
           \/ UNCHANGED <<requests, call, waiter, consumer, interrupt, closed, turn>>
<1>1. CASE \E s \in Sockets : Connected(s) \/ SocketEnds(s)
  BY <1>1 DEF Connected, SocketEnds, connected
<1>2. CASE \E s \in Sockets : StreamEnds(s)
  BY <1>2 DEF StreamEnds
<1>3. CASE Close
  BY <1>3 DEF Close
<1>4. CASE Begin
  BY <1>4, BeginMoves
<1>5. CASE \/ ResumeOpening \/ ResumeInitialize \/ ResumeAccount \/ ResumeThread \/ ResumeTurn
           \/ ResumeOutput \/ MakeCwd \/ Cleanup
  BY <1>5, OwnMoves
<1>6. CASE UNCHANGED vars
  BY <1>6 DEF vars, connected
<1> QED
  BY <1>1, <1>2, <1>3, <1>4, <1>5, <1>6 DEF Next, Continue

LEMMA AwaitedStays ==
    ASSUME CodexInv, [Next]_vars
    PROVE  Awaited'
<1>0. /\ call \in Calls /\ waiter \in Waiters /\ nextId \in Nat
      /\ interrupt \in [pc : {"idle", "asked", "done"}, reply : Errors \cup {Done, None}]
      /\ pending \subseteq [id : Ids, for : {"call", "interrupt"}]
      /\ asked \subseteq Requests /\ call.reply \in Replies /\ call.made \in Nat
  BY CodexAssumption DEF CodexInv, TypeOK, Calls
<1> USE DEF CodexInv
<1>1. CASE CallMoves
  <2>1. CASE UNCHANGED requests /\ call'.pc \notin AnswerPcs
    BY <1>1, <1>0, <2>1 DEF CallMoves, Awaited, requests, IdleWaiter, Waiters
  <2>2. ASSUME NEW method, NEW thread, NEW s, Ask(method, "call", thread, s), ~closed
        PROVE  Awaited'
    <3>1. \E p \in pending' : p.for = "call"
      <4>1. [id |-> nextId, for |-> "call"] \in pending'
        BY <2>2, AskAdds
      <4> QED
        BY <4>1
    <3>2. pending \subseteq pending'
      BY <2>2, AskAdds
    <3> QED
      BY <1>1, <2>2, <3>1, <3>2 DEF CallMoves, Awaited
  <2> QED
    BY <1>1, <2>1, <2>2 DEF CallMoves
<1>2. ASSUME NEW s \in Sockets, Upgraded(s) \/ OpeningFails(s) PROVE Awaited'
  BY <1>2, <1>0, Apart
  DEF Upgraded, OpeningFails, requests, connected, Connects, Awaited, Calls, Waiters
<1>3. CASE StartInterrupt
  <2>1. PICK s : Ask("interrupt", "interrupt", waiter.thread, s)
    BY <1>3 DEF StartInterrupt
  <2>2. pending \subseteq pending' /\ \E p \in pending' : p.for = "interrupt"
    <3>1. pending \subseteq pending' /\ [id |-> nextId, for |-> "interrupt"] \in pending'
      BY <2>1, AskAdds
    <3> QED
      BY <3>1
  <2> QED
    BY <1>3, <2>2 DEF StartInterrupt, Awaited, connected
<1>4. CASE EndInterrupt
  BY <1>4, <1>0, Apart DEF EndInterrupt, requests, connected, Awaited, Calls, Waiters
<1>5. CASE ConnectionClosed /\ UNCHANGED <<nextId, asked, consumer, turn>>
  BY <1>5, <1>0, Apart DEF ConnectionClosed, RejectAll, Settled, Awaited, Calls, Waiters
<1>6. CASE RequestTimer
  BY <1>6, <1>0, Apart DEF RequestTimer, Settle, connected, Awaited, Calls, Waiters
<1>7. CASE TurnTimer
  BY <1>7, <1>0, Apart DEF TurnTimer, requests, connected, Awaited, Calls, Waiters
<1>8. CASE Answer
  <2>1. PICK q \in asked : \E reply \in AnswersTo(q) : Settle(q.id, reply)
    BY <1>8 DEF Answer
  <2>2. PICK reply \in AnswersTo(q) : Settle(q.id, reply)
    BY <2>1
  <2>3. reply # None
    <3>1. q \in Requests
      BY <1>0
    <3> QED
      BY <2>2, <3>1, AnswersTyped
  <2> QED
    BY <1>8, <1>0, <2>2, <2>3 DEF Answer, Settle, connected, Awaited, Calls, Waiters
<1>9. CASE NotifyStarted
  BY <1>9, <1>0, Apart DEF NotifyStarted, Announced, requests, connected, Awaited, Calls, Waiters
<1>10. CASE NotifyItem
  BY <1>10, <1>0, Apart DEF NotifyItem, requests, connected, Awaited, Calls, Waiters
<1>11. CASE NotifyCompleted
  BY <1>11, <1>0, Apart DEF NotifyCompleted, requests, Settled, connected, Awaited, Calls, Waiters
<1>12. CASE UNCHANGED <<requests, call, waiter, consumer, interrupt, closed, turn>>
  BY <1>12, <1>0, Apart DEF requests, Awaited, Calls, Waiters
<1> QED
  BY <1>1, <1>2, <1>3, <1>4, <1>5, <1>6, <1>7, <1>8, <1>9, <1>10, <1>11, <1>12, StepKinds

\* An answer is one to a request the server has.
LEMMA AnswerMoves ==
    ASSUME CodexInv, Answer
    PROVE  \E q \in asked : \E reply :
              /\ asked' = asked \ {q} /\ Settle(q.id, reply)
              /\ UNCHANGED <<nextId, closed, waiter, consumer>>
              /\ reply \in Replies \ {None} /\ q.id \in Ids
              /\ q.method \notin {"thread", "turn"} => reply \in Errors \cup {Done}
              /\ q.method = "thread" => reply \in Errors \cup {Named(q.id, FALSE), Named(None, FALSE)}
              /\ q.method = "turn" => \/ reply \in Errors /\ turn[q.id].phase = "none"
                                      \/ reply \in Names /\ reply.id \in {q.id, None}
              /\ \/ turn' = turn
                 \/ /\ q.method = "turn" /\ turn[q.id].phase = "none"
                    /\ turn' = [turn EXCEPT ![q.id] = [phase |-> "created", thread |-> q.thread]]
<1>1. PICK q \in asked : \E reply \in AnswersTo(q) :
         /\ asked' = asked \ {q} /\ Settle(q.id, reply)
         /\ turn' = IF q.method = "turn" /\ reply.kind = "named" /\ turn[q.id].phase = "none"
                    THEN [turn EXCEPT ![q.id] = [phase |-> "created", thread |-> q.thread]]
                    ELSE turn
  BY DEF Answer
<1>2. PICK reply \in AnswersTo(q) :
         /\ asked' = asked \ {q} /\ Settle(q.id, reply)
         /\ turn' = IF q.method = "turn" /\ reply.kind = "named" /\ turn[q.id].phase = "none"
                    THEN [turn EXCEPT ![q.id] = [phase |-> "created", thread |-> q.thread]]
                    ELSE turn
  BY <1>1
<1>3. q \in Requests /\ q.id \in Ids
  BY DEF CodexInv, TypeOK, Requests
<1>4. /\ reply \in Replies \ {None}
      /\ q.method \notin {"thread", "turn"} => reply \in Errors \cup {Done}
      /\ q.method = "thread" => reply \in Errors \cup {Named(q.id, FALSE), Named(None, FALSE)}
      /\ q.method = "turn" => \/ reply \in Errors /\ turn[q.id].phase = "none"
                              \/ reply \in Names /\ reply.id \in {q.id, None}
  BY <1>2, <1>3, AnswersTyped
<1>5. UNCHANGED <<nextId, closed, waiter, consumer>>
  BY DEF Answer, connected
<1>6. \/ turn' = turn
      \/ /\ q.method = "turn" /\ turn[q.id].phase = "none"
         /\ turn' = [turn EXCEPT ![q.id] = [phase |-> "created", thread |-> q.thread]]
  BY <1>2
<1> QED
  BY <1>2, <1>3, <1>4, <1>5, <1>6

\* A turn is announced on the thread it was asked for.
LEMMA StartedMoves ==
    ASSUME CodexInv, NotifyStarted
    PROVE  \E t \in Ids : \E thread \in ThreadIds \cup {None} :
              /\ turn' = [turn EXCEPT ![t] = [phase |-> "announced", thread |-> thread]]
              /\ \/ \E q \in asked : q.id = t /\ q.method = "turn" /\ q.thread = thread
                 \/ turn[t].phase = "created" /\ turn[t].thread = thread
              /\ IF waiter.on /\ waiter.thread = thread
                 THEN \/ /\ waiter' = [waiter EXCEPT !.turn = t]
                         /\ consumer' \in {consumer, Heard(consumer, t, TRUE)}
                      \/ /\ waiter' = [waiter EXCEPT !.turn = t, !.settled = Error("other")]
                         /\ waiter.settled = None
                         /\ consumer' = Heard(consumer, t, FALSE)
                 ELSE waiter' = waiter /\ consumer' = consumer
<1>1. PICK t \in Ids :
         LET creating == {q \in asked : q.id = t /\ q.method = "turn"}
             thread == IF creating = {} THEN turn[t].thread ELSE (CHOOSE q \in creating : TRUE).thread
         IN  /\ turn[t].phase = "created" \/ (turn[t].phase = "none" /\ creating # {})
             /\ turn' = [turn EXCEPT ![t] = [phase |-> "announced", thread |-> thread]]
             /\ IF waiter.on /\ waiter.thread = thread
                THEN \E accepted \in BOOLEAN :
                        \/ /\ waiter.settled # None
                           /\ Announced(thread, t)
                           /\ UNCHANGED consumer
                        \/ /\ waiter.settled = None /\ accepted
                           /\ Announced(thread, t)
                           /\ consumer' = Heard(consumer, t, TRUE)
                        \/ /\ waiter.settled = None /\ ~accepted
                           /\ waiter' = [waiter EXCEPT !.turn = t, !.settled = Error("other")]
                           /\ consumer' = Heard(consumer, t, FALSE)
                ELSE UNCHANGED <<waiter, consumer>>
  BY DEF NotifyStarted
<1> DEFINE creating == {q \in asked : q.id = t /\ q.method = "turn"}
           thread == IF creating = {} THEN turn[t].thread ELSE (CHOOSE q \in creating : TRUE).thread
<1>2. creating # {} => (CHOOSE q \in creating : TRUE) \in creating
  OBVIOUS
<1>3. \/ \E q \in asked : q.id = t /\ q.method = "turn" /\ q.thread = thread
      \/ turn[t].phase = "created" /\ turn[t].thread = thread
  BY <1>1, <1>2
<1>4. thread \in ThreadIds \cup {None}
  <2>1. \A q \in asked : q.thread \in ThreadIds \cup {None}
    BY DEF CodexInv, TypeOK, Requests
  <2>2. turn[t].thread \in ThreadIds \cup {None}
    BY DEF CodexInv, TypeOK, Turns
  <2> QED
    BY <1>2, <2>1, <2>2
<1>5. turn' = [turn EXCEPT ![t] = [phase |-> "announced", thread |-> thread]]
  BY <1>1
<1>6. IF waiter.on /\ waiter.thread = thread
      THEN \/ /\ waiter' = [waiter EXCEPT !.turn = t]
              /\ consumer' \in {consumer, Heard(consumer, t, TRUE)}
           \/ /\ waiter' = [waiter EXCEPT !.turn = t, !.settled = Error("other")]
              /\ waiter.settled = None
              /\ consumer' = Heard(consumer, t, FALSE)
      ELSE waiter' = waiter /\ consumer' = consumer
  BY <1>1 DEF Announced
<1> HIDE DEF thread
<1> QED
  BY <1>3, <1>4, <1>5, <1>6

LEMMA NumberedStays ==
    ASSUME CodexInv, [Next]_vars
    PROVE  Numbered'
<1>0. /\ call \in Calls /\ waiter \in Waiters /\ nextId \in Nat
      /\ interrupt \in [pc : {"idle", "asked", "done"}, reply : Errors \cup {Done, None}]
      /\ pending \subseteq [id : Ids, for : {"call", "interrupt"}]
      /\ asked \subseteq Requests /\ call.reply \in Replies /\ call.made \in Nat
  BY CodexAssumption DEF CodexInv, TypeOK, Calls
<1> USE DEF CodexInv
<1>1. CASE CallMoves
  <2>1. CASE UNCHANGED requests
    BY <1>1, <2>1, Apart DEF CallMoves, Numbered, requests
  <2>2. ASSUME NEW method, NEW thread \in ThreadIds \cup {None}, NEW s \in Sockets,
               Ask(method, "call", thread, s),
               \/ thread \in {None, Old}
               \/ call.reply \in Names /\ thread = call.reply.id /\ thread # None
        PROVE  Numbered'
    <3>1. /\ nextId' = nextId + 1
          /\ \A p \in pending' : p \in pending \/ p = [id |-> nextId, for |-> "call"]
          /\ \A q \in asked' : \/ q \in asked
                               \/ q = [id |-> nextId, method |-> method, socket |-> s,
                                       thread |-> thread]
      BY <2>2, AskAdds
    <3>2. thread \in Ids => thread < nextId
      BY <2>2, CodexAssumption DEF Numbered, Ids, Old
    <3>3. call'.reply = None /\ turn' = turn
      BY <1>1 DEF CallMoves
    <3>4. /\ \A p \in pending' : p.id < nextId' /\ (p \in pending \/ p.id = nextId)
          /\ \A q \in asked' : q.id < nextId' /\ (q \in asked \/ q.id = nextId)
      BY <1>0, <3>1 DEF Numbered, Requests, Ids
    <3>5. \A q \in asked' : q.thread \in Ids => q.thread < nextId'
      BY <1>0, <3>1, <3>2 DEF Numbered, Ids
    <3>6. /\ \A p, r \in pending' : p.id = r.id => p = r
          /\ \A q, r \in asked' : q.id = r.id => q = r
      BY <1>0, <3>1, <3>4 DEF Numbered
    <3>7. \A t \in Ids : /\ turn[t].phase # "none" => t < nextId'
                         /\ turn[t].thread \in Ids => turn[t].thread < nextId'
      BY <1>0, <3>1 DEF Numbered, Ids
    <3> QED
      BY <3>3, <3>4, <3>5, <3>6, <3>7, Apart DEF Numbered
  <2> QED
    BY <1>1, <2>1, <2>2 DEF CallMoves, ThreadIds
<1>2. ASSUME NEW s \in Sockets, Upgraded(s) \/ OpeningFails(s) PROVE Numbered'
  BY <1>2, <1>0, Apart DEF Upgraded, OpeningFails, requests, connected, Connects, Numbered, Calls
<1>3. CASE StartInterrupt
  <2>1. PICK s : Ask("interrupt", "interrupt", waiter.thread, s)
    BY <1>3 DEF StartInterrupt
  <2>2. /\ nextId' = nextId + 1
        /\ \A p \in pending' : p \in pending \/ p = [id |-> nextId, for |-> "interrupt"]
        /\ \A q \in asked' : \/ q \in asked
                             \/ q = [id |-> nextId, method |-> "interrupt", socket |-> s,
                                     thread |-> waiter.thread]
    BY <2>1, AskAdds
  <2>3. waiter.thread \in Ids => waiter.thread < nextId
    BY <1>3, <1>0 DEF StartInterrupt, Waiting, IdleWaiter, Waiters
  <2>4. /\ \A p \in pending' : p.id < nextId' /\ (p \in pending \/ p.id = nextId)
        /\ \A q \in asked' : q.id < nextId' /\ (q \in asked \/ q.id = nextId)
    BY <1>0, <2>2 DEF Numbered, Requests, Ids
  <2>5. \A q \in asked' : q.thread \in Ids => q.thread < nextId'
    BY <1>0, <2>2, <2>3 DEF Numbered, Ids
  <2>6. /\ \A p, r \in pending' : p.id = r.id => p = r
        /\ \A q, r \in asked' : q.id = r.id => q = r
    BY <1>0, <2>2, <2>4 DEF Numbered
  <2>7. \A t \in Ids : /\ turn[t].phase # "none" => t < nextId'
                       /\ turn[t].thread \in Ids => turn[t].thread < nextId'
    BY <1>0, <2>2 DEF Numbered, Ids
  <2>8. UNCHANGED <<call, turn>>
    BY <1>3 DEF StartInterrupt
  <2>9. call.reply \in Names /\ call.reply.id # None => call.reply.id < nextId'
    BY <1>0, <2>2 DEF Numbered, Names, Named, Ids
  <2> QED
    BY <2>4, <2>5, <2>6, <2>7, <2>8, <2>9 DEF Numbered
<1>4. CASE EndInterrupt
  BY <1>4, <1>0, Apart DEF EndInterrupt, requests, connected, Numbered, Calls
<1>5. CASE ConnectionClosed /\ UNCHANGED <<nextId, asked, consumer, turn>>
  BY <1>5, <1>0, Apart DEF ConnectionClosed, RejectAll, Numbered, Calls
<1>6. CASE RequestTimer
  BY <1>6, <1>0, Apart DEF RequestTimer, Settle, connected, Numbered, Calls
<1>7. CASE TurnTimer
  BY <1>7, <1>0, Apart DEF TurnTimer, requests, connected, Numbered, Calls
<1>8. CASE Answer
  <2>1. PICK q \in asked : \E reply :
           /\ asked' = asked \ {q} /\ Settle(q.id, reply)
           /\ UNCHANGED <<nextId, closed, waiter, consumer>>
           /\ q.id \in Ids
           /\ q.method \notin {"thread", "turn"} => reply \in Errors \cup {Done}
           /\ q.method = "thread" => reply \in Errors \cup {Named(q.id, FALSE), Named(None, FALSE)}
           /\ q.method = "turn" => /\ reply \in Errors \cup Names
                                   /\ reply \in Names => reply.id \in {q.id, None}
           /\ \/ turn' = turn
              \/ turn' = [turn EXCEPT ![q.id] = [phase |-> "created", thread |-> q.thread]]
    BY <1>8, AnswerMoves, Apart
  <2>2. PICK reply :
           /\ asked' = asked \ {q} /\ Settle(q.id, reply)
           /\ UNCHANGED <<nextId, closed, waiter, consumer>>
           /\ q.id \in Ids
           /\ q.method \notin {"thread", "turn"} => reply \in Errors \cup {Done}
           /\ q.method = "thread" => reply \in Errors \cup {Named(q.id, FALSE), Named(None, FALSE)}
           /\ q.method = "turn" => /\ reply \in Errors \cup Names
                                   /\ reply \in Names => reply.id \in {q.id, None}
           /\ \/ turn' = turn
              \/ turn' = [turn EXCEPT ![q.id] = [phase |-> "created", thread |-> q.thread]]
    BY <2>1
  <2>3. reply \in Names /\ reply.id # None => reply.id < nextId
    <3>1. q.id < nextId
      BY DEF Numbered
    <3>2. Named(q.id, FALSE).id = q.id /\ Named(None, FALSE).id = None
      BY DEF Named
    <3> QED
      BY <2>2, <3>1, <3>2, Apart
  <2>4. call'.reply \in {call.reply, reply}
    BY <1>0, <2>2 DEF Settle, Calls
  <2>5. pending' \subseteq pending /\ asked' \subseteq asked /\ nextId' = nextId
    BY <2>2 DEF Settle
  <2>6. \A u \in Ids : \/ turn'[u] = turn[u]
                       \/ u = q.id /\ turn'[u].thread = q.thread
    BY <2>2 DEF TypeOK, Turns
  <2>7. \A t \in Ids : /\ turn'[t].phase # "none" => t < nextId
                       /\ turn'[t].thread \in Ids => turn'[t].thread < nextId
    BY <2>6 DEF Numbered
  <2> QED
    BY <2>3, <2>4, <2>5, <2>7 DEF Numbered
<1>9. CASE NotifyStarted
  <2>1. PICK t \in Ids : \E thread \in ThreadIds \cup {None} :
           /\ turn' = [turn EXCEPT ![t] = [phase |-> "announced", thread |-> thread]]
           /\ \/ \E q \in asked : q.id = t /\ q.method = "turn" /\ q.thread = thread
              \/ turn[t].phase = "created" /\ turn[t].thread = thread
    BY <1>9, StartedMoves
  <2>2. PICK thread \in ThreadIds \cup {None} :
           /\ turn' = [turn EXCEPT ![t] = [phase |-> "announced", thread |-> thread]]
           /\ \/ \E q \in asked : q.id = t /\ q.method = "turn" /\ q.thread = thread
              \/ turn[t].phase = "created" /\ turn[t].thread = thread
    BY <2>1
  <2>3. t < nextId /\ (thread \in Ids => thread < nextId)
    BY <2>2 DEF Numbered
  <2>4. UNCHANGED <<nextId, pending, asked, call>>
    BY <1>9 DEF NotifyStarted, requests
  <2>5. \A u \in Ids : turn'[u].phase = (IF u = t THEN "announced" ELSE turn[u].phase)
                       /\ turn'[u].thread = (IF u = t THEN thread ELSE turn[u].thread)
    BY <2>2 DEF TypeOK, Turns
  <2> QED
    BY <2>3, <2>4, <2>5 DEF Numbered
<1>10. CASE NotifyItem
  BY <1>10, <1>0, Apart DEF NotifyItem, requests, connected, Numbered, Calls
<1>11. CASE NotifyCompleted
  <2>1. PICK t \in Turns : turn' = [turn EXCEPT ![t].phase = "ended"] /\ turn[t].phase = "announced"
    BY <1>11 DEF NotifyCompleted
  <2>2. \A u \in Ids : /\ turn'[u].thread = turn[u].thread
                       /\ turn'[u].phase # "none" => turn[u].phase # "none"
    BY <2>1 DEF TypeOK, Turns
  <2>3. UNCHANGED <<nextId, pending, asked, call>>
    BY <1>11 DEF NotifyCompleted, requests
  <2> QED
    BY <2>2, <2>3 DEF Numbered
<1>12. CASE UNCHANGED <<requests, call, waiter, consumer, interrupt, closed, turn>>
  BY <1>12, <1>0, Apart DEF requests, Numbered, Calls
<1> QED
  BY <1>1, <1>2, <1>3, <1>4, <1>5, <1>6, <1>7, <1>8, <1>9, <1>10, <1>11, <1>12, StepKinds

\* Settling a request leaves the others.
LEMMA SettleMatched ==
    ASSUME CodexInv, NEW id, NEW reply, Settle(id, reply), asked' \subseteq asked
    PROVE  Matched'
<1>1. call \in Calls /\ pending \subseteq [id : Ids, for : {"call", "interrupt"}]
  BY DEF CodexInv, TypeOK
<1>2. pending' \subseteq pending /\ call'.pc = call.pc
  BY <1>1 DEF Settle, Calls
<1>3. \A p \in pending' : p.for = "call" => call'.reply = None
  <2> SUFFICES ASSUME NEW p \in pending', p.for = "call"
               PROVE  call'.reply = None
    OBVIOUS
  <2>1. p \in pending /\ p.id # id
    BY DEF Settle
  <2>2. [id |-> id, for |-> "call"] \notin pending
    <3>1. [id |-> id, for |-> "call"] \in pending => [id |-> id, for |-> "call"] = p
      BY <2>1 DEF CodexInv, Matched
    <3> QED
      BY <2>1, <3>1
  <2>3. call.reply = None
    BY <2>1 DEF CodexInv, Matched
  <2> QED
    BY <2>2, <2>3 DEF Settle
<1> QED
  BY <1>2, <1>3 DEF CodexInv, Matched

LEMMA MatchedStays ==
    ASSUME CodexInv, [Next]_vars
    PROVE  Matched'
<1>0. /\ call \in Calls /\ waiter \in Waiters /\ nextId \in Nat
      /\ interrupt \in [pc : {"idle", "asked", "done"}, reply : Errors \cup {Done, None}]
      /\ pending \subseteq [id : Ids, for : {"call", "interrupt"}]
      /\ asked \subseteq Requests /\ call.reply \in Replies /\ call.made \in Nat
  BY CodexAssumption DEF CodexInv, TypeOK, Calls
<1> USE DEF CodexInv
<1>1. CASE CallMoves
  <2>1. \A p \in pending : p.for # "call"
    BY <1>1 DEF CallMoves, Matched
  <2>2. CASE UNCHANGED requests
    BY <2>1, <2>2 DEF Matched, requests
  <2>3. ASSUME NEW thread, NEW s, Ask(call'.pc, "call", thread, s), call'.pc \in AnswerPcs
        PROVE  Matched'
    <3>1. /\ \A p \in pending' : p \in pending \/ p = [id |-> nextId, for |-> "call"]
          /\ \A q \in asked' : \/ q \in asked
                               \/ q = [id |-> nextId, method |-> call'.pc, socket |-> s,
                                       thread |-> thread]
      BY <2>3, AskAdds
    <3>2. /\ \A p \in pending : p.id # nextId
          /\ \A q \in asked : q.id # nextId
      BY <1>0 DEF Numbered, Ids, Requests
    <3>3. call'.reply = None
      BY <1>1 DEF CallMoves
    <3>4. \A p, r \in pending' : p.for = "call" /\ r.for = "call" => p = r
      BY <2>1, <3>1
    <3>5. \A p \in pending', q \in asked' :
             p.id = q.id => q.method = (IF p.for = "call" THEN call'.pc ELSE "interrupt")
      BY <2>1, <3>1, <3>2 DEF Matched
    <3> QED
      BY <2>3, <3>3, <3>4, <3>5 DEF Matched
  <2> QED
    BY <1>1, <2>2, <2>3 DEF CallMoves, AnswerPcs
<1>2. ASSUME NEW s \in Sockets, Upgraded(s) \/ OpeningFails(s) PROVE Matched'
  <2>1. \A p \in pending : p.for # "call"
    BY <1>2 DEF Upgraded, OpeningFails, Connects, Matched, AnswerPcs
  <2>2. pending' = pending /\ asked' = asked
    BY <1>2 DEF Upgraded, OpeningFails, requests
  <2> QED
    BY <2>1, <2>2 DEF Matched
<1>3. CASE StartInterrupt
  <2>1. PICK s : Ask("interrupt", "interrupt", waiter.thread, s)
    BY <1>3 DEF StartInterrupt
  <2>2. /\ \A p \in pending' : p \in pending \/ p = [id |-> nextId, for |-> "interrupt"]
        /\ \A q \in asked' : \/ q \in asked
                             \/ q = [id |-> nextId, method |-> "interrupt", socket |-> s,
                                     thread |-> waiter.thread]
    BY <2>1, AskAdds
  <2>3. /\ \A p \in pending : p.id # nextId
        /\ \A q \in asked : q.id # nextId
    BY <1>0 DEF Numbered, Ids, Requests
  <2>4. \A p, r \in pending' : p.for = "call" /\ r.for = "call" => p = r
    BY <2>2 DEF Matched
  <2>5. \A p \in pending', q \in asked' :
           p.id = q.id => q.method = (IF p.for = "call" THEN call.pc ELSE "interrupt")
    BY <2>2, <2>3 DEF Matched
  <2>6. call' = call
    BY <1>3 DEF StartInterrupt
  <2> QED
    BY <2>2, <2>4, <2>5, <2>6 DEF Matched
<1>4. CASE EndInterrupt
  BY <1>4, <1>0, Apart DEF EndInterrupt, requests, connected, Matched, Calls
<1>5. CASE ConnectionClosed /\ UNCHANGED <<nextId, asked, consumer, turn>>
  BY <1>5, <1>0, Apart DEF ConnectionClosed, RejectAll, Matched, Calls
<1>6. CASE RequestTimer
  <2>1. PICK p \in pending : Settle(p.id, Error("other"))
    BY <1>6 DEF RequestTimer
  <2>2. asked' \subseteq asked
    BY <1>6 DEF RequestTimer
  <2> QED
    BY <2>1, <2>2, SettleMatched
<1>7. CASE TurnTimer
  BY <1>7, <1>0, Apart DEF TurnTimer, requests, connected, Matched, Calls
<1>8. CASE Answer
  <2>1. PICK q \in asked : \E reply : asked' = asked \ {q} /\ Settle(q.id, reply)
    BY <1>8, AnswerMoves
  <2>2. PICK reply : asked' = asked \ {q} /\ Settle(q.id, reply)
    BY <2>1
  <2> QED
    BY <2>2, SettleMatched
<1>9. CASE NotifyStarted
  BY <1>9, <1>0, Apart DEF NotifyStarted, Announced, requests, connected, Matched, Calls
<1>10. CASE NotifyItem
  BY <1>10, <1>0, Apart DEF NotifyItem, requests, connected, Matched, Calls
<1>11. CASE NotifyCompleted
  BY <1>11, <1>0, Apart DEF NotifyCompleted, requests, connected, Matched, Calls
<1>12. CASE UNCHANGED <<requests, call, waiter, consumer, interrupt, closed, turn>>
  BY <1>12, <1>0, Apart DEF requests, Matched, Calls
<1> QED
  BY <1>1, <1>2, <1>3, <1>4, <1>5, <1>6, <1>7, <1>8, <1>9, <1>10, <1>11, <1>12, StepKinds

LEMMA ExpectedStays ==
    ASSUME CodexInv, [Next]_vars
    PROVE  Expected'
<1>0. /\ call \in Calls /\ waiter \in Waiters /\ nextId \in Nat
      /\ interrupt \in [pc : {"idle", "asked", "done"}, reply : Errors \cup {Done, None}]
      /\ pending \subseteq [id : Ids, for : {"call", "interrupt"}]
      /\ asked \subseteq Requests /\ call.reply \in Replies /\ call.made \in Nat
  BY CodexAssumption DEF CodexInv, TypeOK, Calls
<1> USE DEF CodexInv
<1>1. CASE CallMoves
  BY <1>1, <1>0, Apart DEF CallMoves, requests, Expected, Calls
<1>2. ASSUME NEW s \in Sockets, Upgraded(s) \/ OpeningFails(s) PROVE Expected'
  BY <1>2, <1>0, Apart DEF Upgraded, OpeningFails, requests, connected, Connects, Expected, Calls
<1>3. CASE StartInterrupt
  BY <1>3, <1>0, Apart DEF StartInterrupt, connected, Expected, Calls
<1>4. CASE EndInterrupt
  BY <1>4, <1>0, Apart DEF EndInterrupt, requests, connected, Expected, Calls
<1>5. CASE ConnectionClosed /\ UNCHANGED <<nextId, asked, consumer, turn>>
  BY <1>5, <1>0, Apart DEF ConnectionClosed, RejectAll, Expected, Calls
<1>6. CASE RequestTimer
  BY <1>6, <1>0, Apart DEF RequestTimer, Settle, connected, Expected, Calls
<1>7. CASE TurnTimer
  BY <1>7, <1>0, Apart DEF TurnTimer, requests, connected, Expected, Calls
<1>8. CASE Answer
  <2>1. PICK q \in asked : \E reply :
           /\ Settle(q.id, reply) /\ q.id \in Ids
           /\ q.method \notin {"thread", "turn"} => reply \in Errors \cup {Done}
           /\ q.method = "thread" => reply \in Errors \cup {Named(q.id, FALSE), Named(None, FALSE)}
           /\ q.method = "turn" => reply \in Errors \cup Names
    BY <1>8, AnswerMoves
  <2>2. PICK reply :
           /\ Settle(q.id, reply) /\ q.id \in Ids
           /\ q.method \notin {"thread", "turn"} => reply \in Errors \cup {Done}
           /\ q.method = "thread" => reply \in Errors \cup {Named(q.id, FALSE), Named(None, FALSE)}
           /\ q.method = "turn" => reply \in Errors \cup Names
    BY <2>1
  <2>3. CASE call' = [call EXCEPT !.reply = reply] /\ [id |-> q.id, for |-> "call"] \in pending
    <3>1. call.pc = q.method /\ call.pc \in AnswerPcs
      BY <2>3 DEF Matched
    <3>2. call'.pc = call.pc /\ call'.reply = reply
      BY <1>0, <2>3 DEF Calls
    <3>3. Named(q.id, FALSE) \in Names /\ Named(q.id, FALSE).id # None
      <4>1. q.id # None
        BY <2>2, CodexAssumption DEF Ids
      <4> QED
        BY <2>2, <4>1, NamesTyped DEF Named
    <3> QED
      BY <2>2, <3>1, <3>2, <3>3 DEF Expected, AnswerPcs
  <2>4. CASE call' = call
    BY <2>4 DEF Expected
  <2> QED
    BY <2>2, <2>3, <2>4 DEF Settle
<1>9. CASE NotifyStarted
  BY <1>9, <1>0, Apart DEF NotifyStarted, Announced, requests, connected, Expected, Calls
<1>10. CASE NotifyItem
  BY <1>10, <1>0, Apart DEF NotifyItem, requests, connected, Expected, Calls
<1>11. CASE NotifyCompleted
  BY <1>11, <1>0, Apart DEF NotifyCompleted, requests, connected, Expected, Calls
<1>12. CASE UNCHANGED <<requests, call, waiter, consumer, interrupt, closed, turn>>
  BY <1>12, <1>0, Apart DEF requests, Expected, Calls
<1> QED
  BY <1>1, <1>2, <1>3, <1>4, <1>5, <1>6, <1>7, <1>8, <1>9, <1>10, <1>11, <1>12, StepKinds

LEMMA OneTurnPerThreadStays ==
    ASSUME CodexInv, [Next]_vars
    PROVE  OneTurnPerThread'
<1>0. /\ call \in Calls /\ waiter \in Waiters /\ nextId \in Nat
      /\ interrupt \in [pc : {"idle", "asked", "done"}, reply : Errors \cup {Done, None}]
      /\ pending \subseteq [id : Ids, for : {"call", "interrupt"}]
      /\ asked \subseteq Requests /\ call.reply \in Replies /\ call.made \in Nat
  BY CodexAssumption DEF CodexInv, TypeOK, Calls
<1> USE DEF CodexInv
<1>1. CASE CallMoves
  <2>1. /\ call.pc \in {"initialize", "opening", "account", "turn"} => call.pc # "thread"
        /\ turn' = turn /\ call'.reply = None /\ None \notin Names
    BY <1>1, Apart DEF CallMoves
  <2>2. \A p \in pending : p.for # "call"
    BY <1>1 DEF CallMoves, Matched
  <2>3. call'.made = 0 => FALSE
    BY <1>1, <1>0 DEF CallMoves, OneTurnPerThread
  <2>4. call'.reuse /\ call'.pc \in {"opening", "initialize", "account"}
           => Unused(Old) /\ call'.pc # "turn"
    BY <1>1 DEF CallMoves, OneTurnPerThread
  <2>5. CASE UNCHANGED requests /\ call'.pc \notin AnswerPcs
    BY <2>1, <2>3, <2>4, <2>5 DEF OneTurnPerThread, Unused, requests, AnswerPcs
  <2>6. CASE call'.pc \in AnswerPcs \ {"turn"} /\ \E s \in Sockets : Ask(call'.pc, "call", None, s)
    <3>1. PICK s \in Sockets : Ask(call'.pc, "call", None, s)
      BY <2>6
    <3>2. /\ \A p \in pending' : p \in pending \/ p = [id |-> nextId, for |-> "call"]
          /\ \A q \in asked' : \/ q \in asked
                               \/ q = [id |-> nextId, method |-> call'.pc, socket |-> s,
                                       thread |-> None]
          /\ nextId \in Ids
      BY <3>1, AskAdds
    <3>3. Unused(Old) => Unused(Old)'
      BY <2>1, <2>6, <3>2 DEF Unused
    <3>4. Unused(nextId)
      BY <1>0, <3>2 DEF Unused, Numbered
    <3>5. \A p \in pending' : p.for = "call" => p.id = nextId
      BY <2>2, <3>2
    <3>6. \A p \in pending' : p.for = "call" => Unused(p.id)'
      BY <2>1, <2>6, <3>2, <3>4, <3>5 DEF Unused
    <3> QED
      BY <2>1, <2>3, <2>4, <3>3, <3>6 DEF OneTurnPerThread
  <2>7. CASE call'.pc = "turn"
    BY <2>1, <2>3, <2>7 DEF OneTurnPerThread
  <2> QED
    BY <1>1, <2>5, <2>6, <2>7 DEF CallMoves
<1>2. ASSUME NEW s \in Sockets, Upgraded(s) \/ OpeningFails(s) PROVE OneTurnPerThread'
  <2>1. /\ turn' = turn /\ asked' = asked /\ pending' = pending
        /\ call'.pc = call.pc /\ call'.made = call.made /\ call'.reuse = call.reuse
        /\ call.pc = "opening"
    BY <1>2, <1>0 DEF Upgraded, OpeningFails, requests, Calls, Connects
  <2>2. \A thread : Unused(thread) => Unused(thread)'
    BY <2>1 DEF Unused
  <2> QED
    BY <2>1, <2>2 DEF OneTurnPerThread
<1>3. CASE StartInterrupt
  <2>1. PICK s : Ask("interrupt", "interrupt", waiter.thread, s)
    BY <1>3 DEF StartInterrupt
  <2>2. \A q \in asked' : \/ q \in asked
                          \/ q = [id |-> nextId, method |-> "interrupt", socket |-> s,
                                  thread |-> waiter.thread]
    BY <2>1, AskAdds
  <2>3. UNCHANGED <<call, turn>> /\ call.pc \in {"turn", "output"}
    BY <1>3 DEF StartInterrupt
  <2>4. \A thread : Unused(thread) => Unused(thread)'
    BY <2>2, <2>3 DEF Unused
  <2> QED
    BY <2>3, <2>4 DEF OneTurnPerThread
<1>4. CASE EndInterrupt
  <2>1. UNCHANGED <<pending, asked, call, turn>>
    BY <1>4 DEF EndInterrupt, requests
  <2> QED
    BY <2>1 DEF OneTurnPerThread, Unused
<1>5. CASE ConnectionClosed /\ UNCHANGED <<nextId, asked, consumer, turn>>
  <2>1. /\ turn' = turn /\ asked' = asked /\ pending' \subseteq pending
        /\ call'.pc = call.pc /\ call'.made = call.made /\ call'.reuse = call.reuse
        /\ call'.reply = call.reply \/ call'.reply = Error("other")
    BY <1>5, <1>0 DEF ConnectionClosed, RejectAll, Awaited, Calls
  <2>2. \A thread : Unused(thread) => Unused(thread)'
    BY <2>1 DEF Unused
  <2>3. Error("other") \notin Names
    BY Apart
  <2> QED
    BY <2>1, <2>2, <2>3 DEF OneTurnPerThread
<1>6. CASE RequestTimer
  <2>1. /\ turn' = turn /\ asked' = asked /\ pending' \subseteq pending
        /\ call'.pc = call.pc /\ call'.made = call.made /\ call'.reuse = call.reuse
        /\ call'.reply = call.reply \/ call'.reply = Error("other")
    BY <1>6, <1>0 DEF RequestTimer, Settle, Calls
  <2>2. \A thread : Unused(thread) => Unused(thread)'
    BY <2>1 DEF Unused
  <2>3. Error("other") \notin Names
    BY Apart
  <2> QED
    BY <2>1, <2>2, <2>3 DEF OneTurnPerThread
<1>7. CASE TurnTimer
  <2>1. UNCHANGED <<pending, asked, call, turn>>
    BY <1>7 DEF TurnTimer, requests
  <2> QED
    BY <2>1 DEF OneTurnPerThread, Unused
<1>8. CASE Answer
  <2>1. PICK q \in asked : \E reply :
           /\ asked' = asked \ {q} /\ Settle(q.id, reply) /\ q.id \in Ids
           /\ q.method = "thread" => reply \in Errors \cup {Named(q.id, FALSE), Named(None, FALSE)}
           /\ \/ turn' = turn
              \/ /\ q.method = "turn"
                 /\ turn' = [turn EXCEPT ![q.id] = [phase |-> "created", thread |-> q.thread]]
    BY <1>8, AnswerMoves
  <2>2. PICK reply :
           /\ asked' = asked \ {q} /\ Settle(q.id, reply) /\ q.id \in Ids
           /\ q.method = "thread" => reply \in Errors \cup {Named(q.id, FALSE), Named(None, FALSE)}
           /\ \/ turn' = turn
              \/ /\ q.method = "turn"
                 /\ turn' = [turn EXCEPT ![q.id] = [phase |-> "created", thread |-> q.thread]]
    BY <2>1
  <2>3. /\ \A u \in Ids : \/ turn'[u] = turn[u]
                          \/ /\ u = q.id /\ q.method = "turn"
                             /\ turn'[u].thread = q.thread /\ turn'[u].phase = "created"
        /\ turn'[Old] = turn[Old]
    BY <2>2 DEF TypeOK, Turns, Ids, Old
  <2>4. \A thread : Unused(thread) => Unused(thread)'
    BY <2>2, <2>3 DEF Unused
  <2>5. /\ call'.pc = call.pc /\ call'.made = call.made /\ call'.reuse = call.reuse
        /\ \/ call'.reply = call.reply
           \/ call'.reply = reply /\ [id |-> q.id, for |-> "call"] \in pending
        /\ pending' \subseteq pending
    BY <1>0, <2>2 DEF Settle, Calls
  <2>6. ASSUME call.pc = "thread", call'.reply \in Names, call'.reply.id # None
        PROVE  Unused(call'.reply.id)
    <3>1. CASE call'.reply = call.reply
      BY <2>6, <3>1 DEF OneTurnPerThread
    <3>2. CASE call'.reply = reply /\ [id |-> q.id, for |-> "call"] \in pending
      <4>1. q.method = "thread"
        BY <2>6, <3>2 DEF Matched
      <4>2. reply = Named(q.id, FALSE)
        BY <2>2, <2>6, <3>2, <4>1, Apart DEF Named
      <4>3. Unused(q.id)
        BY <2>6, <3>2 DEF OneTurnPerThread
      <4> QED
        BY <3>2, <4>2, <4>3 DEF Named
    <3> QED
      BY <2>5, <3>1, <3>2
  <2>7. \A t \in Ids : turn'[t].phase = "none" => turn'[t].thread = None
    BY <2>3 DEF OneTurnPerThread
  <2> QED
    BY <2>3, <2>4, <2>5, <2>6, <2>7 DEF OneTurnPerThread
<1>9. CASE NotifyStarted
  <2>1. PICK t \in Ids : \E thread \in ThreadIds \cup {None} :
           /\ turn' = [turn EXCEPT ![t] = [phase |-> "announced", thread |-> thread]]
           /\ \/ \E q \in asked : q.id = t /\ q.method = "turn" /\ q.thread = thread
              \/ turn[t].phase = "created" /\ turn[t].thread = thread
    BY <1>9, StartedMoves
  <2>2. PICK thread \in ThreadIds \cup {None} :
           /\ turn' = [turn EXCEPT ![t] = [phase |-> "announced", thread |-> thread]]
           /\ \/ \E q \in asked : q.id = t /\ q.method = "turn" /\ q.thread = thread
              \/ turn[t].phase = "created" /\ turn[t].thread = thread
    BY <2>1
  <2>3. /\ \A u \in Ids : turn'[u].phase = (IF u = t THEN "announced" ELSE turn[u].phase)
                          /\ turn'[u].thread = (IF u = t THEN thread ELSE turn[u].thread)
        /\ turn'[Old] = turn[Old]
    BY <2>2 DEF TypeOK, Turns, Ids, Old
  <2>4. UNCHANGED <<pending, asked, call>>
    BY <1>9 DEF NotifyStarted, requests
  <2>5. \A other : Unused(other) => Unused(other)'
    BY <2>2, <2>3, <2>4 DEF Unused
  <2> QED
    BY <2>3, <2>4, <2>5 DEF OneTurnPerThread
<1>10. CASE NotifyItem
  <2>1. UNCHANGED <<pending, asked, call, turn>>
    BY <1>10 DEF NotifyItem, requests
  <2> QED
    BY <2>1 DEF OneTurnPerThread, Unused
<1>11. CASE NotifyCompleted
  <2>1. PICK t \in Turns : turn' = [turn EXCEPT ![t].phase = "ended"] /\ turn[t].phase = "announced"
    BY <1>11 DEF NotifyCompleted
  <2>2. \A u \in Turns : /\ turn'[u].thread = turn[u].thread
                         /\ turn'[u].phase = "none" => turn[u].phase = "none"
    BY <2>1 DEF TypeOK
  <2>3. UNCHANGED <<pending, asked, call>>
    BY <1>11 DEF NotifyCompleted, requests
  <2>4. \A other : Unused(other) => Unused(other)'
    BY <2>2, <2>3 DEF Unused, Turns
  <2> QED
    BY <2>2, <2>3, <2>4 DEF OneTurnPerThread, Turns
<1>12. CASE UNCHANGED <<requests, call, waiter, consumer, interrupt, closed, turn>>
  <2>1. UNCHANGED <<pending, asked, call, turn>>
    BY <1>12 DEF requests
  <2> QED
    BY <2>1 DEF OneTurnPerThread, Unused
<1> QED
  BY <1>1, <1>2, <1>3, <1>4, <1>5, <1>6, <1>7, <1>8, <1>9, <1>10, <1>11, <1>12, StepKinds

LEMMA WaitingStays ==
    ASSUME CodexInv, [Next]_vars
    PROVE  Waiting'
<1>0. /\ call \in Calls /\ waiter \in Waiters /\ nextId \in Nat
      /\ interrupt \in [pc : {"idle", "asked", "done"}, reply : Errors \cup {Done, None}]
      /\ pending \subseteq [id : Ids, for : {"call", "interrupt"}]
      /\ asked \subseteq Requests /\ call.reply \in Replies /\ call.made \in Nat
  BY CodexAssumption DEF CodexInv, TypeOK, Calls
<1> USE DEF CodexInv
<1>1. CASE CallMoves
  <2>1. CASE call'.pc = "turn"
    <3>1. PICK thread \in ThreadIds :
             /\ \/ call.pc = "account" /\ call.reuse /\ thread = Old
                \/ call.pc = "thread" /\ call.reply \in Names /\ thread = call.reply.id
             /\ \E s \in Sockets : Ask("turn", "call", thread, s)
             /\ waiter' = [on |-> TRUE, thread |-> thread, turn |-> None, settled |-> None,
                           request |-> nextId]
      BY <1>1, <2>1 DEF CallMoves, AnswerPcs
    <3>2. PICK s \in Sockets : Ask("turn", "call", thread, s)
      BY <3>1
    <3>3. /\ \A p \in pending' : p \in pending \/ p = [id |-> nextId, for |-> "call"]
          /\ \A q \in asked' : \/ q \in asked
                               \/ q = [id |-> nextId, method |-> "turn", socket |-> s,
                                       thread |-> thread]
          /\ nextId \in Ids /\ nextId' = nextId + 1
      BY <3>2, AskAdds
    <3>4. Unused(thread) /\ thread < nextId
      <4>1. CASE call.pc = "account" /\ call.reuse /\ thread = Old
        BY <3>3, <4>1, CodexAssumption DEF OneTurnPerThread, Old, Ids
      <4>2. CASE call.pc = "thread" /\ call.reply \in Names /\ thread = call.reply.id
        <5>1. thread # None
          BY <3>1, CodexAssumption DEF ThreadIds, Ids, Old
        <5> QED
          BY <4>2, <5>1 DEF OneTurnPerThread, Numbered
      <4> QED
        BY <3>1, <4>1, <4>2
    <3>5. \A p \in pending : p.for # "call"
      BY <1>1 DEF CallMoves, Matched
    <3>6. /\ \A q \in asked : q.id # nextId
          /\ turn[nextId].phase = "none"
      BY <1>0, <3>3 DEF Numbered, Requests, Ids
    <3>7. /\ waiter'.on /\ waiter'.request = nextId /\ waiter'.thread = thread
          /\ waiter'.turn = None
      BY <3>1
    <3>8. turn' = turn /\ call'.reply = None /\ None \notin Names
      BY <1>1, Apart DEF CallMoves
    <3>9. thread < nextId' /\ nextId < nextId'
      BY <3>3, <3>4, CodexAssumption DEF Ids, ThreadIds, Old
    <3>10. /\ \A q \in asked' : q.method = "turn" => (q.thread = thread <=> q.id = nextId)
           /\ \A q \in asked' : q.id = nextId => q.method = "turn"
      BY <3>3, <3>4, <3>6 DEF Unused
    <3>11. \A t \in Ids : turn[t].thread = thread => t = nextId
      BY <3>4 DEF Unused
    <3>12. \A p \in pending' : p.for = "call" => p.id = nextId
      BY <3>3, <3>5
    <3> QED
      BY <3>3, <3>6, <3>7, <3>8, <3>9, <3>10, <3>11, <3>12 DEF Waiting
  <2>2. CASE waiter' = IdleWaiter /\ call'.pc # "turn"
    BY <2>2 DEF Waiting, IdleWaiter
  <2>3. CASE waiter' = waiter /\ UNCHANGED requests /\ call'.pc # "turn"
    <3>1. turn' = turn
      BY <1>1 DEF CallMoves
    <3> QED
      BY <2>3, <3>1 DEF Waiting, requests
  <2>4. CASE /\ waiter' = waiter /\ call'.pc \in AnswerPcs \ {"turn"}
             /\ \E s \in Sockets : Ask(call'.pc, "call", None, s)
    <3>1. PICK s \in Sockets : Ask(call'.pc, "call", None, s)
      BY <2>4
    <3>2. /\ \A q \in asked' : \/ q \in asked
                               \/ q = [id |-> nextId, method |-> call'.pc, socket |-> s,
                                       thread |-> None]
          /\ nextId' = nextId + 1
      BY <3>1, AskAdds
    <3>3. turn' = turn
      BY <1>1 DEF CallMoves
    <3>4. waiter.on => waiter.request # nextId /\ waiter.request < nextId' /\ waiter.thread < nextId'
      BY <1>0, <3>2, CodexAssumption DEF Waiting, Ids, ThreadIds, Old
    <3>5. waiter.on =>
             /\ \A q \in asked' : q.method = "turn" => (q.thread = waiter.thread <=> q.id = waiter.request)
             /\ \A q \in asked' : q.id = waiter.request => q.method = "turn"
      BY <2>4, <3>2, <3>4 DEF Waiting
    <3> QED
      BY <2>4, <3>3, <3>4, <3>5 DEF Waiting
  <2>5. CASE /\ call.pc = "turn" /\ call'.pc = "output" /\ UNCHANGED requests
             /\ call.reply \in Names
             /\ waiter' = [waiter EXCEPT !.turn = IF call.reply.id = None THEN waiter.turn
                                                  ELSE call.reply.id]
    <3>1. waiter.on /\ call.reply.id \in {None, waiter.request}
      BY <2>5 DEF Waiting
    <3>2. /\ waiter'.on = waiter.on /\ waiter'.thread = waiter.thread
          /\ waiter'.request = waiter.request
          /\ waiter'.turn = waiter.turn \/ waiter'.turn = waiter.request
      BY <1>0, <2>5, <3>1 DEF Waiters
    <3>3. turn' = turn
      BY <1>1 DEF CallMoves
    <3> QED
      BY <2>5, <3>1, <3>2, <3>3 DEF Waiting, requests
  <2> QED
    BY <1>1, <2>1, <2>2, <2>3, <2>4, <2>5 DEF CallMoves, AnswerPcs
<1>2. ASSUME NEW s \in Sockets, Upgraded(s) \/ OpeningFails(s) PROVE Waiting'
  <2>1. /\ UNCHANGED <<pending, asked, nextId, turn, waiter>>
        /\ call'.pc = call.pc /\ call.pc = "opening"
    BY <1>2, <1>0 DEF Upgraded, OpeningFails, requests, Calls, Connects
  <2> QED
    BY <2>1 DEF Waiting
<1>3. CASE StartInterrupt
  <2>1. PICK s : Ask("interrupt", "interrupt", waiter.thread, s)
    BY <1>3 DEF StartInterrupt
  <2>2. /\ \A p \in pending' : p \in pending \/ p = [id |-> nextId, for |-> "interrupt"]
        /\ \A q \in asked' : \/ q \in asked
                             \/ q = [id |-> nextId, method |-> "interrupt", socket |-> s,
                                     thread |-> waiter.thread]
        /\ nextId' = nextId + 1
    BY <2>1, AskAdds
  <2>3. UNCHANGED <<call, turn, waiter>>
    BY <1>3 DEF StartInterrupt
  <2>4. waiter.on => waiter.request # nextId /\ waiter.request < nextId' /\ waiter.thread < nextId'
    BY <1>0, <2>2, CodexAssumption DEF Waiting, Ids, ThreadIds, Old
  <2>5. waiter.on =>
           /\ \A q \in asked' : q.method = "turn" => (q.thread = waiter.thread <=> q.id = waiter.request)
           /\ \A q \in asked' : q.id = waiter.request => q.method = "turn"
    BY <2>2, <2>4 DEF Waiting
  <2>6. call.pc = "turn" => \A p \in pending' : p.for = "call" => p.id = waiter.request
    BY <2>2 DEF Waiting
  <2> QED
    BY <2>3, <2>4, <2>5, <2>6 DEF Waiting
<1>4. CASE EndInterrupt
  <2>1. UNCHANGED <<pending, asked, nextId, call, turn, waiter>>
    BY <1>4 DEF EndInterrupt, requests
  <2> QED
    BY <2>1 DEF Waiting
<1>5. CASE ConnectionClosed /\ UNCHANGED <<nextId, asked, consumer, turn>>
  <2>1. /\ turn' = turn /\ asked' = asked /\ pending' \subseteq pending /\ nextId' = nextId
        /\ call'.pc = call.pc
        /\ call'.reply = call.reply \/ call'.reply = Error("other")
    BY <1>5, <1>0 DEF ConnectionClosed, RejectAll, Awaited, Calls
  <2>2. /\ waiter'.on = waiter.on /\ waiter'.thread = waiter.thread
        /\ waiter'.request = waiter.request /\ waiter'.turn = waiter.turn
        /\ ~waiter.on => waiter' = waiter
    BY <1>5, <1>0 DEF ConnectionClosed, RejectAll, Awaited, Settled, Waiters
  <2>3. Error("other") \notin Names
    BY Apart
  <2> QED
    BY <2>1, <2>2, <2>3 DEF Waiting
<1>6. CASE RequestTimer
  <2>1. /\ turn' = turn /\ asked' = asked /\ pending' \subseteq pending /\ nextId' = nextId
        /\ call'.pc = call.pc
        /\ call'.reply = call.reply \/ call'.reply = Error("other")
    BY <1>6, <1>0 DEF RequestTimer, Settle, Calls
  <2>2. /\ waiter'.on = waiter.on /\ waiter'.thread = waiter.thread
        /\ waiter'.request = waiter.request /\ waiter'.turn = waiter.turn
        /\ ~waiter.on => waiter' = waiter
    BY <1>6, <1>0 DEF RequestTimer, Settle, Settled, Waiters
  <2>3. Error("other") \notin Names
    BY Apart
  <2> QED
    BY <2>1, <2>2, <2>3 DEF Waiting
<1>7. CASE TurnTimer
  <2>1. UNCHANGED <<pending, asked, nextId, call, turn>>
    BY <1>7 DEF TurnTimer, requests
  <2>2. /\ waiter'.on = waiter.on /\ waiter'.thread = waiter.thread
        /\ waiter'.request = waiter.request /\ waiter'.turn = waiter.turn
        /\ ~waiter.on => waiter' = waiter
    BY <1>7, <1>0 DEF TurnTimer, Waiters
  <2> QED
    BY <2>1, <2>2 DEF Waiting
<1>8. CASE Answer
  <2>1. PICK q \in asked : \E reply :
           /\ asked' = asked \ {q} /\ Settle(q.id, reply) /\ q.id \in Ids
           /\ UNCHANGED <<nextId, waiter>>
           /\ q.method = "turn" => reply \in Errors \/ (reply \in Names /\ reply.id \in {q.id, None})
           /\ \/ turn' = turn
              \/ /\ q.method = "turn" /\ turn[q.id].phase = "none"
                 /\ turn' = [turn EXCEPT ![q.id] = [phase |-> "created", thread |-> q.thread]]
    BY <1>8, AnswerMoves
  <2>2. PICK reply :
           /\ asked' = asked \ {q} /\ Settle(q.id, reply) /\ q.id \in Ids
           /\ UNCHANGED <<nextId, waiter>>
           /\ q.method = "turn" => reply \in Errors \/ (reply \in Names /\ reply.id \in {q.id, None})
           /\ \/ turn' = turn
              \/ /\ q.method = "turn" /\ turn[q.id].phase = "none"
                 /\ turn' = [turn EXCEPT ![q.id] = [phase |-> "created", thread |-> q.thread]]
    BY <2>1
  <2>3. \A u \in Ids : \/ turn'[u] = turn[u]
                       \/ /\ u = q.id /\ q.method = "turn"
                          /\ turn'[u].thread = q.thread /\ turn'[u].phase = "created"
    BY <2>2 DEF TypeOK, Turns
  <2>4. /\ call'.pc = call.pc
        /\ \/ call'.reply = call.reply
           \/ call'.reply = reply /\ [id |-> q.id, for |-> "call"] \in pending
        /\ pending' \subseteq pending
    BY <1>0, <2>2 DEF Settle, Calls
  <2>5. ASSUME call.pc = "turn", call'.reply \in Names
        PROVE  call'.reply.id \in {None, waiter.request}
    <3>1. CASE call'.reply = call.reply
      BY <2>5, <3>1 DEF Waiting
    <3>2. CASE call'.reply = reply /\ [id |-> q.id, for |-> "call"] \in pending
      <4>1. q.method = "turn" /\ q.id = waiter.request
        BY <2>5, <3>2 DEF Matched, Waiting
      <4>2. reply \notin Errors
        BY <2>5, <3>2, Apart
      <4> QED
        BY <2>2, <3>2, <4>1, <4>2
    <3> QED
      BY <2>4, <3>1, <3>2
  <2>6. waiter.on =>
           /\ \A t \in Ids : turn'[t].thread = waiter.thread => t = waiter.request
           /\ turn'[waiter.request].phase # "none" => turn'[waiter.request].thread = waiter.thread
           /\ turn'[waiter.request].phase = "announced" => waiter.turn = waiter.request
    BY <2>3 DEF Waiting
  <2> QED
    BY <2>2, <2>4, <2>5, <2>6 DEF Waiting
<1>9. CASE NotifyStarted
  <2>1. PICK t \in Ids : \E thread \in ThreadIds \cup {None} :
           /\ turn' = [turn EXCEPT ![t] = [phase |-> "announced", thread |-> thread]]
           /\ \/ \E q \in asked : q.id = t /\ q.method = "turn" /\ q.thread = thread
              \/ turn[t].phase = "created" /\ turn[t].thread = thread
           /\ IF waiter.on /\ waiter.thread = thread
              THEN \/ waiter' = [waiter EXCEPT !.turn = t]
                   \/ waiter' = [waiter EXCEPT !.turn = t, !.settled = Error("other")]
              ELSE waiter' = waiter
    BY <1>9, StartedMoves
  <2>2. PICK thread \in ThreadIds \cup {None} :
           /\ turn' = [turn EXCEPT ![t] = [phase |-> "announced", thread |-> thread]]
           /\ \/ \E q \in asked : q.id = t /\ q.method = "turn" /\ q.thread = thread
              \/ turn[t].phase = "created" /\ turn[t].thread = thread
           /\ IF waiter.on /\ waiter.thread = thread
              THEN \/ waiter' = [waiter EXCEPT !.turn = t]
                   \/ waiter' = [waiter EXCEPT !.turn = t, !.settled = Error("other")]
              ELSE waiter' = waiter
    BY <2>1
  <2>3. \A u \in Ids : turn'[u].phase = (IF u = t THEN "announced" ELSE turn[u].phase)
                       /\ turn'[u].thread = (IF u = t THEN thread ELSE turn[u].thread)
    BY <2>2 DEF TypeOK, Turns
  <2>4. UNCHANGED <<nextId, pending, asked, call>>
    BY <1>9 DEF NotifyStarted, requests
  <2>5. waiter.on => (thread = waiter.thread <=> t = waiter.request)
    BY <2>2 DEF Waiting
  <2>6. CASE waiter.on /\ waiter.thread = thread
    <3>1. /\ waiter'.on /\ waiter'.thread = waiter.thread /\ waiter'.request = waiter.request
          /\ waiter'.turn = t /\ t = waiter.request
      BY <1>0, <2>2, <2>5, <2>6 DEF Waiters
    <3> QED
      BY <2>3, <2>4, <2>6, <3>1 DEF Waiting
  <2>7. CASE ~(waiter.on /\ waiter.thread = thread)
    <3>1. waiter' = waiter /\ (waiter.on => t # waiter.request /\ thread # waiter.thread)
      BY <2>2, <2>5, <2>7
    <3> QED
      BY <2>3, <2>4, <3>1 DEF Waiting
  <2> QED
    BY <2>6, <2>7
<1>10. CASE NotifyItem
  <2>1. UNCHANGED <<pending, asked, nextId, call, turn>>
    BY <1>10 DEF NotifyItem, Matches, requests
  <2>2. /\ waiter'.on = waiter.on /\ waiter'.thread = waiter.thread
        /\ waiter'.request = waiter.request /\ waiter'.turn = waiter.turn
        /\ ~waiter.on => waiter' = waiter
    BY <1>10, <1>0 DEF NotifyItem, Matches, Waiters
  <2> QED
    BY <2>1, <2>2 DEF Waiting
<1>11. CASE NotifyCompleted
  <2>1. PICK t \in Turns : turn' = [turn EXCEPT ![t].phase = "ended"] /\ turn[t].phase = "announced"
    BY <1>11 DEF NotifyCompleted
  <2>2. \A u \in Ids : /\ turn'[u].thread = turn[u].thread
                       /\ turn'[u].phase # "none" => turn[u].phase # "none"
                       /\ turn'[u].phase = "announced" => turn[u].phase = "announced"
    BY <2>1 DEF TypeOK, Turns
  <2>3. UNCHANGED <<nextId, pending, asked, call>>
    BY <1>11 DEF NotifyCompleted, requests
  <2>4. /\ waiter'.on = waiter.on /\ waiter'.thread = waiter.thread
        /\ waiter'.request = waiter.request /\ waiter'.turn = waiter.turn
        /\ ~waiter.on => waiter' = waiter
    BY <1>11, <1>0 DEF NotifyCompleted, Settled, Waiters, Matches
  <2> QED
    BY <2>2, <2>3, <2>4 DEF Waiting
<1>12. CASE UNCHANGED <<requests, call, waiter, consumer, interrupt, closed, turn>>
  <2>1. UNCHANGED <<pending, asked, nextId, call, turn, waiter>>
    BY <1>12 DEF requests
  <2> QED
    BY <2>1 DEF Waiting
<1> QED
  BY <1>1, <1>2, <1>3, <1>4, <1>5, <1>6, <1>7, <1>8, <1>9, <1>10, <1>11, <1>12, StepKinds

\* The output that is settled is that of the turn requested.
LEMMA OutputStays ==
    ASSUME CodexInv, [Next]_vars
    PROVE  waiter'.settled \in Outputs => waiter'.settled.turn = waiter'.request
<1>0. /\ call \in Calls /\ waiter \in Waiters /\ nextId \in Nat
      /\ interrupt \in [pc : {"idle", "asked", "done"}, reply : Errors \cup {Done, None}]
      /\ pending \subseteq [id : Ids, for : {"call", "interrupt"}]
      /\ asked \subseteq Requests /\ call.reply \in Replies /\ call.made \in Nat
  BY CodexAssumption DEF CodexInv, TypeOK, Calls
<1> USE DEF CodexInv
<1>1. CASE CallMoves
  <2>1. \/ waiter'.settled = waiter.settled /\ waiter'.request = waiter.request
        \/ waiter'.settled \in Errors \cup {None}
    BY <1>1, <1>0, Apart DEF CallMoves, IdleWaiter, Waiters
  <2>2. (Errors \cup {None}) \cap Outputs = {}
    BY Apart
  <2> QED
    BY <2>1, <2>2 DEF AnswerIsOwn
<1>2. ASSUME NEW s \in Sockets, Upgraded(s) \/ OpeningFails(s)
      PROVE  waiter'.settled \in Outputs => waiter'.settled.turn = waiter'.request
  <2>1. \/ waiter'.settled = waiter.settled /\ waiter'.request = waiter.request
        \/ waiter'.settled \in Errors \cup {None}
    BY <1>2, <1>0, Apart DEF Upgraded, OpeningFails, Waiters
  <2>2. (Errors \cup {None}) \cap Outputs = {}
    BY Apart
  <2> QED
    BY <2>1, <2>2 DEF AnswerIsOwn
<1>3. CASE StartInterrupt
  <2>1. \/ waiter'.settled = waiter.settled /\ waiter'.request = waiter.request
        \/ waiter'.settled \in Errors \cup {None}
    BY <1>3, <1>0, Apart DEF StartInterrupt, Waiters
  <2>2. (Errors \cup {None}) \cap Outputs = {}
    BY Apart
  <2> QED
    BY <2>1, <2>2 DEF AnswerIsOwn
<1>4. CASE EndInterrupt
  <2>1. \/ waiter'.settled = waiter.settled /\ waiter'.request = waiter.request
        \/ waiter'.settled \in Errors \cup {None}
    BY <1>4, <1>0, Apart DEF EndInterrupt, Waiters
  <2>2. (Errors \cup {None}) \cap Outputs = {}
    BY Apart
  <2> QED
    BY <2>1, <2>2 DEF AnswerIsOwn
<1>5. CASE ConnectionClosed /\ UNCHANGED <<nextId, asked, consumer, turn>>
  <2>1. \/ waiter'.settled = waiter.settled /\ waiter'.request = waiter.request
        \/ waiter'.settled \in Errors \cup {None}
    BY <1>5, <1>0, Apart DEF ConnectionClosed, RejectAll, Settled, Waiters
  <2>2. (Errors \cup {None}) \cap Outputs = {}
    BY Apart
  <2> QED
    BY <2>1, <2>2 DEF AnswerIsOwn
<1>6. CASE RequestTimer
  <2>1. \/ waiter'.settled = waiter.settled /\ waiter'.request = waiter.request
        \/ waiter'.settled \in Errors \cup {None}
    BY <1>6, <1>0, Apart DEF RequestTimer, Waiters
  <2>2. (Errors \cup {None}) \cap Outputs = {}
    BY Apart
  <2> QED
    BY <2>1, <2>2 DEF AnswerIsOwn
<1>7. CASE TurnTimer
  <2>1. \/ waiter'.settled = waiter.settled /\ waiter'.request = waiter.request
        \/ waiter'.settled \in Errors \cup {None}
    BY <1>7, <1>0, Apart DEF TurnTimer, Waiters
  <2>2. (Errors \cup {None}) \cap Outputs = {}
    BY Apart
  <2> QED
    BY <2>1, <2>2 DEF AnswerIsOwn
<1>8. CASE Answer
  <2>1. \/ waiter'.settled = waiter.settled /\ waiter'.request = waiter.request
        \/ waiter'.settled \in Errors \cup {None}
    BY <1>8, <1>0, Apart DEF Answer, Waiters
  <2>2. (Errors \cup {None}) \cap Outputs = {}
    BY Apart
  <2> QED
    BY <2>1, <2>2 DEF AnswerIsOwn
<1>9. CASE NotifyStarted
  <2>1. PICK t \in Ids : \E thread \in ThreadIds \cup {None} :
           IF waiter.on /\ waiter.thread = thread
           THEN \/ waiter' = [waiter EXCEPT !.turn = t]
                \/ waiter' = [waiter EXCEPT !.turn = t, !.settled = Error("other")]
           ELSE waiter' = waiter
    BY <1>9, StartedMoves
  <2>2. \/ waiter'.settled = waiter.settled /\ waiter'.request = waiter.request
        \/ waiter'.settled = Error("other")
    BY <1>0, <2>1 DEF Waiters
  <2>3. Error("other") \notin Outputs
    BY Apart
  <2> QED
    BY <2>2, <2>3 DEF AnswerIsOwn
<1>10. CASE NotifyItem
  <2>1. PICK t \in Turns, output \in BOOLEAN, accepted \in BOOLEAN :
           /\ Matches(t)
           /\ waiter' = CASE ~accepted -> [waiter EXCEPT !.settled = Error("other")]
                          [] accepted /\ output -> [waiter EXCEPT !.settled = Output(t)]
                          [] OTHER -> waiter
    BY <1>10 DEF NotifyItem
  <2>2. t = waiter.request
    BY <2>1, CodexAssumption DEF Matches, Waiting, Turns, Ids, Old
  <2>3. \/ waiter'.settled = waiter.settled /\ waiter'.request = waiter.request
        \/ waiter'.settled = Error("other")
        \/ waiter'.settled = Output(t) /\ waiter'.request = waiter.request
    BY <1>0, <2>1 DEF Waiters
  <2>4. Error("other") \notin Outputs /\ Output(t).turn = t
    BY Apart DEF Output
  <2> QED
    BY <2>2, <2>3, <2>4 DEF AnswerIsOwn
<1>11. CASE NotifyCompleted
  <2>1. PICK t \in Turns, value \in {"output", "none"} :
           waiter' = IF Matches(t)
                     THEN Settled(waiter, IF value = "output" THEN Output(t) ELSE Error("other"))
                     ELSE waiter
    BY <1>11 DEF NotifyCompleted
  <2>2. Matches(t) => t = waiter.request
    BY CodexAssumption DEF Matches, Waiting, Turns, Ids, Old
  <2>3. \/ waiter'.settled = waiter.settled /\ waiter'.request = waiter.request
        \/ waiter'.settled = Error("other")
        \/ Matches(t) /\ waiter'.settled = Output(t) /\ waiter'.request = waiter.request
    BY <1>0, <2>1 DEF Settled, Waiters
  <2>4. Error("other") \notin Outputs /\ Output(t).turn = t
    BY Apart DEF Output
  <2> QED
    BY <2>2, <2>3, <2>4 DEF AnswerIsOwn
<1>12. CASE UNCHANGED <<requests, call, waiter, consumer, interrupt, closed, turn>>
  <2>1. \/ waiter'.settled = waiter.settled /\ waiter'.request = waiter.request
        \/ waiter'.settled \in Errors \cup {None}
    BY <1>12, <1>0, Apart DEF AnswerIsOwn, Waiters
  <2>2. (Errors \cup {None}) \cap Outputs = {}
    BY Apart
  <2> QED
    BY <2>1, <2>2 DEF AnswerIsOwn
<1> QED
  BY <1>1, <1>2, <1>3, <1>4, <1>5, <1>6, <1>7, <1>8, <1>9, <1>10, <1>11, <1>12, StepKinds

\* The owner hears of the turn it requested only.
LEMMA ConsumerStays ==
    ASSUME CodexInv, [Next]_vars
    PROVE  ~consumer'.foreign
<1>0. consumer \in [refused : BOOLEAN, foreign : BOOLEAN]
  BY DEF CodexInv, TypeOK
<1> USE DEF CodexInv
<1>1. ASSUME NEW s \in Sockets, Connected(s) PROVE ~consumer'.foreign
  BY <1>1, <1>0 DEF Connected, AnswerIsOwn
<1>2. ASSUME NEW s \in Sockets, Upgraded(s) PROVE ~consumer'.foreign
  BY <1>2, <1>0 DEF Upgraded, AnswerIsOwn
<1>3. ASSUME NEW s \in Sockets, OpeningFails(s) PROVE ~consumer'.foreign
  BY <1>3, <1>0 DEF OpeningFails, AnswerIsOwn
<1>4. ASSUME NEW s \in Sockets, StreamEnds(s) PROVE ~consumer'.foreign
  BY <1>4, <1>0 DEF StreamEnds, AnswerIsOwn
<1>5. ASSUME NEW s \in Sockets, SocketEnds(s) PROVE ~consumer'.foreign
  BY <1>5, <1>0 DEF SocketEnds, AnswerIsOwn
<1>6. CASE Begin
  BY <1>6, <1>0 DEF Begin, FreshConsumer, AnswerIsOwn
<1>7. CASE StartInterrupt
  BY <1>7, <1>0 DEF StartInterrupt, AnswerIsOwn
<1>8. CASE Close
  BY <1>8, <1>0 DEF Close, AnswerIsOwn
<1>9. CASE ResumeOpening
  BY <1>9, <1>0 DEF ResumeOpening, AnswerIsOwn
<1>10. CASE ResumeInitialize
  BY <1>10, <1>0 DEF ResumeInitialize, AnswerIsOwn
<1>11. CASE ResumeAccount
  BY <1>11, <1>0 DEF ResumeAccount, AnswerIsOwn
<1>12. CASE ResumeThread
  BY <1>12, <1>0 DEF ResumeThread, AnswerIsOwn
<1>13. CASE ResumeTurn
  <2>1. CASE TurnRefused
    BY <1>13, <2>1 DEF TurnRefused, AnswerIsOwn
  <2>2. CASE call.reply.kind = "named" /\ TurnStarted
    <3>1. call.pc = "turn" /\ call.reply # None /\ call.reply \in Replies
      BY <1>13 DEF ResumeTurn, TypeOK, Calls
    <3>2. call.reply.id \in {None, waiter.request}
      BY <2>2, <3>1, NamedReply DEF Waiting
    <3>3. \/ consumer' = consumer
          \/ /\ call.reply.id # None
             /\ \E accepted \in BOOLEAN : consumer' = Heard(consumer, call.reply.id, accepted)
      BY <2>2 DEF TurnStarted
    <3>4. \A accepted \in BOOLEAN : ~Heard(consumer, waiter.request, accepted).foreign
      BY DEF Heard, AnswerIsOwn
    <3>5. \/ consumer' = consumer
          \/ \E accepted \in BOOLEAN : consumer' = Heard(consumer, waiter.request, accepted)
      BY <3>2, <3>3
    <3> QED
      BY <3>4, <3>5 DEF AnswerIsOwn
  <2> QED
    BY <1>13, <2>1, <2>2 DEF ResumeTurn
<1>14. CASE ResumeOutput
  BY <1>14, <1>0 DEF ResumeOutput, AnswerIsOwn
<1>15. CASE EndInterrupt
  BY <1>15, <1>0 DEF EndInterrupt, AnswerIsOwn
<1>16. CASE MakeCwd
  BY <1>16, <1>0 DEF MakeCwd, AnswerIsOwn
<1>17. CASE Cleanup
  BY <1>17, <1>0 DEF Cleanup, AnswerIsOwn
<1>18. CASE RequestTimer
  BY <1>18, <1>0 DEF RequestTimer, AnswerIsOwn
<1>19. CASE TurnTimer
  BY <1>19, <1>0 DEF TurnTimer, AnswerIsOwn
<1>20. CASE Answer
  BY <1>20, <1>0 DEF Answer, AnswerIsOwn
<1>21. CASE NotifyStarted
  <2>1. PICK t \in Ids : \E thread \in ThreadIds \cup {None} :
           /\ \/ \E q \in asked : q.id = t /\ q.method = "turn" /\ q.thread = thread
              \/ turn[t].phase = "created" /\ turn[t].thread = thread
           /\ \/ consumer' = consumer
              \/ /\ waiter.on /\ waiter.thread = thread
                 /\ consumer' \in {Heard(consumer, t, TRUE), Heard(consumer, t, FALSE)}
    BY <1>21, StartedMoves
  <2>2. \/ consumer' = consumer
        \/ t = waiter.request /\ consumer' \in {Heard(consumer, t, TRUE), Heard(consumer, t, FALSE)}
    BY <2>1 DEF Waiting
  <2>3. \A accepted \in BOOLEAN : ~Heard(consumer, waiter.request, accepted).foreign
    BY DEF Heard, AnswerIsOwn
  <2> QED
    BY <2>2, <2>3 DEF AnswerIsOwn
<1>22. CASE NotifyItem
  <2>1. PICK t \in Turns, accepted \in BOOLEAN : Matches(t) /\ consumer' = Heard(consumer, t, accepted)
    BY <1>22 DEF NotifyItem
  <2>2. t = waiter.request
    BY <2>1, CodexAssumption DEF Matches, Waiting, Turns, Ids, Old
  <2> QED
    BY <2>1, <2>2 DEF Heard, AnswerIsOwn
<1>23. CASE NotifyCompleted
  BY <1>23, <1>0 DEF NotifyCompleted, AnswerIsOwn
<1>24. CASE UNCHANGED vars
  BY <1>24, <1>0 DEF vars, connected, requests, AnswerIsOwn
<1> QED
  BY <1>1, <1>2, <1>3, <1>4, <1>5, <1>6, <1>7, <1>8, <1>9, <1>10, <1>11, <1>12, <1>13, <1>14,
     <1>15, <1>16, <1>17, <1>18, <1>19, <1>20, <1>21, <1>22, <1>23, <1>24
  DEF Next, Continue

-----------------------------------------------------------------------------
(* The theorems                                                              *)

LEMMA CodexInvInit == Init => CodexInv
<1> SUFFICES ASSUME Init PROVE CodexInv
  OBVIOUS
<1> USE DEF Init
<1>1. TypeOK
  <2>1. call \in Calls
    BY CodexAssumption DEF IdleCall, Calls, CallPcs, Replies, Results
  <2>2. waiter \in Waiters
    BY DEF IdleWaiter, Waiters, Results
  <2>3. nextId \in 1 .. MaxRequests + 1
    BY CodexAssumption
  <2>4. turn \in [Turns -> [phase : {"none", "created", "announced", "ended"},
                            thread : ThreadIds \cup {None}]]
    BY DEF NoTurn, ThreadIds
  <2> QED
    BY <2>1, <2>2, <2>3, <2>4 DEF TypeOK, FreshConsumer
<1>2. \A t \in Turns : turn[t] = IF t = Old THEN [phase |-> "announced", thread |-> Old] ELSE NoTurn
  OBVIOUS
<1>3. Old \in Turns /\ Old \notin Ids /\ Ids \subseteq Turns /\ None # Old /\ None \notin Ids
  BY CodexAssumption DEF Old, Turns, Ids
<1>4. \A t \in Ids : turn[t].phase = "none" /\ turn[t].thread = None
  BY <1>2, <1>3 DEF NoTurn
<1>5. Connects
  <2>1. \A s \in Sockets : socket[s] # "none" <=> s <= 0
    BY CodexAssumption DEF Sockets
  <2>2. 0 \in 0 .. MaxSockets
    BY CodexAssumption
  <2> QED
    BY <2>1, <2>2 DEF Connects, IdleCall, AnswerPcs
<1>6. Awaited /\ Matched /\ Expected
  BY DEF Awaited, Matched, Expected, IdleCall, AnswerPcs
<1>7. Numbered
  BY <1>3, <1>4, Apart DEF Numbered, IdleCall
<1>8. OneTurnPerThread
  BY <1>2, <1>3, <1>4 DEF OneTurnPerThread, Unused, IdleCall
<1>9. Waiting
  BY DEF Waiting, IdleCall, IdleWaiter
<1>10. AnswerIsOwn
  BY Apart DEF AnswerIsOwn, IdleWaiter, FreshConsumer
<1> QED
  BY <1>1, <1>5, <1>6, <1>7, <1>8, <1>9, <1>10 DEF CodexInv

LEMMA TypeStays ==
    ASSUME CodexInv, [Next]_vars
    PROVE  TypeOK'
<1>1. WireOK'
  BY WireStays DEF CodexInv
<1>2. RequestsOK' /\ CallOK'
  BY ExchangeStays
<1>3. turn' \in [Turns -> [phase : {"none", "created", "announced", "ended"},
                           thread : ThreadIds \cup {None}]]
  BY TurnsStay DEF CodexInv
<1> QED
  BY <1>1, <1>2, <1>3 DEF TypeOK, WireOK, RequestsOK, CallOK

LEMMA CodexInvStays == CodexInv /\ [Next]_vars => CodexInv'
<1> SUFFICES ASSUME CodexInv, [Next]_vars PROVE CodexInv'
  OBVIOUS
<1>1. TypeOK' /\ Connects'
  BY TypeStays, ConnectsStays
<1>2. Awaited' /\ Numbered' /\ Matched' /\ Expected'
  BY AwaitedStays, NumberedStays, MatchedStays, ExpectedStays
<1>3. OneTurnPerThread' /\ Waiting'
  BY OneTurnPerThreadStays, WaitingStays
<1>4. AnswerIsOwn'
  BY OutputStays, ConsumerStays DEF AnswerIsOwn
<1> QED
  BY <1>1, <1>2, <1>3, <1>4 DEF CodexInv

\* Whose answer is awaited, for any number of calls, connections and requests
\* (CodexAppServerClient.request, waitForTurnCompletion).
THEOREM CodexInvariance == Spec => []CodexInv
<1>1. Init => CodexInv
  BY CodexInvInit
<1>2. CodexInv /\ [Next]_vars => CodexInv'
  BY CodexInvStays
<1> QED
  BY <1>1, <1>2, PTL DEF Spec

\* A call returns the output of the turn it started, and its owner is told of no
\* other turn (matchesTurnNotification): a thread has one turn of the client,
\* which is the one the waiter was subscribed to before it was requested.
THEOREM TheAnswerIsOwn == Spec => []AnswerIsOwn
<1>1. CodexInv => AnswerIsOwn
  BY DEF CodexInv
<1> QED
  BY <1>1, CodexInvariance, PTL

\* Nothing a call awaits of the server is left pending when the connection has
\* ended or the client is closed (handleConnectionClosed, close).
THEOREM ClosingReachesEveryone == Spec => []CloseReachesEveryone
<1>1. CodexInv => CloseReachesEveryone
  BY DEF CodexInv, Awaited, CloseReachesEveryone
<1> QED
  BY <1>1, CodexInvariance, PTL

\* The completion of the turn a call waits for settles the call, whenever it
\* comes (handleTurnNotification, matchesTurnNotification): the waiter knows the
\* turn once the server has announced it.
THEOREM TheCompletionIsNotMissed == Spec => CompletionIsNotMissed
<1> DEFINE Missed == \A t \in Ids : turn[t].phase # "ended" /\ turn'[t].phase = "ended"
                        /\ waiter.on /\ waiter.request = t => waiter'.settled # None
<1>1. CodexInv /\ [Next]_vars => Missed
  <2> SUFFICES ASSUME CodexInv, [Next]_vars, NEW t \in Ids,
                      turn[t].phase # "ended", turn'[t].phase = "ended",
                      waiter.on, waiter.request = t
               PROVE  waiter'.settled # None
    OBVIOUS
  <2>1. turn' # turn
    OBVIOUS
  <2>2. ~CallMoves /\ ~(turn' = turn)
    BY <2>1 DEF CallMoves
  <2>3. turn \in [Turns -> [phase : {"none", "created", "announced", "ended"},
                            thread : ThreadIds \cup {None}]]
        /\ t \in Turns /\ waiter \in Waiters
    BY DEF CodexInv, TypeOK, Turns
  <2>4. ~Answer
    <3> SUFFICES ASSUME Answer PROVE FALSE
      OBVIOUS
    <3>1. PICK q \in asked :
             \/ turn' = turn
             \/ turn' = [turn EXCEPT ![q.id] = [phase |-> "created", thread |-> q.thread]]
      BY AnswerMoves
    <3> QED
      BY <2>2, <2>3, <3>1
  <2>5. ~NotifyStarted
    <3> SUFFICES ASSUME NotifyStarted PROVE FALSE
      OBVIOUS
    <3>1. PICK u \in Ids : \E thread \in ThreadIds \cup {None} :
             turn' = [turn EXCEPT ![u] = [phase |-> "announced", thread |-> thread]]
      BY StartedMoves
    <3> QED
      BY <2>3, <3>1
  <2>6. NotifyCompleted
    BY <2>2, <2>4, <2>5, StepKinds
    DEF Upgraded, OpeningFails, StartInterrupt, EndInterrupt, RequestTimer, TurnTimer, NotifyItem
  <2>7. PICK u \in Turns, value \in {"output", "none"} :
           /\ turn[u].phase = "announced"
           /\ turn' = [turn EXCEPT ![u].phase = "ended"]
           /\ waiter' = IF Matches(u)
                        THEN Settled(waiter, IF value = "output" THEN Output(u) ELSE Error("other"))
                        ELSE waiter
    BY <2>6 DEF NotifyCompleted
  <2>8. u = t
    BY <2>3, <2>7
  <2>9. Matches(u)
    BY <2>7, <2>8 DEF CodexInv, Waiting, Matches
  <2>10. Output(u) # None /\ Error("other") # None
    BY ValuesTyped, Apart
  <2> QED
    BY <2>3, <2>7, <2>9, <2>10 DEF Settled, Waiters
<1> QED
  BY <1>1, CodexInvariance, PTL DEF Spec, CompletionIsNotMissed

=============================================================================
