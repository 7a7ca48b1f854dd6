-------------------------- MODULE PsychiatristDockProofs --------------------------
(***************************************************************************)
(* Theorems about PsychiatristDock.  For any number of turns, threads,      *)
(* requests, Stops and faults: its types, and that a permission to use web  *)
(* sources goes with a pair that was refused them.  When nobody starts a    *)
(* turn while a load is under way and Stop is pressed once at most: that an *)
(* idle dock shows whole answers.                                           *)
(***************************************************************************)
EXTENDS PsychiatristDock, WellFoundedInduction, TLAPS

-----------------------------------------------------------------------------
(* What the server, and what it has said, can be.                          *)

Born(t) == turn[t].phase # "none"

\* A turn belongs to a pair, and so to a question that was asked in its thread.
TurnOf(t) ==
    LET p == turn[t].pair
    IN  IF Born(t)
        THEN /\ turn[t].kind \in Kinds /\ p \in Turns /\ turn[t].thread \in Threads
             /\ turn[t].kind = "message" => p = t
             /\ Born(p) /\ turn[p].kind = "message" /\ turn[p].pair = p
             /\ turn[p].thread = turn[t].thread
             /\ (turn[t].end = None) = (turn[t].phase = "running")
        ELSE turn[t] = Unborn

\* Of some turns: whether one of the pair was refused web sources.
WasRefused(ts, p) == \E t \in Turns : ts[t].pair = p /\ ts[t].end = "refused"

\* A pair as the server has it, or once had it: it is completed when the turn
\* it names completed, and never the other way round.
PairIn(ts, p, pair) ==
    LET t == pair.turn
    IN  IF t = None THEN pair = NoPair
        ELSE /\ ts[p].phase # "none" /\ ts[p].kind = "message"
             /\ ts[t].phase # "none" /\ ts[t].pair = p
             /\ pair.answer # None => pair.answer = t /\ pair.status = "completed"
             /\ pair.status = "completed" => pair.answer = t /\ ts[t].end = "completed"
             /\ ts[t].kind = "regenerate" => pair.status = "completed"
             /\ pair.retry => WasRefused(ts, p)

\* Only an answer is regenerated.
AnswerOf(t) == turn[t].kind = "regenerate" => stored[turn[t].pair].answer # None

ServerInv == \A t \in Turns : TurnOf(t) /\ PairIn(turn, t, stored[t]) /\ AnswerOf(t)

\* What a thread response tells was so.
LoadOf(i) ==
    LET r == request[i].reply
    IN  request[i].call = "load"
        /\ (request[i].pc = "half" \/ (request[i].pc = "answered" /\ r.ok)) =>
          /\ r \in ThreadReplies
          /\ r.active # None => Born(r.active)
          /\ \A p \in Turns :
                /\ PairIn(turn, p, r.pairs[p])
                /\ r.pairs[p] # NoPair => turn[p].thread = r.thread

StartOf(i) ==
    LET r == request[i].reply
    IN  request[i].call \in {"message", "regenerate"} /\ request[i].pc = "answered" /\ r.ok =>
          /\ r \in StartReplies /\ Born(r.turn)
          /\ request[i].call = "message" => turn[r.turn].kind = "message"

CancelOf(i) ==
    LET t == request[i].turn
    IN  request[i].call = "cancel" =>
          /\ t \in Turns /\ Born(t)
          /\ request[i].pc = "half" => turn[t].end = "canceled"
          /\ request[i].pc = "answered" /\ request[i].reply.ok =>
                /\ request[i].reply \in CancelReplies
                /\ request[i].reply.canceled => turn[t].end = "canceled"

\* The turn the dock follows, and the pair it would ask to allow web sources.
FollowInv ==
    /\ source.turn # None => source.turn = running.turn /\ source.at >= 1
    /\ running.turn = None => running = Nobody
    /\ running.turn # None => Born(running.turn) /\ running.pair = turn[running.turn].pair
    /\ retry # None => turn[retry].thread = thread /\ WasRefused(turn, retry)

AllowOf(i) ==
    LET p == request[i].pair
    IN  /\ request[i].call = "regenerate" => p \in Turns
        /\ request[i].allow =>
              p \in Turns /\ turn[p].thread = request[i].thread /\ WasRefused(turn, p)

RequestOf(i) == LoadOf(i) /\ StartOf(i) /\ CancelOf(i) /\ AllowOf(i)

DockInv == ServerInv /\ (\A i \in Slots : RequestOf(i)) /\ FollowInv

-----------------------------------------------------------------------------
(* What the transcript can be, for one who asks while nothing is loaded.   *)

\* The text is the whole answer of the turn, if there is any.
Kept(ts, p, t, text) ==
    text # <<>> => /\ t \in Turns /\ ts[t].pair = p /\ ts[t].end = "completed"
                   /\ text = Whole(t)

Fresh(ts, p, row) ==
    /\ row.draft = None
    /\ Kept(ts, p, row.turn, row.text)
    /\ row.text # <<>> => row.status = "completed"

\* Once a Stop was answered, and no other can be, a canceled turn is over too.
Over == stops >= 1 /\ \A i \in Slots : request[i].call # "cancel"
OverEnds == IF Over THEN {"canceled"} ELSE {}
EndsWell(ts, t, ends) == ts[t].end \in {"completed"} \cup ends

\* A row an event of the followed turn has changed.
Drafted(ts, p, row, t, ends) ==
    /\ p = ts[t].pair /\ row.turn = t /\ row.status # None
    /\ row.draft # None =>
          /\ row.draft = t /\ row.status = "running" /\ ts[t].kind = "regenerate"
          /\ Kept(ts, p, row.from, row.text)
          /\ row.from = t => EndsWell(ts, t, ends)

\* The row of a pair while a turn is followed.
RowIs(ts, p, row, t, ends) ==
    /\ \A u \in {row.turn, row.from} : u # None => ts[u].phase # "none"
    /\ row.status # None => row.turn # None
    /\ (row.draft = None) = (row.from = None)
    /\ Fresh(ts, p, row) \/ (t # None /\ Drafted(ts, p, row, t, ends))
    /\ t # None /\ row.turn = t =>
          /\ row.status = "completed" => ts[t].end = "completed"
          /\ ts[t].kind = "regenerate" /\ row.draft = None => EndsWell(ts, t, ends)

\* Before the first event of a stream the rows are as a load has shown them.
FirstInv == source.turn # None /\ source.at = 1 => \A p \in Turns : Fresh(turn, p, shown[p])

IsStart(i) == request[i].call \in {"message", "regenerate"}

\* A start is alone until it is answered.
AloneOf(i) ==
    IsStart(i) =>
       /\ phase = "starting" /\ IsCurrent(i)
       /\ \A j \in Slots \ {i} : ~IsStart(j) /\ request[j].call # "load"
       /\ request[i].pc = "answered" /\ request[i].reply.ok =>
             \A p \in Turns : shown[p].turn # request[i].reply.turn

StopInv ==
    /\ stops = 0 => \A i \in Slots : request[i].call # "cancel"
    /\ \A i, j \in Slots : request[i].call = "cancel" /\ request[j].call = "cancel" => i = j

PhaseInv ==
    /\ thread = None \/ load # "idle"
    /\ phase = "starting" => ~message /\ thread # None /\ \E i \in Slots : IsStart(i)
    /\ phase \in {"idle", "starting"} => running = Nobody /\ source = Closed

TranscriptInv ==
    /\ \A p \in Turns : RowIs(turn, p, shown[p], running.turn, OverEnds)
    /\ \A i \in Slots : AloneOf(i)
    /\ FirstInv /\ StopInv /\ PhaseInv

-----------------------------------------------------------------------------
(* Data.                                                                   *)

\* What has not begun has the types of what has.
LEMMA ConstantsTyped ==
    /\ NoPair \in Pairs /\ Blank \in Rows /\ Unborn \in TurnRecords /\ Free \in Requests
    /\ Nobody \in [pair : Named, turn : Named]
    /\ Closed \in [turn : Named, at : Nat] /\ Untried \in [turn : Named, attempts : 0 .. 1]
<1>1. 0 \in 0 .. MaxDeltas /\ 0 \in 0 .. MaxStops
  BY DockAssumption
<1>2. <<>> \in Answers
  BY DEF Answers
<1> QED
  BY <1>1, <1>2 DEF NoPair, Blank, Unborn, Free, Nobody, Closed, Untried, Pairs, Rows,
     TurnRecords, Requests, Replies, Named

\* None is nothing else.
LEMMA NoneIsNothing ==
    /\ None \notin Turns /\ None \notin Threads
    /\ None \notin Kinds /\ None \notin Ends /\ None \notin Statuses /\ None \notin Calls
BY NoneAssumption DEF Turns, Threads

\* The whole answer of a turn is a text, and not the empty one.
LEMMA WholeTyped ==
    ASSUME NEW t \in Turns
    PROVE  Whole(t) \in Answers /\ Whole(t) # <<>>
<1>1. MaxDeltas \in Nat \ {0}
  BY DockAssumption
<1>2. \A k \in 1 .. MaxDeltas : <<t, k>> \in Turns \X Nat
  OBVIOUS
<1>3. Whole(t) \in [1 .. MaxDeltas -> Turns \X Nat]
  BY <1>2 DEF Whole
<1>4. Whole(t) \in Answers
  BY <1>1, <1>3 DEF Answers
<1>5. Len(Whole(t)) = MaxDeltas
  BY <1>1, <1>4 DEF Whole, Answers
<1> QED
  BY <1>1, <1>4, <1>5 DEF Answers

\* The greatest of some turns is one of them.
LEMMA MaxIsOne ==
    ASSUME NEW S \in SUBSET Turns, S # {}
    PROVE  Max(S) \in S
<1>1. MaxTurns \in Nat
  BY DockAssumption
<1> DEFINE D == {MaxTurns - t : t \in S}
<1>2. \A t \in S : t \in Int /\ t <= MaxTurns
  BY <1>1 DEF Turns
<1>3. D \in SUBSET Nat
  BY <1>1, <1>2
<1>4. D # {}
  OBVIOUS
<1>5. PICK least \in D : \A d \in D : <<d, least>> \notin OpToRel(<, Nat)
  <2> HIDE DEF D
  <2> QED
    BY <1>3, <1>4, NatLessThanWellFounded, WFMin
<1>6. PICK most \in S : least = MaxTurns - most
  BY <1>5
<1>7. ASSUME NEW t \in S
      PROVE  most >= t
  <2>1. MaxTurns - t \in D
    OBVIOUS
  <2>2. ~(MaxTurns - t < least)
    BY <1>3, <1>5, <2>1 DEF OpToRel
  <2> QED
    BY <1>1, <1>2, <1>6, <2>2
<1> QED
  BY <1>7 DEF Max

\* The rows a load shows, and those the end of a turn leaves, are rows.
LEMMA RowsTyped ==
    ASSUME NEW status \in Statuses \cup {None}, NEW text \in Answers, NEW t \in Named,
           NEW pair \in Pairs, NEW row \in Rows
    PROVE  /\ Settled(row, status, text, t) \in Rows
           /\ ToTranscriptPair(pair) \in Rows
           /\ Original(row) \in Named
<1>1. <<>> \in Answers
  BY DEF Answers
<1>2. (IF pair.answer = None THEN <<>> ELSE Whole(pair.answer)) \in Answers
  BY <1>1, WholeTyped DEF Pairs, Named
<1>3. ToTranscriptPair(pair) \in Rows
  BY <1>2, ConstantsTyped DEF ToTranscriptPair, Pairs, Rows, Named
<1>4. Settled(row, status, text, t) \in Rows
  BY ConstantsTyped DEF Settled, Rows, Named
<1>5. Original(row) \in Named
  BY DEF Original, Rows
<1> QED
  BY <1>3, <1>4, <1>5

-----------------------------------------------------------------------------
(* Types.                                                                  *)

EventTyped(e) == e.type \in Ends \cup {"started", "delta"} /\ e.k \in Nat

\* Whatever event is applied to a row leaves a row.
LEMMA AppliedTyped ==
    ASSUME TypeOK, NEW row \in Rows, NEW t \in Turns, NEW e, EventTyped(e)
    PROVE  Applied(row, t, e) \in Rows /\ FirstRow(t) \in Rows
<1>0. t \in Named /\ <<>> \in Answers
  BY DEF Named, Answers
<1>1. FirstRow(t) \in Rows
  BY <1>0, ConstantsTyped DEF FirstRow, Rows, Statuses
<1>2. ApplyStarted(row, t) \in Rows
  BY <1>0 DEF ApplyStarted, Rows, Statuses
<1>3. ApplyDelta(row, t, e.k) \in Rows
  <2>1. Append(row.text, <<t, e.k>>) \in Answers
    BY DEF EventTyped, Answers, Rows
  <2> QED
    BY <2>1 DEF ApplyDelta, Rows
<1>4. Settled(row, "completed", Whole(t), t) \in Rows
  BY <1>0, WholeTyped, RowsTyped, ConstantsTyped DEF Statuses
<1>5. row.text \in Answers /\ Original(row) \in Named
  BY RowsTyped, ConstantsTyped DEF Rows, Original
<1>6. ApplyCanceled(row, t) \in Rows
  BY <1>0, <1>5, RowsTyped, ConstantsTyped DEF ApplyCanceled, Statuses
<1>7. ASSUME NEW refused \in BOOLEAN
      PROVE  ApplyFailed(row, t, refused) \in Rows
  <2> DEFINE keeps == row.text # <<>>
                      /\ (row.draft = t \/ (refused /\ turn[t].kind = "regenerate"))
             after == IF keeps THEN Settled(row, "completed", row.text, Original(row))
                      ELSE Settled(row, "failed", <<>>, t)
  <2>1. after \in Rows
    BY <1>0, <1>5, RowsTyped, ConstantsTyped DEF Statuses
  <2> HIDE DEF after
  <2>2. [after EXCEPT !.retry = refused] \in Rows
    BY <2>1 DEF Rows
  <2> QED
    BY <2>2 DEF ApplyFailed, after
<1> QED
  BY <1>1, <1>2, <1>3, <1>4, <1>6, <1>7 DEF Applied

\* applyPsychiatristStreamEvent leaves a transcript.
LEMMA ShownTyped ==
    ASSUME TypeOK, NEW t \in Turns, turn[t].pair \in Turns, NEW e, EventTyped(e), NEW named
    PROVE  ApplyStreamEvent(t, e, named) \in [Turns -> Rows]
<1>1. shown \in [Turns -> Rows] /\ shown[turn[t].pair] \in Rows
  BY DEF TypeOK
<1>2. Applied(shown[turn[t].pair], t, e) \in Rows /\ FirstRow(t) \in Rows
  BY <1>1, AppliedTyped
<1> QED
  BY <1>1, <1>2 DEF ApplyStreamEvent

\* What the end of a turn stores is a pair.
LEMMA StoreTyped ==
    ASSUME TypeOK, NEW p \in Turns, NEW t \in Turns, NEW end \in Ends
    PROVE  StorePair(p, t, end) \in Pairs
<1>1. stored[p] \in Pairs /\ t \in Named
  BY DEF TypeOK, Named
<1> QED
  BY <1>1, ConstantsTyped DEF StorePair, Pairs, Statuses, Ends

\* A turn that starts is a turn.
LEMMA StartTyped ==
    ASSUME TypeOK, NEW t \in Turns, NEW p \in Turns, NEW kind \in Kinds, StartTurn(t, p, kind)
    PROVE  turn' \in [Turns -> TurnRecords] /\ stored' \in [Turns -> Pairs]
<1> DEFINE u == [Unborn EXCEPT !.phase = "running", !.active = TRUE, !.thread = latest,
                               !.pair = p, !.kind = kind]
           s == [NoPair EXCEPT !.status = "pending", !.turn = t]
<1>1. u \in TurnRecords
  BY ConstantsTyped DEF TurnRecords, Named, TypeOK
<1>2. s \in Pairs
  BY ConstantsTyped DEF Pairs, Named, Statuses
<1>3. turn' = [turn EXCEPT ![t] = u] /\ stored' \in {stored, [stored EXCEPT ![t] = s]}
  BY DEF StartTurn
<1> HIDE DEF u, s
<1> QED
  BY <1>1, <1>2, <1>3 DEF TypeOK

\* A turn that ends is one still.
LEMMA EndTyped ==
    ASSUME TypeOK, NEW t \in Turns, turn[t].pair \in Turns, NEW end \in Ends,
           NEW told \in {"settled", "told"}, EndTurn(t, end, told)
    PROVE  turn' \in [Turns -> TurnRecords] /\ stored' \in [Turns -> Pairs]
<1>1. StorePair(turn[t].pair, t, end) \in Pairs
  BY StoreTyped
<1>2. stored' \in [Turns -> Pairs]
  BY <1>1 DEF EndTurn, TypeOK
<1>3. turn[t] \in TurnRecords /\ turn \in [Turns -> TurnRecords]
  BY DEF TypeOK
<1>4. [turn[t] EXCEPT !.end = end, !.phase = told] \in TurnRecords
  BY <1>3 DEF TurnRecords
<1>5. turn' = [turn EXCEPT ![t] = [turn[t] EXCEPT !.end = end, !.phase = told]]
  BY <1>3 DEF EndTurn
<1>6. turn' \in [Turns -> TurnRecords]
  BY <1>3, <1>4, <1>5
<1> QED
  BY <1>2, <1>6

\* The event an EventSource delivers: its end is that of the turn.
LEMMA EventIs ==
    ASSUME TypeOK, DockInv, HasEvent
    PROVE  /\ source.turn \in Turns /\ Born(source.turn) /\ turn[source.turn].pair \in Turns
           /\ EventTyped(Event) /\ source.at >= 1
           /\ Event.type \in Ends =>
                 turn[source.turn].phase = "told" /\ Event.type = turn[source.turn].end
           /\ (Event.type = "started") = (source.at = 1)
<1> DEFINE t == source.turn
<1>1. t \in Turns /\ source.at \in Nat /\ running.turn \in Named
  BY DEF HasEvent, TypeOK, Named
<1>2. t = running.turn /\ source.at >= 1
  BY DEF HasEvent, DockInv, FollowInv
<1>3. Born(t) /\ TurnOf(t)
  BY <1>1, <1>2 DEF HasEvent, DockInv, ServerInv, FollowInv
<1>4. turn[t].deltas \in Nat /\ turn[t].end \in Ends \cup {None}
  BY <1>1, DockAssumption DEF TypeOK, TurnRecords
<1>5. turn[t].pair \in Turns /\ (turn[t].end = None) = (turn[t].phase = "running")
  BY <1>3 DEF TurnOf
<1>6. CASE source.at = 1
  BY <1>1, <1>2, <1>3, <1>5, <1>6 DEF Event, EventAt, EventTyped, Ends
<1>7. CASE source.at # 1 /\ source.at <= 1 + turn[t].deltas
  <2>1. Event.type = "delta" /\ Event.k \in Nat
    BY <1>1, <1>2, <1>4, <1>7 DEF Event, EventAt
  <2> QED
    BY <1>1, <1>2, <1>3, <1>5, <1>7, <2>1 DEF EventTyped, Ends
<1>8. CASE source.at # 1 /\ ~(source.at <= 1 + turn[t].deltas)
  <2>1. Event.type = turn[t].end /\ Event.k = 0
    BY <1>1, <1>2, <1>4, <1>8 DEF Event, EventAt
  <2>2. turn[t].phase = "told"
    BY <1>1, <1>2, <1>4, <1>8 DEF HasEvent, Length
  <2>3. turn[t].end \in Ends
    BY <1>4, <1>5, <2>2
  <2> QED
    BY <1>1, <1>2, <1>3, <1>5, <1>8, <2>1, <2>2, <2>3 DEF EventTyped, Ends
<1> QED
  BY <1>6, <1>7, <1>8

\* A request that is freed, or replaced by a request, leaves requests.
LEMMA RequestsTyped ==
    ASSUME TypeOK, NEW i \in Slots
    PROVE  /\ request[i] \in Requests
           /\ Done(i) => request' \in [Slots -> Requests]
           /\ \A r \in Requests : request' = [request EXCEPT ![i] = r] =>
                 request' \in [Slots -> Requests]
BY ConstantsTyped DEF TypeOK, Done

\* A response, or the error instead of it, is one of the replies.
LEMMA SaidTyped ==
    ASSUME TypeOK, NEW i \in Slots, NEW reply \in Replies, Said(i, reply)
    PROVE  request' \in [Slots -> Requests] /\ faults' \in 0 .. MaxFaults
<1>1. [ok |-> FALSE, code |-> "other"] \in Replies
  BY DEF Replies, Refusals
<1>2. PICK r \in Replies : request' = [request EXCEPT ![i].pc = "answered", ![i].reply = r]
  BY <1>1 DEF Said
<1>3. [request[i] EXCEPT !.pc = "answered", !.reply = r] \in Requests
  BY RequestsTyped DEF Requests
<1>4. request' \in [Slots -> Requests]
  BY <1>2, <1>3 DEF TypeOK
<1>5. faults' \in 0 .. MaxFaults
  BY DockAssumption DEF Said, Works, Fails, TypeOK
<1> QED
  BY <1>4, <1>5

\* So is a refusal.
LEMMA RefusedTyped ==
    ASSUME TypeOK, NEW i \in Slots, NEW code \in {"stale", "other"}, Refused(i, code)
    PROVE  request' \in [Slots -> Requests] /\ faults' \in 0 .. MaxFaults
<1>1. [ok |-> FALSE, code |-> code] \in Replies
  BY DEF Replies, Refusals
<1>2. [request[i] EXCEPT !.pc = "answered", !.reply = [ok |-> FALSE, code |-> code]] \in Requests
  BY <1>1, RequestsTyped DEF Requests
<1> QED
  BY <1>2 DEF Refused, Works, TypeOK

\* A load is a request.
LEMMA LoadTyped ==
    ASSUME TypeOK, NEW i \in Slots, NEW why \in Reasons, NEW token \in 0 .. MaxStops,
           LoadThread(i, why, token)
    PROVE  /\ request' \in [Slots -> Requests]
           /\ load' = "loading" /\ message' = FALSE
<1> DEFINE r == [Free EXCEPT !.call = "load", !.pc = "sent", !.why = why, !.token = token,
                   !.thread = IF why \in {"failed", "malformed"} THEN thread ELSE None,
                   !.pair = IF why = "stop" THEN running.pair ELSE None,
                   !.turn = IF why \in {"stop", "malformed"} THEN running.turn ELSE None]
<1>1. thread \in Threads \cup {None} /\ running.pair \in Named /\ running.turn \in Named
  BY DEF TypeOK
<1>2. r \in Requests
  BY ZenonT(60), <1>1, ConstantsTyped DEF Requests, Named, Calls
<1>3. request' = [request EXCEPT ![i] = r] /\ load' = "loading" /\ message' = FALSE
  BY DEF LoadThread
<1> HIDE DEF r
<1> QED
  BY <1>2, <1>3, RequestsTyped

\* A call of a route is a request.
LEMMA CallTyped ==
    ASSUME TypeOK, NEW i \in Slots, NEW call \in Calls, NEW p \in Named, NEW t \in Named,
           NEW allow \in BOOLEAN, NEW token \in 0 .. MaxStops
    PROVE  [Call(call) EXCEPT !.pair = p, !.turn = t, !.allow = allow, !.token = token]
              \in Requests
<1>1. thread \in Threads \cup {None}
  BY DEF TypeOK
<1> QED
  BY <1>1, ConstantsTyped DEF Call, Requests

\* The turn the dock follows and its EventSource, when it begins to.
LEMMA FollowTyped ==
    ASSUME TypeOK, NEW t \in Turns, FollowTurn(t)
    PROVE  /\ running' \in [pair : Named, turn : Named] /\ source' \in [turn : Named, at : Nat]
           /\ malformed' \in [turn : Named, attempts : 0 .. 1]
           /\ phase' \in {"idle", "starting", "running", "stopping"}
<1>1. turn[t].pair \in Named
  BY DEF TypeOK, TurnRecords
<1> QED
  BY <1>1 DEF FollowTurn, ConnectRunningStream, TypeOK, Named

\* And when it lets go of it.
LEMMA ClearTyped ==
    ASSUME ClearRunningTurnState
    PROVE  /\ running' \in [pair : Named, turn : Named] /\ source' \in [turn : Named, at : Nat]
           /\ malformed' \in [turn : Named, attempts : 0 .. 1]
           /\ phase' \in {"idle", "starting", "running", "stopping"}
BY ConstantsTyped DEF ClearRunningTurnState

\* The pair that wants web sources is one of those that do.
LEMMA RetryTyped ==
    ASSUME NEW pairs, SyncRetry(pairs)
    PROVE  /\ retry' \in Named
           /\ retry' # None => retry' \in Turns /\ pairs[retry'].retry
<1>1. Wanting(pairs) \in SUBSET Turns
  BY DEF Wanting
<1>2. CASE Wanting(pairs) = {}
  BY <1>2 DEF SyncRetry, Named
<1>3. CASE Wanting(pairs) # {}
  <2>1. Max(Wanting(pairs)) \in Wanting(pairs)
    BY <1>1, <1>3, MaxIsOne
  <2>2. retry' \in Wanting(pairs)
    BY <1>3, <2>1 DEF SyncRetry
  <2> QED
    BY <2>2 DEF Wanting, Named
<1> QED
  BY <1>2, <1>3

-----------------------------------------------------------------------------
(* Every step keeps the types.                                             *)

\* Content that changes keeps the types.
LEMMA ContentTyped ==
    ASSUME TypeOK, ChangeContent
    PROVE  TypeOK'
<1> USE DEF server, dock, follow
<1>1. latest' \in Threads
  BY DockAssumption DEF ChangeContent, TypeOK, Threads
<1> QED
  BY <1>1 DEF ChangeContent, TypeOK

\* A turn of another tab, or of this one, keeps the types.
LEMMA ServerStepTyped ==
    ASSUME TypeOK, DockInv, NEW t \in Turns,
           StartElsewhere(t) \/ RunTurn(t)
    PROVE  TypeOK'
<1> USE DEF server, dock, follow
<1>1. ASSUME StartElsewhere(t)
      PROVE  TypeOK'
  <2>1. PICK p \in Turns, kind \in Kinds : StartTurn(t, p, kind)
    BY <1>1 DEF StartElsewhere, Kinds
  <2>2. turn' \in [Turns -> TurnRecords] /\ stored' \in [Turns -> Pairs]
    BY <2>1, StartTyped
  <2> QED
    BY <1>1, <2>2 DEF StartElsewhere, TypeOK
<1>2. ASSUME Settle(t)
      PROVE  TypeOK'
  <2>1. PICK end \in Ends : EndTurn(t, end, "settled")
    BY <1>2 DEF Settle, Ends
  <2>2. turn[t].pair \in Turns
    BY <1>2 DEF Settle, DockInv, ServerInv, TurnOf, Born
  <2>3. turn' \in [Turns -> TurnRecords] /\ stored' \in [Turns -> Pairs]
    BY <2>1, <2>2, EndTyped
  <2> QED
    BY <1>2, <2>3 DEF Settle, TypeOK
<1>3. turn[t] \in TurnRecords
  BY DEF TypeOK
<1>4. ASSUME Progress(t)
      PROVE  TypeOK'
  <2>1. [turn[t] EXCEPT !.deltas = turn[t].deltas + 1] \in TurnRecords
    BY <1>3, <1>4, DockAssumption DEF TurnRecords, Progress
  <2>2. turn' \in [Turns -> TurnRecords]
    BY <1>4, <2>1 DEF Progress, TypeOK
  <2> QED
    BY <1>4, <2>2 DEF Progress, TypeOK
<1>5. ASSUME Tell(t)
      PROVE  TypeOK'
  <2>1. [turn[t] EXCEPT !.phase = "told"] \in TurnRecords
    BY <1>3 DEF TurnRecords
  <2>2. turn' \in [Turns -> TurnRecords]
    BY <1>5, <2>1 DEF Tell, TypeOK
  <2> QED
    BY <1>5, <2>2 DEF Tell, TypeOK
<1>6. ASSUME Unregister(t)
      PROVE  TypeOK'
  <2>1. [turn[t] EXCEPT !.active = FALSE] \in TurnRecords
    BY <1>3 DEF TurnRecords
  <2>2. turn' \in [Turns -> TurnRecords]
    BY <1>6, <2>1 DEF Unregister, TypeOK
  <2> QED
    BY <1>6, <2>2 DEF Unregister, TypeOK
<1> QED
  BY <1>1, <1>2, <1>4, <1>5, <1>6 DEF RunTurn

\* Every route keeps the types.
LEMMA ServeTyped ==
    ASSUME TypeOK, DockInv, NEW i \in Slots, Serve(i)
    PROVE  TypeOK'
<1> USE DEF server, dock, follow
<1> DEFINE r == request[i]
<1>0. r \in Requests /\ latest \in Threads
  BY RequestsTyped DEF TypeOK
<1>1. ASSUME ServeStart(i)
      PROVE  TypeOK'
  <2>1. CASE (\E code \in {"stale", "other"} : Refused(i, code)) /\ UNCHANGED <<turn, stored>>
    BY <1>1, <2>1, RefusedTyped DEF ServeStart, TypeOK
  <2>2. CASE \E t \in Turns, kind \in Kinds : \E p \in Turns :
               StartTurn(t, p, kind) /\ Said(i, [ok |-> TRUE, turn |-> t, pair |-> p])
    <3>1. PICK t \in Turns, kind \in Kinds, p \in Turns :
               StartTurn(t, p, kind) /\ Said(i, [ok |-> TRUE, turn |-> t, pair |-> p])
      BY <2>2
    <3>2. [ok |-> TRUE, turn |-> t, pair |-> p] \in Replies
      BY DEF Replies, StartReplies
    <3>3. turn' \in [Turns -> TurnRecords] /\ stored' \in [Turns -> Pairs]
      BY <3>1, StartTyped
    <3>4. request' \in [Slots -> Requests] /\ faults' \in 0 .. MaxFaults
      BY <3>1, <3>2, SaidTyped
    <3> QED
      BY <1>1, <3>3, <3>4 DEF ServeStart, TypeOK
  <2>3. r.call = "regenerate" => r.pair \in Turns
    BY DEF DockInv, RequestOf, AllowOf
  <2> QED
    BY <1>1, <2>1, <2>2, <2>3 DEF ServeStart, ModesOf, Kinds
<1>2. ASSUME ServeCancel(i)
      PROVE  TypeOK'
  <2> DEFINE t == r.turn
  <2>0. t \in Turns /\ turn[t].pair \in Turns /\ turn[t] \in TurnRecords
    <3>1. t \in Turns /\ Born(t)
      BY <1>2 DEF ServeCancel, DockInv, RequestOf, CancelOf
    <3> QED
      BY <3>1 DEF DockInv, ServerInv, TurnOf, TypeOK
  <2>1. CASE Refused(i, "other") /\ UNCHANGED <<turn, stored>>
    BY <1>2, <2>1, RefusedTyped DEF ServeCancel, TypeOK
  <2>2. CASE /\ EndTurn(t, "canceled", "told") /\ Works
             /\ request' = [request EXCEPT ![i].pc = "half"]
    <3>1. turn' \in [Turns -> TurnRecords] /\ stored' \in [Turns -> Pairs]
      BY <2>0, <2>2, EndTyped DEF Ends
    <3>2. [r EXCEPT !.pc = "half"] \in Requests
      BY <1>0 DEF Requests
    <3>3. request' \in [Slots -> Requests]
      BY <2>2, <3>2 DEF TypeOK
    <3> QED
      BY <1>2, <2>2, <3>1, <3>3 DEF ServeCancel, TypeOK, Works
  <2>3. CASE /\ turn' = [turn EXCEPT ![t].active = FALSE] /\ UNCHANGED stored
             /\ Said(i, [ok |-> TRUE, canceled |-> turn[t].end = "canceled"])
    <3>1. [ok |-> TRUE, canceled |-> turn[t].end = "canceled"] \in Replies
      BY DEF Replies, CancelReplies
    <3>2. request' \in [Slots -> Requests] /\ faults' \in 0 .. MaxFaults
      BY <2>3, <3>1, SaidTyped
    <3>3. [turn[t] EXCEPT !.active = FALSE] \in TurnRecords
      BY <2>0 DEF TurnRecords
    <3>4. turn' \in [Turns -> TurnRecords]
      BY <2>0, <2>3, <3>3 DEF TypeOK
    <3> QED
      BY <1>2, <2>3, <3>2, <3>4 DEF ServeCancel, TypeOK
  <2> QED
    BY <1>2, <2>1, <2>2, <2>3 DEF ServeCancel
<1>3. ASSUME AnswerCancel(i)
      PROVE  TypeOK'
  <2>0. r.turn \in Turns
    BY <1>3 DEF AnswerCancel, DockInv, RequestOf, CancelOf
  <2>1. [ok |-> TRUE, canceled |-> TRUE] \in Replies
    BY DEF Replies, CancelReplies
  <2>2. request' \in [Slots -> Requests] /\ faults' \in 0 .. MaxFaults
    BY <1>3, <2>1, SaidTyped DEF AnswerCancel
  <2>3. [turn[r.turn] EXCEPT !.active = FALSE] \in TurnRecords
    <3>1. turn[r.turn] \in TurnRecords
      BY <2>0 DEF TypeOK
    <3> QED
      BY <3>1 DEF TurnRecords
  <2>4. turn' \in [Turns -> TurnRecords]
    BY <1>3, <2>0, <2>3 DEF AnswerCancel, TypeOK
  <2> QED
    BY <1>3, <2>2, <2>4 DEF AnswerCancel, TypeOK
<1>4. ASSUME ServePairs(i)
      PROVE  TypeOK'
  <2> DEFINE reply == [ok |-> TRUE, thread |-> latest, active |-> None, pairs |-> PairsOf(latest)]
  <2>1. PairsOf(latest) \in [Turns -> Pairs]
    BY ConstantsTyped DEF PairsOf, TypeOK
  <2>2. reply \in Replies /\ [ok |-> FALSE, code |-> "other"] \in Replies
    BY <1>0, <2>1 DEF Replies, ThreadReplies, Refusals, Named
  <2>3. PICK pc \in {"half", "answered"}, answer \in Replies :
           request' = [request EXCEPT ![i].pc = pc, ![i].reply = answer]
    BY <1>4, <2>2 DEF ServePairs
  <2>4. [r EXCEPT !.pc = pc, !.reply = answer] \in Requests
    BY <1>0 DEF Requests
  <2>5. request' \in [Slots -> Requests]
    BY <2>3, <2>4 DEF TypeOK
  <2>6. faults' \in 0 .. MaxFaults
    BY <1>4, DockAssumption DEF ServePairs, Works, Fails, TypeOK
  <2> QED
    BY <1>4, <2>5, <2>6 DEF ServePairs, TypeOK
<1>5. ASSUME ServeThread(i)
      PROVE  TypeOK'
  <2> DEFINE active == IF ActiveTurns(r.reply.thread) = {} THEN None
                       ELSE Max(ActiveTurns(r.reply.thread))
             answer == [r.reply EXCEPT !.active = active]
  <2>1. active \in Named
    <3>1. ActiveTurns(r.reply.thread) \in SUBSET Turns
      BY DEF ActiveTurns
    <3> QED
      BY <3>1, MaxIsOne DEF Named
  <2>2. r.reply \in ThreadReplies
    <3>1. LoadOf(i)
      BY DEF DockInv, RequestOf
    <3>2. request[i].call = "load" /\ request[i].pc = "half"
      BY <1>5 DEF ServeThread
    <3> QED
      BY <3>1, <3>2 DEF LoadOf
  <2> HIDE DEF active
  <2>3. answer \in ThreadReplies
    BY <2>1, <2>2 DEF ThreadReplies
  <2>4. answer \in Replies
    BY <2>3 DEF Replies
  <2>5. request' = [request EXCEPT ![i] = [r EXCEPT !.pc = "answered", !.reply = answer]]
    <3>1. request' = [request EXCEPT ![i].pc = "answered", ![i].reply.active = active]
      BY <1>5 DEF ServeThread, active
    <3> QED
      BY <1>0, <3>1 DEF TypeOK, Requests
  <2> HIDE DEF answer
  <2>6. [r EXCEPT !.pc = "answered", !.reply = answer] \in Requests
    BY <1>0, <2>4 DEF Requests
  <2>7. request' \in [Slots -> Requests]
    BY <2>5, <2>6 DEF TypeOK
  <2> QED
    BY <1>5, <2>7 DEF ServeThread, TypeOK
<1> QED
  BY <1>1, <1>2, <1>3, <1>4, <1>5 DEF Serve

\* Every step of the user keeps the types.
LEMMA UseTyped ==
    ASSUME TypeOK, DockInv, NEW i \in Slots, Use(i)
    PROVE  TypeOK'
<1> USE DEF server, dock, follow
<1>0. /\ thread \in Threads \cup {None} /\ retry \in Named /\ running.pair \in Named
      /\ running.turn \in Named /\ None \in Named /\ 0 \in 0 .. MaxStops
      /\ \A p \in Turns : p \in Named
  BY DockAssumption DEF TypeOK, Named
<1>1. ASSUME OpenDock(i) \/ RetryThreadLoad(i)
      PROVE  TypeOK'
  <2>1. PICK why \in Reasons, token \in 0 .. MaxStops : LoadThread(i, why, token)
    BY <1>0, <1>1 DEF OpenDock, RetryThreadLoad, Reasons, TypeOK
  <2>2. request' \in [Slots -> Requests] /\ load' = "loading" /\ message' = FALSE
    BY <2>1, LoadTyped
  <2>3. malformed' \in [turn : Named, attempts : 0 .. 1]
    BY <1>1, ConstantsTyped DEF OpenDock, RetryThreadLoad, TypeOK
  <2> QED
    BY <1>1, <2>2, <2>3 DEF OpenDock, RetryThreadLoad, TypeOK
<1>2. ASSUME SubmitPrompt(i)
      PROVE  TypeOK'
  <2>1. Call("message") \in Requests
    BY <1>0, ConstantsTyped DEF Call, Requests, Calls
  <2>2. request' \in [Slots -> Requests]
    BY <1>2, <2>1, RequestsTyped DEF SubmitPrompt
  <2> QED
    BY <1>2, <2>2 DEF SubmitPrompt, TypeOK
<1>3. ASSUME NEW p \in Named, NEW allow \in BOOLEAN, RegeneratePairById(i, p, allow)
      PROVE  TypeOK'
  <2> DEFINE r == [Call("regenerate") EXCEPT !.pair = p, !.allow = allow]
  <2>1. Call("regenerate") \in Requests
    BY <1>0, ConstantsTyped DEF Call, Requests, Calls
  <2>2. r \in Requests
    BY <2>1 DEF Requests
  <2>3. request' = [request EXCEPT ![i] = r]
    BY <1>3 DEF RegeneratePairById
  <2> HIDE DEF r
  <2>4. request' \in [Slots -> Requests]
    BY <2>2, <2>3, RequestsTyped
  <2> QED
    BY <1>3, <2>4 DEF RegeneratePairById, TypeOK
<1>4. ASSUME HandleStop(i)
      PROVE  TypeOK'
  <2> DEFINE r == [Call("cancel") EXCEPT !.pair = running.pair, !.turn = running.turn,
                                         !.token = stops']
  <2>1. stops' \in 0 .. MaxStops
    BY <1>4, DockAssumption DEF HandleStop, TypeOK
  <2>2. Call("cancel") \in Requests
    BY <1>0, ConstantsTyped DEF Call, Requests, Calls
  <2>3. r \in Requests
    BY <1>0, <2>1, <2>2 DEF Requests
  <2>4. request' = [request EXCEPT ![i] = r]
    BY <1>4 DEF HandleStop
  <2> HIDE DEF r
  <2>5. request' \in [Slots -> Requests]
    BY <2>3, <2>4, RequestsTyped
  <2> QED
    BY <1>4, <2>1, <2>5 DEF HandleStop, TypeOK
<1>5. ASSUME HandleMalformedTerminal(i)
      PROVE  TypeOK'
  <2>1. /\ source' = Closed /\ faults' \in 0 .. MaxFaults
        /\ UNCHANGED <<server, thread, shown, retry, stop, phase, running, stops>>
    BY <1>5, DockAssumption DEF HandleMalformedTerminal, Fails, TypeOK
  <2>2. CASE load' = "error" /\ message' = TRUE /\ UNCHANGED <<malformed, request>>
    BY <2>1, <2>2, ConstantsTyped DEF TypeOK
  <2>3. CASE /\ malformed' = [turn |-> source.turn, attempts |-> 1]
             /\ LoadThread(i, "malformed", 0)
    <3>1. request' \in [Slots -> Requests] /\ load' = "loading" /\ message' = FALSE
      BY <1>0, <2>3, LoadTyped DEF Reasons
    <3>2. malformed' \in [turn : Named, attempts : 0 .. 1]
      BY <2>3 DEF TypeOK
    <3> QED
      BY <2>1, <3>1, <3>2, ConstantsTyped DEF TypeOK
  <2> QED
    BY <1>5, <2>2, <2>3 DEF HandleMalformedTerminal
<1> QED
  BY <1>0, <1>1, <1>2, <1>3, <1>4, <1>5 DEF Use, RegeneratePair, ApproveWebSourcesForTurn

\* A thread response is of the type the dock shows, and true when it does.
LEMMA ShowTyped ==
    ASSUME TypeOK, DockInv, NEW i \in Slots, Answered(i, "load"), Read(i).ok, ShowThread(i)
    PROVE  /\ thread' \in Threads /\ shown' \in [Turns -> Rows] /\ load' = "ready"
           /\ request' \in [Slots -> Requests]
           /\ Read(i) \in ThreadReplies /\ Read(i).active \in Named
           /\ Read(i).active # None => Read(i).active \in Turns /\ Born(Read(i).active)
           /\ \A p \in Turns : /\ Read(i).pairs[p] \in Pairs /\ PairIn(turn, p, Read(i).pairs[p])
                               /\ Read(i).pairs[p] # NoPair => turn[p].thread = thread'
<1>1. LoadOf(i)
  BY DEF DockInv, RequestOf
<1>2. /\ Read(i) \in ThreadReplies
      /\ Read(i).active # None => Born(Read(i).active)
      /\ \A p \in Turns : /\ PairIn(turn, p, Read(i).pairs[p])
                          /\ Read(i).pairs[p] # NoPair => turn[p].thread = Read(i).thread
  BY <1>1 DEF LoadOf, Answered, Read
<1>3. \A p \in Turns : Read(i).pairs[p] \in Pairs
  BY <1>2 DEF ThreadReplies
<1>4. \A p \in Turns : ToTranscriptPair(Read(i).pairs[p]) \in Rows
  <2>1. None \in Statuses \cup {None} /\ <<>> \in Answers /\ None \in Named /\ Blank \in Rows
    BY ConstantsTyped DEF Answers, Named
  <2> QED
    BY <1>3, <2>1, RowsTyped
<1>5. thread' = Read(i).thread /\ Read(i).thread \in Threads /\ Read(i).active \in Named
  BY <1>2 DEF ShowThread, ThreadReplies
<1>6. shown' \in [Turns -> Rows]
  BY <1>4 DEF ShowThread
<1>7. request' \in [Slots -> Requests] /\ load' = "ready"
  BY RequestsTyped DEF ShowThread
<1> QED
  BY <1>2, <1>3, <1>5, <1>6, <1>7 DEF Named

\* Every response keeps the types.
LEMMA ReceiveTyped ==
    ASSUME TypeOK, DockInv, NEW i \in Slots, Receive(i)
    PROVE  TypeOK'
<1> USE DEF server, dock, follow
<1> DEFINE r == request[i]
<1>0. r \in Requests /\ 0 \in 0 .. MaxStops
  BY RequestsTyped, DockAssumption
<1>1. ASSUME DropResponse(i) \/ LoadFails(i)
      PROVE  TypeOK'
  <2>1. request' \in [Slots -> Requests]
    BY <1>1, RequestsTyped DEF DropResponse, LoadFails
  <2> QED
    BY <1>1, <2>1 DEF DropResponse, LoadFails, TypeOK
<1>2. ASSUME ReceiveThread(i)
      PROVE  TypeOK'
  <2>0. Answered(i, "load") /\ Read(i).ok /\ ShowThread(i) /\ message' \in BOOLEAN
    BY <1>2 DEF ReceiveThread, TypeOK
  <2>1. /\ thread' \in Threads /\ shown' \in [Turns -> Rows] /\ load' = "ready"
        /\ request' \in [Slots -> Requests]
        /\ Read(i).active # None => Read(i).active \in Turns
    BY <2>0, ShowTyped
  <2>2. CASE Read(i).active # None /\ AdoptRunningTurn(Read(i).active)
    BY <1>2, <2>0, <2>1, <2>2, FollowTyped DEF AdoptRunningTurn, ReceiveThread, TypeOK, Named
  <2>3. CASE ClearRunningTurnState /\ SyncRetry(Read(i).pairs)
    BY <1>2, <2>0, <2>1, <2>3, ClearTyped, RetryTyped DEF ReceiveThread, TypeOK
  <2> QED
    BY <1>2, <2>2, <2>3 DEF ReceiveThread
<1>3. ASSUME ReceiveStop(i)
      PROVE  TypeOK'
  <2>0. Answered(i, "load") /\ Read(i).ok /\ ShowThread(i) /\ message' \in BOOLEAN
    BY <1>3 DEF ReceiveStop, TypeOK
  <2>1. /\ thread' \in Threads /\ shown' \in [Turns -> Rows] /\ load' = "ready"
        /\ request' \in [Slots -> Requests]
        /\ Read(i).active # None => Read(i).active \in Turns
    BY <2>0, ShowTyped
  <2>2. CASE SyncRetry(Read(i).pairs) /\ UNCHANGED <<stop, follow>>
    BY <1>3, <2>0, <2>1, <2>2, RetryTyped DEF ReceiveStop, TypeOK
  <2>3. CASE Read(i).active # None /\ AdoptRunningTurn(Read(i).active) /\ stop' = None
    BY <1>3, <2>0, <2>1, <2>3, FollowTyped DEF AdoptRunningTurn, ReceiveStop, TypeOK, Named
  <2>4. CASE SyncRetry(Read(i).pairs) /\ ClearRunningTurnState /\ stop' = None
    BY <1>3, <2>0, <2>1, <2>4, ClearTyped, RetryTyped DEF ReceiveStop, TypeOK
  <2> QED
    BY <1>3, <2>2, <2>3, <2>4 DEF ReceiveStop
<1>4. ASSUME ReceiveStarted(i)
      PROVE  TypeOK'
  <2>1. StartOf(i)
    BY DEF DockInv, RequestOf
  <2>2. r.reply.turn \in Turns
    BY <1>4, <2>1 DEF ReceiveStarted, StartOf, StartReplies, Read
  <2>3. FirstRow(r.reply.turn) \in Rows
    BY <2>2, ConstantsTyped DEF FirstRow, Rows, Statuses, Named
  <2>4. shown' \in [Turns -> Rows]
    BY <1>4, <2>2, <2>3 DEF ReceiveStarted, TypeOK
  <2>5. request' \in [Slots -> Requests]
    BY <1>4, RequestsTyped DEF ReceiveStarted
  <2>6. FollowTurn(r.reply.turn) /\ retry' = None
    BY <1>4 DEF ReceiveStarted
  <2> QED
    BY <1>4, <2>2, <2>4, <2>5, <2>6, FollowTyped DEF ReceiveStarted, TypeOK, Named
<1>5. ASSUME ReceiveRefusal(i)
      PROVE  TypeOK'
  <2>1. CASE LoadThread(i, "refresh", 0) \/ LoadThread(i, "failed", 0)
    <3>1. request' \in [Slots -> Requests] /\ load' = "loading" /\ message' = FALSE
      BY <1>0, <2>1, LoadTyped DEF Reasons
    <3> QED
      BY <1>5, <3>1 DEF ReceiveRefusal, TypeOK
  <2>2. CASE message' = TRUE /\ Done(i) /\ UNCHANGED load
    BY <1>5, <2>2, RequestsTyped DEF ReceiveRefusal, TypeOK
  <2> QED
    BY <1>5, <2>1, <2>2 DEF ReceiveRefusal
<1>6. ASSUME ReceiveCancel(i)
      PROVE  TypeOK'
  <2>1. r.turn \in Turns /\ turn[r.turn].pair \in Turns
    <3>1. r.turn \in Turns /\ Born(r.turn)
      BY <1>6 DEF ReceiveCancel, Answered, DockInv, RequestOf, CancelOf
    <3> QED
      BY <3>1 DEF DockInv, ServerInv, TurnOf
  <2>2. EventTyped([type |-> "canceled", k |-> 0])
    BY DEF EventTyped, Ends
  <2>3. shown' \in [Turns -> Rows]
    <3>1. ApplyStreamEvent(r.turn, [type |-> "canceled", k |-> 0], TRUE) \in [Turns -> Rows]
      BY <2>1, <2>2, ShownTyped
    <3> QED
      BY <1>6, <3>1 DEF ReceiveCancel, TypeOK
  <2>4. r.token \in 0 .. MaxStops
    BY <1>0 DEF Requests
  <2>5. stop' \in {None} \cup [kind : {"terminal", "ambiguous"}, token : 0 .. MaxStops]
    <3>1. \E kind \in {"terminal", "ambiguous"} : stop' = [kind |-> kind, token |-> r.token]
      BY <1>6 DEF ReceiveCancel
    <3> QED
      BY <2>4, <3>1
  <2>6. request' \in [Slots -> Requests] /\ load' = "loading" /\ message' = FALSE
    BY <1>6, <2>4, LoadTyped DEF ReceiveCancel, Reasons
  <2> QED
    BY <1>6, <2>3, <2>5, <2>6 DEF ReceiveCancel, TypeOK
<1> QED
  BY <1>1, <1>2, <1>3, <1>4, <1>5, <1>6 DEF Receive

\* Every event keeps the types.
LEMMA ListenTyped ==
    ASSUME TypeOK, DockInv, Listen
    PROVE  TypeOK'
<1> USE DEF server, dock, follow
<1>1. /\ source.turn \in Turns /\ turn[source.turn].pair \in Turns /\ EventTyped(Event)
      /\ source.turn \in Named /\ turn[source.turn].pair \in Named
  BY EventIs DEF Listen, DropEvent, ShowEvent, EndOfTurn, Named
<1>2. \A named : ApplyStreamEvent(source.turn, Event, named) \in [Turns -> Rows]
  BY <1>1, ShownTyped
<1>3. [source EXCEPT !.at = source.at + 1] \in [turn : Named, at : Nat]
  BY DEF TypeOK
<1>4. ASSUME DropEvent
      PROVE  TypeOK'
  BY <1>3, <1>4, ConstantsTyped DEF DropEvent, TypeOK
<1>5. ASSUME ShowEvent
      PROVE  TypeOK'
  BY <1>2, <1>3, <1>5 DEF ShowEvent, TypeOK
<1>6. ASSUME EndOfTurn
      PROVE  TypeOK'
  <2>1. shown' \in [Turns -> Rows] /\ retry' \in Named /\ message' \in BOOLEAN /\ stop' = None
    BY <1>1, <1>2, <1>6 DEF EndOfTurn, TypeOK
  <2> QED
    BY <1>6, <2>1, ClearTyped DEF EndOfTurn, TypeOK
<1> QED
  BY <1>4, <1>5, <1>6 DEF Listen

-----------------------------------------------------------------------------
(* What the server has said stays true.                                    *)

\* A turn keeps what it is, and how it ended.
Evolves ==
    \A t \in Turns : Born(t) =>
       /\ turn'[t].phase # "none" /\ turn'[t].kind = turn[t].kind
       /\ turn'[t].pair = turn[t].pair /\ turn'[t].thread = turn[t].thread
       /\ turn[t].end # None => turn'[t].end = turn[t].end

\* What was refused, stored or answered whole stays so while the turns evolve.
LEMMA FactsStay ==
    ASSUME TypeOK, \A t \in Turns : TurnOf(t), Evolves
    PROVE  /\ \A p \in Turns : WasRefused(turn, p) => WasRefused(turn', p)
           /\ \A p \in Turns, pair \in Pairs : PairIn(turn, p, pair) => PairIn(turn', p, pair)
           /\ \A p \in Turns, t \in Named, text \in Answers :
                 Kept(turn, p, t, text) => Kept(turn', p, t, text)
<1>1. \A t \in Turns : turn[t].end # None => Born(t) /\ turn'[t].end = turn[t].end
  BY DEF TurnOf, Unborn, Evolves
<1>2. \A t \in Turns : turn[t].end # None => turn'[t].pair = turn[t].pair
  BY <1>1 DEF Evolves
<1>3. ASSUME NEW p \in Turns, WasRefused(turn, p)
      PROVE  WasRefused(turn', p)
  BY <1>1, <1>2, <1>3, NoneIsNothing DEF WasRefused, Ends
<1>4. ASSUME NEW p \in Turns, NEW pair \in Pairs, PairIn(turn, p, pair)
      PROVE  PairIn(turn', p, pair)
  <2>1. CASE pair.turn = None
    BY <1>4, <2>1 DEF PairIn
  <2>2. CASE pair.turn # None
    <3>1. pair.turn \in Turns
      BY <2>2 DEF Pairs, Named
    <3>2. Born(p) /\ Born(pair.turn)
      BY <1>4, <2>2 DEF PairIn, Born
    <3>3. turn[pair.turn].end = "completed" => turn'[pair.turn].end = "completed"
      BY <1>1, <3>1, NoneIsNothing DEF Ends
    <3> QED
      BY <1>3, <1>4, <2>2, <3>1, <3>2, <3>3 DEF PairIn, Evolves
  <2> QED
    BY <2>1, <2>2
<1>5. ASSUME NEW p \in Turns, NEW t \in Named, NEW text \in Answers, Kept(turn, p, t, text)
      PROVE  Kept(turn', p, t, text)
  BY <1>1, <1>2, <1>5, NoneIsNothing DEF Kept, Ends
<1> QED
  BY <1>3, <1>4, <1>5

\* A turn starts in a pair that is there, and leaves what was said true.
LEMMA StartKeeps ==
    ASSUME TypeOK, ServerInv, NEW t \in Turns, NEW p \in Turns, NEW kind \in Kinds,
           turn[t].phase = "none", StartTurn(t, p, kind),
           \/ kind = "message" /\ p = t
           \/ \E allow : kind \in ModesOf(p, allow)
    PROVE  Evolves /\ ServerInv'
<1> DEFINE u == [Unborn EXCEPT !.phase = "running", !.active = TRUE, !.thread = latest,
                               !.pair = p, !.kind = kind]
<1>1. turn' = [turn EXCEPT ![t] = u]
  BY DEF StartTurn
<1>2. /\ u.phase = "running" /\ u.thread = latest /\ u.pair = p /\ u.kind = kind /\ u.end = None
  BY DEF Unborn
<1> HIDE DEF u
<1>3. turn'[t] = u /\ \A s \in Turns \ {t} : turn'[s] = turn[s]
  BY <1>1 DEF TypeOK
<1>4. Evolves
  BY <1>3 DEF Evolves, Born
<1>5. stored[t] = NoPair
  <2>1. PairIn(turn, t, stored[t])
    BY DEF ServerInv
  <2> QED
    BY <2>1 DEF PairIn
<1>6. kind # "message" => p # t /\ Born(p) /\ turn[p].kind = "message" /\ turn[p].thread = latest
  <2>1. CASE kind # "message"
    <3>1. turn[p].thread = latest /\ (stored[p].answer # None \/ stored[p].retry)
      BY <2>1 DEF ModesOf
    <3>2. stored[p] # NoPair
      BY <3>1 DEF NoPair
    <3>3. PairIn(turn, p, stored[p])
      BY DEF ServerInv
    <3> QED
      BY <1>5, <3>1, <3>2, <3>3 DEF PairIn, Born
  <2> QED
    BY <2>1
<1>7. kind = "regenerate" => stored[p].answer # None
  BY DEF ModesOf
<1>8. ASSUME NEW s \in Turns
      PROVE  TurnOf(s)'
  <2>1. TurnOf(s) /\ TurnOf(p)
    BY DEF ServerInv
  <2>2. CASE s # t
    <3>1. turn[s].phase = "none" => turn'[s] = Unborn
      BY <1>3, <2>1, <2>2 DEF TurnOf, Born
    <3>2. turn[s].phase # "none" => turn[s].pair # t
      BY <2>1 DEF TurnOf, Born
    <3> QED
      BY <1>3, <2>1, <2>2, <3>1, <3>2 DEF TurnOf, Born, Unborn
  <2>3. CASE s = t
    <3>1. latest \in Threads
      BY DEF TypeOK
    <3>2. CASE kind = "message"
      <4>1. p = t
        BY <3>2 DEF ModesOf
      <4> QED
        BY <1>2, <1>3, <2>3, <3>1, <3>2, <4>1 DEF TurnOf, Born
    <3>3. CASE kind # "message"
      <4>1. turn'[p] = turn[p] /\ turn[p].pair = p
        BY <1>3, <1>6, <2>1, <3>3 DEF TurnOf
      <4> QED
        BY <1>2, <1>3, <1>6, <2>3, <3>1, <3>3, <4>1 DEF TurnOf, Born
    <3> QED
      BY <3>2, <3>3
  <2> QED
    BY <2>2, <2>3
<1>9. \A s \in Turns : TurnOf(s)
  BY DEF ServerInv
<1>10. ASSUME NEW s \in Turns
       PROVE  PairIn(turn', s, stored'[s])
  <2>1. PairIn(turn, s, stored[s]) /\ stored[s] \in Pairs
    BY DEF ServerInv, TypeOK
  <2>2. CASE stored'[s] = stored[s]
    BY <1>4, <1>9, <2>1, <2>2, FactsStay
  <2>3. CASE stored'[s] # stored[s]
    <3>1. kind = "message" /\ s = t /\ p = t
          /\ stored'[s] = [NoPair EXCEPT !.status = "pending", !.turn = t]
      BY <2>3 DEF StartTurn, TypeOK, ModesOf
    <3>2. /\ stored'[s].turn = t /\ stored'[s].answer = None /\ stored'[s].status = "pending"
          /\ stored'[s].retry = FALSE
      BY <3>1 DEF NoPair
    <3> QED
      BY <1>2, <1>3, <3>1, <3>2, NoneIsNothing DEF PairIn
  <2> QED
    BY <2>2, <2>3
<1>11. ASSUME NEW s \in Turns, turn'[s].kind = "regenerate"
       PROVE  stored'[turn'[s].pair].answer # None
  <2>1. CASE s = t
    <3>1. kind = "regenerate"
      BY <1>2, <1>3, <1>11, <2>1
    <3>2. stored' = stored
      BY <3>1 DEF StartTurn
    <3> QED
      BY <1>2, <1>3, <1>7, <2>1, <3>1, <3>2
  <2>2. CASE s # t
    <3>1. TurnOf(s) /\ AnswerOf(s)
      BY DEF ServerInv
    <3>2. turn[s].kind = "regenerate" /\ Born(s)
      BY <1>3, <1>11, <2>2, <3>1, NoneIsNothing DEF TurnOf, Unborn, Kinds
    <3>3. turn[s].pair \in Turns /\ turn[s].pair # t
      BY <3>1, <3>2 DEF TurnOf, Born
    <3>4. stored'[turn[s].pair] = stored[turn[s].pair]
      BY <3>3 DEF StartTurn, TypeOK
    <3> QED
      BY <1>3, <2>2, <3>1, <3>2, <3>4 DEF AnswerOf
  <2> QED
    BY <2>1, <2>2
<1> QED
  BY <1>4, <1>8, <1>10, <1>11 DEF ServerInv, AnswerOf

\* A turn ends, and its pair is stored as it ended.
LEMMA EndKeeps ==
    ASSUME TypeOK, ServerInv, NEW t \in Turns, NEW end \in Ends, NEW told \in {"settled", "told"},
           turn[t].phase = "running", EndTurn(t, end, told)
    PROVE  Evolves /\ ServerInv'
<1> DEFINE p == turn[t].pair
<1>1. /\ turn'[t].phase = told /\ turn'[t].end = end
      /\ turn'[t].kind = turn[t].kind /\ turn'[t].pair = turn[t].pair
      /\ turn'[t].thread = turn[t].thread
  BY DEF EndTurn, TypeOK, TurnRecords
<1>2. \A s \in Turns \ {t} : turn'[s] = turn[s]
  BY DEF EndTurn, TypeOK
<1>3. TurnOf(t) /\ AnswerOf(t) /\ Born(t) /\ turn[t].end = None
  <2>1. TurnOf(t) /\ AnswerOf(t)
    BY DEF ServerInv
  <2> QED
    BY <2>1 DEF TurnOf, Born
<1>4. Evolves
  BY <1>1, <1>2, <1>3 DEF Evolves, Born
<1>5. \A s \in Turns : TurnOf(s)
  BY DEF ServerInv
<1>6. ASSUME NEW s \in Turns
      PROVE  TurnOf(s)'
  <2>1. TurnOf(s)
    BY <1>5
  <2>2. CASE s # t
    <3>1. turn[s].phase = "none" => turn'[s] = Unborn
      BY <1>2, <2>1, <2>2 DEF TurnOf, Born
    <3>2. turn[s].phase # "none" =>
             LET q == turn[s].pair
             IN  q \in Turns /\ turn'[q].phase # "none" /\ turn'[q].kind = turn[q].kind
                 /\ turn'[q].pair = turn[q].pair /\ turn'[q].thread = turn[q].thread
      BY <1>4, <2>1 DEF TurnOf, Born, Evolves
    <3> QED
      BY <1>2, <2>1, <2>2, <3>1, <3>2 DEF TurnOf, Born, Unborn
  <2>3. CASE s = t
    <3>1. p \in Turns /\ turn'[p].phase # "none" /\ turn'[p].kind = turn[p].kind
          /\ turn'[p].pair = turn[p].pair /\ turn'[p].thread = turn[p].thread
      BY <1>3, <1>4 DEF TurnOf, Evolves, Born
    <3>2. end # None
      BY NoneIsNothing
    <3> QED
      BY <1>1, <1>3, <2>3, <3>1, <3>2 DEF TurnOf, Born
  <2> QED
    BY <2>2, <2>3
<1>7. p \in Turns /\ Born(p) /\ turn[p].kind = "message"
  BY <1>3 DEF TurnOf
<1>8. turn'[p].phase # "none" /\ turn'[p].kind = "message"
  BY <1>4, <1>7 DEF Evolves
<1>9. \A s \in Turns : /\ PairIn(turn, s, stored[s]) /\ stored[s] \in Pairs
                       /\ PairIn(turn', s, stored[s])
  BY <1>4, <1>5, FactsStay DEF ServerInv, TypeOK
<1>10. stored' = [stored EXCEPT ![p] = StorePair(p, t, end)]
  BY DEF EndTurn
<1>11. end = "refused" => WasRefused(turn', p)
  BY <1>1 DEF WasRefused
<1>12. /\ PairIn(turn', p, StorePair(p, t, end))
       /\ stored[p].answer # None => StorePair(p, t, end).answer # None
  <2> DEFINE new == StorePair(p, t, end)
  <2>0. t # None /\ None \notin Statuses
    BY NoneIsNothing
  <2>1. CASE end = "completed"
    <3>1. new.turn = t /\ new.status = "completed" /\ new.answer = t /\ new.retry = FALSE
      BY <2>1 DEF StorePair, NoPair
    <3> HIDE DEF new
    <3>2. PairIn(turn', p, new)
      BY <1>1, <1>3, <1>8, <2>0, <2>1, <3>1 DEF PairIn, Born
    <3> QED
      BY <2>0, <3>1, <3>2 DEF new
  <2>2. CASE end # "completed" /\ stored[p].answer # None
    <3>1. /\ new.turn = stored[p].turn /\ new.status = stored[p].status
          /\ new.answer = stored[p].answer /\ new.retry = (end = "refused")
      BY <1>7, <1>9, <2>2 DEF StorePair, Pairs
    <3>2. stored[p].turn # None
      BY <1>7, <1>9, <2>2 DEF PairIn, NoPair
    <3>3. PairIn(turn', p, stored[p])
      BY <1>7, <1>9
    <3> HIDE DEF new
    <3>4. PairIn(turn', p, new)
      BY <1>11, <3>1, <3>2, <3>3 DEF PairIn
    <3> QED
      BY <2>2, <3>1, <3>4 DEF new
  <2>3. CASE end # "completed" /\ stored[p].answer = None
    <3>1. new.turn = t /\ new.status \in {"canceled", "failed"} /\ new.answer = None
          /\ new.retry = (end = "refused")
      BY <2>3 DEF StorePair, NoPair
    <3>2. turn[t].kind # "regenerate"
      BY <1>3, <2>3 DEF AnswerOf
    <3> HIDE DEF new
    <3>3. PairIn(turn', p, new)
      BY <1>1, <1>3, <1>8, <1>11, <2>0, <3>1, <3>2 DEF PairIn, Born
    <3> QED
      BY <2>3, <3>3 DEF new
  <2> QED
    BY <2>1, <2>2, <2>3
<1>13. ASSUME NEW s \in Turns
       PROVE  PairIn(turn', s, stored'[s])
  BY <1>7, <1>9, <1>10, <1>12 DEF TypeOK
<1>14. \A q \in Turns : stored[q].answer # None => stored'[q].answer # None
  BY <1>7, <1>10, <1>12 DEF TypeOK
<1>15. ASSUME NEW s \in Turns, turn'[s].kind = "regenerate"
       PROVE  stored'[turn'[s].pair].answer # None
  <2>1. turn[s].kind = "regenerate" /\ turn'[s].pair = turn[s].pair
    BY <1>1, <1>2, <1>15
  <2>2. AnswerOf(s) /\ TurnOf(s) /\ Born(s)
    BY <2>1, NoneIsNothing DEF ServerInv, TurnOf, Born, Unborn, Kinds
  <2> QED
    BY <1>14, <2>1, <2>2 DEF AnswerOf, TurnOf
<1> QED
  BY <1>4, <1>6, <1>13, <1>15 DEF ServerInv, AnswerOf

\* A turn goes on: the pairs do not change.
GoesOn ==
    /\ UNCHANGED stored
    /\ \A s \in Turns :
          /\ turn'[s].kind = turn[s].kind /\ turn'[s].pair = turn[s].pair
          /\ turn'[s].thread = turn[s].thread /\ turn'[s].end = turn[s].end
          /\ (turn'[s].phase = "none") = (turn[s].phase = "none")
          /\ (turn'[s].phase = "running") = (turn[s].phase = "running")
          /\ turn[s].phase = "none" => turn'[s] = turn[s]

\* A turn that only goes on leaves what was said true.
LEMMA GoingOnKeeps ==
    ASSUME TypeOK, ServerInv, GoesOn
    PROVE  Evolves /\ ServerInv'
<1>1. Evolves
  BY DEF GoesOn, Evolves, Born
<1>2. \A s \in Turns : /\ TurnOf(s) /\ AnswerOf(s)
                       /\ PairIn(turn, s, stored[s]) /\ stored[s] \in Pairs
  BY DEF ServerInv, TypeOK
<1>3. ASSUME NEW s \in Turns
      PROVE  TurnOf(s)'
  BY <1>2 DEF GoesOn, TurnOf, Born
<1>4. \A s \in Turns : PairIn(turn', s, stored'[s])
  BY <1>1, <1>2, FactsStay DEF GoesOn
<1>5. ASSUME NEW s \in Turns
      PROVE  AnswerOf(s)'
  BY <1>2 DEF GoesOn, AnswerOf
<1> QED
  BY <1>1, <1>3, <1>4, <1>5 DEF ServerInv

-----------------------------------------------------------------------------
(* The steps of the server.                                                *)

\* A turn starts, goes on or ends, and what was said stays true.
LEMMA ServerMoves ==
    ASSUME TypeOK, ServerInv, NEW t \in Turns,
           StartElsewhere(t) \/ RunTurn(t)
    PROVE  Evolves /\ ServerInv' /\ UNCHANGED <<dock, request>>
<1>1. ASSUME StartElsewhere(t)
      PROVE  Evolves /\ ServerInv'
  <2>1. turn[t].phase = "none"
    BY <1>1 DEF StartElsewhere, IsNext
  <2>2. PICK p \in Turns, kind \in Kinds :
           /\ StartTurn(t, p, kind)
           /\ (kind = "message" /\ p = t) \/ kind \in ModesOf(p, TRUE)
    BY <1>1 DEF StartElsewhere, Kinds
  <2> QED
    BY <2>1, <2>2, StartKeeps
<1>2. ASSUME Settle(t)
      PROVE  Evolves /\ ServerInv'
  <2>1. PICK end \in Ends : EndTurn(t, end, "settled")
    BY <1>2 DEF Settle, Ends
  <2> QED
    BY <1>2, <2>1, EndKeeps DEF Settle
<1>3. ASSUME Progress(t) \/ Tell(t) \/ Unregister(t)
      PROVE  Evolves /\ ServerInv'
  <2>1. GoesOn
    <3>1. CASE Progress(t)
      BY <3>1 DEF Progress, GoesOn, TypeOK, TurnRecords
    <3>2. CASE Tell(t)
      BY <3>2 DEF Tell, GoesOn, TypeOK, TurnRecords
    <3>3. CASE Unregister(t)
      BY <3>3 DEF Unregister, GoesOn, TypeOK, TurnRecords
    <3> QED
      BY <1>3, <3>1, <3>2, <3>3
  <2> QED
    BY <2>1, GoingOnKeeps
<1>4. UNCHANGED <<dock, request>>
  BY DEF StartElsewhere, RunTurn, Progress, Settle, Tell, Unregister
<1> QED
  BY <1>1, <1>2, <1>3, <1>4 DEF RunTurn

\* What a step of the server leaves of a request.
Served(i) ==
    /\ \A j \in Slots \ {i} : request'[j] = request[j]
    /\ request'[i].call = request[i].call /\ request'[i].why = request[i].why
    /\ request'[i].thread = request[i].thread /\ request'[i].pair = request[i].pair
    /\ request'[i].turn = request[i].turn /\ request'[i].allow = request[i].allow
    /\ request'[i].token = request[i].token

\* An answer changes the state and the reply of its request, and no more.
LEMMA AnswersServe ==
    ASSUME TypeOK, NEW i \in Slots, NEW reply
    PROVE  /\ request' = [request EXCEPT ![i].pc = "answered", ![i].reply = reply] =>
                 Served(i) /\ request'[i].pc = "answered" /\ request'[i].reply = reply
           /\ request' = [request EXCEPT ![i].pc = "half", ![i].reply = reply] =>
                 Served(i) /\ request'[i].pc = "half" /\ request'[i].reply = reply
           /\ request' = [request EXCEPT ![i].pc = "half"] =>
                 Served(i) /\ request'[i].pc = "half"
BY DEF TypeOK, Requests, Served

\* What is said of an answer: it is the one meant, or an error.
LEMMA SaidServes ==
    ASSUME TypeOK, NEW i \in Slots, NEW reply, Said(i, reply)
    PROVE  /\ Served(i) /\ request'[i].pc = "answered"
           /\ request'[i].reply = reply \/ request'[i].reply.ok = FALSE
<1>1. PICK r : /\ request' = [request EXCEPT ![i].pc = "answered", ![i].reply = r]
               /\ r = reply \/ r = [ok |-> FALSE, code |-> "other"]
  BY DEF Said
<1>2. r = reply \/ r.ok = FALSE
  BY <1>1
<1>3. Served(i) /\ request'[i].pc = "answered" /\ request'[i].reply = r
  BY <1>1, AnswersServe
<1> QED
  BY <1>2, <1>3

\* A refusal is an error.
LEMMA RefusedServes ==
    ASSUME TypeOK, NEW i \in Slots, NEW code, Refused(i, code)
    PROVE  Served(i) /\ request'[i].pc = "answered" /\ request'[i].reply.ok = FALSE
<1>1. PICK r : /\ request' = [request EXCEPT ![i].pc = "answered", ![i].reply = r]
               /\ r = [ok |-> FALSE, code |-> code]
  BY DEF Refused
<1>2. r.ok = FALSE
  BY <1>1
<1>3. Served(i) /\ request'[i].pc = "answered" /\ request'[i].reply = r
  BY <1>1, AnswersServe
<1> QED
  BY <1>2, <1>3

\* An error claims nothing.
LEMMA ErrorsAreTrue ==
    ASSUME NEW i \in Slots, Served(i), request'[i].pc = "answered", request'[i].reply.ok = FALSE,
           Evolves, TypeOK, \A t \in Turns : TurnOf(t), RequestOf(i)
    PROVE  LoadOf(i)' /\ StartOf(i)' /\ CancelOf(i)'
<1>1. LoadOf(i)' /\ StartOf(i)'
  BY DEF LoadOf, StartOf
<1>2. CancelOf(i)'
  BY DEF RequestOf, CancelOf, Served, Born, Evolves
<1> QED
  BY <1>1, <1>2

\* The routes tell what is so: of the turn that started, of the one that was
\* canceled, and of the pairs and the running turn of a thread.
LEMMA ServeMoves ==
    ASSUME TypeOK, DockInv, NEW i \in Slots, Serve(i)
    PROVE  /\ Evolves /\ ServerInv' /\ UNCHANGED dock /\ Served(i)
           /\ LoadOf(i)' /\ StartOf(i)' /\ CancelOf(i)'
<1> DEFINE r == request[i]
<1>0. /\ ServerInv /\ RequestOf(i) /\ LoadOf(i) /\ StartOf(i) /\ CancelOf(i) /\ AllowOf(i)
      /\ \A t \in Turns : TurnOf(t)
  BY DEF DockInv, RequestOf, ServerInv
<1>d. UNCHANGED dock
  BY DEF Serve, ServeStart, ServeCancel, AnswerCancel, ServePairs, ServeThread
<1>g. UNCHANGED <<turn, stored>> => GoesOn
  BY DEF GoesOn
<1>1. ASSUME ServeStart(i)
      PROVE  /\ Evolves /\ ServerInv' /\ Served(i)
             /\ LoadOf(i)' /\ StartOf(i)' /\ CancelOf(i)'
  <2>1. CASE (\E code \in {"stale", "other"} : Refused(i, code)) /\ UNCHANGED <<turn, stored>>
    <3>1. Served(i) /\ request'[i].pc = "answered" /\ request'[i].reply.ok = FALSE
      BY <2>1, RefusedServes
    <3>2. Evolves /\ ServerInv'
      BY <1>0, <1>g, <2>1, GoingOnKeeps
    <3> QED
      BY <1>0, <3>1, <3>2, ErrorsAreTrue
  <2>2. CASE \E t \in Turns, kind \in Kinds : \E p \in Turns :
               /\ turn[t].phase = "none"
               /\ (kind = "message" /\ p = t) \/ \E allow : kind \in ModesOf(p, allow)
               /\ r.call = "message" => kind = "message"
               /\ StartTurn(t, p, kind) /\ Said(i, [ok |-> TRUE, turn |-> t, pair |-> p])
    <3>1. PICK t \in Turns, kind \in Kinds, p \in Turns :
               /\ turn[t].phase = "none"
               /\ (kind = "message" /\ p = t) \/ \E allow : kind \in ModesOf(p, allow)
               /\ r.call = "message" => kind = "message"
               /\ StartTurn(t, p, kind) /\ Said(i, [ok |-> TRUE, turn |-> t, pair |-> p])
      BY <2>2
    <3>2. Evolves /\ ServerInv'
      BY <1>0, <3>1, StartKeeps
    <3>3. /\ Served(i) /\ request'[i].pc = "answered"
          /\ \/ request'[i].reply = [ok |-> TRUE, turn |-> t, pair |-> p]
             \/ request'[i].reply.ok = FALSE
      BY <3>1, SaidServes
    <3>4. CASE request'[i].reply = [ok |-> TRUE, turn |-> t, pair |-> p]
      <4>1. turn'[t].phase = "running" /\ turn'[t].kind = kind
        BY <3>1 DEF StartTurn, TypeOK, Unborn
      <4>2. request'[i].reply \in StartReplies /\ request'[i].reply.turn = t
        BY <3>4 DEF StartReplies
      <4>3. request'[i].call = r.call /\ r.call \in {"message", "regenerate"}
        BY <1>1, <3>3 DEF ServeStart, Served
      <4>4. StartOf(i)'
        BY <3>1, <4>1, <4>2, <4>3 DEF StartOf, Born
      <4> QED
        BY <3>2, <3>3, <4>3, <4>4 DEF LoadOf, CancelOf
    <3>5. CASE request'[i].reply.ok = FALSE
      BY <1>0, <3>2, <3>3, <3>5, ErrorsAreTrue
    <3> QED
      BY <3>3, <3>4, <3>5
  <2>3. r.call = "regenerate" => r.pair \in Turns
    BY <1>0 DEF AllowOf
  <2> QED
    BY <1>1, <2>1, <2>2, <2>3 DEF ServeStart, ModesOf, Kinds, IsNext
<1>2. ASSUME ServeCancel(i)
      PROVE  /\ Evolves /\ ServerInv' /\ Served(i)
             /\ LoadOf(i)' /\ StartOf(i)' /\ CancelOf(i)'
  <2> DEFINE t == r.turn
  <2>0. t \in Turns /\ Born(t) /\ TurnOf(t) /\ r.call = "cancel"
    BY <1>0, <1>2 DEF ServeCancel, CancelOf
  <2>1. CASE Refused(i, "other") /\ UNCHANGED <<turn, stored>>
    <3>1. Served(i) /\ request'[i].pc = "answered" /\ request'[i].reply.ok = FALSE
      BY <2>1, RefusedServes
    <3>2. Evolves /\ ServerInv'
      BY <1>0, <1>g, <2>1, GoingOnKeeps
    <3> QED
      BY <1>0, <3>1, <3>2, ErrorsAreTrue
  <2>2. CASE /\ turn[t].phase = "running" /\ EndTurn(t, "canceled", "told")
             /\ request' = [request EXCEPT ![i].pc = "half"] /\ Works
    <3>1. Evolves /\ ServerInv'
      BY <1>0, <2>0, <2>2, EndKeeps DEF Ends
    <3>2. Served(i) /\ request'[i].pc = "half"
      BY <2>2, AnswersServe
    <3>3. turn'[t].end = "canceled" /\ turn'[t].phase = "told"
      BY <2>0, <2>2 DEF EndTurn, TypeOK, TurnRecords
    <3> QED
      BY <2>0, <3>1, <3>2, <3>3 DEF Served, LoadOf, StartOf, CancelOf, Born
  <2>3. CASE /\ turn' = [turn EXCEPT ![t].active = FALSE] /\ UNCHANGED stored
             /\ Said(i, [ok |-> TRUE, canceled |-> turn[t].end = "canceled"])
    <3>1. GoesOn
      <4>1. turn[t].phase # "none"
        BY <2>0 DEF Born
      <4> QED
        BY <2>0, <2>3, <4>1 DEF GoesOn, TypeOK, TurnRecords
    <3>2. Evolves /\ ServerInv'
      BY <1>0, <3>1, GoingOnKeeps
    <3>3. /\ Served(i) /\ request'[i].pc = "answered"
          /\ \/ request'[i].reply = [ok |-> TRUE, canceled |-> turn[t].end = "canceled"]
             \/ request'[i].reply.ok = FALSE
      BY <2>3, SaidServes
    <3>4. CASE request'[i].reply = [ok |-> TRUE, canceled |-> turn[t].end = "canceled"]
      <4>1. request'[i].reply \in CancelReplies
            /\ request'[i].reply.canceled = (turn[t].end = "canceled")
        BY <3>4 DEF CancelReplies
      <4>2. turn'[t].end = turn[t].end /\ turn'[t].phase # "none"
        BY <2>0, <3>1 DEF GoesOn, Born
      <4> QED
        BY <2>0, <3>2, <3>3, <4>1, <4>2 DEF Served, LoadOf, StartOf, CancelOf, Born
    <3>5. CASE request'[i].reply.ok = FALSE
      BY <1>0, <3>2, <3>3, <3>5, ErrorsAreTrue
    <3> QED
      BY <3>3, <3>4, <3>5
  <2> QED
    BY <1>2, <2>1, <2>2, <2>3 DEF ServeCancel
<1>3. ASSUME AnswerCancel(i)
      PROVE  /\ Evolves /\ ServerInv' /\ Served(i)
             /\ LoadOf(i)' /\ StartOf(i)' /\ CancelOf(i)'
  <2> DEFINE t == r.turn
  <2>0. t \in Turns /\ Born(t) /\ TurnOf(t) /\ r.call = "cancel" /\ turn[t].end = "canceled"
    BY <1>0, <1>3 DEF AnswerCancel, CancelOf
  <2>1. GoesOn
    <3>1. turn[t].phase # "none"
      BY <2>0 DEF Born
    <3> QED
      BY <1>3, <2>0, <3>1 DEF AnswerCancel, GoesOn, TypeOK, TurnRecords
  <2>2. Evolves /\ ServerInv'
    BY <1>0, <2>1, GoingOnKeeps
  <2>3. /\ Served(i) /\ request'[i].pc = "answered"
        /\ request'[i].reply = [ok |-> TRUE, canceled |-> TRUE] \/ request'[i].reply.ok = FALSE
    BY <1>3, SaidServes DEF AnswerCancel
  <2>4. CASE request'[i].reply = [ok |-> TRUE, canceled |-> TRUE]
    <3>1. request'[i].reply \in CancelReplies
      BY <2>4 DEF CancelReplies
    <3>2. turn'[t].end = "canceled" /\ turn'[t].phase # "none"
      BY <2>0, <2>1 DEF GoesOn, Born
    <3> QED
      BY <2>0, <2>2, <2>3, <3>1, <3>2 DEF Served, LoadOf, StartOf, CancelOf, Born
  <2>5. CASE request'[i].reply.ok = FALSE
    BY <1>0, <2>2, <2>3, <2>5, ErrorsAreTrue
  <2> QED
    BY <2>3, <2>4, <2>5
<1>4. ASSUME ServePairs(i)
      PROVE  /\ Evolves /\ ServerInv' /\ Served(i)
             /\ LoadOf(i)' /\ StartOf(i)' /\ CancelOf(i)'
  <2> DEFINE reply == [ok |-> TRUE, thread |-> latest, active |-> None, pairs |-> PairsOf(latest)]
  <2>1. r.call = "load" /\ UNCHANGED <<turn, stored>>
    BY <1>4 DEF ServePairs, server
  <2>2. Evolves /\ ServerInv'
    BY <1>0, <1>g, <2>1, GoingOnKeeps
  <2>3. CASE request' = [request EXCEPT ![i].pc = "half", ![i].reply = reply]
    <3>0. PICK said : /\ request' = [request EXCEPT ![i].pc = "half", ![i].reply = said]
                      /\ said = reply
      BY <2>3
    <3>1. Served(i) /\ request'[i].pc = "half" /\ request'[i].reply = reply
      <4> HIDE DEF reply
      <4> QED
        BY <3>0, AnswersServe
    <3>2. PairsOf(latest) \in [Turns -> Pairs] /\ latest \in Threads
      BY ConstantsTyped DEF PairsOf, TypeOK
    <3>3. reply \in ThreadReplies
      BY <3>2 DEF ThreadReplies, Named
    <3>4. \A p \in Turns : /\ PairIn(turn, p, PairsOf(latest)[p])
                           /\ PairsOf(latest)[p] # NoPair => turn[p].thread = latest
      <4>1. ASSUME NEW p \in Turns
            PROVE  /\ PairIn(turn, p, PairsOf(latest)[p])
                   /\ PairsOf(latest)[p] # NoPair => turn[p].thread = latest
        <5>1. CASE IsPairOf(p, latest)
          <6>1. PairsOf(latest)[p] = stored[p]
            BY <5>1 DEF PairsOf
          <6> QED
            BY <1>0, <5>1, <6>1 DEF ServerInv, IsPairOf
        <5>2. CASE ~IsPairOf(p, latest)
          <6>1. PairsOf(latest)[p] = NoPair
            BY <5>2 DEF PairsOf
          <6> QED
            BY <6>1 DEF PairIn, NoPair
        <5> QED
          BY <5>1, <5>2
      <4> QED
        BY <4>1
    <3>5. /\ request'[i].reply.thread = latest /\ request'[i].reply.active = None
          /\ request'[i].reply.pairs = PairsOf(latest)
      BY <3>1
    <3>6. LoadOf(i)'
      BY <2>1, <3>1, <3>3, <3>4, <3>5 DEF LoadOf
    <3> QED
      BY <2>1, <2>2, <3>1, <3>6 DEF Served, StartOf, CancelOf
  <2>4. CASE request' = [request EXCEPT ![i].pc = "answered",
                                        ![i].reply = [ok |-> FALSE, code |-> "other"]]
    <3>0. PICK said : /\ request' = [request EXCEPT ![i].pc = "answered", ![i].reply = said]
                      /\ said = [ok |-> FALSE, code |-> "other"]
      BY <2>4
    <3>1. Served(i) /\ request'[i].pc = "answered" /\ request'[i].reply.ok = FALSE
      <4>1. said.ok = FALSE
        BY <3>0
      <4> QED
        BY <3>0, <4>1, AnswersServe
    <3> QED
      BY <1>0, <2>2, <3>1, ErrorsAreTrue
  <2> QED
    BY <1>4, <2>3, <2>4 DEF ServePairs
<1>5. ASSUME ServeThread(i)
      PROVE  /\ Evolves /\ ServerInv' /\ Served(i)
             /\ LoadOf(i)' /\ StartOf(i)' /\ CancelOf(i)'
  <2> DEFINE active == IF ActiveTurns(r.reply.thread) = {} THEN None
                       ELSE Max(ActiveTurns(r.reply.thread))
             answer == [r.reply EXCEPT !.active = active]
  <2>1. r.call = "load" /\ r.pc = "half" /\ UNCHANGED <<turn, stored>>
    BY <1>5 DEF ServeThread, server
  <2>2. Evolves /\ ServerInv'
    BY <1>0, <1>g, <2>1, GoingOnKeeps
  <2>3. active \in Named /\ (active # None => Born(active))
    <3>1. ActiveTurns(r.reply.thread) \in SUBSET Turns
      BY DEF ActiveTurns
    <3>2. CASE ActiveTurns(r.reply.thread) = {}
      BY <3>2 DEF Named
    <3>3. CASE ActiveTurns(r.reply.thread) # {}
      <4>1. active \in ActiveTurns(r.reply.thread)
        BY <3>1, <3>3, MaxIsOne
      <4> HIDE DEF active
      <4>2. active \in Turns /\ turn[active].active
        BY <4>1 DEF ActiveTurns
      <4>3. TurnOf(active)
        BY <1>0, <4>2
      <4> QED
        BY <4>2, <4>3 DEF TurnOf, Unborn, Named
    <3> QED
      BY <3>2, <3>3
  <2>4. /\ r.reply \in ThreadReplies
        /\ \A p \in Turns : /\ PairIn(turn, p, r.reply.pairs[p])
                            /\ r.reply.pairs[p] # NoPair => turn[p].thread = r.reply.thread
    BY <1>0, <2>1 DEF LoadOf
  <2>5. request' = [request EXCEPT ![i].pc = "answered", ![i].reply.active = active]
    BY <1>5 DEF ServeThread
  <2> HIDE DEF active
  <2>6. /\ answer \in ThreadReplies /\ answer.active = active /\ answer.pairs = r.reply.pairs
        /\ answer.thread = r.reply.thread
    BY <2>3, <2>4 DEF ThreadReplies
  <2>7. Served(i) /\ request'[i].pc = "answered" /\ request'[i].reply = answer
    BY <2>5 DEF Served, TypeOK, Requests
  <2> HIDE DEF answer
  <2>8. LoadOf(i)'
    BY <2>1, <2>3, <2>4, <2>6, <2>7 DEF LoadOf, Born
  <2> QED
    BY <2>1, <2>2, <2>7, <2>8 DEF Served, StartOf, CancelOf
<1> QED
  BY <1>d, <1>1, <1>2, <1>3, <1>4, <1>5 DEF Serve

\* A pair that was refused web sources is there.
LEMMA RefusedIsBorn ==
    ASSUME TypeOK, ServerInv, NEW p \in Turns, WasRefused(turn, p)
    PROVE  Born(p)
<1>1. PICK t \in Turns : turn[t].pair = p /\ turn[t].end = "refused"
  BY DEF WasRefused
<1>2. TurnOf(t)
  BY DEF ServerInv
<1> QED
  BY <1>1, <1>2, NoneIsNothing DEF TurnOf, Unborn, Ends

\* What the server does leaves the permission of a request as it is.
LEMMA AllowKept ==
    ASSUME TypeOK, ServerInv, Evolves, NEW i \in Slots, AllowOf(i),
           request'[i].call = request[i].call, request'[i].pair = request[i].pair,
           request'[i].thread = request[i].thread, request'[i].allow = request[i].allow
    PROVE  AllowOf(i)'
<1> DEFINE p == request[i].pair
<1>1. CASE request[i].allow
  <2>1. p \in Turns /\ turn[p].thread = request[i].thread /\ WasRefused(turn, p)
    BY <1>1 DEF AllowOf
  <2>2. Born(p)
    BY <2>1, RefusedIsBorn
  <2>3. turn'[p].thread = turn[p].thread /\ WasRefused(turn', p)
    BY <2>1, <2>2, FactsStay DEF Evolves, ServerInv
  <2> QED
    BY <2>1, <2>3 DEF AllowOf
<1>2. CASE ~request[i].allow
  BY <1>2 DEF AllowOf
<1> QED
  BY <1>1, <1>2

\* A request that takes no step is as true as it was.
LEMMA OthersKept ==
    ASSUME TypeOK, ServerInv, Evolves, NEW i \in Slots, RequestOf(i), request'[i] = request[i]
    PROVE  RequestOf(i)'
<1> DEFINE r == request[i]
<1>1. LoadOf(i)'
  <2>1. CASE r.call = "load" /\ (r.pc = "half" \/ (r.pc = "answered" /\ r.reply.ok))
    <3>1. /\ r.reply \in ThreadReplies
          /\ r.reply.active # None => Born(r.reply.active)
          /\ \A p \in Turns : /\ PairIn(turn, p, r.reply.pairs[p])
                              /\ r.reply.pairs[p] # NoPair => turn[p].thread = r.reply.thread
      BY <2>1 DEF RequestOf, LoadOf
    <3>2. r.reply.active # None => turn'[r.reply.active].phase # "none"
      BY <3>1 DEF ThreadReplies, Named, Evolves
    <3>3. ASSUME NEW p \in Turns
          PROVE  /\ PairIn(turn', p, r.reply.pairs[p])
                 /\ r.reply.pairs[p] # NoPair => turn'[p].thread = r.reply.thread
      <4>1. r.reply.pairs[p] \in Pairs
        BY <3>1 DEF ThreadReplies
      <4>2. PairIn(turn', p, r.reply.pairs[p])
        BY <3>1, <4>1, FactsStay DEF ServerInv
      <4>3. r.reply.pairs[p] # NoPair => Born(p)
        BY <3>1 DEF PairIn, Born
      <4> QED
        BY <3>1, <4>2, <4>3 DEF Evolves
    <3> QED
      BY <3>1, <3>2, <3>3 DEF LoadOf, Born
  <2>2. CASE ~(r.call = "load" /\ (r.pc = "half" \/ (r.pc = "answered" /\ r.reply.ok)))
    BY <2>2 DEF LoadOf
  <2> QED
    BY <2>1, <2>2
<1>2. StartOf(i)'
  BY DEF RequestOf, StartOf, StartReplies, Born, Evolves
<1>3. CancelOf(i)'
  BY NoneIsNothing DEF RequestOf, CancelOf, Born, Evolves, Ends
<1>4. AllowOf(i)'
  BY AllowKept DEF RequestOf
<1> QED
  BY <1>1, <1>2, <1>3, <1>4 DEF RequestOf

\* The server does not change what the dock follows.
LEMMA FollowKept ==
    ASSUME TypeOK, ServerInv, Evolves, FollowInv, UNCHANGED dock
    PROVE  FollowInv'
<1>1. UNCHANGED <<source, running, retry, thread>>
  BY DEF dock, follow
<1>2. running.turn \in Named /\ retry \in Named
  BY DEF TypeOK
<1>3. running.turn # None => /\ turn'[running.turn].phase # "none"
                             /\ turn'[running.turn].pair = turn[running.turn].pair
  BY <1>2 DEF FollowInv, Evolves, Named
<1>4. retry # None => turn'[retry].thread = thread /\ WasRefused(turn', retry)
  <2>1. CASE retry # None
    <3>1. retry \in Turns /\ turn[retry].thread = thread /\ WasRefused(turn, retry)
      BY <1>2, <2>1 DEF FollowInv, Named
    <3>2. Born(retry)
      BY <3>1, RefusedIsBorn
    <3> QED
      BY <3>1, <3>2, FactsStay DEF Evolves, ServerInv
  <2> QED
    BY <2>1
<1> QED
  BY <1>1, <1>3, <1>4 DEF FollowInv, Born

\* The server keeps the invariant, and the dock does not notice.
LEMMA ServerKeeps ==
    ASSUME TypeOK, DockInv,
           \/ ChangeContent
           \/ \E t \in Turns : StartElsewhere(t) \/ RunTurn(t)
           \/ \E i \in Slots : Serve(i)
    PROVE  DockInv' /\ Evolves /\ UNCHANGED dock
<1>1. ASSUME NEW i \in Slots, Serve(i)
      PROVE  DockInv' /\ Evolves /\ UNCHANGED dock
  <2>1. /\ Evolves /\ ServerInv' /\ UNCHANGED dock /\ Served(i)
        /\ LoadOf(i)' /\ StartOf(i)' /\ CancelOf(i)'
    BY <1>1, ServeMoves
  <2>2. ServerInv /\ FollowInv /\ \A j \in Slots : RequestOf(j)
    BY DEF DockInv
  <2>3. AllowOf(i)'
    BY <2>1, <2>2, AllowKept DEF Served, RequestOf
  <2>4. \A j \in Slots \ {i} : RequestOf(j)'
    BY <2>1, <2>2, OthersKept DEF Served
  <2>5. FollowInv'
    BY <2>1, <2>2, FollowKept
  <2> QED
    BY <2>1, <2>3, <2>4, <2>5 DEF DockInv, RequestOf
<1>2. ASSUME Evolves, ServerInv', UNCHANGED <<dock, request>>
      PROVE  DockInv'
  <2>1. ServerInv /\ FollowInv /\ \A j \in Slots : RequestOf(j)
    BY DEF DockInv
  <2>2. FollowInv'
    BY <1>2, <2>1, FollowKept
  <2>3. \A j \in Slots : RequestOf(j)'
    BY <1>2, <2>1, OthersKept
  <2> QED
    BY <1>2, <2>2, <2>3 DEF DockInv
<1>3. ASSUME NEW t \in Turns, StartElsewhere(t) \/ RunTurn(t)
      PROVE  DockInv' /\ Evolves /\ UNCHANGED dock
  BY <1>2, <1>3, ServerMoves DEF DockInv
<1>4. ASSUME ChangeContent
      PROVE  DockInv' /\ Evolves /\ UNCHANGED dock
  <2>1. GoesOn /\ UNCHANGED <<dock, request>>
    BY <1>4 DEF ChangeContent, GoesOn
  <2> QED
    BY <1>2, <2>1, GoingOnKeeps DEF DockInv
<1> QED
  BY <1>1, <1>3, <1>4

-----------------------------------------------------------------------------
(* The steps of the dock.                                                  *)

\* A step of the dock at a request leaves the others.
LEMMA DockStepKeeps ==
    ASSUME TypeOK, DockInv, UNCHANGED server, NEW i \in Slots,
           \A j \in Slots \ {i} : request'[j] = request[j], RequestOf(i)', FollowInv'
    PROVE  DockInv'
<1>1. UNCHANGED <<turn, stored>>
  BY DEF server
<1>2. ServerInv /\ \A j \in Slots : RequestOf(j)
  BY DEF DockInv
<1>3. GoesOn
  BY <1>1 DEF GoesOn
<1>4. Evolves /\ ServerInv'
  BY <1>2, <1>3, GoingOnKeeps
<1>5. \A j \in Slots \ {i} : RequestOf(j)'
  BY <1>2, <1>4, OthersKept
<1> QED
  BY <1>4, <1>5 DEF DockInv

\* What is freed or is loading says nothing yet.
LEMMA NothingSaid ==
    ASSUME TypeOK, NEW i \in Slots
    PROVE  /\ Done(i) => RequestOf(i)' /\ request'[i] = Free
           /\ \A why, token : LoadThread(i, why, token) =>
                 /\ RequestOf(i)' /\ request'[i].call = "load" /\ request'[i].pc = "sent"
                 /\ request'[i].why = why
           /\ Done(i) \/ (\E why, token : LoadThread(i, why, token)) =>
                 \A j \in Slots \ {i} : request'[j] = request[j]
<1>1. Done(i) => request'[i] = Free
  BY DEF Done, TypeOK
<1>2. /\ Free.call \notin Calls /\ ~Free.allow
  BY NoneIsNothing DEF Free
<1>3. Done(i) => RequestOf(i)'
  BY <1>1, <1>2 DEF RequestOf, LoadOf, StartOf, CancelOf, AllowOf, Calls
<1>4. ASSUME NEW why, NEW token, LoadThread(i, why, token)
      PROVE  /\ RequestOf(i)' /\ request'[i].call = "load" /\ request'[i].pc = "sent"
             /\ request'[i].why = why
  <2>1. /\ request'[i].call = "load" /\ request'[i].pc = "sent" /\ request'[i].why = why
        /\ request'[i].allow = FALSE
    BY <1>4 DEF LoadThread, Free, TypeOK
  <2> QED
    BY <2>1 DEF RequestOf, LoadOf, StartOf, CancelOf, AllowOf
<1>5. Done(i) \/ (\E why, token : LoadThread(i, why, token)) =>
         \A j \in Slots \ {i} : request'[j] = request[j]
  BY DEF Done, LoadThread, TypeOK
<1> QED
  BY <1>1, <1>3, <1>4, <1>5

\* The user keeps the invariant: a permission is sent for the pair that was
\* refused, to the thread that is shown.
LEMMA UseKeeps ==
    ASSUME TypeOK, DockInv, NEW i \in Slots, Use(i)
    PROVE  DockInv'
<1>1. FollowInv /\ retry \in Named /\ running.turn \in Named
  BY DEF DockInv, TypeOK
<1>2. /\ UNCHANGED <<turn, stored, running, retry, thread>>
      /\ UNCHANGED server
      /\ source' \in {source, Closed}
  BY DEF Use, OpenDock, SubmitPrompt, ApproveWebSourcesForTurn, HandleStop, RetryThreadLoad,
     HandleMalformedTerminal, RegeneratePair, RegeneratePairById, server, follow
<1>3. FollowInv'
  BY <1>1, <1>2 DEF FollowInv, Born, Closed, WasRefused
<1>4. ASSUME NEW why, NEW token, LoadThread(i, why, token)
      PROVE  DockInv'
  BY <1>2, <1>3, <1>4, NothingSaid, DockStepKeeps
<1>5. ASSUME UNCHANGED request
      PROVE  DockInv'
  <2>1. UNCHANGED turn
    BY <1>2
  <2>2. RequestOf(i)
    BY DEF DockInv
  <2>3. RequestOf(i)'
    BY <1>5, <2>1, <2>2 DEF RequestOf, LoadOf, StartOf, CancelOf, AllowOf, Born
  <2> QED
    BY <1>2, <1>3, <1>5, <2>3, DockStepKeeps
<1>6. ASSUME SubmitPrompt(i)
      PROVE  DockInv'
  <2>1. /\ \A j \in Slots \ {i} : request'[j] = request[j]
        /\ request'[i].call = "message" /\ request'[i].pc = "sent" /\ ~request'[i].allow
    BY <1>6 DEF SubmitPrompt, Call, Free, TypeOK
  <2>2. RequestOf(i)'
    BY <2>1 DEF RequestOf, LoadOf, StartOf, CancelOf, AllowOf
  <2> QED
    BY <1>2, <1>3, <2>1, <2>2, DockStepKeeps
<1>7. ASSUME NEW p \in Turns, NEW allow \in BOOLEAN, RegeneratePairById(i, p, allow),
             allow => turn[p].thread = thread /\ WasRefused(turn, p)
      PROVE  DockInv'
  <2>1. /\ \A j \in Slots \ {i} : request'[j] = request[j]
        /\ request'[i].call = "regenerate" /\ request'[i].pc = "sent"
        /\ request'[i].pair = p /\ request'[i].thread = thread /\ request'[i].allow = allow
    BY <1>7 DEF RegeneratePairById, Call, Free, TypeOK
  <2>2. UNCHANGED turn
    BY <1>2
  <2>3. RequestOf(i)'
    BY <1>7, <2>1, <2>2 DEF RequestOf, LoadOf, StartOf, CancelOf, AllowOf
  <2> QED
    BY <1>2, <1>3, <2>1, <2>3, DockStepKeeps
<1>8. ASSUME HandleStop(i)
      PROVE  DockInv'
  <2>1. /\ \A j \in Slots \ {i} : request'[j] = request[j]
        /\ request'[i].call = "cancel" /\ request'[i].pc = "sent"
        /\ request'[i].turn = running.turn /\ ~request'[i].allow
    BY <1>8 DEF HandleStop, Call, Free, TypeOK
  <2>2. running.turn # None
    BY <1>1, <1>8 DEF HandleStop, FollowInv
  <2>3. running.turn \in Turns /\ turn'[running.turn].phase # "none"
    BY <1>1, <1>2, <2>2 DEF FollowInv, Born, Named
  <2>4. RequestOf(i)'
    BY <2>1, <2>3 DEF RequestOf, LoadOf, StartOf, CancelOf, AllowOf, Born
  <2> QED
    BY <1>2, <1>3, <2>1, <2>4, DockStepKeeps
<1>9. ASSUME ApproveWebSourcesForTurn(i)
      PROVE  DockInv'
  <2>1. retry \in Turns /\ turn[retry].thread = thread /\ WasRefused(turn, retry)
    BY <1>1, <1>9 DEF ApproveWebSourcesForTurn, FollowInv, Named
  <2> QED
    BY <1>7, <1>9, <2>1 DEF ApproveWebSourcesForTurn
<1>10. ASSUME OpenDock(i) \/ RetryThreadLoad(i)
       PROVE  DockInv'
  BY <1>4, <1>10 DEF OpenDock, RetryThreadLoad
<1>11. ASSUME HandleMalformedTerminal(i)
       PROVE  DockInv'
  BY <1>4, <1>5, <1>11 DEF HandleMalformedTerminal
<1>12. ASSUME NEW p \in Turns, RegeneratePair(i, p)
       PROVE  DockInv'
  BY <1>7, <1>12 DEF RegeneratePair
<1> QED
  BY <1>6, <1>8, <1>9, <1>10, <1>11, <1>12 DEF Use

\* The dock follows a turn that was started.
LEMMA FollowingIsFine ==
    ASSUME TypeOK, DockInv, UNCHANGED server, NEW t \in Turns, Born(t), FollowTurn(t),
           retry' = None
    PROVE  FollowInv'
<1>1. /\ UNCHANGED turn
      /\ running'.turn = t /\ running'.pair = turn[t].pair
      /\ source'.turn = t /\ source'.at = 1
  BY DEF server, FollowTurn, ConnectRunningStream
<1> QED
  BY <1>1, NoneIsNothing DEF FollowInv, Born

\* And it lets go of it.  What it would ask for then was refused.
LEMMA ClearingIsFine ==
    ASSUME TypeOK, UNCHANGED server, ClearRunningTurnState,
           retry' # None => turn[retry'].thread = thread' /\ WasRefused(turn, retry')
    PROVE  FollowInv'
<1>1. /\ UNCHANGED turn /\ running' = Nobody /\ source'.turn = None /\ running'.turn = None
  BY DEF server, ClearRunningTurnState, Nobody, Closed
<1> QED
  BY <1>1 DEF FollowInv, Nobody

\* A thread response tells of no pair but of its thread, and of none wanting
\* web sources that was not refused them.
LEMMA SyncIsFine ==
    ASSUME TypeOK, DockInv, NEW i \in Slots, Answered(i, "load"), Read(i).ok, ShowThread(i),
           SyncRetry(Read(i).pairs)
    PROVE  retry' # None => turn[retry'].thread = thread' /\ WasRefused(turn, retry')
<1>1. /\ retry' \in Named
      /\ retry' # None => retry' \in Turns /\ Read(i).pairs[retry'].retry
  BY RetryTyped
<1>2. \A p \in Turns : /\ PairIn(turn, p, Read(i).pairs[p])
                       /\ Read(i).pairs[p] # NoPair => turn[p].thread = thread'
  BY ShowTyped
<1>3. \A p \in Turns : Read(i).pairs[p].retry =>
         Read(i).pairs[p] # NoPair /\ WasRefused(turn, p)
  BY <1>2 DEF PairIn, NoPair
<1> QED
  BY <1>1, <1>2, <1>3

\* A response keeps the invariant: the pair that wants web sources is of the
\* thread the response shows.
LEMMA ReceiveKeeps ==
    ASSUME TypeOK, DockInv, NEW i \in Slots, Receive(i)
    PROVE  DockInv'
<1>1. FollowInv /\ retry \in Named /\ UNCHANGED server
  BY DEF DockInv, TypeOK, Receive, DropResponse, LoadFails, ReceiveThread, ReceiveStop,
     ReceiveStarted, ReceiveRefusal, ReceiveCancel
<1>2. ASSUME UNCHANGED <<source, running, retry, thread>>
      PROVE  FollowInv'
  <2>1. UNCHANGED turn
    BY <1>1 DEF server
  <2> QED
    BY <1>1, <1>2, <2>1 DEF FollowInv, Born
<1>3. ASSUME FollowInv', Done(i) \/ \E why, token : LoadThread(i, why, token)
      PROVE  DockInv'
  BY <1>1, <1>3, NothingSaid, DockStepKeeps
<1>4. ASSUME DropResponse(i) \/ LoadFails(i) \/ ReceiveRefusal(i) \/ ReceiveCancel(i)
      PROVE  DockInv'
  <2>1. UNCHANGED <<source, running, retry, thread>>
    BY <1>4 DEF DropResponse, LoadFails, ReceiveRefusal, ReceiveCancel, dock, follow
  <2>2. Done(i) \/ \E why, token : LoadThread(i, why, token)
    BY <1>4 DEF DropResponse, LoadFails, ReceiveRefusal, ReceiveCancel
  <2> QED
    BY <1>2, <1>3, <2>1, <2>2
<1>5. ASSUME ReceiveThread(i) \/ ReceiveStop(i)
      PROVE  DockInv'
  <2>1. Answered(i, "load") /\ Read(i).ok /\ ShowThread(i) /\ Done(i)
    BY <1>5 DEF ReceiveThread, ReceiveStop, ShowThread
  <2>2. Read(i).active # None => Read(i).active \in Turns /\ Born(Read(i).active)
    BY <2>1, ShowTyped
  <2>3. CASE Read(i).active # None /\ AdoptRunningTurn(Read(i).active)
    BY <1>1, <1>3, <2>1, <2>2, <2>3, FollowingIsFine DEF AdoptRunningTurn
  <2>4. CASE ClearRunningTurnState /\ SyncRetry(Read(i).pairs)
    BY <1>1, <1>3, <2>1, <2>4, SyncIsFine, ClearingIsFine
  <2>5. CASE SyncRetry(Read(i).pairs) /\ UNCHANGED follow
    <3>1. UNCHANGED <<source, running>> /\ UNCHANGED turn
      BY <1>1, <2>5 DEF follow, server
    <3>2. retry' # None => turn[retry'].thread = thread' /\ WasRefused(turn, retry')
      BY <2>1, <2>5, SyncIsFine
    <3>3. FollowInv'
      BY <1>1, <3>1, <3>2 DEF FollowInv, Born
    <3> QED
      BY <1>3, <2>1, <3>3
  <2> QED
    BY <1>5, <2>3, <2>4, <2>5 DEF ReceiveThread, ReceiveStop
<1>6. ASSUME ReceiveStarted(i)
      PROVE  DockInv'
  <2>1. StartOf(i)
    BY DEF DockInv, RequestOf
  <2>2. Read(i).turn \in Turns /\ Born(Read(i).turn)
    BY <1>6, <2>1 DEF ReceiveStarted, StartOf, StartReplies, Read
  <2>3. FollowTurn(Read(i).turn) /\ retry' = None /\ Done(i)
    BY <1>6 DEF ReceiveStarted, Read
  <2> QED
    BY <1>1, <1>3, <2>2, <2>3, FollowingIsFine
<1> QED
  BY <1>4, <1>5, <1>6 DEF Receive

\* An event keeps the invariant: a refusal that is shown is that of the turn
\* whose stream tells it.
LEMMA ListenKeeps ==
    ASSUME TypeOK, DockInv, Listen
    PROVE  DockInv'
<1>1. /\ FollowInv /\ retry \in Named /\ UNCHANGED <<server, request>>
      /\ UNCHANGED thread /\ HasEvent
  BY DEF DockInv, TypeOK, Listen, DropEvent, ShowEvent, EndOfTurn
<1>2. UNCHANGED <<turn, stored>>
  BY <1>1 DEF server
<1>3. FollowInv'
  <2>1. CASE DropEvent \/ ShowEvent
    <3>1. /\ UNCHANGED <<running, retry>>
          /\ source' = Closed \/ (source'.turn = source.turn /\ source'.at = source.at + 1)
      BY <2>1 DEF DropEvent, ShowEvent, TypeOK
    <3>2. source.at \in Nat /\ Closed.turn = None
      BY DEF TypeOK, Closed
    <3>3. source'.turn # None => source'.turn = running'.turn /\ source'.at >= 1
      BY <1>1, <3>1, <3>2 DEF FollowInv
    <3> QED
      BY <1>1, <1>2, <3>1, <3>3 DEF FollowInv, Born
  <2>2. CASE EndOfTurn
    <3> DEFINE t == source.turn
               p == turn[source.turn].pair
    <3>1. retry' = retry \/ (Event.type = "refused" /\ retry' = p)
      BY <2>2 DEF EndOfTurn
    <3>2. CASE retry' = retry
      BY <1>1, <2>2, <3>2, ClearingIsFine DEF FollowInv, EndOfTurn
    <3>3. CASE Event.type = "refused" /\ retry' = p
      <4>1. t \in Turns /\ Born(t) /\ turn[t].end = "refused"
        BY <1>1, <3>3, EventIs DEF Ends
      <4>2. thread' = turn[t].thread
        BY <1>1, <2>2 DEF EndOfTurn, IsCurrentStream
      <4>3. TurnOf(t)
        BY <4>1 DEF DockInv, ServerInv
      <4>4. turn[p].thread = thread' /\ WasRefused(turn, p)
        BY <4>1, <4>2, <4>3 DEF TurnOf, WasRefused
      <4> QED
        BY <1>1, <2>2, <3>3, <4>4, ClearingIsFine DEF EndOfTurn
    <3> QED
      BY <3>1, <3>2, <3>3
  <2> QED
    BY <2>1, <2>2 DEF Listen
<1>4. \A i \in Slots : RequestOf(i)'
  BY <1>1, <1>2 DEF DockInv, RequestOf, LoadOf, StartOf, CancelOf, AllowOf, Born
<1>5. ServerInv'
  BY <1>2 DEF DockInv, ServerInv, TurnOf, AnswerOf, Born
<1> QED
  BY <1>3, <1>4, <1>5 DEF DockInv

-----------------------------------------------------------------------------
(* The first theorems.                                                     *)

\* What the server has told the dock is true, whatever any other tab, any order
\* of answers and any fault does between the telling and the reading.
THEOREM DockInvariance == Spec => [](TypeOK /\ DockInv)
<1>1. Init => TypeOK /\ DockInv
  <2>1. ASSUME Init
        PROVE  TypeOK
    <3>1. /\ 1 \in Threads /\ None \in Named /\ 0 \in 0 .. MaxStops /\ 0 \in 0 .. MaxFaults
      BY DockAssumption DEF Threads, Named
    <3> QED
      BY <2>1, <3>1, ConstantsTyped DEF Init, TypeOK
  <2>2. ASSUME Init
        PROVE  DockInv
    <3>1. ServerInv
      <4>1. \A t \in Turns : turn[t] = Unborn /\ stored[t] = NoPair
        BY <2>2 DEF Init
      <4>2. /\ Unborn.phase = "none" /\ Unborn.kind # "regenerate" /\ NoPair.turn = None
        BY NoneIsNothing DEF Unborn, NoPair, Kinds
      <4>3. ASSUME NEW t \in Turns
            PROVE  TurnOf(t) /\ PairIn(turn, t, stored[t]) /\ AnswerOf(t)
        BY <4>1, <4>2 DEF TurnOf, PairIn, AnswerOf, Born
      <4> QED
        BY <4>3 DEF ServerInv
    <3>2. \A i \in Slots : RequestOf(i)
      BY <2>2, NoneIsNothing DEF Init, RequestOf, LoadOf, StartOf, CancelOf, AllowOf, Free, Calls
    <3>3. FollowInv
      BY <2>2 DEF Init, FollowInv, Nobody, Closed
    <3> QED
      BY <3>1, <3>2, <3>3 DEF DockInv
  <2> QED
    BY <2>1, <2>2
<1>2. TypeOK /\ DockInv /\ [Next]_vars => TypeOK' /\ DockInv'
  <2> SUFFICES ASSUME TypeOK, DockInv, [Next]_vars
               PROVE  TypeOK' /\ DockInv'
    OBVIOUS
  <2>1. CASE \/ ChangeContent
             \/ \E t \in Turns : StartElsewhere(t) \/ RunTurn(t)
             \/ \E i \in Slots : Serve(i)
    BY <2>1, ServerKeeps, ContentTyped, ServerStepTyped, ServeTyped
  <2>2. CASE \E i \in Slots : Use(i)
    BY <2>2, UseKeeps, UseTyped
  <2>3. CASE \E i \in Slots : Receive(i)
    BY <2>3, ReceiveKeeps, ReceiveTyped
  <2>4. CASE Listen
    BY <2>4, ListenKeeps, ListenTyped
  <2>5. CASE UNCHANGED vars
    <3>1. /\ UNCHANGED <<latest, turn, stored, thread, load, shown, retry, stop, message>>
          /\ UNCHANGED <<phase, running, malformed, source, request, stops, faults>>
      BY <2>5 DEF vars, server, dock, follow
    <3>2. TypeOK'
      BY <3>1 DEF TypeOK
    <3>3. ServerInv'
      <4>1. ASSUME NEW t \in Turns
            PROVE  TurnOf(t)' /\ PairIn(turn, t, stored[t])' /\ AnswerOf(t)'
        <5>1. TurnOf(t) /\ PairIn(turn, t, stored[t]) /\ AnswerOf(t)
          BY DEF DockInv, ServerInv
        <5> QED
          BY <3>1, <5>1 DEF TurnOf, AnswerOf, Born
      <4> QED
        BY <4>1 DEF ServerInv
    <3>4. ASSUME NEW i \in Slots
          PROVE  RequestOf(i)'
      <4>1. RequestOf(i)
        BY DEF DockInv
      <4>2. LoadOf(i)'
        BY <3>1, <4>1 DEF RequestOf, LoadOf, Born
      <4>3. StartOf(i)'
        BY <3>1, <4>1 DEF RequestOf, StartOf, Born
      <4>4. CancelOf(i)' /\ AllowOf(i)'
        BY <3>1, <4>1 DEF RequestOf, CancelOf, AllowOf, Born
      <4> QED
        BY <4>2, <4>3, <4>4 DEF RequestOf
    <3>5. FollowInv'
      BY <3>1 DEF DockInv, FollowInv, Born
    <3> QED
      BY <3>2, <3>3, <3>4, <3>5 DEF DockInv
  <2> QED
    BY <2>1, <2>2, <2>3, <2>4, <2>5 DEF Next
<1> QED
  BY <1>1, <1>2, PTL DEF Spec

\* The type invariant, for any number of turns, threads, requests and faults.
THEOREM DockTypeCorrect == Spec => []TypeOK
<1>1. TypeOK /\ DockInv => TypeOK
  OBVIOUS
<1> QED
  BY <1>1, DockInvariance, PTL

\* A permission to use web sources is sent for a pair that was refused them, to
\* the thread of the pair, although the pair it was asked for may have left the
\* transcript, another load may have answered and another turn may run.
THEOREM PermissionGoesToTheAsker == Spec => []PermissionIsForTheAsker
<1>1. TypeOK /\ DockInv => PermissionIsForTheAsker
  BY DEF DockInv, RequestOf, AllowOf, WasRefused, PermissionIsForTheAsker
<1> QED
  BY <1>1, DockInvariance, PTL

-----------------------------------------------------------------------------
(* The transcript.                                                         *)

\* What is so of a row stays so while the server goes on.
LEMMA RowStays ==
    ASSUME TypeOK, ServerInv, Evolves, NEW p \in Turns, NEW row \in Rows, NEW t \in Named,
           t # None => Born(t), NEW ends \in SUBSET {"canceled"}, NEW now \in SUBSET {"canceled"},
           ends \subseteq now
    PROVE  /\ Fresh(turn, p, row) => Fresh(turn', p, row)
           /\ RowIs(turn, p, row, t, ends) => RowIs(turn', p, row, t, now)
<1>0. row.turn \in Named /\ row.from \in Named /\ row.text \in Answers
  BY DEF Rows
<1>1. Fresh(turn, p, row) => Fresh(turn', p, row)
  BY <1>0, FactsStay DEF Fresh, ServerInv
<1>2. ASSUME RowIs(turn, p, row, t, ends)
      PROVE  RowIs(turn', p, row, t, now)
  <2>1. \A u \in {row.turn, row.from} : u # None => turn'[u].phase # "none"
    BY <1>0, <1>2 DEF RowIs, Evolves, Born, Named
  <2>2. t # None => /\ turn'[t].pair = turn[t].pair /\ turn'[t].kind = turn[t].kind
                    /\ turn[t].end # None => turn'[t].end = turn[t].end
    BY DEF Evolves, Named
  <2>3. t # None /\ EndsWell(turn, t, ends) => EndsWell(turn', t, now)
    BY <2>2, NoneIsNothing DEF EndsWell, Ends
  <2>4. t # None /\ turn[t].end = "completed" => turn'[t].end = "completed"
    BY <2>2, NoneIsNothing DEF Ends
  <2>5. Kept(turn, p, row.from, row.text) => Kept(turn', p, row.from, row.text)
    BY <1>0, FactsStay DEF ServerInv
  <2>6. t # None /\ Drafted(turn, p, row, t, ends) => Drafted(turn', p, row, t, now)
    BY <2>2, <2>3, <2>5 DEF Drafted
  <2> QED
    BY <1>1, <1>2, <2>1, <2>2, <2>3, <2>4, <2>6 DEF RowIs
<1> QED
  BY <1>1, <1>2

\* A row of a thread response is fresh, whichever turn is followed.
LEMMA SnapshotIs ==
    ASSUME TypeOK, NEW p \in Turns, NEW pair \in Pairs, PairIn(turn, p, pair), NEW t,
           NEW ends \in SUBSET {"canceled"}
    PROVE  LET row == ToTranscriptPair(pair)
           IN  Fresh(turn, p, row) /\ RowIs(turn, p, row, t, ends)
<1> DEFINE row == ToTranscriptPair(pair)
<1>1. /\ row.status = pair.status /\ row.turn = pair.turn /\ row.draft = None /\ row.from = None
      /\ row.text = IF pair.answer = None THEN <<>> ELSE Whole(pair.answer)
  BY DEF ToTranscriptPair, Blank
<1> HIDE DEF row
<1>2. pair.turn = None => pair.status = None /\ pair.answer = None
  BY DEF PairIn, NoPair
<1>3. Fresh(turn, p, row)
  BY <1>1, <1>2 DEF Fresh, Kept, PairIn, Pairs, Named
<1>4. RowIs(turn, p, row, t, ends)
  BY <1>1, <1>2, <1>3, NoneIsNothing DEF RowIs, PairIn, EndsWell, Statuses
<1> QED
  BY <1>3, <1>4 DEF row

\* The row a first answer starts with.
LEMMA FirstRowIs ==
    ASSUME TypeOK, NEW p \in Turns, NEW t \in Turns, Born(t), turn[t].kind = "message",
           NEW ends \in SUBSET {"canceled"}
    PROVE  Fresh(turn, p, FirstRow(t)) /\ RowIs(turn, p, FirstRow(t), t, ends)
<1> DEFINE row == FirstRow(t)
<1>1. /\ row.status = "running" /\ row.turn = t /\ row.draft = None /\ row.from = None
      /\ row.text = <<>>
  BY DEF FirstRow, Blank
<1> HIDE DEF row
<1>2. Fresh(turn, p, row)
  BY <1>1 DEF Fresh, Kept
<1>3. RowIs(turn, p, row, t, ends)
  BY <1>1, <1>2, NoneIsNothing DEF RowIs, Born
<1> QED
  BY <1>2, <1>3 DEF row

\* The first event makes a draft beside a fresh answer.
LEMMA StartedIs ==
    ASSUME TypeOK, NEW t \in Turns, Born(t), NEW row \in Rows, row.status # None,
           NEW ends \in SUBSET {"canceled"}, Fresh(turn, turn[t].pair, row),
           RowIs(turn, turn[t].pair, row, t, ends)
    PROVE  RowIs(turn, turn[t].pair, ApplyStarted(row, t), t, ends)
<1> DEFINE p == turn[t].pair
           new == ApplyStarted(row, t)
<1>1. /\ new.status = "running" /\ new.turn = t /\ new.text = row.text
      /\ turn[t].kind = "regenerate" => new.draft = t /\ new.from = row.turn
      /\ turn[t].kind # "regenerate" => new.draft = row.draft /\ new.from = row.from
  BY DEF ApplyStarted, Rows
<1> HIDE DEF new
<1>2. t # None /\ row.turn # None /\ row.draft = None /\ row.from = None
  BY NoneIsNothing DEF RowIs, Fresh
<1>3. Drafted(turn, p, new, t, ends)
  BY <1>1, <1>2, NoneIsNothing DEF Drafted, Fresh, RowIs, Statuses
<1> QED
  BY <1>1, <1>2, <1>3 DEF RowIs, Born, new

\* The events between go to no draft and complete nothing.
LEMMA DeltaIs ==
    ASSUME TypeOK, NEW t \in Turns, Born(t), NEW row \in Rows, row.status # None, NEW k \in Nat,
           NEW ends \in SUBSET {"canceled"}, RowIs(turn, turn[t].pair, row, t, ends)
    PROVE  RowIs(turn, turn[t].pair, ApplyDelta(row, t, k), t, ends)
<1> DEFINE p == turn[t].pair
           new == ApplyDelta(row, t, k)
<1>1. CASE row.draft = None /\ row.turn = t
  <2>1. /\ new.status = row.status /\ new.turn = t /\ new.draft = None /\ new.from = row.from
    BY <1>1 DEF ApplyDelta, Rows
  <2> HIDE DEF new
  <2>2. Drafted(turn, p, new, t, ends)
    BY <2>1 DEF Drafted
  <2> QED
    BY <1>1, <2>1, <2>2, NoneIsNothing DEF RowIs, new
<1>2. CASE ~(row.draft = None /\ row.turn = t)
  BY <1>2 DEF ApplyDelta
<1> QED
  BY <1>1, <1>2

\* A terminal event leaves a fresh row of its pair: a draft is dropped, the
\* answer beside it is kept whole, and the text of a turn that did not complete
\* is dropped too.
LEMMA EndedIs ==
    ASSUME TypeOK, NEW t \in Turns, Born(t), turn[t].pair \in Turns, NEW row \in Rows,
           row.status # None, NEW ends \in SUBSET {"canceled"},
           RowIs(turn, turn[t].pair, row, t, ends),
           NEW e, e.type = turn[t].end, e.type \in Ends
    PROVE  LET new == Applied(row, t, e)
           IN  Fresh(turn, turn[t].pair, new) /\ RowIs(turn, turn[t].pair, new, None, ends)
<1> DEFINE p == turn[t].pair
           new == Applied(row, t, e)
<1>0. /\ t # None /\ row.turn # None /\ Original(row) \in {row.turn, row.from}
      /\ Original(row) # None /\ turn[Original(row)].phase # "none"
      /\ row.draft # None => Original(row) = row.from
      /\ row.draft = None => Original(row) = row.turn
  BY NoneIsNothing DEF RowIs, Original
<1>1. ASSUME new.draft = None, new.from = None, new.turn # None, turn[new.turn].phase # "none",
             Kept(turn, p, new.turn, new.text), new.text # <<>> => new.status = "completed"
      PROVE  Fresh(turn, p, new) /\ RowIs(turn, p, new, None, ends)
  <2> HIDE DEF new
  <2> QED
    BY <1>1 DEF Fresh, RowIs
<1>2. row.draft = t \/ (row.draft = None /\ row.status = "completed" /\ e.type = "canceled")
         \/ (row.draft = None /\ e.type = "refused" /\ turn[t].kind = "regenerate")
      => Kept(turn, p, Original(row), row.text)
  <2>1. CASE row.draft = t
    BY <1>0, <2>1 DEF RowIs, Fresh, Drafted
  <2>2. CASE row.draft = None /\ row.turn = t
    BY <1>0, <2>2 DEF RowIs, Fresh, EndsWell
  <2>3. CASE row.draft = None /\ row.turn # t
    BY <1>0, <2>3 DEF RowIs, Fresh, Drafted
  <2> QED
    BY <1>0, <2>1, <2>2, <2>3
<1>3. Kept(turn, p, t, <<>>)
  BY DEF Kept
<1>4. CASE e.type = "completed"
  <2>1. /\ new.status = "completed" /\ new.text = Whole(t) /\ new.turn = t
        /\ new.draft = None /\ new.from = None
    BY <1>4 DEF Applied, Settled, Blank
  <2>2. Kept(turn, p, t, Whole(t))
    BY <1>4 DEF Kept
  <2> HIDE DEF new
  <2> QED
    BY <1>0, <1>1, <2>1, <2>2 DEF Born, new
<1>5. ASSUME /\ new.status = "completed" /\ new.text = row.text /\ new.turn = Original(row)
             /\ new.draft = None /\ new.from = None,
             Kept(turn, p, Original(row), row.text)
      PROVE  Fresh(turn, p, new) /\ RowIs(turn, p, new, None, ends)
  <2> HIDE DEF new
  <2> QED
    BY <1>0, <1>1, <1>5 DEF new
<1>6. ASSUME new.text = <<>> /\ new.turn = t /\ new.draft = None /\ new.from = None
      PROVE  Fresh(turn, p, new) /\ RowIs(turn, p, new, None, ends)
  <2> HIDE DEF new
  <2> QED
    BY <1>0, <1>1, <1>3, <1>6 DEF Born, new
<1>7. row.draft = t \/ row.draft = None
  BY <1>0 DEF RowIs, Fresh, Drafted
<1>8. CASE e.type = "canceled"
  <2>1. new = ApplyCanceled(row, t)
    BY <1>8 DEF Applied
  <2>2. CASE row.status = "completed" \/ row.draft = t
    <3>1. Kept(turn, p, Original(row), row.text)
      BY <1>2, <1>7, <1>8, <2>2
    <3> QED
      BY <1>5, <2>1, <2>2, <3>1 DEF ApplyCanceled, Settled, Blank
  <2>3. CASE ~(row.status = "completed" \/ row.draft = t)
    BY <1>6, <2>1, <2>3 DEF ApplyCanceled, Settled, Blank
  <2> QED
    BY <2>2, <2>3
<1>9. CASE e.type \in {"failed", "refused"}
  <2> DEFINE refused == e.type = "refused"
             keeps == row.text # <<>>
                      /\ (row.draft = t \/ (refused /\ turn[t].kind = "regenerate"))
  <2>1. new = ApplyFailed(row, t, refused)
    BY <1>9 DEF Applied
  <2>2. CASE keeps
    <3>1. Kept(turn, p, Original(row), row.text)
      BY <1>2, <1>7, <2>2
    <3> QED
      BY <1>5, <2>1, <2>2, <3>1 DEF ApplyFailed, Settled, Blank
  <2>3. CASE ~keeps
    BY <1>6, <2>1, <2>3 DEF ApplyFailed, Settled, Blank
  <2> QED
    BY <2>2, <2>3
<1> QED
  BY <1>4, <1>8, <1>9 DEF Ends

\* So does the answer of a Stop, for a turn that is followed still.
LEMMA CanceledIs ==
    ASSUME TypeOK, NEW t \in Turns, Born(t), turn[t].end = "canceled", turn[t].pair \in Turns,
           NEW row \in Rows, row.status # None, RowIs(turn, turn[t].pair, row, t, {})
    PROVE  LET new == ApplyCanceled(row, t)
           IN  Fresh(turn, turn[t].pair, new) /\ RowIs(turn, turn[t].pair, new, t, {"canceled"})
<1> DEFINE p == turn[t].pair
           new == ApplyCanceled(row, t)
           e == [type |-> "canceled", k |-> 0]
<1>1. e.type = turn[t].end /\ e.type \in Ends /\ Applied(row, t, e) = new
  BY DEF Ends, Applied
<1> HIDE DEF e
<1>2. Fresh(turn, p, new) /\ RowIs(turn, p, new, None, {})
  BY <1>1, EndedIs
<1>3. CASE row.status = "completed" \/ row.draft = t
  <2>1. Original(row) # t
    BY <1>3, NoneIsNothing DEF Original, RowIs, Fresh, Drafted, EndsWell
  <2>2. new.turn = Original(row)
    BY <1>3 DEF ApplyCanceled, Settled, Blank
  <2> HIDE DEF new
  <2> QED
    BY <1>2, <2>1, <2>2 DEF RowIs, new
<1>4. CASE ~(row.status = "completed" \/ row.draft = t)
  <2>1. new.status = "canceled"
    BY <1>4 DEF ApplyCanceled, Settled, Blank
  <2> HIDE DEF new
  <2> QED
    BY <1>2, <2>1 DEF RowIs, EndsWell, new
<1> QED
  BY <1>3, <1>4

\* The case the last theorem is about: Stop is pressed once at most, and no turn
\* is started while a load is under way.
OneThingAtATime == StartsWhileLoading = FALSE /\ MaxStops <= 1

\* While a load is under way no start is.
LEMMA LoadsAreAlone ==
    ASSUME TranscriptInv, NEW i \in Slots, request[i].call = "load"
    PROVE  phase # "starting" /\ \A j \in Slots : ~IsStart(j)
<1>1. ASSUME NEW j \in Slots, IsStart(j)
      PROVE  FALSE
  <2>1. i # j
    BY <1>1 DEF IsStart
  <2> QED
    BY <1>1, <2>1 DEF TranscriptInv, AloneOf
<1> QED
  BY <1>1 DEF TranscriptInv, PhaseInv

\* A turn is followed by a dock that waits for no start.
LEMMA FollowersStartNothing ==
    ASSUME TranscriptInv, phase # "starting"
    PROVE  \A j \in Slots : ~IsStart(j)
BY DEF TranscriptInv, AloneOf

\* The transcript, when it does not change, is what it was.
LEMMA RowsStay ==
    ASSUME TypeOK, DockInv, TranscriptInv, Evolves, UNCHANGED <<shown, running>>,
           OverEnds \subseteq OverEnds'
    PROVE  \A p \in Turns :
              /\ RowIs(turn', p, shown'[p], running'.turn, OverEnds')
              /\ Fresh(turn, p, shown[p]) => Fresh(turn', p, shown'[p])
<1>1. /\ ServerInv /\ running.turn \in Named /\ (running.turn # None => Born(running.turn))
      /\ \A p \in Turns : shown[p] \in Rows /\ RowIs(turn, p, shown[p], running.turn, OverEnds)
  BY DEF TypeOK, DockInv, FollowInv, TranscriptInv
<1>2. OverEnds \in SUBSET {"canceled"} /\ OverEnds' \in SUBSET {"canceled"}
  BY DEF OverEnds
<1> QED
  BY <1>1, <1>2, RowStays

\* A start that is answered tells of a turn that was not there before.
LEMMA StartsAreNew ==
    ASSUME TypeOK, DockInv, NEW i \in Slots, Serve(i)
    PROVE  /\ UNCHANGED stops
           /\ request'[i].call \in {"message", "regenerate"} /\ request'[i].pc = "answered"
              /\ request'[i].reply.ok =>
                    /\ request'[i].reply.turn \in Turns
                    /\ turn[request'[i].reply.turn].phase = "none"
<1>1. UNCHANGED stops
  BY DEF Serve, ServeStart, ServeCancel, AnswerCancel, ServePairs, ServeThread
<1>2. Served(i)
  BY ServeMoves
<1>3. ASSUME ServeStart(i)
      PROVE  request'[i].reply.ok = FALSE
             \/ (request'[i].reply.turn \in Turns /\ turn[request'[i].reply.turn].phase = "none")
  <2>1. CASE \E code \in {"stale", "other"} : Refused(i, code)
    BY <2>1, RefusedServes
  <2>2. CASE \E t \in Turns : IsNext(t) /\ \E p : Said(i, [ok |-> TRUE, turn |-> t, pair |-> p])
    <3>1. PICK t \in Turns : IsNext(t) /\ \E p : Said(i, [ok |-> TRUE, turn |-> t, pair |-> p])
      BY <2>2
    <3>2. PICK p : Said(i, [ok |-> TRUE, turn |-> t, pair |-> p])
      BY <3>1
    <3>3. \/ request'[i].reply = [ok |-> TRUE, turn |-> t, pair |-> p]
          \/ request'[i].reply.ok = FALSE
      BY <3>2, SaidServes
    <3> QED
      BY <3>1, <3>3 DEF IsNext
  <2> QED
    BY <1>3, <2>1, <2>2 DEF ServeStart
<1>4. ASSUME ~ServeStart(i)
      PROVE  request[i].call \notin {"message", "regenerate"}
  BY <1>4 DEF Serve, ServeCancel, AnswerCancel, ServePairs, ServeThread
<1> QED
  BY <1>1, <1>2, <1>3, <1>4 DEF Served

\* The server keeps the invariant of the transcript.
LEMMA ServerKeepsTranscript ==
    ASSUME TypeOK, DockInv, TranscriptInv,
           \/ ChangeContent
           \/ \E t \in Turns : StartElsewhere(t) \/ RunTurn(t)
           \/ \E i \in Slots : Serve(i)
    PROVE  TranscriptInv'
<1>1. Evolves /\ UNCHANGED dock
  BY ServerKeeps
<1>2. UNCHANGED <<thread, load, shown, message, phase, running, source>>
  BY <1>1 DEF dock, follow
<1>3. /\ UNCHANGED stops
      /\ \A j \in Slots : /\ request'[j].call = request[j].call
                          /\ request'[j].thread = request[j].thread
                          /\ \/ request'[j] = request[j]
                             \/ IsStart(j) /\ request'[j].pc = "answered"
                                /\ request'[j].reply.ok =>
                                   /\ request'[j].reply.turn \in Turns
                                   /\ ~Born(request'[j].reply.turn)
  <2>1. CASE UNCHANGED <<request, stops>>
    BY <2>1
  <2>2. CASE \E i \in Slots : Serve(i)
    <3>1. PICK i \in Slots : Serve(i)
      BY <2>2
    <3>2. Served(i)
      BY <3>1, ServeMoves
    <3> QED
      BY <3>1, <3>2, StartsAreNew DEF Served, Born, IsStart
  <2> QED
    BY <2>1, <2>2 DEF ChangeContent, StartElsewhere, RunTurn, Progress, Settle, Tell, Unregister
<1>4. OverEnds' = OverEnds
  BY <1>3 DEF OverEnds, Over
<1>5. \A p \in Turns : /\ RowIs(turn', p, shown'[p], running'.turn, OverEnds')
                       /\ Fresh(turn, p, shown[p]) => Fresh(turn', p, shown'[p])
  BY <1>1, <1>2, <1>4, RowsStay
<1>6. ASSUME NEW j \in Slots
      PROVE  AloneOf(j)'
  <2>1. AloneOf(j) /\ \A p \in Turns : shown[p].turn # None => Born(shown[p].turn)
    BY DEF TranscriptInv, RowIs, Born
  <2>2. \A k \in Slots : IsStart(k)' = IsStart(k)
    BY <1>3 DEF IsStart
  <2>3. CASE request'[j] = request[j]
    BY <1>2, <1>3, <2>1, <2>2, <2>3 DEF AloneOf, IsCurrent
  <2>4. CASE IsStart(j) /\ request'[j].pc = "answered" /\ request'[j].reply.ok =>
                request'[j].reply.turn \in Turns /\ ~Born(request'[j].reply.turn)
    <3>1. \A p \in Turns : IsStart(j) /\ request'[j].pc = "answered" /\ request'[j].reply.ok =>
                              shown[p].turn # request'[j].reply.turn
      BY <2>1, <2>4, NoneIsNothing
    <3> QED
      BY <1>2, <1>3, <2>1, <2>2, <3>1 DEF AloneOf, IsCurrent
  <2> QED
    BY <1>3, <2>3, <2>4
<1>7. FirstInv'
  BY <1>2, <1>5 DEF TranscriptInv, FirstInv
<1>8. StopInv' /\ PhaseInv'
  BY <1>2, <1>3 DEF TranscriptInv, StopInv, PhaseInv, IsStart
<1> QED
  BY <1>5, <1>6, <1>7, <1>8 DEF TranscriptInv

\* So does the user: a start meets no load, and a Stop no other one.
LEMMA UseKeepsTranscript ==
    ASSUME TypeOK, DockInv, TranscriptInv, OneThingAtATime, NEW i \in Slots, Use(i)
    PROVE  TranscriptInv'
<1>0. request[i] = Free /\ Free.call = None /\ UNCHANGED <<server, thread, shown, running>>
  BY DEF Use, OpenDock, SubmitPrompt, ApproveWebSourcesForTurn, HandleStop, RetryThreadLoad,
     HandleMalformedTerminal, RegeneratePair, RegeneratePairById, follow, Free
<1>1. Evolves
  BY <1>0 DEF Evolves, Born, server
<1>2. PhaseInv /\ StopInv /\ FirstInv /\ \A j \in Slots : AloneOf(j)
  BY DEF TranscriptInv
\* What follows for the rows, once the requests for Stop are known.
<1>3. ASSUME OverEnds \subseteq OverEnds', source' \in {source, Closed}
      PROVE  FirstInv' /\ \A p \in Turns : RowIs(turn', p, shown'[p], running'.turn, OverEnds')
  <2>1. \A p \in Turns : /\ RowIs(turn', p, shown'[p], running'.turn, OverEnds')
                         /\ Fresh(turn, p, shown[p]) => Fresh(turn', p, shown'[p])
    BY <1>0, <1>1, <1>3, RowsStay
  <2> QED
    BY <1>2, <1>3, <2>1 DEF FirstInv, Closed
<1>4. ASSUME \A j \in Slots : request'[j].call = "cancel" => request[j].call = "cancel",
             UNCHANGED stops
      PROVE  OverEnds \subseteq OverEnds' /\ StopInv'
  BY <1>2, <1>4 DEF OverEnds, Over, StopInv
\* A load begins, or nothing does, while no start is under way.
<1>5. ASSUME phase # "starting", UNCHANGED phase, UNCHANGED stops, source' \in {source, Closed},
             UNCHANGED request \/ \E why, token : LoadThread(i, why, token),
             thread = None \/ load' # "idle"
      PROVE  TranscriptInv'
  <2>1. \A j \in Slots : request'[j] = request[j] \/ request'[j].call = "load"
    BY <1>5, NothingSaid
  <2>2. \A j \in Slots : ~IsStart(j)'
    BY <1>5, <2>1, FollowersStartNothing DEF IsStart
  <2>3. StopInv' /\ FirstInv'
        /\ \A p \in Turns : RowIs(turn', p, shown'[p], running'.turn, OverEnds')
    BY <1>3, <1>4, <1>5, <2>1
  <2>4. PhaseInv'
    BY <1>0, <1>2, <1>5 DEF PhaseInv, Closed
  <2> QED
    BY <2>2, <2>3, <2>4 DEF TranscriptInv, AloneOf
<1>6. ASSUME OpenDock(i)
      PROVE  TranscriptInv'
  <2>1. phase # "starting"
    BY <1>2, <1>6 DEF OpenDock, PhaseInv
  <2> QED
    BY <1>0, <1>5, <1>6, <2>1 DEF OpenDock, LoadThread, follow
<1>7. ASSUME RetryThreadLoad(i)
      PROVE  TranscriptInv'
  <2>1. phase # "starting"
    BY <1>2, <1>7 DEF RetryThreadLoad, RetryOffered, PhaseInv
  <2>2. UNCHANGED <<phase, stops, source>> /\ \E why, token : LoadThread(i, why, token)
    BY <1>7 DEF RetryThreadLoad
  <2>3. load' = "loading"
    BY <2>2 DEF LoadThread
  <2> QED
    BY <1>5, <2>1, <2>2, <2>3
<1>8. ASSUME HandleMalformedTerminal(i)
      PROVE  TranscriptInv'
  <2>1. phase # "starting"
    BY <1>2, <1>8 DEF HandleMalformedTerminal, HasEvent, PhaseInv, Closed
  <2>2. /\ UNCHANGED <<phase, stops>> /\ source' = Closed
        /\ UNCHANGED request \/ \E why, token : LoadThread(i, why, token)
        /\ load' # "idle"
    BY <1>8 DEF HandleMalformedTerminal, LoadThread
  <2> QED
    BY <1>5, <2>1, <2>2
<1>9. ASSUME HandleStop(i)
      PROVE  TranscriptInv'
  <2>1. stops = 0 /\ stops' = 1
    BY <1>9, DockAssumption DEF HandleStop, OneThingAtATime, TypeOK
  <2>2. /\ \A j \in Slots \ {i} : request'[j] = request[j]
        /\ request'[i].call = "cancel"
    BY <1>9 DEF HandleStop, Call, Free, TypeOK
  <2>3. OverEnds \subseteq OverEnds' /\ StopInv'
    BY <1>2, <2>1, <2>2 DEF OverEnds, Over, StopInv
  <2>4. \A j \in Slots : ~IsStart(j)'
    BY <1>9, <2>2, FollowersStartNothing DEF HandleStop, IsStart
  <2>5. PhaseInv'
    BY <1>0, <1>2, <1>9 DEF HandleStop, PhaseInv
  <2> QED
    BY <1>3, <1>9, <2>3, <2>4, <2>5 DEF TranscriptInv, AloneOf, HandleStop
\* A start begins while no load and no other start is under way.
<1>10. ASSUME NEW r, request' = [request EXCEPT ![i] = r], r.call \in {"message", "regenerate"},
              r.pc = "sent", r.thread = thread, phase = "idle", phase' = "starting",
              thread # None, message' = FALSE, MayStart, UNCHANGED <<load, source, stops>>
       PROVE  TranscriptInv'
  <2>1. request'[i] = r /\ \A j \in Slots \ {i} : request'[j] = request[j]
    BY <1>10 DEF TypeOK
  <2>2. \A j \in Slots : ~IsStart(j) /\ request[j].call # "load"
    BY <1>10, FollowersStartNothing DEF MayStart, OneThingAtATime
  <2>3. \A j \in Slots : AloneOf(j)'
    BY <1>0, <1>10, <2>1, <2>2 DEF AloneOf, IsStart, IsCurrent
  <2>4. StopInv' /\ FirstInv'
        /\ \A p \in Turns : RowIs(turn', p, shown'[p], running'.turn, OverEnds')
    BY <1>3, <1>4, <1>10, <2>1
  <2>5. PhaseInv'
    BY <1>0, <1>2, <1>10, <2>1 DEF PhaseInv, IsStart
  <2> QED
    BY <2>3, <2>4, <2>5 DEF TranscriptInv
<1>11. ASSUME SubmitPrompt(i)
       PROVE  TranscriptInv'
  <2> DEFINE r == Call("message")
  <2>1. r.call = "message" /\ r.pc = "sent" /\ r.thread = thread
    BY DEF Call, Free
  <2>2. /\ request' = [request EXCEPT ![i] = r] /\ phase = "idle" /\ phase' = "starting"
        /\ thread # None /\ message' = FALSE /\ MayStart /\ UNCHANGED <<load, source, stops>>
    BY <1>11 DEF SubmitPrompt, IsBusy
  <2> HIDE DEF r
  <2> QED
    BY <1>10, <2>1, <2>2
<1>12. ASSUME NEW p, NEW allow, RegeneratePairById(i, p, allow), ~IsBusy
       PROVE  TranscriptInv'
  <2> DEFINE r == [Call("regenerate") EXCEPT !.pair = p, !.allow = allow]
  <2>1. r.call = "regenerate" /\ r.pc = "sent" /\ r.thread = thread
    BY DEF Call, Free
  <2>2. /\ request' = [request EXCEPT ![i] = r] /\ phase = "idle" /\ phase' = "starting"
        /\ thread # None /\ message' = FALSE /\ MayStart /\ UNCHANGED <<load, source, stops>>
    BY <1>12 DEF RegeneratePairById, IsBusy
  <2> HIDE DEF r
  <2> QED
    BY <1>10, <2>1, <2>2
<1> QED
  BY <1>6, <1>7, <1>8, <1>9, <1>11, <1>12 DEF Use, RegeneratePair, ApproveWebSourcesForTurn

\* A thread response shows fresh rows, whichever turn is followed then.
LEMMA ShowingIsFresh ==
    ASSUME TypeOK, DockInv, NEW i \in Slots, Answered(i, "load"), Read(i).ok, ShowThread(i),
           UNCHANGED server
    PROVE  \A p \in Turns : /\ Fresh(turn', p, shown'[p])
                            /\ RowIs(turn', p, shown'[p], running'.turn, OverEnds')
<1>1. ASSUME NEW p \in Turns
      PROVE  /\ Fresh(turn, p, shown'[p])
             /\ RowIs(turn, p, shown'[p], running'.turn, OverEnds')
  <2> DEFINE pair == Read(i).pairs[p]
             t == running'.turn
             ends == OverEnds'
  <2>1. pair \in Pairs /\ PairIn(turn, p, pair)
    BY ShowTyped
  <2>2. shown'[p] = ToTranscriptPair(pair)
    BY DEF ShowThread
  <2>3. ends \in SUBSET {"canceled"}
    BY DEF OverEnds
  <2> HIDE DEF pair, t, ends
  <2> QED
    BY <2>1, <2>2, <2>3, SnapshotIs DEF t, ends
<1> QED
  BY <1>1 DEF server

\* So does a response: a load shows fresh rows, a start is followed from its
\* first event, and the answer of a Stop drops the draft.
LEMMA ReceiveKeepsTranscript ==
    ASSUME TypeOK, DockInv, TranscriptInv, NEW i \in Slots, Receive(i)
    PROVE  TranscriptInv'
<1>0. UNCHANGED <<server, stops>>
  BY DEF Receive, DropResponse, LoadFails, ReceiveThread, ReceiveStop, ReceiveStarted,
     ReceiveRefusal, ReceiveCancel
<1>1. Evolves
  BY <1>0 DEF Evolves, Born, server
<1>2. PhaseInv /\ StopInv /\ FirstInv /\ \A j \in Slots : AloneOf(j)
  BY DEF TranscriptInv
<1>3. Done(i) \/ \E why, token : LoadThread(i, why, token)
  BY DEF Receive, DropResponse, LoadFails, ReceiveThread, ReceiveStop, ReceiveStarted,
     ReceiveRefusal, ReceiveCancel, ShowThread
<1>4. /\ \A j \in Slots \ {i} : request'[j] = request[j]
      /\ request'[i].call \in {None, "load"}
      /\ Done(i) => request'[i].call = None
  <2>1. Free.call = None
    BY DEF Free
  <2> QED
    BY <1>3, <2>1, NothingSaid
<1>5. None \notin {"message", "regenerate", "cancel", "load"}
  BY NoneIsNothing DEF Calls
<1>6. OverEnds \subseteq OverEnds' /\ StopInv'
  BY <1>0, <1>2, <1>4, <1>5 DEF OverEnds, Over, StopInv
<1>7. ASSUME UNCHANGED <<shown, running>>
      PROVE  \A p \in Turns : /\ RowIs(turn', p, shown'[p], running'.turn, OverEnds')
                              /\ Fresh(turn, p, shown[p]) => Fresh(turn', p, shown'[p])
  BY <1>1, <1>6, <1>7, RowsStay
\* Either no start was under way, or this was one.
<1>8. ASSUME IsStart(i) \/ phase # "starting"
      PROVE  (\A j \in Slots : ~IsStart(j)') /\ \A j \in Slots : AloneOf(j)'
  <2>1. \A j \in Slots \ {i} : ~IsStart(j)
    BY <1>2, <1>8, FollowersStartNothing DEF AloneOf
  <2>2. \A j \in Slots : ~IsStart(j)'
    BY <1>4, <1>5, <2>1 DEF IsStart
  <2> QED
    BY <2>2 DEF AloneOf
<1>9. ASSUME DropResponse(i)
      PROVE  TranscriptInv'
  <2>1. ~IsStart(i)
    BY <1>2, <1>9 DEF DropResponse, AloneOf, IsStart, Answered
  <2>2. UNCHANGED dock /\ Done(i)
    BY <1>9 DEF DropResponse
  <2>3. UNCHANGED <<thread, load, shown, message, phase, running, source>>
    BY <2>2 DEF dock, follow
  <2>4. request'[i].call = None /\ \A j \in Slots : IsStart(j)' = IsStart(j)
    BY <1>4, <1>5, <2>1, <2>2 DEF IsStart
  <2>5. ASSUME NEW j \in Slots
        PROVE  AloneOf(j)'
    <3>1. CASE j = i
      BY <2>1, <2>4, <3>1 DEF AloneOf
    <3>2. CASE j # i
      <4>1. request'[j] = request[j] /\ AloneOf(j) /\ IsStart(j)' = IsStart(j)
        BY <1>2, <1>4, <2>4, <3>2
      <4>2. \A k \in Slots : request'[k].call # "load" \/ request[k].call = "load"
        BY <1>4, <1>5, <2>4
      <4> QED
        BY <2>3, <2>4, <4>1, <4>2 DEF AloneOf, IsCurrent
    <3> QED
      BY <3>1, <3>2
  <2>6. PhaseInv'
    BY <1>2, <2>3, <2>4 DEF PhaseInv
  <2> QED
    BY <1>2, <1>6, <1>7, <2>3, <2>5, <2>6 DEF TranscriptInv, FirstInv
<1>10. ASSUME LoadFails(i)
       PROVE  TranscriptInv'
  <2>1. phase # "starting"
    BY <1>10, LoadsAreAlone DEF LoadFails, Answered
  <2>2. UNCHANGED <<thread, shown, phase, running, source>> /\ load' = "error"
    BY <1>10 DEF LoadFails, follow
  <2>3. PhaseInv'
    BY <1>2, <2>1, <2>2 DEF PhaseInv
  <2> QED
    BY <1>2, <1>6, <1>7, <1>8, <2>1, <2>2, <2>3 DEF TranscriptInv, FirstInv
<1>11. ASSUME ReceiveThread(i) \/ ReceiveStop(i)
       PROVE  TranscriptInv'
  <2>1. Answered(i, "load") /\ Read(i).ok /\ ShowThread(i)
    BY <1>11 DEF ReceiveThread, ReceiveStop
  <2>2. \A p \in Turns : /\ Fresh(turn', p, shown'[p])
                         /\ RowIs(turn', p, shown'[p], running'.turn, OverEnds')
    BY <1>0, <2>1, ShowingIsFresh
  <2>3. phase # "starting"
    BY <2>1, LoadsAreAlone DEF Answered
  <2>4. load' = "ready"
    BY <2>1 DEF ShowThread
  <2>5. \/ phase' = "running"
        \/ phase' = "idle" /\ running' = Nobody /\ source' = Closed
        \/ UNCHANGED <<phase, running, source>>
    BY <1>11 DEF ReceiveThread, ReceiveStop, AdoptRunningTurn, FollowTurn, ClearRunningTurnState,
       follow
  <2>6. PhaseInv'
    BY <1>2, <2>3, <2>4, <2>5 DEF PhaseInv
  <2> QED
    BY <1>6, <1>8, <2>2, <2>3, <2>6 DEF TranscriptInv, FirstInv
<1>12. ASSUME ReceiveStarted(i)
       PROVE  TranscriptInv'
  <2> DEFINE t == request[i].reply.turn
  <2>1. IsStart(i) /\ request[i].pc = "answered" /\ request[i].reply.ok
    BY <1>12 DEF ReceiveStarted, IsStart, Read
  <2>2. t \in Turns /\ Born(t) /\ (request[i].call = "message" => turn[t].kind = "message")
    <3>1. StartOf(i)
      BY DEF DockInv, RequestOf
    <3> QED
      BY <2>1, <3>1 DEF StartOf, StartReplies, IsStart
  <2>3. /\ phase = "starting" /\ running.turn = None
        /\ \A p \in Turns : shown[p].turn # t
    BY <1>2, <2>1 DEF AloneOf, PhaseInv, Nobody
  <2>4. \A p \in Turns : Fresh(turn, p, shown[p]) /\ RowIs(turn, p, shown[p], None, OverEnds)
    BY <2>3 DEF TranscriptInv, RowIs
  <2>5. /\ running'.turn = t /\ phase' = "running"
        /\ UNCHANGED <<thread, load>> /\ UNCHANGED turn
    BY <1>0, <1>12 DEF ReceiveStarted, FollowTurn, server
  <2>6. OverEnds' \in SUBSET {"canceled"}
    BY DEF OverEnds
  <2>7. ASSUME NEW p \in Turns
        PROVE  Fresh(turn, p, shown'[p]) /\ RowIs(turn, p, shown'[p], t, OverEnds')
    <3> DEFINE ends == OverEnds'
    <3>0. ends \in SUBSET {"canceled"}
      BY <2>6
    <3> HIDE DEF ends
    <3>1. CASE shown'[p] = shown[p]
      <4>1. RowIs(turn, p, shown[p], t, ends)
        BY <2>3, <2>4 DEF RowIs
      <4> QED
        BY <2>4, <3>1, <4>1 DEF ends
    <3>2. CASE shown'[p] # shown[p]
      <4>1. p = t /\ shown'[p] = FirstRow(t) /\ turn[t].kind = "message"
        BY <1>12, <2>2, <3>2 DEF ReceiveStarted, TypeOK
      <4>2. Fresh(turn, p, FirstRow(t)) /\ RowIs(turn, p, FirstRow(t), t, ends)
        <5> HIDE DEF t
        <5> QED
          BY <2>2, <3>0, <4>1, FirstRowIs
      <4> QED
        BY <4>1, <4>2 DEF ends
    <3> QED
      BY <3>1, <3>2
  <2>8. PhaseInv'
    BY <1>2, <2>5 DEF PhaseInv
  <2> QED
    BY <1>6, <1>8, <2>1, <2>5, <2>7, <2>8 DEF TranscriptInv, FirstInv
<1>13. ASSUME ReceiveRefusal(i)
       PROVE  TranscriptInv'
  <2>1. IsStart(i) /\ phase = "starting"
    BY <1>2, <1>13 DEF ReceiveRefusal, IsStart, AloneOf
  <2>2. /\ UNCHANGED <<thread, shown, running, source>>
        /\ phase' = "idle" /\ load' \in {load, "loading"}
    BY <1>13 DEF ReceiveRefusal, LoadThread
  <2>3. PhaseInv'
    BY <1>2, <2>1, <2>2 DEF PhaseInv
  <2> QED
    BY <1>2, <1>6, <1>7, <1>8, <2>1, <2>2, <2>3 DEF TranscriptInv, FirstInv
<1>14. ASSUME ReceiveCancel(i)
       PROVE  TranscriptInv'
  <2> DEFINE t == request[i].turn
             p == turn[t].pair
  <2>1. /\ request[i].call = "cancel" /\ request[i].pc = "answered" /\ running.turn = t
        /\ UNCHANGED <<thread, phase, running, source>> /\ load' = "loading"
    BY <1>14 DEF ReceiveCancel, Answered, LoadThread, follow
  <2>2. CancelOf(i)
    BY DEF DockInv, RequestOf
  <2>3. t \in Turns /\ Born(t) /\ TurnOf(t) /\ p \in Turns
    BY <2>1, <2>2 DEF CancelOf, DockInv, ServerInv, TurnOf
  <2>4. phase \notin {"idle", "starting"}
    BY <1>2, <2>1, <2>3, NoneIsNothing DEF PhaseInv, Nobody
  <2>5. OverEnds = {} /\ OverEnds' = {"canceled"}
    <3>1. stops >= 1
      BY <1>2, <2>1 DEF StopInv, TypeOK
    <3>2. \A j \in Slots : request'[j].call # "cancel"
      BY <1>2, <1>4, <1>5, <2>1 DEF StopInv
    <3> QED
      BY <1>0, <2>1, <3>1, <3>2 DEF OverEnds, Over
  <2>6. /\ FirstInv'
        /\ \A q \in Turns : RowIs(turn', q, shown'[q], running'.turn, OverEnds')
    <3>1. CASE UNCHANGED shown
      BY <1>2, <1>7, <2>1, <3>1 DEF FirstInv
    <3>2. CASE ~UNCHANGED shown
      <4>1. /\ turn[t].end = "canceled"
            /\ shown' = ApplyStreamEvent(t, [type |-> "canceled", k |-> 0], TRUE)
        BY <1>14, <2>1, <2>2, <3>2 DEF ReceiveCancel, CancelOf, Read
      <4>2. shown[p].status # None /\ shown' = [shown EXCEPT ![p] = ApplyCanceled(shown[p], t)]
        BY <2>3, <3>2, <4>1 DEF ApplyStreamEvent, Applied, TypeOK
      <4>3. RowIs(turn, p, shown[p], t, {}) /\ shown[p] \in Rows
        BY <2>1, <2>3, <2>5 DEF TranscriptInv, TypeOK
      <4>4. /\ Fresh(turn, p, ApplyCanceled(shown[p], t))
            /\ RowIs(turn, p, ApplyCanceled(shown[p], t), t, {"canceled"})
        <5> DEFINE row == shown[p]
        <5>1. row.status # None /\ row \in Rows /\ RowIs(turn, turn[t].pair, row, t, {})
          BY <4>2, <4>3
        <5>2. t \in Turns /\ Born(t) /\ turn[t].end = "canceled" /\ turn[t].pair \in Turns
          BY <2>3, <4>1
        <5> HIDE DEF row, t
        <5> QED
          BY <5>1, <5>2, CanceledIs DEF row
      <4>5. UNCHANGED turn
        BY <1>0 DEF server
      <4>6. ASSUME NEW q \in Turns
            PROVE  /\ RowIs(turn', q, shown'[q], running'.turn, OverEnds')
                   /\ Fresh(turn, q, shown[q]) => Fresh(turn', q, shown'[q])
        <5>1. CASE q = p
          BY <2>1, <2>3, <2>5, <4>2, <4>4, <4>5, <5>1 DEF TypeOK
        <5>2. CASE q # p
          <6>1. shown[q] \in Rows /\ shown'[q] = shown[q] /\ RowIs(turn, q, shown[q], t, {})
            BY <2>1, <2>5, <4>2, <5>2 DEF TranscriptInv, TypeOK
          <6>2. RowIs(turn', q, shown[q], t, {"canceled"})
            <7> DEFINE row == shown[q]
            <7>1. row \in Rows /\ RowIs(turn, q, row, t, {})
              BY <6>1
            <7>2. t \in Named /\ (t # None => Born(t)) /\ ServerInv
              BY <2>3 DEF Named, DockInv
            <7> HIDE DEF row, t
            <7> QED
              BY <1>1, <7>1, <7>2, RowStays DEF row
          <6> QED
            BY <2>1, <2>5, <4>5, <6>1, <6>2
        <5> QED
          BY <5>1, <5>2
      <4> QED
        BY <1>2, <2>1, <4>6 DEF FirstInv
    <3> QED
      BY <3>1, <3>2
  <2>7. PhaseInv'
    BY <1>2, <2>1, <2>4 DEF PhaseInv
  <2> QED
    BY <1>6, <1>8, <2>4, <2>6, <2>7 DEF TranscriptInv
<1> QED
  BY <1>9, <1>10, <1>11, <1>12, <1>13, <1>14 DEF Receive

\* So does an event: a draft begins beside a fresh answer, and the end of the
\* turn leaves none.
LEMMA ListenKeepsTranscript ==
    ASSUME TypeOK, DockInv, TranscriptInv, Listen
    PROVE  TranscriptInv'
<1> DEFINE t == source.turn
           p == turn[t].pair
<1>0. HasEvent /\ UNCHANGED <<server, thread, load, request, stops>>
  BY DEF Listen, DropEvent, ShowEvent, EndOfTurn
<1>1. Evolves
  BY <1>0 DEF Evolves, Born, server
<1>2. PhaseInv /\ StopInv /\ FirstInv /\ \A j \in Slots : AloneOf(j)
  BY DEF TranscriptInv
<1>3. /\ t \in Turns /\ Born(t) /\ p \in Turns /\ EventTyped(Event) /\ source.at >= 1
      /\ Event.type \in Ends => Event.type = turn[t].end
      /\ (Event.type = "started") = (source.at = 1)
  BY <1>0, EventIs
<1>4. phase \notin {"idle", "starting"}
  BY <1>0, <1>2 DEF PhaseInv, HasEvent, Closed
<1>5. \A j \in Slots : AloneOf(j)'
  BY <1>0, <1>4, FollowersStartNothing DEF AloneOf, IsStart
<1>6. OverEnds' = OverEnds /\ StopInv'
  BY <1>0, <1>2 DEF OverEnds, Over, StopInv
<1>7. source.at \in Nat /\ source.at + 1 # 1
  BY <1>3 DEF TypeOK
<1>8. OverEnds \in SUBSET {"canceled"}
  BY DEF OverEnds
<1>9. UNCHANGED turn
  BY <1>0 DEF server
<1>10. \A q \in Turns : shown[q] \in Rows /\ RowIs(turn, q, shown[q], running.turn, OverEnds)
  BY DEF TypeOK, TranscriptInv
<1>11. ASSUME DropEvent
       PROVE  TranscriptInv'
  <2>1. /\ UNCHANGED <<shown, running, phase, message>>
        /\ source' = Closed \/ source'.at = source.at + 1
    BY <1>11 DEF DropEvent, TypeOK
  <2>2. FirstInv'
    BY <1>7, <2>1 DEF FirstInv, Closed
  <2>3. \A q \in Turns : RowIs(turn', q, shown'[q], running'.turn, OverEnds')
    BY <1>6, <1>9, <1>10, <2>1
  <2>4. PhaseInv'
    BY <1>0, <1>2, <1>4, <2>1 DEF PhaseInv
  <2> QED
    BY <1>5, <1>6, <2>2, <2>3, <2>4 DEF TranscriptInv
<1>12. ASSUME ShowEvent
       PROVE  TranscriptInv'
  <2> DEFINE row == shown[p]
             ends == OverEnds
  <2>1. /\ UNCHANGED <<running, phase, message>> /\ source'.at = source.at + 1
        /\ shown' = ApplyStreamEvent(t, Event, NamesPair(t, Event))
        /\ running.turn = t /\ Event.type \notin Ends
    BY <1>12 DEF ShowEvent, IsCurrentStream, TypeOK
  <2>2. FirstInv'
    BY <1>7, <2>1 DEF FirstInv
  <2>3. PhaseInv'
    BY <1>0, <1>2, <1>4, <2>1 DEF PhaseInv
  <2>4. Event.type \in {"started", "delta"} /\ Event.k \in Nat /\ NamesPair(t, Event)
    BY <1>3, <2>1 DEF EventTyped, NamesPair, Ends
  <2>5. row \in Rows /\ RowIs(turn, p, row, t, ends) /\ ends \in SUBSET {"canceled"}
    BY <1>3, <1>8, <1>10, <2>1
  <2>6. Event.type = "started" => Fresh(turn, p, row)
    BY <1>0, <1>2, <1>3 DEF FirstInv, HasEvent
  <2>7. RowIs(turn, p, shown'[p], t, ends)
    <3>1. CASE row.status = None
      <4>1. shown'[p] \in {row} \cup {FirstRow(u) : u \in {t}}
            /\ (shown'[p] # row => shown'[p] = FirstRow(t) /\ turn[t].kind = "message")
        BY <1>3, <2>1, <3>1 DEF ApplyStreamEvent, TypeOK
      <4> HIDE DEF row, ends, t
      <4>2. turn[t].kind = "message" => RowIs(turn, p, FirstRow(t), t, ends)
        BY <1>3, <2>5, FirstRowIs
      <4> QED
        BY <2>5, <4>1, <4>2
    <3>2. CASE row.status # None /\ Event.type = "started"
      <4>1. shown'[p] = ApplyStarted(row, t)
        BY <1>3, <2>1, <2>4, <3>2 DEF ApplyStreamEvent, Applied, TypeOK
      <4> HIDE DEF row, ends, t
      <4> QED
        BY <1>3, <2>5, <2>6, <3>2, <4>1, StartedIs
    <3>3. CASE row.status # None /\ Event.type = "delta"
      <4>1. shown'[p] = ApplyDelta(row, t, Event.k)
        BY <1>3, <2>1, <2>4, <3>3 DEF ApplyStreamEvent, Applied, TypeOK
      <4> HIDE DEF row, ends, t
      <4> QED
        BY <1>3, <2>4, <2>5, <3>3, <4>1, DeltaIs
    <3> QED
      BY <2>4, <3>1, <3>2, <3>3
  <2>8. \A q \in Turns \ {p} : shown'[q] = shown[q]
    BY <2>1 DEF ApplyStreamEvent, TypeOK
  <2>9. \A q \in Turns : RowIs(turn', q, shown'[q], running'.turn, OverEnds')
    BY <1>6, <1>9, <1>10, <2>1, <2>7, <2>8
  <2> QED
    BY <1>5, <1>6, <2>2, <2>3, <2>9 DEF TranscriptInv
<1>13. ASSUME EndOfTurn
       PROVE  TranscriptInv'
  <2> DEFINE row == shown[p]
             ends == OverEnds
             e == Event
  <2>1. /\ running' = Nobody /\ source' = Closed /\ phase' = "idle"
        /\ shown' = ApplyStreamEvent(t, Event, NamesPair(t, Event))
        /\ running.turn = t /\ Event.type \in Ends
    BY <1>13 DEF EndOfTurn, IsCurrentStream, ClearRunningTurnState
  <2>2. FirstInv' /\ PhaseInv'
    BY <1>0, <1>2, <2>1 DEF FirstInv, PhaseInv, Closed
  <2>3. /\ row \in Rows /\ RowIs(turn, p, row, t, ends) /\ ends \in SUBSET {"canceled"}
        /\ e.type = turn[t].end /\ e.type \in Ends /\ e.type # "started" /\ t # None
    BY <1>3, <1>8, <1>10, <2>1, NoneIsNothing DEF Ends
  <2>4. ASSUME NEW q \in Turns, shown'[q] = shown[q],
               q = p => row.status = None \/ row.turn # t
        PROVE  RowIs(turn, q, shown'[q], None, ends)
    <3>1. RowIs(turn, q, shown[q], t, ends)
      BY <1>10, <2>1
    <3> HIDE DEF ends
    <3>2. Fresh(turn, q, shown[q])
      BY <2>4, <3>1 DEF RowIs, Drafted
    <3> QED
      BY <2>4, <3>1, <3>2 DEF RowIs
  <2>5. RowIs(turn, p, shown'[p], None, ends)
    <3>1. CASE row.status = None \/ ~(NamesPair(t, e) \/ row.turn = t)
      <4>1. shown'[p] = row
        BY <1>3, <2>1, <2>3, <3>1 DEF ApplyStreamEvent, TypeOK
      <4> QED
        BY <1>3, <2>4, <3>1, <4>1
    <3>2. CASE row.status # None /\ (NamesPair(t, e) \/ row.turn = t)
      <4>1. shown'[p] = Applied(row, t, e)
        BY <1>3, <2>1, <3>2 DEF ApplyStreamEvent, TypeOK
      <4> HIDE DEF row, ends, t, e
      <4> QED
        BY <1>3, <2>3, <3>2, <4>1, EndedIs
    <3> QED
      BY <3>1, <3>2
  <2>6. \A q \in Turns \ {p} : shown'[q] = shown[q]
    BY <2>1 DEF ApplyStreamEvent, TypeOK
  <2>7. running'.turn = None
    BY <2>1 DEF Nobody
  <2>8. \A q \in Turns : RowIs(turn', q, shown'[q], running'.turn, OverEnds')
    BY <1>6, <1>9, <2>4, <2>5, <2>6, <2>7
  <2> QED
    BY <1>5, <1>6, <2>2, <2>8 DEF TranscriptInv
<1> QED
  BY <1>11, <1>12, <1>13 DEF Listen

\* The invariant of the transcript.
THEOREM TranscriptInvariance ==
    ASSUME OneThingAtATime
    PROVE  Spec => []TranscriptInv
<1>1. Init => TranscriptInv
  <2> SUFFICES ASSUME Init
               PROVE  TranscriptInv
    OBVIOUS
  <2>1. /\ \A p \in Turns : shown[p] = Blank
        /\ running = Nobody /\ source = Closed /\ phase = "idle" /\ thread = None /\ stops = 0
        /\ \A i \in Slots : request[i] = Free
    BY DEF Init
  <2>2. /\ Blank.status = None /\ Blank.turn = None /\ Blank.text = <<>> /\ Blank.draft = None
        /\ Blank.from = None /\ Nobody.turn = None /\ Closed.turn = None
        /\ Free.call = None /\ None \notin Calls
    BY NoneIsNothing DEF Blank, Nobody, Closed, Free
  <2> HIDE DEF Init
  <2>3. \A p \in Turns : RowIs(turn, p, shown[p], running.turn, OverEnds)
    BY <2>1, <2>2 DEF RowIs, Fresh, Kept
  <2>4. \A i \in Slots : AloneOf(i)
    BY <2>1, <2>2 DEF AloneOf, IsStart, Calls
  <2>5. FirstInv /\ StopInv
    BY <2>1, <2>2 DEF FirstInv, StopInv, Calls
  <2>6. PhaseInv
    BY <2>1 DEF PhaseInv
  <2> QED
    BY <2>3, <2>4, <2>5, <2>6 DEF TranscriptInv
<1>2. TypeOK /\ DockInv /\ TranscriptInv /\ [Next]_vars => TranscriptInv'
  <2> SUFFICES ASSUME TypeOK, DockInv, TranscriptInv, [Next]_vars
               PROVE  TranscriptInv'
    OBVIOUS
  <2>1. CASE \/ ChangeContent
             \/ \E t \in Turns : StartElsewhere(t) \/ RunTurn(t)
             \/ \E i \in Slots : Serve(i)
    BY <2>1, ServerKeepsTranscript
  <2>2. CASE \E i \in Slots : Use(i)
    BY <2>2, UseKeepsTranscript
  <2>3. CASE \E i \in Slots : Receive(i)
    BY <2>3, ReceiveKeepsTranscript
  <2>4. CASE Listen
    BY <2>4, ListenKeepsTranscript
  <2>5. CASE UNCHANGED vars
    BY <2>5 DEF vars, server, dock, follow, TranscriptInv, OverEnds, Over, AloneOf, IsStart,
       IsCurrent, FirstInv, StopInv, PhaseInv
  <2> QED
    BY <2>1, <2>2, <2>3, <2>4, <2>5 DEF Next
<1> QED
  BY <1>1, <1>2, DockInvariance, PTL DEF Spec

\* An idle dock shows whole answers, whatever was started, stopped, canceled or
\* refused in this tab and in others and whichever answers and events were late,
\* lost or malformed: when Stop is pressed once at most, and no turn is started
\* while a load is under way.
THEOREM IdleAnswersAreWhole ==
    ASSUME OneThingAtATime
    PROVE  Spec => []IdleShowsWholeAnswers
<1>1. TypeOK /\ DockInv /\ TranscriptInv => IdleShowsWholeAnswers
  <2> SUFFICES ASSUME TypeOK, DockInv, TranscriptInv, ~IsBusy, NEW p \in Turns,
                      shown[p].status = "completed", shown[p].text # <<>>
               PROVE  LET t == shown[p].turn
                      IN  /\ turn[t].pair = p /\ turn[t].end = "completed"
                          /\ shown[p].text = Whole(t)
    BY DEF IdleShowsWholeAnswers
  <2>1. running = Nobody
    BY DEF TranscriptInv, PhaseInv, IsBusy
  <2>2. Fresh(turn, p, shown[p])
    BY <2>1 DEF TranscriptInv, RowIs, Nobody
  <2> QED
    BY <2>2 DEF Fresh, Kept
<1> QED
  BY <1>1, DockInvariance, TranscriptInvariance, PTL
=============================================================================
