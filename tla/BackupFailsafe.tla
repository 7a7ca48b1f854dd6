--------------------------- MODULE BackupFailsafe ---------------------------
(***************************************************************************)
(* The backup failsafe: SQLite keeps a stamp of the location whose backup   *)
(* was accepted and at most one critical alert; checks of the environment,  *)
(* Git backup jobs and the recoveries an operator has approved read and     *)
(* write both, one at a time under the action lease of the database.        *)
(*                                                                          *)
(* A location stands for a project path with its store path; one memory     *)
(* stands for what is backed up.  Between any two steps the operator may    *)
(* change a repository or the config file, or the process may restart.      *)
(***************************************************************************)
EXTENDS Naturals, Sequences

CONSTANTS
    Locations,    \* project and store paths the config may name
    Remotes,      \* URLs of the configured remote
    Versions,     \* contents of the memory's file
    Calls,        \* requests and jobs of one process at a time
    Push,         \* backup.git.push
    MaxCalls,     \* bound: calls altogether
    MaxEdits,     \* bound: changes the operator makes
    MaxRestarts,  \* bound: ends of the process
    None

ASSUME FailsafeAssumption ==
    /\ Push \in BOOLEAN
    /\ MaxCalls \in Nat /\ MaxEdits \in Nat /\ MaxRestarts \in Nat
    /\ None \notin Locations \cup Remotes \cup Versions \cup Calls

VARIABLES
    configured,  \* the location the config file names
    loc,         \* the one this process has loaded
    place,       \* what is at each location
    row,         \* the memory in SQLite: "absent", "owed" or "success"
    stamp,       \* the accepted location and remote, or None
    alert,       \* the active alert, or None
    made,        \* alerts made so far: it tells their generations apart
    shown,       \* the alert a dry run or the app has last shown
    suspended,   \* storage is closed until the process restarts
    queue,       \* the action lease: its owner, then who waits for it
    call,        \* where each call is
    calls, edits, restarts

database == <<row, stamp, alert, made>>
process == <<loc, suspended>>
counters == <<calls, edits, restarts>>
vars == <<configured, process, place, database, shown, queue, call, counters>>

Idle == [kind |-> None, pc |-> "idle", depth |-> 1, approved |-> None, alert |-> None,
         stamp |-> None, data |-> FALSE, match |-> FALSE, want |-> None,
         files |-> FALSE, state |-> None]

Recoveries == {"revert", "migrate", "delete"}
First(kind) == CASE kind \in {"check", "add"} -> "records"
                 [] kind = "job" -> "begin"
                 [] kind \in Recoveries -> "approve"

Here == place[loc]
Bare == [repo |-> FALSE, branch |-> None, url |-> None, head |-> 0,
         content |-> None, index |-> None, committed |-> None]
Initialized(p) == [p EXCEPT !.repo = TRUE, !.branch = "configured"]

-----------------------------------------------------------------------------
(* The action lease, and how a call goes on *)

\* Faulty form: an environment check does not take the lease.
HoldsUnlessCheck(c) ==
    \/ call[c].kind \in {"check", "add"}
    \/ queue # <<>> /\ Head(queue) = <<c, call[c].depth>>

\* The owner is the first of the queue; a nested action runs for it.
Holds(c) == queue # <<>> /\ Head(queue) = <<c, call[c].depth>>
At(c, pc) == call[c].pc = pc /\ Holds(c)

Goto(c, pc) == call' = [call EXCEPT ![c].pc = pc] /\ UNCHANGED queue

\* Faulty form: a nested action queues for the lease its parent holds.
NestQueued(c, pc, k) ==
    /\ call' = [call EXCEPT ![c] = [k EXCEPT !.pc = pc, !.depth = 2]]
    /\ queue' = Append(queue, <<c, 2>>)

\* A nested action of a call that holds the lease inherits it.
Nest(c, pc, k) ==
    /\ call' = [call EXCEPT ![c] = [k EXCEPT !.pc = pc]]
    /\ queue' = IF Holds(c) THEN queue ELSE Append(queue, <<c, k.depth>>)

\* The owner, if that is what the call is, makes way for who waits next.
Release(c) == queue' = IF queue # <<>> /\ Head(queue)[1] = c THEN Tail(queue) ELSE queue
Leave(c, pc) ==
    call' = [call EXCEPT ![c] = [Idle EXCEPT !.kind = call[c].kind, !.pc = pc]] /\ Release(c)
End(c) == call' = [call EXCEPT ![c] = Idle] /\ Release(c)

\* A check that finds the environment in order lets its mutation write.
EndReady(c) == IF call[c].kind = "add" THEN Leave(c, "publish") ELSE End(c)

\* An alert of the same content stays what it is, with its generation.
Raise(content) ==
    IF alert # None /\ [alert EXCEPT !.generation = 0] = content
    THEN UNCHANGED <<alert, made>>
    ELSE alert' = [content EXCEPT !.generation = made + 1] /\ made' = made + 1

Alert(kind, previous, error) ==
    [kind |-> kind, previous |-> previous, current |-> loc, url |-> None,
     error |-> error, generation |-> 0]

Start(c, kind) ==
    /\ call[c].pc = "idle" /\ calls < MaxCalls /\ ~suspended
    /\ kind \in Recoveries => shown # None
    /\ kind = "job" => row # "absent"
    /\ call' = [call EXCEPT ![c] =
          [Idle EXCEPT !.kind = kind, !.pc = First(kind),
                       !.approved = IF kind \in Recoveries THEN shown ELSE None]]
    /\ queue' = Append(queue, <<c, 1>>)
    /\ calls' = calls + 1
    /\ UNCHANGED <<configured, process, place, database, shown, edits, restarts>>

\* The alert is written with the remote as it is by then.
RaiseAlert(c) ==
    /\ At(c, "raise")
    /\ Raise([call[c].want EXCEPT !.url = Here.url])
    /\ IF call[c].kind = "job" THEN Leave(c, "fail") ELSE End(c)
    /\ UNCHANGED <<configured, process, place, row, stamp, shown, counters>>

-----------------------------------------------------------------------------
(* Checking the environment *)

CheckRecords(c) ==
    /\ At(c, "records")
    /\ call' = [call EXCEPT ![c].stamp = stamp, ![c].alert = alert, ![c].pc = "data"]
    /\ UNCHANGED <<configured, process, place, database, shown, queue, counters>>

\* A row, or content in the store or in the one the stamp names.
HasMemoryData(s) ==
    \/ row # "absent"
    \/ Here.content # None
    \/ s # None /\ place[s.location].content # None

CheckData(c) ==
    /\ At(c, "data")
    /\ call' = [call EXCEPT ![c].data = HasMemoryData(call[c].stamp), ![c].pc = "identity"]
    /\ UNCHANGED <<configured, process, place, database, shown, queue, counters>>

PathsMatch(s) == s # None /\ s.location = loc
IdentityMatches(s) == s # None /\ s.url = Here.url /\ Here.branch = "configured"
Accepted(s) == PathsMatch(s) /\ IdentityMatches(s)
PushFailed(a) == a # None /\ a.kind = "push"

\* Faulty form: a push failure lets mutations go on whatever has changed.
CheckKeepsReady(c) ==
    LET k == call[c] IN
    /\ At(c, "identity")
    /\ PushFailed(k.alert) /\ ~Accepted(k.stamp)
    /\ EndReady(c)
    /\ UNCHANGED <<configured, process, place, database, shown, counters>>

\* A push failure is not replaced while the identity is another one.
CheckKeeps(c) ==
    LET k == call[c] IN
    /\ At(c, "identity")
    /\ PushFailed(k.alert) /\ ~Accepted(k.stamp)
    /\ End(c)
    /\ UNCHANGED <<configured, process, place, database, shown, counters>>

CheckIdentity(c) ==
    LET k == call[c]
        previous == IF k.stamp # None /\ ~PathsMatch(k.stamp) THEN k.stamp.location ELSE None
    IN
    /\ At(c, "identity")
    /\ PushFailed(k.alert) => Accepted(k.stamp)
    /\ IF k.data /\ ~Accepted(k.stamp)
       THEN call' = [call EXCEPT ![c].pc = "raise", ![c].want = Alert("drift", previous, None)]
       ELSE call' = [call EXCEPT ![c].pc = "repository", ![c].match = Accepted(k.stamp)]
    /\ UNCHANGED <<configured, process, place, database, shown, queue, counters>>

\* Without any data the repository is made.
CheckRepository(c) ==
    /\ At(c, "repository")
    /\ IF ~Here.repo /\ call[c].data
       THEN /\ call' = [call EXCEPT ![c].pc = "raise",
                                    ![c].want = Alert("repository", None, None)]
            /\ UNCHANGED <<queue, place>>
       ELSE /\ Goto(c, "content")
            /\ place' = IF Here.repo THEN place ELSE [place EXCEPT ![loc] = Initialized(@)]
    /\ UNCHANGED <<configured, process, database, shown, counters>>

Inconsistency ==
    CASE row # "success" -> None
      [] row = "success" /\ Here.content = None -> "missing"
      [] row = "success" /\ Here.content # None ->
            IF Here.index = None THEN "untracked" ELSE None

CheckContent(c) ==
    /\ At(c, "content")
    /\ IF call[c].match /\ call[c].data /\ Inconsistency # None
       THEN /\ call' = [call EXCEPT ![c].pc = "raise",
                                    ![c].want = Alert("content", None, Inconsistency)]
            /\ UNCHANGED queue
       ELSE Goto(c, "stamp")
    /\ UNCHANGED <<configured, process, place, database, shown, counters>>

\* The remote is read once more.
CheckStamp(c) ==
    LET k == call[c] IN
    /\ At(c, "stamp")
    /\ stamp' = [location |-> loc, url |-> Here.url]
    /\ IF k.alert # None /\ ~PushFailed(k.alert) THEN Goto(c, "clear") ELSE EndReady(c)
    /\ UNCHANGED <<configured, process, place, row, alert, made, shown, counters>>

\* Only the generation the check has found is cleared.
CheckClear(c) ==
    /\ At(c, "clear")
    /\ alert' = IF alert = call[c].alert THEN None ELSE alert
    /\ IF alert' = None \/ alert'.kind = "push" THEN EndReady(c) ELSE End(c)
    /\ UNCHANGED <<configured, process, place, row, stamp, made, shown, counters>>

\* The mutation that was found ready adds the memory.
Publish(c) ==
    /\ call[c].pc = "publish"
    /\ IF row = "absent" /\ Here.content = None
       THEN /\ \E v \in Versions : place' = [place EXCEPT ![loc].content = v]
            /\ row' = "owed"
       ELSE UNCHANGED <<place, row>>
    /\ End(c)
    /\ UNCHANGED <<configured, process, stamp, alert, made, shown, counters>>

-----------------------------------------------------------------------------
(* A Git backup job *)

\* Storage that a recovery has closed admits no writer; a repository that is
\* gone is an alert.
JobBegin(c) ==
    /\ At(c, "begin")
    /\ IF suspended THEN Leave(c, "fail")
       ELSE IF Here.repo THEN Goto(c, "add")
       ELSE Nest(c, "raise", [call[c] EXCEPT !.want = Alert("repository", None, None)])
    /\ UNCHANGED <<configured, process, place, database, shown, counters>>

\* A file neither in the store nor tracked.
NothingToStage == Here.content = None /\ Here.index = None

JobAdd(c) ==
    /\ At(c, "add")
    /\ IF NothingToStage
       THEN Leave(c, "record") /\ UNCHANGED place
       ELSE /\ Goto(c, IF Here.content = Here.committed THEN "push" ELSE "commit")
            /\ place' = [place EXCEPT ![loc].index = Here.content]
    /\ UNCHANGED <<configured, process, database, shown, counters>>

Committed(p) == [p EXCEPT !.index = p.content, !.committed = p.content, !.head = p.head + 1]

JobCommit(c) ==
    /\ At(c, "commit")
    /\ place' = [place EXCEPT ![loc] = Committed(@)]
    /\ Goto(c, "push")
    /\ UNCHANGED <<configured, process, database, shown, counters>>

PushFailure == Alert("push", None, None)

\* Without a remote the commit is all there is to do.
JobPush(c) ==
    /\ At(c, "push") /\ call[c].kind = "job"
    /\ IF ~Push \/ Here.url = None THEN Leave(c, "record")
       ELSE \/ Nest(c, "cleared", call[c])
            \/ Nest(c, "raise", [call[c] EXCEPT !.want = PushFailure])
    /\ UNCHANGED <<configured, process, place, database, shown, counters>>

\* A push that went through settles an earlier failure.
JobClear(c) ==
    /\ At(c, "cleared")
    /\ alert' = IF PushFailed(alert) THEN None ELSE alert
    /\ Leave(c, "record")
    /\ UNCHANGED <<configured, process, place, row, stamp, made, shown, counters>>

\* The status of the memory is written after the lease was released.
JobRecord(c) ==
    /\ call[c].pc \in {"record", "fail"}
    /\ row' = IF row = "absent" \/ suspended THEN row
              ELSE IF call[c].pc = "record" THEN "success" ELSE "owed"
    /\ End(c)
    /\ UNCHANGED <<configured, process, place, stamp, alert, made, shown, counters>>

-----------------------------------------------------------------------------
(* Recoveries the operator has approved *)

\* What the alert allows, as the step it leads to; "idle" is refused.
Allowed(kind, a) ==
    CASE kind = "revert" -> IF a.previous # None THEN "suspend" ELSE "idle"
      [] kind = "migrate" -> IF a.kind = "push" THEN "retry"
                             ELSE IF a.kind = "drift" THEN "examine" ELSE "idle"
      [] kind = "delete" -> IF a.kind = "content" THEN "find" ELSE "idle"

\* Faulty form: an action takes the alert it finds for the one approved.
ApproveFound(c) ==
    /\ At(c, "approve")
    /\ IF alert = None \/ alert.current # loc
       THEN End(c)
       ELSE call' = [call EXCEPT ![c].alert = alert,
                                 ![c].pc = Allowed(call[c].kind, alert)] /\ UNCHANGED queue
    /\ UNCHANGED <<configured, process, place, database, shown, counters>>

\* Only the generation the operator was shown, and only for this location.
Approve(c) ==
    /\ At(c, "approve")
    /\ IF alert = None \/ alert # call[c].approved \/ alert.current # loc
          \/ Allowed(call[c].kind, alert) = "idle"
       THEN End(c)
       ELSE call' = [call EXCEPT ![c].alert = alert,
                                 ![c].pc = Allowed(call[c].kind, alert)] /\ UNCHANGED queue
    /\ UNCHANGED <<configured, process, place, database, shown, counters>>

\* Who holds no borrow of the storage: jobs before the lease and after it.
Quiet(c) == call[c].pc \in {"idle", "begin", "record", "fail"}

\* The previous roots may be in use elsewhere, the storage by others here.
Suspend(c) ==
    /\ At(c, "suspend")
    /\ \/ /\ \A d \in Calls \ {c} : Quiet(d)
          /\ suspended' = TRUE
          /\ Goto(c, "rewrite")
       \/ End(c) /\ UNCHANGED suspended
    /\ UNCHANGED <<configured, loc, place, database, shown, counters>>

\* The alert stays for the process that starts next.
Rewrite(c) ==
    /\ At(c, "rewrite")
    /\ configured' \in {configured, call[c].alert.previous}
    /\ End(c)
    /\ UNCHANGED <<process, place, database, shown, counters>>

State == [repo |-> Here.repo, branch |-> Here.branch, url |-> Here.url, head |-> Here.head]
Readable == Here.repo /\ Here.branch = "configured"
Current(c) == alert = call[c].alert

\* Another file of the same name is never overwritten.
Conflicts(from) == from # None /\ Here.content \notin {None, from}

\* The files of the previous store, or those the current one has already.
Examine(c) ==
    LET a == call[c].alert
        from == place[IF a.previous = None THEN loc ELSE a.previous].content
    IN
    /\ At(c, "examine")
    /\ IF \/ Here.repo /\ ~(Readable /\ Here.url = a.url)
          \/ Conflicts(from)
       THEN End(c)
       ELSE /\ call' = [call EXCEPT ![c].files = from # None,
                           ![c].pc = IF a.previous = None THEN "prepare" ELSE "copy"]
            /\ UNCHANGED queue
    /\ UNCHANGED <<configured, process, place, database, shown, counters>>

\* Copied files are published without overwriting others.
Copy(c) ==
    LET from == place[call[c].alert.previous].content IN
    /\ At(c, "copy")
    /\ IF call[c].files /\ (from = None \/ Conflicts(from))
       THEN End(c) /\ UNCHANGED place
       ELSE /\ Goto(c, "prepare")
            /\ place' = IF call[c].files THEN [place EXCEPT ![loc].content = from] ELSE place
    /\ UNCHANGED <<configured, process, database, shown, counters>>

Prepare(c) ==
    /\ At(c, "prepare")
    /\ IF Current(c)
       THEN /\ Goto(c, "before")
            /\ place' = IF Here.repo THEN place ELSE [place EXCEPT ![loc] = Initialized(@)]
       ELSE End(c) /\ UNCHANGED place
    /\ UNCHANGED <<configured, process, database, shown, counters>>

\* The alert approves the remote it names and no other.
Before(c) ==
    /\ At(c, "before")
    /\ IF Readable /\ Here.url = call[c].alert.url
       THEN call' = [call EXCEPT ![c].state = State, ![c].pc = "stage"] /\ UNCHANGED queue
       ELSE End(c)
    /\ UNCHANGED <<configured, process, place, database, shown, counters>>

\* Nothing to stage for a file that is gone: git add fails unless it is tracked.
Stage(c) ==
    /\ At(c, "stage")
    /\ IF \/ State # call[c].state
          \/ call[c].files /\ NothingToStage
       THEN End(c) /\ UNCHANGED place
       ELSE IF call[c].files
       THEN /\ Goto(c, "submit")
            /\ place' = [place EXCEPT ![loc].index = Here.content]
       ELSE Goto(c, "push") /\ UNCHANGED place
    /\ UNCHANGED <<configured, process, database, shown, counters>>

Submit(c) ==
    /\ At(c, "submit")
    /\ IF State # call[c].state
       THEN End(c) /\ UNCHANGED place
       ELSE /\ Goto(c, "submitted")
            /\ place' = IF Here.index = Here.committed THEN place
                        ELSE [place EXCEPT ![loc] = Committed(@)]
    /\ UNCHANGED <<configured, process, database, shown, counters>>

\* The commit has moved HEAD, and nothing else may have.
Submitted(c) ==
    /\ At(c, "submitted")
    /\ IF Readable /\ Here.url = call[c].state.url
       THEN call' = [call EXCEPT ![c].state = State, ![c].pc = "push"] /\ UNCHANGED queue
       ELSE End(c)
    /\ UNCHANGED <<configured, process, place, database, shown, counters>>

\* A push that failed is tried again, against the remote as it is now.
Retry(c) ==
    /\ At(c, "retry")
    /\ IF Readable
       THEN call' = [call EXCEPT ![c].state = State, ![c].pc = "push"] /\ UNCHANGED queue
       ELSE End(c)
    /\ UNCHANGED <<configured, process, place, database, shown, counters>>

RecoveryPush(c) ==
    /\ At(c, "push") /\ call[c].kind = "migrate"
    /\ \/ Goto(c, "after")
       \/ Push /\ Here.url # None /\ Nest(c, "raise", [call[c] EXCEPT !.want = PushFailure])
    /\ UNCHANGED <<configured, process, place, database, shown, counters>>

\* Faulty form: what the push was followed by is not compared.
AfterUnchecked(c) ==
    /\ At(c, "after")
    /\ IF Readable
       THEN call' = [call EXCEPT ![c].state = State, ![c].pc = "accept"] /\ UNCHANGED queue
       ELSE End(c)
    /\ UNCHANGED <<configured, process, place, database, shown, counters>>

\* Root, branch, remote and HEAD are the ones from before the push.
After(c) ==
    /\ At(c, "after")
    /\ IF State = call[c].state THEN Goto(c, "accept") ELSE End(c)
    /\ UNCHANGED <<configured, process, place, database, shown, counters>>

\* Stamp and alert change in one transaction, or not at all.
Accept(c) ==
    /\ At(c, "accept")
    /\ IF Current(c)
       THEN stamp' = [location |-> loc, url |-> call[c].state.url] /\ alert' = None
       ELSE UNCHANGED <<stamp, alert>>
    /\ End(c)
    /\ UNCHANGED <<configured, process, place, row, made, shown, counters>>

FindMissing(c) ==
    /\ At(c, "find")
    /\ IF Inconsistency = "missing" THEN Goto(c, "delete") ELSE End(c)
    /\ UNCHANGED <<configured, process, place, database, shown, counters>>

\* The record and the alert go together; the environment is checked again.
DeleteRecord(c) ==
    /\ At(c, "delete")
    /\ IF Current(c) /\ row # "absent"
       THEN /\ row' = "absent" /\ alert' = None
            /\ Nest(c, "records", [call[c] EXCEPT !.approved = None])
       ELSE End(c) /\ UNCHANGED <<row, alert>>
    /\ UNCHANGED <<configured, process, place, stamp, made, shown, counters>>

-----------------------------------------------------------------------------
(* What the operator does, and the end of the process *)

\* A dry run, or the status the app shows: the generation it approves.
Show ==
    /\ alert # None /\ shown # alert
    /\ shown' = alert
    /\ UNCHANGED <<configured, process, place, database, queue, call, counters>>

\* Assumed: nobody edits stored files under a recovery that has reserved them.
Migrating == \E c \in Calls : call[c].pc \in {"copy", "prepare", "before", "stage",
                                              "submit", "submitted", "push", "after", "accept"}

Edited(l) ==
    LET p == place[l] IN
    (IF p.repo
     THEN {[p EXCEPT !.url = u] : u \in Remotes \cup {None}}
          \cup {[p EXCEPT !.head = @ + 1], [p EXCEPT !.branch = "other"]}
     ELSE {[Initialized(p) EXCEPT !.url = u] : u \in Remotes})
    \cup (IF Migrating THEN {}
          ELSE {[p EXCEPT !.content = v] : v \in Versions \cup {None}}
               \cup {[Bare EXCEPT !.content = p.content]})

Edit(l) ==
    /\ edits < MaxEdits
    /\ \E p \in Edited(l) :
          /\ p # place[l]
          /\ place' = [place EXCEPT ![l] = p]
    /\ edits' = edits + 1
    /\ UNCHANGED <<configured, process, database, shown, queue, call, calls, restarts>>

Configure(l) ==
    /\ edits < MaxEdits /\ configured # l
    /\ configured' = l
    /\ edits' = edits + 1
    /\ UNCHANGED <<process, place, database, shown, queue, call, calls, restarts>>

Restart ==
    /\ restarts < MaxRestarts
    /\ loc' = configured /\ suspended' = FALSE
    /\ queue' = <<>> /\ call' = [c \in Calls |-> Idle]
    /\ restarts' = restarts + 1
    /\ UNCHANGED <<configured, place, database, shown, calls, edits>>

-----------------------------------------------------------------------------

Step(c) ==
    \/ RaiseAlert(c)
    \/ CheckRecords(c) \/ CheckData(c) \/ CheckKeeps(c) \/ CheckIdentity(c)
    \/ CheckRepository(c) \/ CheckContent(c) \/ CheckStamp(c) \/ CheckClear(c)
    \/ Publish(c)
    \/ JobBegin(c) \/ JobAdd(c) \/ JobCommit(c) \/ JobPush(c) \/ JobClear(c) \/ JobRecord(c)
    \/ Approve(c) \/ Suspend(c) \/ Rewrite(c)
    \/ Examine(c) \/ Copy(c) \/ Prepare(c) \/ Before(c) \/ Stage(c) \/ Submit(c)
    \/ Submitted(c) \/ Retry(c) \/ RecoveryPush(c) \/ After(c) \/ Accept(c)
    \/ FindMissing(c) \/ DeleteRecord(c)

Next ==
    \/ \E c \in Calls : Step(c) \/ \E kind \in {"check", "add", "job"} \cup Recoveries : Start(c, kind)
    \/ Show
    \/ \E l \in Locations : Edit(l) \/ Configure(l)
    \/ Restart

\* An instance that has backed up its memory in one location, or a first start;
\* the config names this location or another one.
Init ==
    /\ configured \in Locations /\ loc = configured /\ suspended = FALSE
    /\ \/ /\ row = "absent" /\ stamp = None
          /\ place = [l \in Locations |-> Bare]
       \/ /\ row = "success"
          /\ \E old \in Locations, u \in Remotes, v \in Versions :
                /\ stamp = [location |-> old, url |-> u]
                /\ place = [l \in Locations |->
                      IF l = old
                      THEN [repo |-> TRUE, branch |-> "configured", url |-> u, head |-> 1,
                            content |-> v, index |-> v, committed |-> v]
                      ELSE Bare]
    /\ alert = None /\ made = 0 /\ shown = None
    /\ queue = <<>> /\ call = [c \in Calls |-> Idle]
    /\ calls = 0 /\ edits = 0 /\ restarts = 0

\* A call goes on: what it awaits is SQLite, the file system or a Git command.
Fairness == \A c \in Calls : WF_vars(Step(c))
Spec == Init /\ [][Next]_vars /\ Fairness

-----------------------------------------------------------------------------
(* Properties *)

Errors == {None, "missing", "untracked"}
Alerts == [kind : {"drift", "repository", "content", "push"}, previous : Locations \cup {None},
           current : Locations, url : Remotes \cup {None}, error : Errors, generation : Nat]
Stamps == [location : Locations, url : Remotes \cup {None}]
Branches == {"configured", "other", None}
Places == [repo : BOOLEAN, branch : Branches, url : Remotes \cup {None}, head : Nat,
           content : Versions \cup {None}, index : Versions \cup {None},
           committed : Versions \cup {None}]
States == [repo : BOOLEAN, branch : Branches, url : Remotes \cup {None}, head : Nat]

Pcs == {"idle", "raise", "records", "data", "identity", "repository", "content", "stamp",
        "clear", "publish", "begin", "add", "commit", "push", "cleared", "record", "fail",
        "approve", "suspend", "rewrite", "examine", "copy", "prepare", "before", "stage",
        "submit", "submitted", "retry", "after", "accept", "find", "delete"}
CallRecords ==
    [kind : {"check", "add", "job", None} \cup Recoveries, pc : Pcs, depth : {1},
     approved : Alerts \cup {None}, alert : Alerts \cup {None}, stamp : Stamps \cup {None},
     data : BOOLEAN, match : BOOLEAN, want : Alerts \cup {None}, files : BOOLEAN,
     state : States \cup {None}]

\* "Nothing" is no alert, no stamp and no state of a repository.
ASSUME NoneAssumption == None \notin Alerts \cup Stamps \cup States

TypeOK ==
    /\ configured \in Locations /\ loc \in Locations /\ suspended \in BOOLEAN
    /\ place \in [Locations -> Places]
    /\ row \in {"absent", "owed", "success"}
    /\ stamp \in Stamps \cup {None}
    /\ alert \in Alerts \cup {None} /\ shown \in Alerts \cup {None} /\ made \in Nat
    /\ queue \in Seq(Calls \X {1})
    /\ call \in [Calls -> CallRecords]
    /\ calls \in Nat /\ edits \in Nat /\ restarts \in Nat

Moves(c) == call'[c] # call[c]

\* What a check writes rests on the stamp and the alert that are there when it
\* writes, whatever jobs, recoveries and checks run beside it: flows.md,
\* "environment alert/stamp writers participate in the same lease, preventing
\* local HEAD or alert changes during recovery".
ChecksSeeWhatIs ==
    [][\A c \in Calls :
          Moves(c) /\ call[c].pc \in {"raise", "stamp", "clear"} /\ call[c].kind \in {"check", "add"}
          /\ <<stamp', alert'>> # <<stamp, alert>>
          => alert = call[c].alert /\ (call[c].pc # "clear" => stamp = call[c].stamp)]_vars

\* No alert goes away unseen: what ends it is a recovery the operator approved
\* for that very generation, a check that read it and found the environment in
\* order, or a push that went through after one that had not; flows.md, "stale
\* confirmations cannot consume a replacement alert".
AlertGoesReviewed ==
    [][alert # None /\ alert' = None =>
          \E c \in Calls : Moves(c) /\
             CASE call[c].kind \in Recoveries -> call[c].approved = alert
               [] call[c].kind \in {"check", "add"} -> call[c].alert = alert
               [] call[c].kind = "job" -> alert.kind = "push"]_vars

\* A recovery from drift accepts the location and the remote the operator was
\* shown, and not before what the previous store had is committed there.
AcceptedAsShown ==
    [][\A c \in Calls :
          Moves(c) /\ call[c].pc = "accept" /\ call[c].alert.kind = "drift" /\ stamp' # stamp =>
             LET a == call[c].approved IN
             /\ stamp' = [location |-> a.current, url |-> a.url]
             /\ a.previous # None =>
                   place[a.previous].content \in {None, place[a.current].committed}]_vars

\* A mutation that was found ready writes where the accepted backup is, also
\* when an older alert of a failed push was kept: configuration.md, "instead of
\* silently writing content into the new location".
WritesStayWhereAccepted ==
    \A c \in Calls : call[c].pc = "publish" => PathsMatch(stamp)

\* Every call ends: nested actions wait for no lease their parent holds, and a
\* release leaves nobody behind.
EveryCallEnds == \A c \in Calls : call[c].pc # "idle" ~> call[c].pc = "idle"
=============================================================================
