------------------------ MODULE BackupFailsafeProofs ------------------------
(***************************************************************************)
(* Theorems about BackupFailsafe, for any set of locations, remotes and     *)
(* versions, any number of calls, and any number of edits and restarts: its *)
(* inductive invariant, and from it what checks, alerts, recoveries and     *)
(* writes may rely on.                                                      *)
(*                                                                         *)
(* Every action of a call is shown to leave that call where the invariant   *)
(* wants it and to be polite to the others (Turned); that this suffices is  *)
(* shown once, for all of them (OthersKept).                                *)
(***************************************************************************)
EXTENDS BackupFailsafe, SequenceTheorems, TLAPS

-----------------------------------------------------------------------------
(* The inductive invariant *)

\* Where a call holds no lease and waits for none; where it may wait for it.
Out == {"idle", "publish", "record", "fail"}
Entry == {"records", "begin", "approve"}

\* A call inside an action owns the lease; the check nested in a deletion starts there.
Inside(c) ==
    \/ call[c].pc \notin Out \cup Entry
    \/ call[c].pc = "records" /\ call[c].kind = "delete"

\* The entries of the lease are those of calls that need it, one for each.
LeaseInv ==
    /\ \A i, j \in 1..Len(queue) : queue[i][1] = queue[j][1] => i = j
    /\ \A i \in 1..Len(queue) : call[queue[i][1]].pc \notin Out
    /\ \A c \in Calls : Inside(c) => Holds(c)

Checking == {"data", "identity", "repository", "content", "stamp"}
Deciding == {"suspend", "rewrite", "examine", "copy", "prepare", "before", "stage", "submit",
             "submitted", "retry", "after", "accept", "find", "delete"}
Moving == {"prepare", "before", "stage", "submit", "submitted", "push", "after", "accept"}

\* Which kind of call is where.
KindInv(c) ==
    LET k == call[c] IN
    /\ k.pc \in Checking \cup {"records"} => k.kind \in {"check", "add", "delete"}
    /\ k.pc = "clear" => k.kind \in {"check", "add"}
    /\ k.pc = "publish" => k.kind = "add"
    /\ k.pc \in {"begin", "add", "commit", "cleared", "record", "fail"} => k.kind = "job"
    /\ k.pc \in {"approve"} => k.kind \in Recoveries
    /\ k.pc \in {"suspend", "rewrite"} => k.kind = "revert"
    /\ k.pc \in {"find", "delete"} => k.kind = "delete"
    /\ k.pc \in Deciding \ {"suspend", "rewrite", "find", "delete"} => k.kind = "migrate"
    /\ k.pc = "push" => k.kind \in {"job", "migrate"}
    /\ k.pc = "raise" => k.kind \in {"check", "add", "job", "migrate", "delete"}

\* A check is about the stamp and the alert that are there.
CheckInv(c) ==
    LET k == call[c] IN
    /\ k.pc \in Checking \cup {"raise", "clear"} /\ k.kind \in {"check", "add", "delete"} =>
          alert = k.alert /\ (k.pc # "clear" => stamp = k.stamp)
    /\ k.pc \in Checking \cup {"raise", "records"} /\ k.kind = "delete" => alert = None
    /\ k.pc = "clear" => k.alert # None
    /\ k.pc = "raise" => k.want # None
    /\ k.pc \in {"clear", "publish"} => PathsMatch(stamp)

\* A drift leads from one location to another.
Leads(a) == a # None /\ a.kind = "drift" => a.previous # a.current
AlertInv == Leads(alert) /\ \A c \in Calls : Leads(call[c].want)

\* A recovery works on the alert that was approved, at the location it names.
Recovering(c) == call[c].pc \in Deciding \/ (call[c].pc = "push" /\ call[c].kind = "migrate")
ApprovedInv(c) ==
    LET k == call[c] IN
    Recovering(c) =>
       /\ k.approved # None /\ k.alert = k.approved
       /\ k.alert.current = loc /\ Leads(k.alert)
       /\ k.pc \in {"examine", "copy"} => k.alert.kind = "drift"
       /\ k.pc = "retry" => k.alert.kind = "push"
       /\ k.kind = "revert" \/ k.pc = "copy" => k.alert.previous # None

\* A migration accepts the remote it was approved for.
RemoteInv(c) ==
    LET k == call[c] IN
    \/ k.pc \in {"stage", "submit", "submitted", "after", "accept"}
    \/ k.pc = "push" /\ k.kind = "migrate"
    => k.state # None /\ (k.alert.kind = "drift" => k.state.url = k.alert.url)

\* What the previous store had is in place, then in the index, then committed.
MovedInv(c) ==
    LET k == call[c]
        from == place[k.alert.previous].content
    IN
    Recovering(c) /\ k.alert.kind = "drift" /\ k.alert.previous # None =>
       /\ k.pc \in {"copy"} \cup Moving => (k.files <=> from # None)
       /\ k.pc \in Moving /\ k.files => Here.content = from
       /\ k.pc = "submit" => k.files /\ Here.index = Here.content
       /\ k.pc \in {"submitted", "push", "after", "accept"} /\ k.files =>
             Here.committed = Here.content

CallInv(c) == KindInv(c) /\ CheckInv(c) /\ ApprovedInv(c) /\ RemoteInv(c) /\ MovedInv(c)

FailsafeInv == TypeOK /\ LeaseInv /\ AlertInv /\ \A c \in Calls : CallInv(c)

-----------------------------------------------------------------------------
(* Steps of a call *)

DataOK ==
    /\ configured \in Locations /\ loc \in Locations /\ suspended \in BOOLEAN
    /\ place \in [Locations -> Places]
    /\ row \in {"absent", "owed", "success"}
    /\ stamp \in Stamps \cup {None}
    /\ alert \in Alerts \cup {None} /\ shown \in Alerts \cup {None} /\ made \in Nat
    /\ calls \in Nat /\ edits \in Nat /\ restarts \in Nat

Records == call \in [Calls -> CallRecords] /\ queue \in Seq(Calls \X {1})

\* A call becomes the record k.
Becomes(c, k) == call' = [call EXCEPT ![c] = k]

\* A call lets go of the lease, or had none, and has at most a last step to make.
Parting(c) ==
    \/ End(c)
    \/ call[c].kind = "job" /\ (Leave(c, "record") \/ Leave(c, "fail"))
    \/ call[c].kind = "add" /\ Leave(c, "publish") /\ PathsMatch(stamp)'

\* What a step of a call does to what the others rely on.
Undisturbed ==
    /\ UNCHANGED <<stamp, alert>>
    /\ \A l \in Locations :
          /\ place'[l].index = place[l].index /\ place'[l].committed = place[l].committed
          /\ place'[l].content = place[l].content \/ (l = loc /\ Here.content = None)

Polite(c) ==
    /\ loc' = loc /\ Leads(alert)'
    /\ PathsMatch(stamp) => PathsMatch(stamp)'
    /\ Holds(c) \/ (call[c].pc \in Out /\ Undisturbed)

Turned(c) ==
    /\ TypeOK' /\ LeaseInv' /\ CallInv(c)' /\ Leads(call[c].want)'
    /\ \A d \in Calls \ {c} : call'[d] = call[d]
    /\ Polite(c)

\* The types of the calls and the lease, and those of the rest.
LEMMA TypesTogether == TypeOK <=> DataOK /\ Records
BY DEF TypeOK, DataOK, Records

\* Every entry of the lease is that of a call.
LEMMA EntriesAreCalls ==
    ASSUME Records, NEW i \in 1..Len(queue)
    PROVE  queue[i][1] \in Calls /\ queue[i] = <<queue[i][1], 1>>
BY DEF Records

\* A call holds the lease when the first entry is its.
LEMMA HoldingIsFirst ==
    ASSUME Records, NEW c \in Calls
    PROVE  Holds(c) <=> queue # <<>> /\ queue[1][1] = c
<1>1. call[c].depth = 1
  BY DEF Records, CallRecords
<1>2. queue # <<>> => Len(queue) \in Nat /\ Len(queue) > 0 /\ Head(queue) = queue[1]
  BY EmptySeq, HeadTailProperties DEF Records
<1>3. queue # <<>> => queue[1] = <<queue[1][1], 1>>
  BY <1>2, EntriesAreCalls
<1> QED
  BY <1>1, <1>2, <1>3 DEF Holds

\* Two calls never hold it together.
LEMMA OneHolds ==
    ASSUME Records, NEW c \in Calls, NEW d \in Calls, Holds(c), Holds(d)
    PROVE  c = d
BY HoldingIsFirst

\* A call that goes on inside an action keeps the lease as it is ...
LEMMA LeaseStays ==
    ASSUME Records, LeaseInv, NEW c \in Calls, Holds(c), NEW k \in CallRecords,
           Becomes(c, k), k.pc \notin Out, queue' = queue
    PROVE  Records' /\ LeaseInv'
<1>1. Records' /\ call'[c] = k /\ \A d \in Calls \ {c} : call'[d] = call[d]
  BY DEF Records, Becomes
<1>2. \A i \in 1..Len(queue) : call'[queue[i][1]].pc \notin Out
  BY <1>1, EntriesAreCalls DEF LeaseInv
<1>3. \A d \in Calls : Inside(d)' => Holds(d)'
  <2> SUFFICES ASSUME NEW d \in Calls, Inside(d)'
               PROVE  Holds(d)'
    OBVIOUS
  <2>1. Holds(d)
    <3>1. CASE d = c
      BY <3>1
    <3>2. CASE d # c
      BY <1>1, <3>2 DEF Inside, LeaseInv
    <3> QED BY <3>1, <3>2
  <2>2. call'[d].depth = call[d].depth
    BY <1>1 DEF Records, CallRecords
  <2> QED
    BY <2>1, <2>2 DEF Holds
<1> QED
  BY <1>1, <1>2, <1>3 DEF LeaseInv

\* ... one that lets go of it makes way for the next, who is not inside yet ...
LEMMA LeaseLeaves ==
    ASSUME Records, LeaseInv, NEW c \in Calls, Holds(c) \/ call[c].pc \in Out,
           NEW k \in CallRecords, Becomes(c, k), k.pc \in Out, Release(c)
    PROVE  Records' /\ LeaseInv'
<1>1. /\ call' \in [Calls -> CallRecords] /\ call'[c] = k
      /\ \A d \in Calls \ {c} : call'[d] = call[d]
  BY DEF Records, Becomes
<1>2. \A d \in Calls : Inside(d)' => d # c /\ Inside(d) /\ Holds(d)
  <2>1. ~Inside(c)'
    BY <1>1 DEF Inside, Out, Entry
  <2> QED
    BY <1>1, <2>1 DEF Inside, LeaseInv
<1>3. CASE Holds(c)
  <2>1. queue # <<>> /\ queue[1][1] = c /\ Head(queue) = queue[1]
    BY <1>3, HoldingIsFirst, HeadTailProperties DEF Records
  <2>2. queue' = Tail(queue)
    BY <2>1 DEF Release
  <2>3. /\ Tail(queue) \in Seq(Calls \X {1}) /\ Len(Tail(queue)) = Len(queue) - 1
        /\ \A i \in 1..Len(Tail(queue)) : Tail(queue)[i] = queue[i + 1] /\ i + 1 \in 1..Len(queue)
        /\ 1 \in 1..Len(queue) /\ Len(queue) \in Nat
    BY <2>1, HeadTailProperties, EmptySeq DEF Records
  <2>4. \A i \in 1..Len(queue') : queue'[i][1] # c
    BY <2>1, <2>2, <2>3 DEF LeaseInv
  <2>5. \A i \in 1..Len(queue') : call'[queue'[i][1]].pc \notin Out
    BY <1>1, <2>2, <2>3, <2>4, EntriesAreCalls DEF LeaseInv
  <2>6. \A i, j \in 1..Len(queue') : queue'[i][1] = queue'[j][1] => i = j
    BY <2>2, <2>3 DEF LeaseInv
  <2>7. \A d \in Calls : ~Inside(d)'
    BY <1>2, <1>3, OneHolds
  <2> QED
    BY <1>1, <2>2, <2>3, <2>5, <2>6, <2>7 DEF LeaseInv, Records
<1>4. CASE call[c].pc \in Out
  <2>1. \A i \in 1..Len(queue) : queue[i][1] # c
    BY <1>4 DEF LeaseInv
  <2>2. queue' = queue
    <3>1. queue # <<>> => Head(queue) = queue[1] /\ 1 \in 1..Len(queue)
      BY EmptySeq, HeadTailProperties DEF Records
    <3> QED
      BY <2>1, <3>1 DEF Release
  <2>3. \A i \in 1..Len(queue) : call'[queue[i][1]].pc \notin Out
    BY <1>1, <2>1, EntriesAreCalls DEF LeaseInv
  <2>4. \A d \in Calls : Inside(d)' => Holds(d)'
    BY <1>1, <1>2, <2>2 DEF Holds
  <2> QED
    BY <1>1, <2>2, <2>3, <2>4 DEF LeaseInv, Records
<1> QED
  BY <1>3, <1>4

\* ... and one that comes queues behind the others.
LEMMA LeaseEnters ==
    ASSUME Records, LeaseInv, NEW c \in Calls, call[c].pc = "idle", NEW k \in CallRecords,
           Becomes(c, k), k.pc \in Entry, k.pc = "records" => k.kind # "delete",
           queue' = Append(queue, <<c, 1>>)
    PROVE  Records' /\ LeaseInv'
<1>1. /\ call' \in [Calls -> CallRecords] /\ call'[c] = k
      /\ \A d \in Calls \ {c} : call'[d] = call[d]
  BY DEF Records, Becomes
<1>2. /\ Len(queue) \in Nat /\ queue' \in Seq(Calls \X {1}) /\ Len(queue') = Len(queue) + 1
      /\ \A i \in 1..Len(queue) : queue'[i] = queue[i]
      /\ queue'[Len(queue) + 1] = <<c, 1>>
  BY AppendProperties DEF Records
<1>3. \A i \in 1..Len(queue) : queue[i][1] # c
  BY DEF LeaseInv, Out
<1>4. \A i \in 1..Len(queue') : call'[queue'[i][1]].pc \notin Out
  <2>1. k.pc \notin Out
    BY DEF Entry, Out
  <2> QED
    BY <1>1, <1>2, <1>3, <2>1, EntriesAreCalls DEF LeaseInv
<1>5. \A i, j \in 1..Len(queue') : queue'[i][1] = queue'[j][1] => i = j
  BY <1>2, <1>3 DEF LeaseInv
<1>6. \A d \in Calls : Inside(d)' => Holds(d)'
  <2> SUFFICES ASSUME NEW d \in Calls, Inside(d)'
               PROVE  Holds(d)'
    OBVIOUS
  <2>1. d # c
    BY <1>1 DEF Inside
  <2>2. Holds(d)
    BY <1>1, <2>1 DEF Inside, LeaseInv
  <2>3. queue # <<>> /\ queue[1][1] = d /\ 1 \in 1..Len(queue)
    BY <2>2, HoldingIsFirst, EmptySeq DEF Records
  <2>4. queue' # <<>> /\ queue'[1][1] = d
    BY <1>2, <2>3, EmptySeq
  <2>5. Records'
    BY <1>1, <1>2 DEF Records
  <2>6. queue' # <<>> => Head(queue') = queue'[1] /\ queue'[1] = <<d, 1>>
    BY <1>2, <2>2, <2>3, EntriesAreCalls, HeadTailProperties
  <2>7. call'[d].depth = 1
    BY <2>5 DEF Records, CallRecords
  <2> QED
    BY <2>4, <2>6, <2>7 DEF Holds
<1> QED
  BY <1>1, <1>2, <1>4, <1>5, <1>6 DEF LeaseInv, Records

\* What goes on inside an action keeps the lease and is polite to others.
LEMMA GoingTurns ==
    ASSUME FailsafeInv, NEW c \in Calls, Holds(c), NEW k \in CallRecords, Becomes(c, k),
           k.pc \notin Out, Leads(k.want), queue' = queue, DataOK', loc' = loc,
           Leads(alert)', PathsMatch(stamp) => PathsMatch(stamp)', CallInv(c)'
    PROVE  Turned(c)
<1>1. Records /\ LeaseInv /\ call'[c] = k /\ \A d \in Calls \ {c} : call'[d] = call[d]
  BY TypesTogether DEF FailsafeInv, Records, Becomes
<1>2. Records' /\ LeaseInv'
  BY <1>1, LeaseStays
<1>3. TypeOK'
  BY <1>2 DEF TypeOK, DataOK, Records
<1> QED
  BY <1>1, <1>2, <1>3 DEF Turned, Polite

\* A call that parts is outside, with no alert left to raise.
LEMMA PartingRecord ==
    ASSUME NEW c \in Calls, Parting(c)
    PROVE  \E k \in CallRecords :
              /\ Becomes(c, k) /\ Release(c)
              /\ k.pc \in Out /\ k.want = None
              /\ k.pc \in {"record", "fail"} => k.kind = "job"
              /\ k.pc = "publish" => k.kind = "add" /\ PathsMatch(stamp)'
<1> DEFINE last(kind, pc) == [Idle EXCEPT !.kind = kind, !.pc = pc]
<1>1. CASE End(c)
  <2>1. /\ Idle \in CallRecords /\ Idle.pc = "idle" /\ Idle.want = None
        /\ Becomes(c, Idle) /\ Release(c)
    BY <1>1 DEF End, Becomes, Idle, CallRecords, Pcs
  <2> QED
    BY <2>1 DEF Out
<1>2. ASSUME NEW pc \in {"record", "fail"}, call[c].kind = "job", Leave(c, pc)
      PROVE  /\ last("job", pc) \in CallRecords /\ Becomes(c, last("job", pc)) /\ Release(c)
             /\ last("job", pc).pc = pc /\ last("job", pc).kind = "job"
             /\ last("job", pc).want = None
  BY <1>2 DEF Leave, Becomes, Idle, CallRecords, Pcs
<1>3. ASSUME call[c].kind = "add", Leave(c, "publish")
      PROVE  /\ last("add", "publish") \in CallRecords /\ Becomes(c, last("add", "publish"))
             /\ Release(c)
             /\ last("add", "publish").pc = "publish" /\ last("add", "publish").kind = "add"
             /\ last("add", "publish").want = None
  BY <1>3 DEF Leave, Becomes, Idle, CallRecords, Pcs
<1> HIDE DEF last
<1> QED
  BY <1>1, <1>2, <1>3 DEF Parting, Out

\* So does an end.
LEMMA PartingTurns ==
    ASSUME FailsafeInv, NEW c \in Calls, Holds(c) \/ (call[c].pc \in Out /\ Undisturbed),
           Parting(c), DataOK', loc' = loc, Leads(alert)',
           PathsMatch(stamp) => PathsMatch(stamp)'
    PROVE  Turned(c)
<1>1. PICK k \in CallRecords :
         /\ Becomes(c, k) /\ Release(c)
         /\ k.pc \in Out /\ k.want = None
         /\ k.pc \in {"record", "fail"} => k.kind = "job"
         /\ k.pc = "publish" => k.kind = "add" /\ PathsMatch(stamp)'
  BY PartingRecord
<1>2. Records /\ LeaseInv /\ call'[c] = k /\ \A d \in Calls \ {c} : call'[d] = call[d]
  BY <1>1, TypesTogether DEF FailsafeInv, Records, Becomes
<1>3. Records' /\ LeaseInv'
  BY <1>1, <1>2, LeaseLeaves
<1>4. TypeOK'
  BY <1>3 DEF TypeOK, DataOK, Records
<1>5. CallInv(c)'
  <2>1. ~Recovering(c)'
    BY <1>1, <1>2 DEF Recovering, Deciding, Out
  <2>2. KindInv(c)'
    BY <1>1, <1>2 DEF KindInv, Checking, Deciding, Recoveries, Out
  <2>3. CheckInv(c)'
    BY <1>1, <1>2 DEF CheckInv, Checking, Out
  <2>4. ApprovedInv(c)' /\ RemoteInv(c)' /\ MovedInv(c)'
    BY <1>1, <1>2, <2>1 DEF ApprovedInv, RemoteInv, MovedInv, Out
  <2> QED
    BY <2>2, <2>3, <2>4 DEF CallInv
<1>6. Leads(call[c].want)'
  BY <1>1, <1>2 DEF Leads
<1> QED
  BY <1>2, <1>3, <1>4, <1>5, <1>6 DEF Turned, Polite

\* A call that is not in an approved recovery has only to be in its place.
LEMMA CheckingIsSimple ==
    ASSUME NEW c \in Calls, KindInv(c)', CheckInv(c)', ~Recovering(c)',
           call'[c].pc \notin {"stage", "submit", "submitted", "after", "accept"},
           ~(call'[c].pc = "push" /\ call'[c].kind = "migrate")
    PROVE  CallInv(c)'
BY DEF CallInv, ApprovedInv, RemoteInv, MovedInv

\* While a call makes its step, the others keep what they know: inside an action
\* there is only one, and what ends outside of one changes nothing a recovery has
\* looked at.
LEMMA OthersKept ==
    ASSUME FailsafeInv, NEW c \in Calls, Turned(c), NEW d \in Calls, d # c
    PROVE  CallInv(d)' /\ Leads(call[d].want)'
<1>1. call'[d] = call[d] /\ loc' = loc /\ (PathsMatch(stamp) => PathsMatch(stamp)')
  BY DEF Turned, Polite
<1>2. CallInv(d) /\ Leads(call[d].want) /\ Records
  BY TypesTogether DEF FailsafeInv, AlertInv
<1>3. KindInv(d)'
  BY <1>1, <1>2 DEF CallInv, KindInv
<1>4. RemoteInv(d)'
  BY <1>1, <1>2 DEF CallInv, RemoteInv, Recovering
<1>5. ApprovedInv(d)'
  BY <1>1, <1>2 DEF CallInv, ApprovedInv, Recovering, Leads
<1>6. CASE Holds(c)
  <2>1. ~Inside(d)
    BY <1>2, <1>6, OneHolds DEF FailsafeInv, LeaseInv
  <2>2. ~Recovering(d)
    BY <2>1 DEF Inside, Recovering, Deciding, Out, Entry
  <2>3. CheckInv(d)'
    BY <1>1, <1>2, <2>1 DEF CallInv, CheckInv, Inside, Checking, Out, Entry
  <2>4. MovedInv(d)'
    BY <1>1, <2>2 DEF MovedInv, Recovering
  <2> QED
    BY <1>1, <1>2, <1>3, <1>4, <1>5, <2>3, <2>4 DEF CallInv
<1>7. CASE ~Holds(c)
  <2>1. Undisturbed
    BY <1>7 DEF Turned, Polite
  <2>2. CheckInv(d)'
    BY <1>1, <1>2, <2>1 DEF CallInv, CheckInv, Undisturbed
  <2>3. MovedInv(d)'
    <3> DEFINE a == call[d].alert
    <3> SUFFICES ASSUME Recovering(d), a.kind = "drift", a.previous # None
                 PROVE  MovedInv(d)'
      BY <1>1 DEF MovedInv, Recovering
    <3>1. a \in Alerts /\ a.current = loc /\ a.previous # loc
      BY <1>2 DEF CallInv, ApprovedInv, Leads, Records, CallRecords
    <3>2. a.previous \in Locations /\ loc \in Locations
      BY <3>1 DEF Alerts, FailsafeInv, TypeOK
    <3>3. place'[a.previous].content = place[a.previous].content
      BY <2>1, <3>1, <3>2 DEF Undisturbed
    <3>4. /\ Here'.index = Here.index /\ Here'.committed = Here.committed
          /\ Here'.content = Here.content \/ Here.content = None
      BY <1>1, <2>1, <3>2 DEF Undisturbed, Here
    <3>5. MovedInv(d)
      BY <1>2 DEF CallInv
    <3> QED
      BY <1>1, <3>3, <3>4, <3>5 DEF MovedInv, Recovering, Moving
  <2> QED
    BY <1>1, <1>2, <1>3, <1>4, <1>5, <2>2, <2>3 DEF CallInv
<1> QED
  BY <1>6, <1>7

\* So a step that leaves its own call and the rest well keeps the invariant.
LEMMA TurnedKeeps ==
    ASSUME FailsafeInv, NEW c \in Calls, Turned(c)
    PROVE  FailsafeInv'
<1>1. \A d \in Calls : CallInv(d)' /\ Leads(call[d].want)'
  BY OthersKept DEF Turned
<1> QED
  BY <1>1 DEF Turned, Polite, FailsafeInv, AlertInv

\* A step that only changes where its call is.
LEMMA SameData ==
    ASSUME FailsafeInv, UNCHANGED <<configured, process, place, database, shown, counters>>
    PROVE  /\ DataOK' /\ loc' = loc /\ Leads(alert)'
           /\ PathsMatch(stamp) => PathsMatch(stamp)'
           /\ Undisturbed
BY DEF FailsafeInv, TypeOK, DataOK, process, database, counters, AlertInv, Leads, PathsMatch,
   Undisturbed, Here

\* What is known of a call at its step.
LEMMA KnownOf ==
    ASSUME FailsafeInv, NEW c \in Calls
    PROVE  /\ call[c] \in CallRecords /\ CallInv(c) /\ Leads(call[c].want) /\ Leads(alert)
           /\ DataOK /\ Records
BY TypesTogether DEF FailsafeInv, AlertInv, Records

-----------------------------------------------------------------------------
(* Checks *)

\* A check reads stamp and alert, which stay what they are while it holds the lease.
LEMMA CheckRecordsTurns ==
    ASSUME FailsafeInv, NEW c \in Calls, CheckRecords(c)
    PROVE  Turned(c)
<1> DEFINE k == [call[c] EXCEPT !.stamp = stamp, !.alert = alert, !.pc = "data"]
<1>1. Holds(c) /\ call[c].pc = "records" /\ Becomes(c, k) /\ queue' = queue
  BY DEF CheckRecords, At, Becomes
<1>2. k \in CallRecords
  <2>1. call[c] \in CallRecords /\ stamp \in Stamps \cup {None} /\ alert \in Alerts \cup {None}
        /\ "data" \in Pcs
    BY KnownOf DEF DataOK, Pcs
  <2> QED
    BY <2>1 DEF CallRecords
<1>3. k.pc = "data" /\ k.kind = call[c].kind /\ k.want = call[c].want
      /\ k.stamp = stamp /\ k.alert = alert
  BY KnownOf DEF CallRecords
<1> HIDE DEF k
<1>4. UNCHANGED <<configured, process, place, database, shown, counters>>
  BY DEF CheckRecords
<1>5. call'[c] = k /\ stamp' = stamp /\ alert' = alert
  BY <1>1, <1>4, KnownOf DEF Becomes, database, Records
<1>6. CallInv(c)'
  <2>1. KindInv(c)'
    BY <1>1, <1>3, <1>5, KnownOf DEF CallInv, KindInv, Checking, Deciding
  <2>2. CheckInv(c)'
    BY <1>1, <1>3, <1>5, KnownOf DEF CallInv, CheckInv, Checking
  <2>3. ~Recovering(c)'
    BY <1>3, <1>5 DEF Recovering, Deciding
  <2> QED
    BY <1>3, <1>5, <2>1, <2>2, <2>3, CheckingIsSimple
<1> QED
  BY <1>1, <1>2, <1>3, <1>4, <1>6, KnownOf, SameData, GoingTurns DEF Out

\* A step that only changes the current location and where its call is.
LEMMA PlaceData ==
    ASSUME FailsafeInv, UNCHANGED <<configured, process, database, shown, counters>>,
           place' \in [Locations -> Places]
    PROVE  /\ DataOK' /\ loc' = loc /\ Leads(alert)'
           /\ PathsMatch(stamp) => PathsMatch(stamp)'
BY DEF FailsafeInv, TypeOK, DataOK, process, database, counters, AlertInv, Leads, PathsMatch

\* The alerts that are raised are alerts; a drift leads away from where it came from.
LEMMA AlertsAreTyped ==
    ASSUME FailsafeInv,
           NEW kind \in {"drift", "repository", "content", "push"},
           NEW previous \in Locations \cup {None}, NEW error \in Errors
    PROVE  /\ Alert(kind, previous, error) \in Alerts /\ Alert(kind, previous, error) # None
           /\ kind # "drift" \/ previous # loc => Leads(Alert(kind, previous, error))
<1>1. loc \in Locations
  BY DEF FailsafeInv, TypeOK
<1>2. Alert(kind, previous, error) \in Alerts
  BY <1>1 DEF Alert, Alerts
<1>3. /\ Alert(kind, previous, error).kind = kind
      /\ Alert(kind, previous, error).previous = previous
      /\ Alert(kind, previous, error).current = loc
  BY DEF Alert
<1> QED
  BY <1>2, <1>3, NoneAssumption DEF Leads

\* Looking for data decides nothing.
LEMMA CheckDataTurns ==
    ASSUME FailsafeInv, NEW c \in Calls, CheckData(c)
    PROVE  Turned(c)
<1> DEFINE k == [call[c] EXCEPT !.data = HasMemoryData(call[c].stamp), !.pc = "identity"]
<1>1. Holds(c) /\ call[c].pc = "data" /\ Becomes(c, k) /\ queue' = queue
  BY DEF CheckData, At, Becomes
<1>2. k \in CallRecords
  <2>1. /\ call[c] \in CallRecords /\ "identity" \in Pcs
        /\ HasMemoryData(call[c].stamp) \in BOOLEAN
    BY KnownOf DEF DataOK, Pcs, HasMemoryData
  <2> QED
    BY <2>1 DEF CallRecords
<1>3. /\ k.pc = "identity" /\ k.data = HasMemoryData(call[c].stamp)
       /\ k.kind = call[c].kind /\ k.approved = call[c].approved /\ k.alert = call[c].alert
       /\ k.stamp = call[c].stamp /\ k.want = call[c].want /\ k.files = call[c].files
       /\ k.state = call[c].state
  BY KnownOf DEF CallRecords
<1> HIDE DEF k
<1>4. UNCHANGED <<configured, process, place, database, shown, counters>>
  BY DEF CheckData
<1>5. /\ call'[c] = k /\ stamp' = stamp /\ alert' = alert /\ place' = place /\ loc' = loc
     /\ DataOK' /\ Leads(alert)' /\ (PathsMatch(stamp) => PathsMatch(stamp)')
  BY <1>1, <1>4, KnownOf, SameData DEF Becomes, database, process, Records
<1>6. CallInv(c)'
  <2>1. KindInv(c)'
    BY <1>1, <1>3, <1>5, KnownOf DEF CallInv, KindInv, Checking, Deciding
  <2>2. CheckInv(c)'
    BY <1>1, <1>3, <1>5, KnownOf DEF CallInv, CheckInv, Checking
  <2>3. ~Recovering(c)'
    BY <1>1, <1>3, <1>5, KnownOf DEF Recovering, Deciding, CallInv, KindInv
  <2> QED
    BY <1>1, <1>3, <1>5, <2>1, <2>2, <2>3, CheckingIsSimple DEF Recovering
<1> QED
  BY <1>1, <1>2, <1>3, <1>5, <1>6, KnownOf, GoingTurns DEF Out

\* A check that finds another identity goes to raise the drift, or goes on.
LEMMA CheckIdentityTurns ==
    ASSUME FailsafeInv, NEW c \in Calls, CheckIdentity(c)
    PROVE  Turned(c)
<1> DEFINE s == call[c].stamp
           previous == IF s # None /\ ~PathsMatch(s) THEN s.location ELSE None
           drift == Alert("drift", previous, None)
<1>1. previous \in Locations \cup {None} /\ previous # loc /\ None \in Errors
  <2>1. s \in Stamps \cup {None} /\ loc \in Locations
    BY KnownOf DEF CallRecords, DataOK
  <2> QED
    BY <2>1, FailsafeAssumption DEF PathsMatch, Stamps, Errors
<1>2. drift \in Alerts /\ drift # None /\ Leads(drift)
  BY <1>1, AlertsAreTyped
<1>3. \/ call' = [call EXCEPT ![c].pc = "raise", ![c].want = drift]
      \/ call' = [call EXCEPT ![c].pc = "repository", ![c].match = Accepted(s)]
  BY DEF CheckIdentity
<1> HIDE DEF s, previous, drift
<1>4. CASE call' = [call EXCEPT ![c].pc = "raise", ![c].want = drift]
    <2> DEFINE k == [call[c] EXCEPT !.want = drift, !.pc = "raise"]
    <2>1. Holds(c) /\ call[c].pc = "identity" /\ Becomes(c, k) /\ queue' = queue
      BY <1>4, <1>2 DEF CheckIdentity, At, Becomes
    <2>2. k \in CallRecords
      <3>1. call[c] \in CallRecords /\ "raise" \in Pcs /\ drift \in Alerts
        BY <1>4, <1>2, KnownOf DEF DataOK, Pcs
      <3> QED
        BY <3>1 DEF CallRecords
    <2>3. /\ k.pc = "raise" /\ k.want = drift
           /\ k.kind = call[c].kind /\ k.approved = call[c].approved
           /\ k.alert = call[c].alert /\ k.stamp = call[c].stamp /\ k.files = call[c].files
           /\ k.state = call[c].state
      BY KnownOf DEF CallRecords
    <2> HIDE DEF k
    <2>4. UNCHANGED <<configured, process, place, database, shown, counters>>
      BY <1>4, <1>2 DEF CheckIdentity
    <2>5. /\ call'[c] = k /\ stamp' = stamp /\ alert' = alert /\ place' = place /\ loc' = loc
         /\ DataOK' /\ Leads(alert)' /\ (PathsMatch(stamp) => PathsMatch(stamp)')
      BY <2>1, <2>4, KnownOf, SameData DEF Becomes, database, process, Records
    <2>6. CallInv(c)'
      <3>1. KindInv(c)'
        BY <1>4, <1>2, <2>1, <2>3, <2>5, KnownOf DEF CallInv, KindInv, Checking, Deciding
      <3>2. CheckInv(c)'
        BY <1>4, <1>2, <2>1, <2>3, <2>5, KnownOf DEF CallInv, CheckInv, Checking
      <3>3. ~Recovering(c)'
        BY <1>4, <1>2, <2>1, <2>3, <2>5, KnownOf DEF Recovering, Deciding, CallInv, KindInv
      <3> QED
        BY <1>4, <1>2, <2>1, <2>3, <2>5, <3>1, <3>2, <3>3, CheckingIsSimple DEF Recovering
    <2>7. Leads(k.want)
      BY <1>2, <2>3
    <2> QED
      BY <2>1, <2>2, <2>3, <2>5, <2>6, <2>7, KnownOf, GoingTurns DEF Out
<1>5. CASE call' = [call EXCEPT ![c].pc = "repository", ![c].match = Accepted(s)]
    <2> DEFINE k == [call[c] EXCEPT !.match = Accepted(s), !.pc = "repository"]
    <2>1. Holds(c) /\ call[c].pc = "identity" /\ Becomes(c, k) /\ queue' = queue
      BY <1>5 DEF CheckIdentity, At, Becomes
    <2>2. k \in CallRecords
      <3>1. call[c] \in CallRecords /\ "repository" \in Pcs /\ Accepted(s) \in BOOLEAN
        BY <1>5, KnownOf DEF DataOK, Pcs, Accepted, PathsMatch
      <3> QED
        BY <3>1 DEF CallRecords
    <2>3. /\ k.pc = "repository" /\ k.match = Accepted(s)
           /\ k.kind = call[c].kind /\ k.approved = call[c].approved
           /\ k.alert = call[c].alert /\ k.stamp = call[c].stamp /\ k.want = call[c].want
           /\ k.files = call[c].files /\ k.state = call[c].state
      BY KnownOf DEF CallRecords
    <2> HIDE DEF k
    <2>4. UNCHANGED <<configured, process, place, database, shown, counters>>
      BY <1>5 DEF CheckIdentity
    <2>5. /\ call'[c] = k /\ stamp' = stamp /\ alert' = alert /\ place' = place /\ loc' = loc
         /\ DataOK' /\ Leads(alert)' /\ (PathsMatch(stamp) => PathsMatch(stamp)')
      BY <2>1, <2>4, KnownOf, SameData DEF Becomes, database, process, Records
    <2>6. CallInv(c)'
      <3>1. KindInv(c)'
        BY <1>5, <2>1, <2>3, <2>5, KnownOf DEF CallInv, KindInv, Checking, Deciding
      <3>2. CheckInv(c)'
        BY <1>5, <2>1, <2>3, <2>5, KnownOf DEF CallInv, CheckInv, Checking
      <3>3. ~Recovering(c)'
        BY <1>5, <2>1, <2>3, <2>5, KnownOf DEF Recovering, Deciding, CallInv, KindInv
      <3> QED
        BY <1>5, <2>1, <2>3, <2>5, <3>1, <3>2, <3>3, CheckingIsSimple DEF Recovering
    <2> QED
      BY <2>1, <2>2, <2>3, <2>5, <2>6, KnownOf, GoingTurns DEF Out
<1> QED
  BY <1>3, <1>4, <1>5

\* What a check of the content finds is an error of an alert, or nothing.
LEMMA ErrorsFound == Inconsistency \in Errors
BY DEF Inconsistency, Errors

\* The current location is a place, and may become any other.
LEMMA PlacesTyped ==
    ASSUME DataOK
    PROVE  /\ Here \in Places /\ loc \in Locations
           /\ \A p \in Places : [place EXCEPT ![loc] = p] \in [Locations -> Places]
BY DEF DataOK, Here

\* A repository that is made leaves the files and what is tracked.
LEMMA InitializedTyped ==
    ASSUME NEW p \in Places
    PROVE  /\ Initialized(p) \in Places
           /\ Initialized(p).content = p.content /\ Initialized(p).index = p.index
           /\ Initialized(p).committed = p.committed
BY DEF Initialized, Places, Branches

\* A missing repository is an alert, or made where there is no data.
LEMMA CheckRepositoryTurns ==
    ASSUME FailsafeInv, NEW c \in Calls, CheckRepository(c)
    PROVE  Turned(c)
<1>1. CASE ~Here.repo /\ call[c].data
  <2> DEFINE a == Alert("repository", None, None)
  <2>8. a \in Alerts /\ a # None /\ Leads(a)
    BY AlertsAreTyped, ErrorsFound DEF Errors
  <2>9. call' = [call EXCEPT ![c].pc = "raise", ![c].want = a]
    BY <1>1 DEF CheckRepository
  <2> HIDE DEF a
    <2> DEFINE k == [call[c] EXCEPT !.want = a, !.pc = "raise"]
    <2>1. Holds(c) /\ call[c].pc = "repository" /\ Becomes(c, k) /\ queue' = queue
      BY <1>1, <2>8, <2>9 DEF CheckRepository, At, Becomes
    <2>2. k \in CallRecords
      <3>1. call[c] \in CallRecords /\ "raise" \in Pcs /\ a \in Alerts
        BY <1>1, <2>8, <2>9, KnownOf DEF DataOK, Pcs
      <3> QED
        BY <3>1 DEF CallRecords
    <2>3. /\ k.pc = "raise" /\ k.want = a
           /\ k.kind = call[c].kind /\ k.approved = call[c].approved
           /\ k.alert = call[c].alert /\ k.stamp = call[c].stamp /\ k.files = call[c].files
           /\ k.state = call[c].state
      BY KnownOf DEF CallRecords
    <2> HIDE DEF k
    <2>4. UNCHANGED <<configured, process, place, database, shown, counters>>
      BY <1>1, <2>8, <2>9 DEF CheckRepository
    <2>5. /\ call'[c] = k /\ stamp' = stamp /\ alert' = alert /\ place' = place /\ loc' = loc
         /\ DataOK' /\ Leads(alert)' /\ (PathsMatch(stamp) => PathsMatch(stamp)')
      BY <2>1, <2>4, KnownOf, SameData DEF Becomes, database, process, Records
    <2>6. CallInv(c)'
      <3>1. KindInv(c)'
        BY <1>1, <2>8, <2>9, <2>1, <2>3, <2>5, KnownOf DEF CallInv, KindInv, Checking, Deciding
      <3>2. CheckInv(c)'
        BY <1>1, <2>8, <2>9, <2>1, <2>3, <2>5, KnownOf DEF CallInv, CheckInv, Checking
      <3>3. ~Recovering(c)'
        BY <1>1, <2>8, <2>9, <2>1, <2>3, <2>5, KnownOf
           DEF Recovering, Deciding, CallInv, KindInv
      <3> QED
        BY <1>1, <2>8, <2>9, <2>1, <2>3, <2>5, <3>1, <3>2, <3>3, CheckingIsSimple DEF Recovering
    <2>7. Leads(k.want)
      BY <2>8, <2>3
    <2> QED
      BY <2>1, <2>2, <2>3, <2>5, <2>6, <2>7, KnownOf, GoingTurns DEF Out
<1>2. CASE ~(~Here.repo /\ call[c].data)
    <2> DEFINE k == [call[c] EXCEPT !.pc = "content"]
    <2>1. Holds(c) /\ call[c].pc = "repository" /\ Becomes(c, k) /\ queue' = queue
      BY <1>2 DEF CheckRepository, Goto, At, Becomes
    <2>2. k \in CallRecords
      <3>1. call[c] \in CallRecords /\ "content" \in Pcs
        BY <1>2, KnownOf DEF DataOK, Pcs
      <3> QED
        BY <3>1 DEF CallRecords
    <2>3. /\ k.pc = "content"
           /\ k.kind = call[c].kind /\ k.approved = call[c].approved
           /\ k.alert = call[c].alert /\ k.stamp = call[c].stamp /\ k.want = call[c].want
           /\ k.files = call[c].files /\ k.state = call[c].state
      BY KnownOf DEF CallRecords
    <2> HIDE DEF k
    <2>4. /\ UNCHANGED <<configured, process, database, shown, counters>>
          /\ place' \in [Locations -> Places]
      <3>1. Initialized(Here) \in Places
        BY KnownOf, PlacesTyped, InitializedTyped
      <3>2. place' = place \/ place' = [place EXCEPT ![loc] = Initialized(Here)]
        BY <1>2 DEF CheckRepository, Goto, Here
      <3> QED
        BY <1>2, <3>1, <3>2, KnownOf, PlacesTyped DEF CheckRepository, Goto, DataOK
    <2>5. /\ call'[c] = k /\ stamp' = stamp /\ alert' = alert /\ loc' = loc
         /\ DataOK' /\ Leads(alert)' /\ (PathsMatch(stamp) => PathsMatch(stamp)')
      BY <2>1, <2>4, KnownOf, PlaceData DEF Becomes, database, process, Records
    <2>6. CallInv(c)'
      <3>1. KindInv(c)'
        BY <1>2, <2>1, <2>3, <2>5, KnownOf DEF CallInv, KindInv, Checking, Deciding
      <3>2. CheckInv(c)'
        BY <1>2, <2>1, <2>3, <2>5, KnownOf DEF CallInv, CheckInv, Checking
      <3>3. ~Recovering(c)'
        BY <1>2, <2>1, <2>3, <2>5, KnownOf DEF Recovering, Deciding, CallInv, KindInv
      <3> QED
        BY <1>2, <2>1, <2>3, <2>5, <3>1, <3>2, <3>3, CheckingIsSimple DEF Recovering
    <2> QED
      BY <2>1, <2>2, <2>3, <2>5, <2>6, KnownOf, GoingTurns DEF Out
<1> QED
  BY <1>1, <1>2

\* Content that is missing or untracked is an alert.
LEMMA CheckContentTurns ==
    ASSUME FailsafeInv, NEW c \in Calls, CheckContent(c)
    PROVE  Turned(c)
<1>1. CASE call[c].match /\ call[c].data /\ Inconsistency # None
  <2> DEFINE a == Alert("content", None, Inconsistency)
  <2>8. a \in Alerts /\ a # None /\ Leads(a)
    BY AlertsAreTyped, ErrorsFound DEF Errors
  <2>9. call' = [call EXCEPT ![c].pc = "raise", ![c].want = a]
    BY <1>1 DEF CheckContent
  <2> HIDE DEF a
    <2> DEFINE k == [call[c] EXCEPT !.want = a, !.pc = "raise"]
    <2>1. Holds(c) /\ call[c].pc = "content" /\ Becomes(c, k) /\ queue' = queue
      BY <1>1, <2>8, <2>9 DEF CheckContent, At, Becomes
    <2>2. k \in CallRecords
      <3>1. call[c] \in CallRecords /\ "raise" \in Pcs /\ a \in Alerts
        BY <1>1, <2>8, <2>9, KnownOf DEF DataOK, Pcs
      <3> QED
        BY <3>1 DEF CallRecords
    <2>3. /\ k.pc = "raise" /\ k.want = a
           /\ k.kind = call[c].kind /\ k.approved = call[c].approved
           /\ k.alert = call[c].alert /\ k.stamp = call[c].stamp /\ k.files = call[c].files
           /\ k.state = call[c].state
      BY KnownOf DEF CallRecords
    <2> HIDE DEF k
    <2>4. UNCHANGED <<configured, process, place, database, shown, counters>>
      BY <1>1, <2>8, <2>9 DEF CheckContent
    <2>5. /\ call'[c] = k /\ stamp' = stamp /\ alert' = alert /\ place' = place /\ loc' = loc
         /\ DataOK' /\ Leads(alert)' /\ (PathsMatch(stamp) => PathsMatch(stamp)')
      BY <2>1, <2>4, KnownOf, SameData DEF Becomes, database, process, Records
    <2>6. CallInv(c)'
      <3>1. KindInv(c)'
        BY <1>1, <2>8, <2>9, <2>1, <2>3, <2>5, KnownOf DEF CallInv, KindInv, Checking, Deciding
      <3>2. CheckInv(c)'
        BY <1>1, <2>8, <2>9, <2>1, <2>3, <2>5, KnownOf DEF CallInv, CheckInv, Checking
      <3>3. ~Recovering(c)'
        BY <1>1, <2>8, <2>9, <2>1, <2>3, <2>5, KnownOf
           DEF Recovering, Deciding, CallInv, KindInv
      <3> QED
        BY <1>1, <2>8, <2>9, <2>1, <2>3, <2>5, <3>1, <3>2, <3>3, CheckingIsSimple DEF Recovering
    <2>7. Leads(k.want)
      BY <2>8, <2>3
    <2> QED
      BY <2>1, <2>2, <2>3, <2>5, <2>6, <2>7, KnownOf, GoingTurns DEF Out
<1>2. CASE ~(call[c].match /\ call[c].data /\ Inconsistency # None)
    <2> DEFINE k == [call[c] EXCEPT !.pc = "stamp"]
    <2>1. Holds(c) /\ call[c].pc = "content" /\ Becomes(c, k) /\ queue' = queue
      BY <1>2 DEF CheckContent, Goto, At, Becomes
    <2>2. k \in CallRecords
      <3>1. call[c] \in CallRecords /\ "stamp" \in Pcs
        BY <1>2, KnownOf DEF DataOK, Pcs
      <3> QED
        BY <3>1 DEF CallRecords
    <2>3. /\ k.pc = "stamp"
           /\ k.kind = call[c].kind /\ k.approved = call[c].approved
           /\ k.alert = call[c].alert /\ k.stamp = call[c].stamp /\ k.want = call[c].want
           /\ k.files = call[c].files /\ k.state = call[c].state
      BY KnownOf DEF CallRecords
    <2> HIDE DEF k
    <2>4. UNCHANGED <<configured, process, place, database, shown, counters>>
      BY <1>2 DEF CheckContent
    <2>5. /\ call'[c] = k /\ stamp' = stamp /\ alert' = alert /\ place' = place /\ loc' = loc
         /\ DataOK' /\ Leads(alert)' /\ (PathsMatch(stamp) => PathsMatch(stamp)')
      BY <2>1, <2>4, KnownOf, SameData DEF Becomes, database, process, Records
    <2>6. CallInv(c)'
      <3>1. KindInv(c)'
        BY <1>2, <2>1, <2>3, <2>5, KnownOf DEF CallInv, KindInv, Checking, Deciding
      <3>2. CheckInv(c)'
        BY <1>2, <2>1, <2>3, <2>5, KnownOf DEF CallInv, CheckInv, Checking
      <3>3. ~Recovering(c)'
        BY <1>2, <2>1, <2>3, <2>5, KnownOf DEF Recovering, Deciding, CallInv, KindInv
      <3> QED
        BY <1>2, <2>1, <2>3, <2>5, <3>1, <3>2, <3>3, CheckingIsSimple DEF Recovering
    <2> QED
      BY <2>1, <2>2, <2>3, <2>5, <2>6, KnownOf, GoingTurns DEF Out
<1> QED
  BY <1>1, <1>2

\* Whatever the remote is by then, the stamp names the location.
LEMMA CheckStampTurns ==
    ASSUME FailsafeInv, NEW c \in Calls, CheckStamp(c)
    PROVE  Turned(c)
<1>1. /\ Holds(c) /\ call[c].pc = "stamp" /\ loc' = loc /\ alert' = alert /\ place' = place
      /\ stamp' = [location |-> loc, url |-> Here.url]
      /\ UNCHANGED <<configured, process, place, row, alert, made, shown, counters>>
  BY DEF CheckStamp, At, process
<1>2. DataOK' /\ Leads(alert)' /\ PathsMatch(stamp)'
  <2>1. stamp' \in Stamps /\ stamp' # None /\ stamp'.location = loc
    BY <1>1, KnownOf, PlacesTyped, NoneAssumption DEF Stamps, Places
  <2> QED
    BY <1>1, <2>1, KnownOf DEF DataOK, process, counters, Leads, PathsMatch
<1>3. CASE EndReady(c)
  <2>1. Parting(c)
    BY <1>2, <1>3 DEF EndReady, Parting
  <2> QED
    BY <1>1, <1>2, <2>1, PartingTurns
<1>4. CASE call[c].alert # None /\ Goto(c, "clear")
  <2> DEFINE k == [call[c] EXCEPT !.pc = "clear"]
  <2>1. Becomes(c, k) /\ queue' = queue
    BY <1>4 DEF Goto, Becomes
  <2>2. k \in CallRecords
    <3>1. call[c] \in CallRecords /\ "clear" \in Pcs
      BY KnownOf DEF Pcs
    <3> QED
      BY <3>1 DEF CallRecords
  <2>3. /\ k.pc = "clear" /\ k.kind = call[c].kind /\ k.alert = call[c].alert
        /\ k.want = call[c].want
    BY KnownOf DEF CallRecords
  <2> HIDE DEF k
  <2>4. call'[c] = k
    BY <2>1, KnownOf DEF Becomes, Records
  <2>5. alert = call[c].alert /\ call[c].kind \in {"check", "add"}
    BY <1>1, <1>4, KnownOf DEF CallInv, CheckInv, KindInv, Checking
  <2>6. CallInv(c)'
    <3>1. KindInv(c)'
      BY <2>3, <2>4, <2>5 DEF KindInv, Checking, Deciding
    <3>2. CheckInv(c)'
      BY <1>1, <1>2, <1>4, <2>3, <2>4, <2>5 DEF CheckInv, Checking
    <3>3. ~Recovering(c)'
      BY <2>3, <2>4 DEF Recovering, Deciding
    <3> QED
      BY <2>3, <2>4, <3>1, <3>2, <3>3, CheckingIsSimple
  <2> QED
    BY <1>1, <1>2, <2>1, <2>2, <2>3, <2>6, KnownOf, GoingTurns DEF Out
<1> QED
  BY <1>3, <1>4 DEF CheckStamp

\* A check ends the generation it has read, and no other.
LEMMA CheckClearTurns ==
    ASSUME FailsafeInv, NEW c \in Calls, CheckClear(c)
    PROVE  Turned(c)
<1>1. /\ Holds(c) /\ call[c].pc = "clear" /\ loc' = loc /\ stamp' = stamp
      /\ UNCHANGED <<configured, process, place, row, stamp, made, shown, counters>>
      /\ alert' = None \/ alert' = alert
  BY DEF CheckClear, At, process
<1>2. PathsMatch(stamp) /\ PathsMatch(stamp)'
  BY <1>1, KnownOf DEF CallInv, CheckInv, PathsMatch
<1>3. DataOK' /\ Leads(alert)'
  BY <1>1, KnownOf DEF DataOK, process, counters, Leads
<1>4. Parting(c)
  BY <1>2 DEF CheckClear, EndReady, Parting
<1> QED
  BY <1>1, <1>2, <1>3, <1>4, PartingTurns

\* A push failure that is kept ends the check and the mutation.
LEMMA CheckKeepsTurns ==
    ASSUME FailsafeInv, NEW c \in Calls, CheckKeeps(c)
    PROVE  Turned(c)
<1>1. Holds(c) /\ Parting(c)
  BY DEF CheckKeeps, At, Parting
<1> QED
  BY <1>1, SameData, PartingTurns DEF CheckKeeps

\* The content of a memory is added where there is none.
LEMMA PublishTurns ==
    ASSUME FailsafeInv, NEW c \in Calls, Publish(c)
    PROVE  Turned(c)
<1>1. /\ call[c].pc \in Out /\ Parting(c) /\ loc' = loc
      /\ UNCHANGED <<configured, process, stamp, alert, made, shown, counters>>
  BY DEF Publish, Out, Parting, process
<1>2. /\ place' \in [Locations -> Places] /\ Undisturbed
  <2>1. CASE UNCHANGED place
    BY <1>1, <2>1, KnownOf DEF DataOK, Undisturbed
  <2>2. CASE /\ Here.content = None
             /\ \E v \in Versions : place' = [place EXCEPT ![loc].content = v]
    <3>1. PICK v \in Versions : place' = [place EXCEPT ![loc].content = v]
      BY <2>2
    <3> DEFINE p == [Here EXCEPT !.content = v]
    <3>2. /\ p \in Places /\ p.index = Here.index /\ p.committed = Here.committed
          /\ place' = [place EXCEPT ![loc] = p]
      BY <3>1, KnownOf, PlacesTyped DEF Places, Here
    <3> HIDE DEF p
    <3> QED
      BY <1>1, <2>2, <3>2, KnownOf, PlacesTyped DEF DataOK, Undisturbed, Here
  <2> QED
    BY <2>1, <2>2 DEF Publish
<1>3. row' \in {"absent", "owed", "success"}
  BY KnownOf DEF Publish, DataOK
<1>4. DataOK' /\ Leads(alert)' /\ (PathsMatch(stamp) => PathsMatch(stamp)')
  BY <1>1, <1>2, <1>3, KnownOf DEF DataOK, process, counters, Leads, PathsMatch
<1> QED
  BY <1>1, <1>2, <1>4, PartingTurns

\* An alert that is raised is one, of the generation before or of a new one.
LEMMA RaisedIsAlert ==
    ASSUME FailsafeInv, NEW c \in Calls, RaiseAlert(c)
    PROVE  /\ \/ alert' = alert /\ made' = made
              \/ alert' \in Alerts /\ made' = made + 1
           /\ Leads(alert)'
<1> DEFINE content == [call[c].want EXCEPT !.url = Here.url]
           new == [content EXCEPT !.generation = made + 1]
<1>1. call[c].pc = "raise" /\ Raise(content)
  BY DEF RaiseAlert, At
<1>2. call[c].want \in Alerts /\ Leads(call[c].want) /\ call[c].want # None
  BY <1>1, KnownOf DEF CallInv, CheckInv, CallRecords
<1>3. /\ new \in Alerts /\ new.kind = call[c].want.kind
      /\ new.previous = call[c].want.previous /\ new.current = call[c].want.current
  <2>1. Here.url \in Remotes \cup {None} /\ made + 1 \in Nat
    BY KnownOf, PlacesTyped DEF Places, DataOK
  <2> QED
    BY <1>2, <2>1 DEF Alerts
<1>4. (alert' = alert /\ made' = made) \/ (alert' = new /\ made' = made + 1)
  BY <1>1 DEF Raise
<1> HIDE DEF new
<1>5. CASE alert' = alert /\ made' = made
  BY <1>5, KnownOf DEF Leads
<1>6. CASE alert' = new /\ made' = made + 1
  BY <1>2, <1>3, <1>6 DEF Leads
<1> QED
  BY <1>4, <1>5, <1>6

\* Raising an alert ends a check or a recovery, and fails a job.
LEMMA RaiseAlertTurns ==
    ASSUME FailsafeInv, NEW c \in Calls, RaiseAlert(c)
    PROVE  Turned(c)
<1>1. /\ Holds(c) /\ call[c].pc = "raise" /\ Parting(c)
      /\ UNCHANGED <<configured, process, place, row, stamp, shown, counters>>
  BY DEF RaiseAlert, At, Parting
<1>2. DataOK' /\ loc' = loc /\ Leads(alert)' /\ (PathsMatch(stamp) => PathsMatch(stamp)')
  BY <1>1, KnownOf, RaisedIsAlert DEF DataOK, process, counters, PathsMatch
<1> QED
  BY <1>1, <1>2, PartingTurns

\* A job begins, fails when the storage is closed, or raises a missing repository.
LEMMA JobBeginTurns ==
    ASSUME FailsafeInv, NEW c \in Calls, JobBegin(c)
    PROVE  Turned(c)
<1>1. CASE suspended
  <2>1. /\ Holds(c) /\ Parting(c)
        /\ UNCHANGED <<configured, process, place, database, shown, counters>>
    BY <1>1, KnownOf DEF JobBegin, At, Parting, CallInv, KindInv
  <2> QED
    BY <2>1, SameData, PartingTurns
<1>2. CASE ~suspended /\ Here.repo
    <2> DEFINE k == [call[c] EXCEPT !.pc = "add"]
    <2>1. Holds(c) /\ call[c].pc = "begin" /\ Becomes(c, k) /\ queue' = queue
      BY <1>2 DEF JobBegin, Goto, At, Becomes
    <2>2. k \in CallRecords
      <3>1. call[c] \in CallRecords /\ "add" \in Pcs
        BY <1>2, KnownOf DEF DataOK, Pcs
      <3> QED
        BY <3>1 DEF CallRecords
    <2>3. /\ k.pc = "add"
           /\ k.kind = call[c].kind /\ k.approved = call[c].approved
           /\ k.alert = call[c].alert /\ k.stamp = call[c].stamp /\ k.want = call[c].want
           /\ k.files = call[c].files /\ k.state = call[c].state
      BY KnownOf DEF CallRecords
    <2> HIDE DEF k
    <2>4. UNCHANGED <<configured, process, place, database, shown, counters>>
      BY <1>2 DEF JobBegin
    <2>5. /\ call'[c] = k /\ stamp' = stamp /\ alert' = alert /\ place' = place /\ loc' = loc
         /\ DataOK' /\ Leads(alert)' /\ (PathsMatch(stamp) => PathsMatch(stamp)')
      BY <2>1, <2>4, KnownOf, SameData DEF Becomes, database, process, Records
    <2>6. CallInv(c)'
      <3>1. KindInv(c)'
        BY <1>2, <2>1, <2>3, <2>5, KnownOf DEF CallInv, KindInv, Checking, Deciding
      <3>2. CheckInv(c)'
        BY <1>2, <2>1, <2>3, <2>5, KnownOf DEF CallInv, CheckInv, Checking
      <3>3. ~Recovering(c)'
        BY <1>2, <2>1, <2>3, <2>5, KnownOf DEF Recovering, Deciding, CallInv, KindInv
      <3> QED
        BY <1>2, <2>1, <2>3, <2>5, <3>1, <3>2, <3>3, CheckingIsSimple DEF Recovering
    <2> QED
      BY <2>1, <2>2, <2>3, <2>5, <2>6, KnownOf, GoingTurns DEF Out
<1>3. CASE ~suspended /\ ~Here.repo
  <2> DEFINE a == Alert("repository", None, None)
  <2>8. a \in Alerts /\ a # None /\ Leads(a)
    BY AlertsAreTyped DEF Errors
  <2>9. call' = [call EXCEPT ![c] = [[call[c] EXCEPT !.want = a] EXCEPT !.pc = "raise"]]
        /\ queue' = queue /\ Holds(c)
    BY <1>3 DEF JobBegin, Nest, At, PushFailure
  <2> HIDE DEF a
    <2> DEFINE k == [call[c] EXCEPT !.want = a, !.pc = "raise"]
    <2>1. Holds(c) /\ call[c].pc = "begin" /\ Becomes(c, k) /\ queue' = queue
      BY <1>3, <2>8, <2>9 DEF JobBegin, At, Becomes
    <2>2. k \in CallRecords
      <3>1. call[c] \in CallRecords /\ "raise" \in Pcs /\ a \in Alerts
        BY <1>3, <2>8, <2>9, KnownOf DEF DataOK, Pcs
      <3> QED
        BY <3>1 DEF CallRecords
    <2>3. /\ k.pc = "raise" /\ k.want = a
           /\ k.kind = call[c].kind /\ k.approved = call[c].approved
           /\ k.alert = call[c].alert /\ k.stamp = call[c].stamp /\ k.files = call[c].files
           /\ k.state = call[c].state
      BY KnownOf DEF CallRecords
    <2> HIDE DEF k
    <2>4. UNCHANGED <<configured, process, place, database, shown, counters>>
      BY <1>3, <2>8, <2>9 DEF JobBegin
    <2>5. /\ call'[c] = k /\ stamp' = stamp /\ alert' = alert /\ place' = place /\ loc' = loc
         /\ DataOK' /\ Leads(alert)' /\ (PathsMatch(stamp) => PathsMatch(stamp)')
      BY <2>1, <2>4, KnownOf, SameData DEF Becomes, database, process, Records
    <2>6. CallInv(c)'
      <3>1. KindInv(c)'
        BY <1>3, <2>8, <2>9, <2>1, <2>3, <2>5, KnownOf DEF CallInv, KindInv, Checking, Deciding
      <3>2. CheckInv(c)'
        BY <1>3, <2>8, <2>9, <2>1, <2>3, <2>5, KnownOf DEF CallInv, CheckInv, Checking, KindInv
      <3>3. ~Recovering(c)'
        BY <1>3, <2>8, <2>9, <2>1, <2>3, <2>5, KnownOf
           DEF Recovering, Deciding, CallInv, KindInv
      <3> QED
        BY <1>3, <2>8, <2>9, <2>1, <2>3, <2>5, <3>1, <3>2, <3>3, CheckingIsSimple DEF Recovering
    <2>7. Leads(k.want)
      BY <2>8, <2>3
    <2> QED
      BY <2>1, <2>2, <2>3, <2>5, <2>6, <2>7, KnownOf, GoingTurns DEF Out
<1> QED
  BY <1>1, <1>2, <1>3

\* Staging for a job brings the index to the content.
LEMMA JobAddTurns ==
    ASSUME FailsafeInv, NEW c \in Calls, JobAdd(c)
    PROVE  Turned(c)
<1>1. CASE NothingToStage
  <2>1. /\ Holds(c) /\ Parting(c)
        /\ UNCHANGED <<configured, process, place, database, shown, counters>>
    BY <1>1, KnownOf DEF JobAdd, At, Parting, CallInv, KindInv
  <2> QED
    BY <2>1, SameData, PartingTurns
<1>2. CASE ~NothingToStage /\ Here.content = Here.committed
    <2> DEFINE k == [call[c] EXCEPT !.pc = "push"]
    <2>1. Holds(c) /\ call[c].pc = "add" /\ Becomes(c, k) /\ queue' = queue
      BY <1>2 DEF JobAdd, Goto, At, Becomes
    <2>2. k \in CallRecords
      <3>1. call[c] \in CallRecords /\ "push" \in Pcs
        BY <1>2, KnownOf DEF DataOK, Pcs
      <3> QED
        BY <3>1 DEF CallRecords
    <2>3. /\ k.pc = "push"
           /\ k.kind = call[c].kind /\ k.approved = call[c].approved
           /\ k.alert = call[c].alert /\ k.stamp = call[c].stamp /\ k.want = call[c].want
           /\ k.files = call[c].files /\ k.state = call[c].state
      BY KnownOf DEF CallRecords
    <2> HIDE DEF k
    <2>4. /\ UNCHANGED <<configured, process, database, shown, counters>>
          /\ place' \in [Locations -> Places]
      <3> DEFINE p == [Here EXCEPT !.index = Here.content]
      <3>1. p \in Places
        BY KnownOf, PlacesTyped DEF Places
      <3>2. place' = [place EXCEPT ![loc] = p]
        BY <1>2 DEF JobAdd, Goto, Here
      <3> HIDE DEF p
      <3> QED
        BY <1>2, <3>1, <3>2, KnownOf, PlacesTyped DEF JobAdd, Goto
    <2>5. /\ call'[c] = k /\ stamp' = stamp /\ alert' = alert /\ loc' = loc
         /\ DataOK' /\ Leads(alert)' /\ (PathsMatch(stamp) => PathsMatch(stamp)')
      BY <2>1, <2>4, KnownOf, PlaceData DEF Becomes, database, process, Records
    <2>6. CallInv(c)'
      <3>1. KindInv(c)'
        BY <1>2, <2>1, <2>3, <2>5, KnownOf DEF CallInv, KindInv, Checking, Deciding
      <3>2. CheckInv(c)'
        BY <1>2, <2>1, <2>3, <2>5, KnownOf DEF CallInv, CheckInv, Checking
      <3>3. ~Recovering(c)'
        BY <1>2, <2>1, <2>3, <2>5, KnownOf DEF Recovering, Deciding, CallInv, KindInv
      <3> QED
        BY <1>2, <2>1, <2>3, <2>5, <3>1, <3>2, <3>3, CheckingIsSimple DEF Recovering
    <2> QED
      BY <2>1, <2>2, <2>3, <2>5, <2>6, KnownOf, GoingTurns DEF Out
<1>3. CASE ~NothingToStage /\ Here.content # Here.committed
    <2> DEFINE k == [call[c] EXCEPT !.pc = "commit"]
    <2>1. Holds(c) /\ call[c].pc = "add" /\ Becomes(c, k) /\ queue' = queue
      BY <1>3 DEF JobAdd, Goto, At, Becomes
    <2>2. k \in CallRecords
      <3>1. call[c] \in CallRecords /\ "commit" \in Pcs
        BY <1>3, KnownOf DEF DataOK, Pcs
      <3> QED
        BY <3>1 DEF CallRecords
    <2>3. /\ k.pc = "commit"
           /\ k.kind = call[c].kind /\ k.approved = call[c].approved
           /\ k.alert = call[c].alert /\ k.stamp = call[c].stamp /\ k.want = call[c].want
           /\ k.files = call[c].files /\ k.state = call[c].state
      BY KnownOf DEF CallRecords
    <2> HIDE DEF k
    <2>4. /\ UNCHANGED <<configured, process, database, shown, counters>>
          /\ place' \in [Locations -> Places]
      <3> DEFINE p == [Here EXCEPT !.index = Here.content]
      <3>1. p \in Places
        BY KnownOf, PlacesTyped DEF Places
      <3>2. place' = [place EXCEPT ![loc] = p]
        BY <1>3 DEF JobAdd, Goto, Here
      <3> HIDE DEF p
      <3> QED
        BY <1>3, <3>1, <3>2, KnownOf, PlacesTyped DEF JobAdd, Goto
    <2>5. /\ call'[c] = k /\ stamp' = stamp /\ alert' = alert /\ loc' = loc
         /\ DataOK' /\ Leads(alert)' /\ (PathsMatch(stamp) => PathsMatch(stamp)')
      BY <2>1, <2>4, KnownOf, PlaceData DEF Becomes, database, process, Records
    <2>6. CallInv(c)'
      <3>1. KindInv(c)'
        BY <1>3, <2>1, <2>3, <2>5, KnownOf DEF CallInv, KindInv, Checking, Deciding
      <3>2. CheckInv(c)'
        BY <1>3, <2>1, <2>3, <2>5, KnownOf DEF CallInv, CheckInv, Checking
      <3>3. ~Recovering(c)'
        BY <1>3, <2>1, <2>3, <2>5, KnownOf DEF Recovering, Deciding, CallInv, KindInv
      <3> QED
        BY <1>3, <2>1, <2>3, <2>5, <3>1, <3>2, <3>3, CheckingIsSimple DEF Recovering
    <2> QED
      BY <2>1, <2>2, <2>3, <2>5, <2>6, KnownOf, GoingTurns DEF Out
<1> QED
  BY <1>1, <1>2, <1>3

\* A commit takes what is in place.
LEMMA CommittedTyped ==
    ASSUME NEW p \in Places
    PROVE  /\ Committed(p) \in Places /\ Committed(p).content = p.content
           /\ Committed(p).index = p.content /\ Committed(p).committed = p.content
           /\ Committed(p).url = p.url
<1>1. p.head + 1 \in Nat
  BY DEF Places
<1> QED
  BY <1>1 DEF Committed, Places

\* The commit of a job.
LEMMA JobCommitTurns ==
    ASSUME FailsafeInv, NEW c \in Calls, JobCommit(c)
    PROVE  Turned(c)
<1> DEFINE k == [call[c] EXCEPT !.pc = "push"]
<1>1. Holds(c) /\ call[c].pc = "commit" /\ Becomes(c, k) /\ queue' = queue
  BY DEF JobCommit, Goto, At, Becomes
<1>2. k \in CallRecords
  <2>1. call[c] \in CallRecords /\ "push" \in Pcs
    BY KnownOf DEF DataOK, Pcs
  <2> QED
    BY <2>1 DEF CallRecords
<1>3. /\ k.pc = "push"
       /\ k.kind = call[c].kind /\ k.approved = call[c].approved /\ k.alert = call[c].alert
       /\ k.stamp = call[c].stamp /\ k.want = call[c].want /\ k.files = call[c].files
       /\ k.state = call[c].state
  BY KnownOf DEF CallRecords
<1> HIDE DEF k
<1>4. /\ UNCHANGED <<configured, process, database, shown, counters>>
      /\ place' \in [Locations -> Places]
  <2>1. Committed(Here) \in Places
    BY KnownOf, PlacesTyped, CommittedTyped
  <2>2. place' = [place EXCEPT ![loc] = Committed(Here)]
    BY DEF JobCommit, Goto, Here
  <2> QED
    BY <2>1, <2>2, KnownOf, PlacesTyped DEF JobCommit, Goto
<1>5. /\ call'[c] = k /\ stamp' = stamp /\ alert' = alert /\ loc' = loc
     /\ DataOK' /\ Leads(alert)' /\ (PathsMatch(stamp) => PathsMatch(stamp)')
  BY <1>1, <1>4, KnownOf, PlaceData DEF Becomes, database, process, Records
<1>6. CallInv(c)'
  <2>1. KindInv(c)'
    BY <1>1, <1>3, <1>5, KnownOf DEF CallInv, KindInv, Checking, Deciding
  <2>2. CheckInv(c)'
    BY <1>1, <1>3, <1>5, KnownOf DEF CallInv, CheckInv, Checking
  <2>3. ~Recovering(c)'
    BY <1>1, <1>3, <1>5, KnownOf DEF Recovering, Deciding, CallInv, KindInv
  <2> QED
    BY <1>1, <1>3, <1>5, <2>1, <2>2, <2>3, CheckingIsSimple DEF Recovering
<1> QED
  BY <1>1, <1>2, <1>3, <1>5, <1>6, KnownOf, GoingTurns DEF Out

\* A push goes through, or goes to raise its alert, still under the lease.
LEMMA JobPushTurns ==
    ASSUME FailsafeInv, NEW c \in Calls, JobPush(c)
    PROVE  Turned(c)
<1>1. call[c].kind = "job"
  BY DEF JobPush
<1>2. CASE Leave(c, "record")
  <2>1. /\ Holds(c) /\ Parting(c)
        /\ UNCHANGED <<configured, process, place, database, shown, counters>>
    BY <1>1, <1>2 DEF JobPush, At, Parting
  <2> QED
    BY <2>1, SameData, PartingTurns
<1>3. CASE Nest(c, "cleared", call[c])
    <2> DEFINE k == [call[c] EXCEPT !.pc = "cleared"]
    <2>1. Holds(c) /\ call[c].pc = "push" /\ Becomes(c, k) /\ queue' = queue
      BY <1>1, <1>3 DEF JobPush, Nest, At, Becomes
    <2>2. k \in CallRecords
      <3>1. call[c] \in CallRecords /\ "cleared" \in Pcs
        BY <1>1, <1>3, KnownOf DEF DataOK, Pcs
      <3> QED
        BY <3>1 DEF CallRecords
    <2>3. /\ k.pc = "cleared"
           /\ k.kind = call[c].kind /\ k.approved = call[c].approved
           /\ k.alert = call[c].alert /\ k.stamp = call[c].stamp /\ k.want = call[c].want
           /\ k.files = call[c].files /\ k.state = call[c].state
      BY KnownOf DEF CallRecords
    <2> HIDE DEF k
    <2>4. UNCHANGED <<configured, process, place, database, shown, counters>>
      BY <1>1, <1>3 DEF JobPush
    <2>5. /\ call'[c] = k /\ stamp' = stamp /\ alert' = alert /\ place' = place /\ loc' = loc
         /\ DataOK' /\ Leads(alert)' /\ (PathsMatch(stamp) => PathsMatch(stamp)')
      BY <2>1, <2>4, KnownOf, SameData DEF Becomes, database, process, Records
    <2>6. CallInv(c)'
      <3>1. KindInv(c)'
        BY <1>1, <1>3, <2>1, <2>3, <2>5, KnownOf DEF CallInv, KindInv, Checking, Deciding
      <3>2. CheckInv(c)'
        BY <1>1, <1>3, <2>1, <2>3, <2>5, KnownOf DEF CallInv, CheckInv, Checking
      <3>3. ~Recovering(c)'
        BY <1>1, <1>3, <2>1, <2>3, <2>5, KnownOf DEF Recovering, Deciding, CallInv, KindInv
      <3> QED
        BY <1>1, <1>3, <2>1, <2>3, <2>5, <3>1, <3>2, <3>3, CheckingIsSimple DEF Recovering
    <2> QED
      BY <2>1, <2>2, <2>3, <2>5, <2>6, KnownOf, GoingTurns DEF Out
<1>4. CASE Nest(c, "raise", [call[c] EXCEPT !.want = PushFailure])
  <2> DEFINE a == Alert("push", None, None)
  <2>8. a \in Alerts /\ a # None /\ Leads(a)
    BY AlertsAreTyped DEF Errors
  <2>9. call' = [call EXCEPT ![c] = [[call[c] EXCEPT !.want = a] EXCEPT !.pc = "raise"]]
        /\ queue' = queue /\ Holds(c)
    BY <1>4 DEF JobPush, Nest, At, PushFailure
  <2> HIDE DEF a
    <2> DEFINE k == [call[c] EXCEPT !.want = a, !.pc = "raise"]
    <2>1. Holds(c) /\ call[c].pc = "push" /\ Becomes(c, k) /\ queue' = queue
      BY <1>1, <1>4, <2>8, <2>9 DEF JobPush, At, Becomes
    <2>2. k \in CallRecords
      <3>1. call[c] \in CallRecords /\ "raise" \in Pcs /\ a \in Alerts
        BY <1>1, <1>4, <2>8, <2>9, KnownOf DEF DataOK, Pcs
      <3> QED
        BY <3>1 DEF CallRecords
    <2>3. /\ k.pc = "raise" /\ k.want = a
           /\ k.kind = call[c].kind /\ k.approved = call[c].approved
           /\ k.alert = call[c].alert /\ k.stamp = call[c].stamp /\ k.files = call[c].files
           /\ k.state = call[c].state
      BY KnownOf DEF CallRecords
    <2> HIDE DEF k
    <2>4. UNCHANGED <<configured, process, place, database, shown, counters>>
      BY <1>1, <1>4, <2>8, <2>9 DEF JobPush
    <2>5. /\ call'[c] = k /\ stamp' = stamp /\ alert' = alert /\ place' = place /\ loc' = loc
         /\ DataOK' /\ Leads(alert)' /\ (PathsMatch(stamp) => PathsMatch(stamp)')
      BY <2>1, <2>4, KnownOf, SameData DEF Becomes, database, process, Records
    <2>6. CallInv(c)'
      <3>1. KindInv(c)'
        BY <1>1, <1>4, <2>8, <2>9, <2>1, <2>3, <2>5, KnownOf
           DEF CallInv, KindInv, Checking, Deciding
      <3>2. CheckInv(c)'
        BY <1>1, <1>4, <2>8, <2>9, <2>1, <2>3, <2>5, KnownOf
           DEF CallInv, CheckInv, Checking, KindInv
      <3>3. ~Recovering(c)'
        BY <1>1, <1>4, <2>8, <2>9, <2>1, <2>3, <2>5, KnownOf
           DEF Recovering, Deciding, CallInv, KindInv
      <3> QED
        BY <1>1, <1>4, <2>8, <2>9, <2>1, <2>3, <2>5, <3>1, <3>2, <3>3, CheckingIsSimple
           DEF Recovering
    <2>7. Leads(k.want)
      BY <2>8, <2>3
    <2> QED
      BY <2>1, <2>2, <2>3, <2>5, <2>6, <2>7, KnownOf, GoingTurns DEF Out
<1> QED
  BY <1>2, <1>3, <1>4 DEF JobPush

\* A push that went through ends the alert of one that had not.
LEMMA JobClearTurns ==
    ASSUME FailsafeInv, NEW c \in Calls, JobClear(c)
    PROVE  Turned(c)
<1>1. /\ Holds(c) /\ Parting(c) /\ alert' \in {alert, None}
      /\ UNCHANGED <<configured, process, place, row, stamp, made, shown, counters>>
  BY KnownOf DEF JobClear, At, Parting, CallInv, KindInv
<1>2. /\ DataOK' /\ loc' = loc /\ Leads(alert)'
      /\ PathsMatch(stamp) => PathsMatch(stamp)'
  BY <1>1, KnownOf DEF DataOK, process, counters, Leads, PathsMatch
<1> QED
  BY <1>1, <1>2, PartingTurns

\* The status is recorded outside the lease and disturbs nobody.
LEMMA JobRecordTurns ==
    ASSUME FailsafeInv, NEW c \in Calls, JobRecord(c)
    PROVE  Turned(c)
<1>1. /\ call[c].pc \in Out /\ Parting(c) /\ row' \in {row, "success", "owed"}
      /\ UNCHANGED <<configured, process, place, stamp, alert, made, shown, counters>>
  BY DEF JobRecord, Out, Parting
<1>2. DataOK' /\ loc' = loc /\ Leads(alert)' /\ (PathsMatch(stamp) => PathsMatch(stamp)')
  BY <1>1, KnownOf DEF DataOK, process, counters, Leads, PathsMatch
<1>3. Undisturbed
  BY <1>1 DEF Undisturbed
<1> QED
  BY <1>1, <1>2, <1>3, PartingTurns

\* An approval takes over the alert only if it is the generation that was shown.
LEMMA ApproveTurns ==
    ASSUME FailsafeInv, NEW c \in Calls, Approve(c)
    PROVE  Turned(c)
<1>1. CASE \/ alert = None \/ alert # call[c].approved \/ alert.current # loc
           \/ Allowed(call[c].kind, alert) = "idle"
  <2>1. /\ Holds(c) /\ Parting(c)
        /\ UNCHANGED <<configured, process, place, database, shown, counters>>
    BY <1>1 DEF Approve, At, Parting
  <2> QED
    BY <2>1, SameData, PartingTurns
<1>2. CASE ~(\/ alert = None \/ alert # call[c].approved \/ alert.current # loc
             \/ Allowed(call[c].kind, alert) = "idle")
  <2>1. /\ Holds(c) /\ call[c].pc = "approve" /\ call[c].kind \in Recoveries
        /\ alert # None /\ alert = call[c].approved /\ alert.current = loc
        /\ UNCHANGED <<configured, process, place, database, shown, counters>>
    BY <1>2, KnownOf DEF Approve, At, CallInv, KindInv
  <2>2. PICK pc \in {"suspend", "retry", "examine", "find"} :
           /\ call' = [call EXCEPT ![c].alert = alert, ![c].pc = pc] /\ queue' = queue
           /\ pc = "suspend" => call[c].kind = "revert"
           /\ call[c].kind = "revert" => alert.previous # None
           /\ pc \in {"retry", "examine"} => call[c].kind = "migrate"
           /\ pc = "examine" => alert.kind = "drift"
           /\ pc = "retry" => alert.kind = "push"
           /\ pc = "find" => call[c].kind = "delete"
    BY <1>2, <2>1 DEF Approve, Allowed, Recoveries
  <2> DEFINE k == [call[c] EXCEPT !.alert = alert, !.pc = pc]
  <2>3. k \in CallRecords
    <3>1. call[c] \in CallRecords /\ pc \in Pcs /\ alert \in Alerts \cup {None}
      BY KnownOf DEF Pcs, DataOK
    <3> QED
      BY <3>1 DEF CallRecords
  <2>4. /\ k.pc = pc /\ k.alert = alert /\ k.kind = call[c].kind
        /\ k.approved = call[c].approved
        /\ k.want = call[c].want /\ k.state = call[c].state /\ Becomes(c, k)
    BY <2>2, KnownOf DEF CallRecords, Becomes
  <2> HIDE DEF k
  <2>5. /\ call'[c] = k /\ stamp' = stamp /\ alert' = alert /\ place' = place /\ loc' = loc
        /\ DataOK' /\ Leads(alert)' /\ (PathsMatch(stamp) => PathsMatch(stamp)')
    BY <2>1, <2>4, KnownOf, SameData DEF Becomes, database, process, Records
  <2>6. CallInv(c)'
    <3>1. KindInv(c)' /\ CheckInv(c)'
      BY <2>2, <2>4, <2>5 DEF KindInv, CheckInv, Checking, Deciding
    <3>2. ApprovedInv(c)'
      BY <2>1, <2>2, <2>4, <2>5, KnownOf DEF ApprovedInv, Leads
    <3>3. RemoteInv(c)' /\ MovedInv(c)'
      BY <2>1, <2>2, <2>4, <2>5, KnownOf
         DEF RemoteInv, MovedInv, Recovering, Deciding, Moving, Leads
    <3> QED
      BY <3>1, <3>2, <3>3 DEF CallInv
  <2> QED
    BY <2>1, <2>2, <2>3, <2>4, <2>5, <2>6, KnownOf, GoingTurns DEF Out
<1> QED
  BY <1>1, <1>2

\* A revert closes the storage or is refused.
LEMMA SuspendTurns ==
    ASSUME FailsafeInv, NEW c \in Calls, Suspend(c)
    PROVE  Turned(c)
<1>1. CASE End(c) /\ UNCHANGED suspended
  <2>1. /\ Holds(c) /\ Parting(c)
        /\ UNCHANGED <<configured, process, place, database, shown, counters>>
    BY <1>1 DEF Suspend, At, Parting, process
  <2> QED
    BY <2>1, SameData, PartingTurns
<1>2. CASE suspended' = TRUE /\ Goto(c, "rewrite")
    <2> DEFINE k == [call[c] EXCEPT !.pc = "rewrite"]
    <2>1. Holds(c) /\ call[c].pc = "suspend" /\ Becomes(c, k) /\ queue' = queue
      BY <1>2 DEF Suspend, Goto, At, Becomes
    <2>2. k \in CallRecords
      <3>1. call[c] \in CallRecords /\ "rewrite" \in Pcs
        BY <1>2, KnownOf DEF DataOK, Pcs
      <3> QED
        BY <3>1 DEF CallRecords
    <2>3. /\ k.pc = "rewrite"
           /\ k.kind = call[c].kind /\ k.approved = call[c].approved
           /\ k.alert = call[c].alert /\ k.stamp = call[c].stamp /\ k.want = call[c].want
           /\ k.files = call[c].files /\ k.state = call[c].state
      BY KnownOf DEF CallRecords
    <2> HIDE DEF k
    <2>4. /\ UNCHANGED <<configured, loc, place, database, shown, counters>>
          /\ suspended' \in BOOLEAN
      BY <1>2 DEF Suspend
    <2>5. /\ call'[c] = k /\ stamp' = stamp /\ alert' = alert /\ place' = place /\ loc' = loc
         /\ DataOK' /\ Leads(alert)' /\ (PathsMatch(stamp) => PathsMatch(stamp)')
      BY <2>1, <2>4, KnownOf DEF Becomes, database, counters, Records, DataOK, Leads, PathsMatch
    <2>6. CallInv(c)'
      <3>1. KindInv(c)'
        BY <1>2, <2>1, <2>3, <2>5, KnownOf DEF CallInv, KindInv, Checking, Deciding
      <3>2. CheckInv(c)'
        BY <1>2, <2>1, <2>3, <2>5, KnownOf DEF CallInv, CheckInv, Checking, KindInv
      <3>3. ApprovedInv(c)'
        BY <1>2, <2>1, <2>3, <2>5, KnownOf
           DEF CallInv, KindInv, ApprovedInv, Recovering, Deciding, Leads
      <3>4. RemoteInv(c)'
        BY <1>2, <2>1, <2>3, <2>5, KnownOf DEF CallInv, KindInv, RemoteInv, Recovering, Deciding
      <3>5. MovedInv(c)'
        <4>1. MovedInv(c) /\ Recovering(c)
          BY <1>2, <2>1, KnownOf DEF CallInv, KindInv, Recovering, Deciding
        <4> QED
          BY <1>2, <2>1, <2>3, <2>5, <4>1 DEF MovedInv, Here, Recovering, Deciding, Moving
      <3> QED
        BY <3>1, <3>2, <3>3, <3>4, <3>5 DEF CallInv
    <2> QED
      BY <2>1, <2>2, <2>3, <2>5, <2>6, KnownOf, GoingTurns DEF Out
<1> QED
  BY <1>1, <1>2 DEF Suspend

\* It points the config back to the location the drift came from.
LEMMA RewriteTurns ==
    ASSUME FailsafeInv, NEW c \in Calls, Rewrite(c)
    PROVE  Turned(c)
<1>1. /\ Holds(c) /\ call[c].pc = "rewrite" /\ Parting(c)
      /\ UNCHANGED <<process, place, database, shown, counters>>
      /\ configured' \in {configured, call[c].alert.previous}
  BY DEF Rewrite, At, Parting
<1>2. configured' \in Locations
  <2>1. call[c].alert \in Alerts /\ call[c].alert.previous # None
    BY <1>1, KnownOf DEF CallInv, KindInv, ApprovedInv, Recovering, Deciding, CallRecords
  <2> QED
    BY <1>1, <2>1, KnownOf DEF DataOK, Alerts
<1>3. DataOK' /\ loc' = loc /\ Leads(alert)' /\ (PathsMatch(stamp) => PathsMatch(stamp)')
  BY <1>1, <1>2, KnownOf DEF DataOK, process, database, counters, Leads, PathsMatch
<1> QED
  BY <1>1, <1>3, PartingTurns

\* A migration notes whether the previous store has files.
LEMMA ExamineTurns ==
    ASSUME FailsafeInv, NEW c \in Calls, Examine(c)
    PROVE  Turned(c)
<1> DEFINE a == call[c].alert
           from == place[IF a.previous = None THEN loc ELSE a.previous].content
           refused == (Here.repo /\ ~(Readable /\ Here.url = a.url)) \/ Conflicts(from)
<1>1. CASE refused
  <2>1. /\ Holds(c) /\ Parting(c)
        /\ UNCHANGED <<configured, process, place, database, shown, counters>>
    BY <1>1 DEF Examine, At, Parting
  <2> QED
    BY <2>1, SameData, PartingTurns
<1>3. /\ a # None /\ a \in Alerts /\ a.current = loc /\ Leads(a) /\ a.kind = "drift"
      /\ call[c].approved = a
      /\ call[c].pc = "examine" /\ Holds(c) /\ call[c].kind = "migrate"
  BY KnownOf DEF Examine, At, CallInv, KindInv, ApprovedInv, Recovering, Deciding, CallRecords
<1>4. CASE ~refused /\ a.previous = None
  <2>9. /\ call' = [call EXCEPT ![c].files = from # None, ![c].pc = "prepare"]
        /\ UNCHANGED <<configured, process, place, database, shown, counters>>
        /\ queue' = queue
    BY <1>4 DEF Examine
  <2> DEFINE moved == from # None
  <2>8. call' = [call EXCEPT ![c].files = moved, ![c].pc = "prepare"] /\ moved \in BOOLEAN
    BY <2>9
  <2>7. a.previous # None => moved = (place[a.previous].content # None)
    OBVIOUS
  <2> HIDE DEF moved, from, refused
    <2> DEFINE k == [call[c] EXCEPT !.files = moved, !.pc = "prepare"]
    <2>1. Holds(c) /\ call[c].pc = "examine" /\ Becomes(c, k) /\ queue' = queue
      BY <1>3, <1>4, <2>8, <2>9, <2>7 DEF Examine, At, Becomes
    <2>2. k \in CallRecords
      <3>1. call[c] \in CallRecords /\ "prepare" \in Pcs /\ moved \in BOOLEAN
        BY <1>3, <1>4, <2>8, <2>9, <2>7, KnownOf DEF DataOK, Pcs
      <3> QED
        BY <3>1 DEF CallRecords
    <2>3. /\ k.pc = "prepare" /\ k.files = moved
           /\ k.kind = call[c].kind /\ k.approved = call[c].approved
           /\ k.alert = call[c].alert /\ k.stamp = call[c].stamp /\ k.want = call[c].want
           /\ k.state = call[c].state
      BY KnownOf DEF CallRecords
    <2> HIDE DEF k
    <2>4. UNCHANGED <<configured, process, place, database, shown, counters>>
      BY <1>3, <1>4, <2>8, <2>9, <2>7 DEF Examine
    <2>5. /\ call'[c] = k /\ stamp' = stamp /\ alert' = alert /\ place' = place /\ loc' = loc
         /\ DataOK' /\ Leads(alert)' /\ (PathsMatch(stamp) => PathsMatch(stamp)')
      BY <2>1, <2>4, KnownOf, SameData DEF Becomes, database, process, Records
    <2>6. CallInv(c)'
      <3>1. KindInv(c)'
        BY <1>3, <1>4, <2>8, <2>9, <2>7, <2>1, <2>3, <2>5, KnownOf
           DEF CallInv, KindInv, Checking, Deciding
      <3>2. CheckInv(c)'
        BY <1>3, <1>4, <2>8, <2>9, <2>7, <2>1, <2>3, <2>5, KnownOf
           DEF CallInv, CheckInv, Checking, KindInv
      <3>3. ApprovedInv(c)'
        BY <1>3, <1>4, <2>8, <2>9, <2>7, <2>1, <2>3, <2>5, KnownOf
           DEF CallInv, KindInv, ApprovedInv, Recovering, Deciding, Leads
      <3>4. RemoteInv(c)'
        BY <1>3, <1>4, <2>8, <2>9, <2>7, <2>1, <2>3, <2>5, KnownOf
           DEF CallInv, KindInv, RemoteInv, Recovering, Deciding
      <3>5. MovedInv(c)'
        <4>1. MovedInv(c) /\ Recovering(c)
          BY <1>3, <1>4, <2>8, <2>9, <2>7, <2>1, KnownOf
             DEF CallInv, KindInv, Recovering, Deciding
        <4> QED
          BY <1>3, <1>4, <2>8, <2>9, <2>7, <2>1, <2>3, <2>5, <4>1
             DEF MovedInv, Here, Recovering, Deciding, Moving
      <3> QED
        BY <3>1, <3>2, <3>3, <3>4, <3>5 DEF CallInv
    <2> QED
      BY <2>1, <2>2, <2>3, <2>5, <2>6, KnownOf, GoingTurns DEF Out
<1>5. CASE ~refused /\ a.previous # None
  <2>9. /\ call' = [call EXCEPT ![c].files = from # None, ![c].pc = "copy"]
        /\ UNCHANGED <<configured, process, place, database, shown, counters>>
        /\ queue' = queue
    BY <1>5 DEF Examine
  <2> DEFINE moved == from # None
  <2>8. call' = [call EXCEPT ![c].files = moved, ![c].pc = "copy"] /\ moved \in BOOLEAN
    BY <2>9
  <2>7. a.previous # None => moved = (place[a.previous].content # None)
    OBVIOUS
  <2> HIDE DEF moved, from, refused
    <2> DEFINE k == [call[c] EXCEPT !.files = moved, !.pc = "copy"]
    <2>1. Holds(c) /\ call[c].pc = "examine" /\ Becomes(c, k) /\ queue' = queue
      BY <1>3, <1>5, <2>8, <2>9, <2>7 DEF Examine, At, Becomes
    <2>2. k \in CallRecords
      <3>1. call[c] \in CallRecords /\ "copy" \in Pcs /\ moved \in BOOLEAN
        BY <1>3, <1>5, <2>8, <2>9, <2>7, KnownOf DEF DataOK, Pcs
      <3> QED
        BY <3>1 DEF CallRecords
    <2>3. /\ k.pc = "copy" /\ k.files = moved
           /\ k.kind = call[c].kind /\ k.approved = call[c].approved
           /\ k.alert = call[c].alert /\ k.stamp = call[c].stamp /\ k.want = call[c].want
           /\ k.state = call[c].state
      BY KnownOf DEF CallRecords
    <2> HIDE DEF k
    <2>4. UNCHANGED <<configured, process, place, database, shown, counters>>
      BY <1>3, <1>5, <2>8, <2>9, <2>7 DEF Examine
    <2>5. /\ call'[c] = k /\ stamp' = stamp /\ alert' = alert /\ place' = place /\ loc' = loc
         /\ DataOK' /\ Leads(alert)' /\ (PathsMatch(stamp) => PathsMatch(stamp)')
      BY <2>1, <2>4, KnownOf, SameData DEF Becomes, database, process, Records
    <2>6. CallInv(c)'
      <3>1. KindInv(c)'
        BY <1>3, <1>5, <2>8, <2>9, <2>7, <2>1, <2>3, <2>5, KnownOf
           DEF CallInv, KindInv, Checking, Deciding
      <3>2. CheckInv(c)'
        BY <1>3, <1>5, <2>8, <2>9, <2>7, <2>1, <2>3, <2>5, KnownOf
           DEF CallInv, CheckInv, Checking, KindInv
      <3>3. ApprovedInv(c)'
        BY <1>3, <1>5, <2>8, <2>9, <2>7, <2>1, <2>3, <2>5, KnownOf
           DEF CallInv, KindInv, ApprovedInv, Recovering, Deciding, Leads
      <3>4. RemoteInv(c)'
        BY <1>3, <1>5, <2>8, <2>9, <2>7, <2>1, <2>3, <2>5, KnownOf
           DEF CallInv, KindInv, RemoteInv, Recovering, Deciding
      <3>5. MovedInv(c)'
        <4>1. MovedInv(c) /\ Recovering(c)
          BY <1>3, <1>5, <2>8, <2>9, <2>7, <2>1, KnownOf
             DEF CallInv, KindInv, Recovering, Deciding
        <4> QED
          BY <1>3, <1>5, <2>8, <2>9, <2>7, <2>1, <2>3, <2>5, <4>1
             DEF MovedInv, Here, Recovering, Deciding, Moving
      <3> QED
        BY <3>1, <3>2, <3>3, <3>4, <3>5 DEF CallInv
    <2> QED
      BY <2>1, <2>2, <2>3, <2>5, <2>6, KnownOf, GoingTurns DEF Out
<1> QED
  BY <1>1, <1>4, <1>5

\* A change of the current location.
LEMMA HereMoves ==
    ASSUME FailsafeInv, NEW p \in Places, place' = [place EXCEPT ![loc] = p], loc' = loc
    PROVE  /\ place' \in [Locations -> Places] /\ Here' = p
           /\ \A l \in Locations : l # loc => place'[l] = place[l]
BY DEF FailsafeInv, TypeOK, Here

\* The location a drift comes from is another one.
LEMMA PreviousIsElsewhere ==
    ASSUME FailsafeInv, NEW c \in Calls, Recovering(c), call[c].alert.kind = "drift",
           call[c].alert.previous # None
    PROVE  call[c].alert.previous \in Locations /\ call[c].alert.previous # loc
BY KnownOf DEF CallInv, ApprovedInv, Leads, CallRecords, Alerts

\* It brings them to the current location, which is another one.
LEMMA CopyTurns ==
    ASSUME FailsafeInv, NEW c \in Calls, Copy(c)
    PROVE  Turned(c)
<1> DEFINE from == place[call[c].alert.previous].content
<1>1. CASE call[c].files /\ (from = None \/ Conflicts(from))
  <2>1. /\ Holds(c) /\ Parting(c)
        /\ UNCHANGED <<configured, process, place, database, shown, counters>>
    BY <1>1 DEF Copy, At, Parting
  <2> QED
    BY <2>1, SameData, PartingTurns
<1>3. /\ call[c].kind = "migrate" /\ Recovering(c) /\ call[c].pc = "copy"
      /\ call[c].alert.kind = "drift" /\ call[c].alert.previous # None
      /\ call[c].files <=> from # None
      /\ from \in Versions \cup {None} /\ call[c].files \in BOOLEAN
  <2>1. call[c].pc = "copy" /\ Recovering(c) /\ call[c].kind = "migrate"
    BY KnownOf DEF Copy, At, Recovering, Deciding, CallInv, KindInv
  <2>2. call[c].alert.kind = "drift" /\ call[c].alert.previous # None
    BY <2>1, KnownOf DEF CallInv, ApprovedInv
  <2>3. call[c].files <=> from # None
    BY <2>1, <2>2, KnownOf DEF CallInv, MovedInv
  <2>4. from \in Versions \cup {None} /\ call[c].files \in BOOLEAN
    BY <2>1, <2>2, KnownOf, PreviousIsElsewhere DEF DataOK, Places, CallRecords
  <2> QED
    BY <2>1, <2>2, <2>3, <2>4
<1>2. CASE ~(call[c].files /\ (from = None \/ Conflicts(from)))
  <2>9. /\ Goto(c, "prepare") /\ UNCHANGED <<configured, process, database, shown, counters>>
        /\ loc' = loc
        /\ place' = IF call[c].files THEN [place EXCEPT ![loc].content = from] ELSE place
    BY <1>2 DEF Copy, process
  <2> DEFINE q == IF call[c].files THEN [Here EXCEPT !.content = from] ELSE Here
  <2>8. /\ q \in Places /\ place' = [place EXCEPT ![loc] = q]
        /\ call[c].files => q.content = from
    <3>1. Here \in Places /\ place \in [Locations -> Places] /\ loc \in Locations
      BY KnownOf, PlacesTyped DEF DataOK
    <3>2. CASE call[c].files
      BY <1>3, <2>9, <3>1, <3>2 DEF Places, Here
    <3>3. CASE ~call[c].files
      BY <2>9, <3>1, <3>3 DEF Here
    <3> QED
      BY <3>2, <3>3
  <2> HIDE DEF q
    <2> DEFINE k == [call[c] EXCEPT !.pc = "prepare"]
    <2>1. Holds(c) /\ call[c].pc = "copy" /\ Becomes(c, k) /\ queue' = queue
      BY <1>3, <2>8, <2>9 DEF Copy, Goto, At, Becomes
    <2>2. k \in CallRecords
      <3>1. call[c] \in CallRecords /\ "prepare" \in Pcs
        BY <1>3, <2>8, <2>9, KnownOf DEF DataOK, Pcs
      <3> QED
        BY <3>1 DEF CallRecords
    <2>3. /\ k.pc = "prepare"
           /\ k.kind = call[c].kind /\ k.approved = call[c].approved
           /\ k.alert = call[c].alert /\ k.stamp = call[c].stamp /\ k.want = call[c].want
           /\ k.files = call[c].files /\ k.state = call[c].state
      BY KnownOf DEF CallRecords
    <2> HIDE DEF k
    <2>4. /\ UNCHANGED <<configured, process, database, shown, counters>>
          /\ place' \in [Locations -> Places]
      BY <1>3, <2>8, <2>9, HereMoves DEF Copy
    <2>5. /\ call'[c] = k /\ stamp' = stamp /\ alert' = alert /\ loc' = loc
         /\ DataOK' /\ Leads(alert)' /\ (PathsMatch(stamp) => PathsMatch(stamp)')
      BY <2>1, <2>4, KnownOf, PlaceData DEF Becomes, database, process, Records
    <2>6. CallInv(c)'
      <3>1. KindInv(c)'
        BY <1>3, <2>8, <2>9, <2>1, <2>3, <2>5, KnownOf DEF CallInv, KindInv, Checking, Deciding
      <3>2. CheckInv(c)'
        BY <1>3, <2>8, <2>9, <2>1, <2>3, <2>5, KnownOf DEF CallInv, CheckInv, Checking, KindInv
      <3>3. ApprovedInv(c)'
        BY <1>3, <2>8, <2>9, <2>1, <2>3, <2>5, KnownOf
           DEF CallInv, KindInv, ApprovedInv, Recovering, Deciding, Leads
      <3>4. RemoteInv(c)'
        BY <1>3, <2>8, <2>9, <2>1, <2>3, <2>5, KnownOf
           DEF CallInv, KindInv, RemoteInv, Recovering, Deciding
      <3>5. MovedInv(c)'
        <4>1. call[c].alert.kind = "drift" /\ call[c].alert.previous # None =>
                    place'[call[c].alert.previous] = place[call[c].alert.previous]
          BY <1>3, <2>8, <2>9, KnownOf, HereMoves, PreviousIsElsewhere
             DEF CallInv, KindInv, Recovering, Deciding
        <4>2. MovedInv(c) /\ Recovering(c) /\ Here' = q
          BY <1>3, <2>8, <2>9, KnownOf, HereMoves DEF CallInv, KindInv, Recovering, Deciding
        <4> QED
          BY <4>1, <4>2, <1>3, <2>8, <2>9, <2>1, <2>3, <2>5
             DEF MovedInv, Recovering, Deciding, Moving
      <3> QED
        BY <3>1, <3>2, <3>3, <3>4, <3>5 DEF CallInv
    <2> QED
      BY <2>1, <2>2, <2>3, <2>5, <2>6, KnownOf, GoingTurns DEF Out
<1> QED
  BY <1>1, <1>2

\* The repository is made where there is none, files stay what they are.
LEMMA PrepareTurns ==
    ASSUME FailsafeInv, NEW c \in Calls, Prepare(c)
    PROVE  Turned(c)
<1>1. CASE ~Current(c)
  <2>1. /\ Holds(c) /\ Parting(c)
        /\ UNCHANGED <<configured, process, place, database, shown, counters>>
    BY <1>1 DEF Prepare, At, Parting
  <2> QED
    BY <2>1, SameData, PartingTurns
<1>2. CASE Current(c)
  <2>9. /\ Goto(c, "before") /\ UNCHANGED <<configured, process, database, shown, counters>>
        /\ loc' = loc /\ call[c].pc = "prepare"
        /\ place' = IF Here.repo THEN place ELSE [place EXCEPT ![loc] = Initialized(@)]
    BY <1>2 DEF Prepare, At, process
  <2> DEFINE q == IF Here.repo THEN Here ELSE Initialized(Here)
  <2>8. /\ q \in Places /\ place' = [place EXCEPT ![loc] = q]
        /\ q.content = Here.content
    <3>1. Here \in Places /\ place \in [Locations -> Places] /\ loc \in Locations
      BY KnownOf, PlacesTyped DEF DataOK
    <3> QED
      BY <2>9, <3>1, InitializedTyped DEF Here
  <2> HIDE DEF q
    <2> DEFINE k == [call[c] EXCEPT !.pc = "before"]
    <2>1. Holds(c) /\ call[c].pc = "prepare" /\ Becomes(c, k) /\ queue' = queue
      BY <2>8, <2>9, <1>2 DEF Prepare, Goto, At, Becomes
    <2>2. k \in CallRecords
      <3>1. call[c] \in CallRecords /\ "before" \in Pcs
        BY <2>8, <2>9, <1>2, KnownOf DEF DataOK, Pcs
      <3> QED
        BY <3>1 DEF CallRecords
    <2>3. /\ k.pc = "before"
           /\ k.kind = call[c].kind /\ k.approved = call[c].approved
           /\ k.alert = call[c].alert /\ k.stamp = call[c].stamp /\ k.want = call[c].want
           /\ k.files = call[c].files /\ k.state = call[c].state
      BY KnownOf DEF CallRecords
    <2> HIDE DEF k
    <2>4. /\ UNCHANGED <<configured, process, database, shown, counters>>
          /\ place' \in [Locations -> Places]
      BY <2>8, <2>9, <1>2, HereMoves DEF Prepare
    <2>5. /\ call'[c] = k /\ stamp' = stamp /\ alert' = alert /\ loc' = loc
         /\ DataOK' /\ Leads(alert)' /\ (PathsMatch(stamp) => PathsMatch(stamp)')
      BY <2>1, <2>4, KnownOf, PlaceData DEF Becomes, database, process, Records
    <2>6. CallInv(c)'
      <3>1. KindInv(c)'
        BY <2>8, <2>9, <1>2, <2>1, <2>3, <2>5, KnownOf DEF CallInv, KindInv, Checking, Deciding
      <3>2. CheckInv(c)'
        BY <2>8, <2>9, <1>2, <2>1, <2>3, <2>5, KnownOf DEF CallInv, CheckInv, Checking, KindInv
      <3>3. ApprovedInv(c)'
        BY <2>8, <2>9, <1>2, <2>1, <2>3, <2>5, KnownOf
           DEF CallInv, KindInv, ApprovedInv, Recovering, Deciding, Leads
      <3>4. RemoteInv(c)'
        BY <2>8, <2>9, <1>2, <2>1, <2>3, <2>5, KnownOf
           DEF CallInv, KindInv, RemoteInv, Recovering, Deciding
      <3>5. MovedInv(c)'
        <4>1. call[c].alert.kind = "drift" /\ call[c].alert.previous # None =>
                    place'[call[c].alert.previous] = place[call[c].alert.previous]
          BY <2>8, <2>9, KnownOf, HereMoves, PreviousIsElsewhere
             DEF CallInv, KindInv, Recovering, Deciding
        <4>2. MovedInv(c) /\ Recovering(c) /\ Here' = q
          BY <2>8, <2>9, KnownOf, HereMoves DEF CallInv, KindInv, Recovering, Deciding
        <4> QED
          BY <4>1, <4>2, <2>8, <2>9, <2>1, <2>3, <2>5 DEF MovedInv, Recovering, Deciding, Moving
      <3> QED
        BY <3>1, <3>2, <3>3, <3>4, <3>5 DEF CallInv
    <2> QED
      BY <2>1, <2>2, <2>3, <2>5, <2>6, KnownOf, GoingTurns DEF Out
<1> QED
  BY <1>1, <1>2

\* The state of a repository is one, with the remote of the location.
LEMMA StateTyped ==
    ASSUME DataOK
    PROVE  State \in States /\ State.url = Here.url
BY PlacesTyped DEF State, States, Places

\* The state from before the push has the remote that was approved ...
LEMMA BeforeTurns ==
    ASSUME FailsafeInv, NEW c \in Calls, Before(c)
    PROVE  Turned(c)
<1>1. CASE ~(Readable /\ Here.url = call[c].alert.url)
  <2>1. /\ Holds(c) /\ Parting(c)
        /\ UNCHANGED <<configured, process, place, database, shown, counters>>
    BY <1>1 DEF Before, At, Parting
  <2> QED
    BY <2>1, SameData, PartingTurns
<1>2. CASE Readable /\ Here.url = call[c].alert.url
  <2>9. /\ call' = [call EXCEPT ![c].state = State, ![c].pc = "stage"] /\ queue' = queue
        /\ call[c].pc = "before" /\ Holds(c)
        /\ UNCHANGED <<configured, process, place, database, shown, counters>>
    BY <1>2 DEF Before, At
  <2>8. State \in States /\ State # None /\ State.url = Here.url
    BY KnownOf, StateTyped, NoneAssumption
    <2> DEFINE k == [call[c] EXCEPT !.state = State, !.pc = "stage"]
    <2>1. Holds(c) /\ call[c].pc = "before" /\ Becomes(c, k) /\ queue' = queue
      BY <1>2, <2>8, <2>9 DEF Before, At, Becomes
    <2>2. k \in CallRecords
      <3>1. call[c] \in CallRecords /\ "stage" \in Pcs /\ State \in States
        BY <1>2, <2>8, <2>9, KnownOf DEF DataOK, Pcs
      <3> QED
        BY <3>1 DEF CallRecords
    <2>3. /\ k.pc = "stage" /\ k.state = State
           /\ k.kind = call[c].kind /\ k.approved = call[c].approved
           /\ k.alert = call[c].alert /\ k.stamp = call[c].stamp /\ k.want = call[c].want
           /\ k.files = call[c].files
      BY KnownOf DEF CallRecords
    <2> HIDE DEF k
    <2>4. UNCHANGED <<configured, process, place, database, shown, counters>>
      BY <1>2, <2>8, <2>9 DEF Before
    <2>5. /\ call'[c] = k /\ stamp' = stamp /\ alert' = alert /\ place' = place /\ loc' = loc
         /\ DataOK' /\ Leads(alert)' /\ (PathsMatch(stamp) => PathsMatch(stamp)')
      BY <2>1, <2>4, KnownOf, SameData DEF Becomes, database, process, Records
    <2>6. CallInv(c)'
      <3>1. KindInv(c)'
        BY <1>2, <2>8, <2>9, <2>1, <2>3, <2>5, KnownOf DEF CallInv, KindInv, Checking, Deciding
      <3>2. CheckInv(c)'
        BY <1>2, <2>8, <2>9, <2>1, <2>3, <2>5, KnownOf DEF CallInv, CheckInv, Checking, KindInv
      <3>3. ApprovedInv(c)'
        BY <1>2, <2>8, <2>9, <2>1, <2>3, <2>5, KnownOf
           DEF CallInv, KindInv, ApprovedInv, Recovering, Deciding, Leads
      <3>4. RemoteInv(c)'
        BY <1>2, <2>8, <2>9, <2>1, <2>3, <2>5, KnownOf
           DEF CallInv, KindInv, RemoteInv, Recovering, Deciding
      <3>5. MovedInv(c)'
        <4>1. MovedInv(c) /\ Recovering(c)
          BY <1>2, <2>8, <2>9, <2>1, KnownOf DEF CallInv, KindInv, Recovering, Deciding
        <4> QED
          BY <1>2, <2>8, <2>9, <2>1, <2>3, <2>5, <4>1
             DEF MovedInv, Here, Recovering, Deciding, Moving
      <3> QED
        BY <3>1, <3>2, <3>3, <3>4, <3>5 DEF CallInv
    <2> QED
      BY <2>1, <2>2, <2>3, <2>5, <2>6, KnownOf, GoingTurns DEF Out
<1> QED
  BY <1>1, <1>2

\* ... and so has the one from after the commit.
LEMMA SubmittedTurns ==
    ASSUME FailsafeInv, NEW c \in Calls, Submitted(c)
    PROVE  Turned(c)
<1>1. CASE ~(Readable /\ Here.url = call[c].state.url)
  <2>1. /\ Holds(c) /\ Parting(c)
        /\ UNCHANGED <<configured, process, place, database, shown, counters>>
    BY <1>1 DEF Submitted, At, Parting
  <2> QED
    BY <2>1, SameData, PartingTurns
<1>2. CASE Readable /\ Here.url = call[c].state.url
  <2>9. /\ call' = [call EXCEPT ![c].state = State, ![c].pc = "push"] /\ queue' = queue
        /\ call[c].pc = "submitted" /\ Holds(c)
        /\ UNCHANGED <<configured, process, place, database, shown, counters>>
    BY <1>2 DEF Submitted, At
  <2>8. State \in States /\ State # None /\ State.url = Here.url
    BY KnownOf, StateTyped, NoneAssumption
    <2> DEFINE k == [call[c] EXCEPT !.state = State, !.pc = "push"]
    <2>1. Holds(c) /\ call[c].pc = "submitted" /\ Becomes(c, k) /\ queue' = queue
      BY <1>2, <2>8, <2>9 DEF Submitted, At, Becomes
    <2>2. k \in CallRecords
      <3>1. call[c] \in CallRecords /\ "push" \in Pcs /\ State \in States
        BY <1>2, <2>8, <2>9, KnownOf DEF DataOK, Pcs
      <3> QED
        BY <3>1 DEF CallRecords
    <2>3. /\ k.pc = "push" /\ k.state = State
           /\ k.kind = call[c].kind /\ k.approved = call[c].approved
           /\ k.alert = call[c].alert /\ k.stamp = call[c].stamp /\ k.want = call[c].want
           /\ k.files = call[c].files
      BY KnownOf DEF CallRecords
    <2> HIDE DEF k
    <2>4. UNCHANGED <<configured, process, place, database, shown, counters>>
      BY <1>2, <2>8, <2>9 DEF Submitted
    <2>5. /\ call'[c] = k /\ stamp' = stamp /\ alert' = alert /\ place' = place /\ loc' = loc
         /\ DataOK' /\ Leads(alert)' /\ (PathsMatch(stamp) => PathsMatch(stamp)')
      BY <2>1, <2>4, KnownOf, SameData DEF Becomes, database, process, Records
    <2>6. CallInv(c)'
      <3>1. KindInv(c)'
        BY <1>2, <2>8, <2>9, <2>1, <2>3, <2>5, KnownOf DEF CallInv, KindInv, Checking, Deciding
      <3>2. CheckInv(c)'
        BY <1>2, <2>8, <2>9, <2>1, <2>3, <2>5, KnownOf DEF CallInv, CheckInv, Checking, KindInv
      <3>3. ApprovedInv(c)'
        BY <1>2, <2>8, <2>9, <2>1, <2>3, <2>5, KnownOf
           DEF CallInv, KindInv, ApprovedInv, Recovering, Deciding, Leads
      <3>4. RemoteInv(c)'
        BY <1>2, <2>8, <2>9, <2>1, <2>3, <2>5, KnownOf
           DEF CallInv, KindInv, RemoteInv, Recovering, Deciding
      <3>5. MovedInv(c)'
        <4>1. MovedInv(c) /\ Recovering(c)
          BY <1>2, <2>8, <2>9, <2>1, KnownOf DEF CallInv, KindInv, Recovering, Deciding
        <4> QED
          BY <1>2, <2>8, <2>9, <2>1, <2>3, <2>5, <4>1
             DEF MovedInv, Here, Recovering, Deciding, Moving
      <3> QED
        BY <3>1, <3>2, <3>3, <3>4, <3>5 DEF CallInv
    <2> QED
      BY <2>1, <2>2, <2>3, <2>5, <2>6, KnownOf, GoingTurns DEF Out
<1> QED
  BY <1>1, <1>2

\* Files are staged as they are in place; without files there is nothing to commit.
LEMMA StageTurns ==
    ASSUME FailsafeInv, NEW c \in Calls, Stage(c)
    PROVE  Turned(c)
<1>1. CASE State # call[c].state \/ (call[c].files /\ NothingToStage)
  <2>1. /\ Holds(c) /\ Parting(c)
        /\ UNCHANGED <<configured, process, place, database, shown, counters>>
    BY <1>1 DEF Stage, At, Parting
  <2> QED
    BY <2>1, SameData, PartingTurns
<1>2. CASE ~(State # call[c].state \/ (call[c].files /\ NothingToStage)) /\ call[c].files
  <2>9. /\ Goto(c, "submit") /\ UNCHANGED <<configured, process, database, shown, counters>>
        /\ loc' = loc /\ call[c].pc = "stage"
        /\ place' = [place EXCEPT ![loc].index = Here.content] /\ call[c].files
    BY <1>2 DEF Stage, At, process
  <2> DEFINE q == [Here EXCEPT !.index = Here.content]
  <2>8. /\ q \in Places /\ place' = [place EXCEPT ![loc] = q]
        /\ q.content = Here.content /\ q.index = Here.content
    <3>1. Here \in Places /\ place \in [Locations -> Places] /\ loc \in Locations
      BY KnownOf, PlacesTyped DEF DataOK
    <3> QED
      BY <2>9, <3>1 DEF Here, Places
  <2> HIDE DEF q
    <2> DEFINE k == [call[c] EXCEPT !.pc = "submit"]
    <2>1. Holds(c) /\ call[c].pc = "stage" /\ Becomes(c, k) /\ queue' = queue
      BY <2>8, <2>9, <1>2 DEF Stage, Goto, At, Becomes
    <2>2. k \in CallRecords
      <3>1. call[c] \in CallRecords /\ "submit" \in Pcs
        BY <2>8, <2>9, <1>2, KnownOf DEF DataOK, Pcs
      <3> QED
        BY <3>1 DEF CallRecords
    <2>3. /\ k.pc = "submit"
           /\ k.kind = call[c].kind /\ k.approved = call[c].approved
           /\ k.alert = call[c].alert /\ k.stamp = call[c].stamp /\ k.want = call[c].want
           /\ k.files = call[c].files /\ k.state = call[c].state
      BY KnownOf DEF CallRecords
    <2> HIDE DEF k
    <2>4. /\ UNCHANGED <<configured, process, database, shown, counters>>
          /\ place' \in [Locations -> Places]
      BY <2>8, <2>9, <1>2, HereMoves DEF Stage
    <2>5. /\ call'[c] = k /\ stamp' = stamp /\ alert' = alert /\ loc' = loc
         /\ DataOK' /\ Leads(alert)' /\ (PathsMatch(stamp) => PathsMatch(stamp)')
      BY <2>1, <2>4, KnownOf, PlaceData DEF Becomes, database, process, Records
    <2>6. CallInv(c)'
      <3>1. KindInv(c)'
        BY <2>8, <2>9, <1>2, <2>1, <2>3, <2>5, KnownOf DEF CallInv, KindInv, Checking, Deciding
      <3>2. CheckInv(c)'
        BY <2>8, <2>9, <1>2, <2>1, <2>3, <2>5, KnownOf DEF CallInv, CheckInv, Checking, KindInv
      <3>3. ApprovedInv(c)'
        BY <2>8, <2>9, <1>2, <2>1, <2>3, <2>5, KnownOf
           DEF CallInv, KindInv, ApprovedInv, Recovering, Deciding, Leads
      <3>4. RemoteInv(c)'
        BY <2>8, <2>9, <1>2, <2>1, <2>3, <2>5, KnownOf
           DEF CallInv, KindInv, RemoteInv, Recovering, Deciding
      <3>5. MovedInv(c)'
        <4>1. call[c].alert.kind = "drift" /\ call[c].alert.previous # None =>
                    place'[call[c].alert.previous] = place[call[c].alert.previous]
          BY <2>8, <2>9, KnownOf, HereMoves, PreviousIsElsewhere
             DEF CallInv, KindInv, Recovering, Deciding
        <4>2. MovedInv(c) /\ Recovering(c) /\ Here' = q
          BY <2>8, <2>9, KnownOf, HereMoves DEF CallInv, KindInv, Recovering, Deciding
        <4>3. /\ call'[c].files /\ call'[c].alert = call[c].alert /\ call[c].files
              /\ call[c].pc = "stage"
          BY <2>1, <2>3, <2>5, <2>9
        <4>4. Here'.content = Here.content /\ Here'.index = Here'.content
          BY <4>2, <2>8
        <4> QED
          BY <4>1, <4>2, <4>3, <4>4, <2>1, <2>3, <2>5 DEF MovedInv, Recovering, Deciding, Moving
      <3> QED
        BY <3>1, <3>2, <3>3, <3>4, <3>5 DEF CallInv
    <2> QED
      BY <2>1, <2>2, <2>3, <2>5, <2>6, KnownOf, GoingTurns DEF Out
<1>3. CASE ~(State # call[c].state \/ (call[c].files /\ NothingToStage)) /\ ~call[c].files
    <2> DEFINE k == [call[c] EXCEPT !.pc = "push"]
    <2>1. Holds(c) /\ call[c].pc = "stage" /\ Becomes(c, k) /\ queue' = queue
      BY <1>3 DEF Stage, Goto, At, Becomes
    <2>2. k \in CallRecords
      <3>1. call[c] \in CallRecords /\ "push" \in Pcs
        BY <1>3, KnownOf DEF DataOK, Pcs
      <3> QED
        BY <3>1 DEF CallRecords
    <2>3. /\ k.pc = "push"
           /\ k.kind = call[c].kind /\ k.approved = call[c].approved
           /\ k.alert = call[c].alert /\ k.stamp = call[c].stamp /\ k.want = call[c].want
           /\ k.files = call[c].files /\ k.state = call[c].state
      BY KnownOf DEF CallRecords
    <2> HIDE DEF k
    <2>4. UNCHANGED <<configured, process, place, database, shown, counters>>
      BY <1>3 DEF Stage
    <2>5. /\ call'[c] = k /\ stamp' = stamp /\ alert' = alert /\ place' = place /\ loc' = loc
         /\ DataOK' /\ Leads(alert)' /\ (PathsMatch(stamp) => PathsMatch(stamp)')
      BY <2>1, <2>4, KnownOf, SameData DEF Becomes, database, process, Records
    <2>6. CallInv(c)'
      <3>1. KindInv(c)'
        BY <1>3, <2>1, <2>3, <2>5, KnownOf DEF CallInv, KindInv, Checking, Deciding
      <3>2. CheckInv(c)'
        BY <1>3, <2>1, <2>3, <2>5, KnownOf DEF CallInv, CheckInv, Checking, KindInv
      <3>3. ApprovedInv(c)'
        BY <1>3, <2>1, <2>3, <2>5, KnownOf
           DEF CallInv, KindInv, ApprovedInv, Recovering, Deciding, Leads
      <3>4. RemoteInv(c)'
        BY <1>3, <2>1, <2>3, <2>5, KnownOf DEF CallInv, KindInv, RemoteInv, Recovering, Deciding
      <3>5. MovedInv(c)'
        <4>1. MovedInv(c) /\ Recovering(c)
          BY <1>3, <2>1, KnownOf DEF CallInv, KindInv, Recovering, Deciding
        <4> QED
          BY <1>3, <2>1, <2>3, <2>5, <4>1 DEF MovedInv, Here, Recovering, Deciding, Moving
      <3> QED
        BY <3>1, <3>2, <3>3, <3>4, <3>5 DEF CallInv
    <2> QED
      BY <2>1, <2>2, <2>3, <2>5, <2>6, KnownOf, GoingTurns DEF Out
<1> QED
  BY <1>1, <1>2, <1>3

\* The commit takes what was staged, or it was committed before.
LEMMA SubmitTurns ==
    ASSUME FailsafeInv, NEW c \in Calls, Submit(c)
    PROVE  Turned(c)
<1>1. CASE State # call[c].state
  <2>1. /\ Holds(c) /\ Parting(c)
        /\ UNCHANGED <<configured, process, place, database, shown, counters>>
    BY <1>1 DEF Submit, At, Parting
  <2> QED
    BY <2>1, SameData, PartingTurns
<1>2. CASE State = call[c].state
  <2>9. /\ Goto(c, "submitted")
        /\ UNCHANGED <<configured, process, database, shown, counters>> /\ loc' = loc
        /\ call[c].pc = "submit"
        /\ place' = IF Here.index = Here.committed THEN place
                     ELSE [place EXCEPT ![loc] = Committed(@)]
    BY <1>2 DEF Submit, At, process
  <2> DEFINE q == IF Here.index = Here.committed THEN Here ELSE Committed(Here)
  <2>8. /\ q \in Places /\ place' = [place EXCEPT ![loc] = q]
        /\ q.content = Here.content /\ (Here.index = Here.content => q.committed = Here.content)
    <3>1. Here \in Places /\ place \in [Locations -> Places] /\ loc \in Locations
      BY KnownOf, PlacesTyped DEF DataOK
    <3> QED
      BY <2>9, <3>1, CommittedTyped DEF Here
  <2> HIDE DEF q
    <2> DEFINE k == [call[c] EXCEPT !.pc = "submitted"]
    <2>1. Holds(c) /\ call[c].pc = "submit" /\ Becomes(c, k) /\ queue' = queue
      BY <2>8, <2>9, <1>2 DEF Submit, Goto, At, Becomes
    <2>2. k \in CallRecords
      <3>1. call[c] \in CallRecords /\ "submitted" \in Pcs
        BY <2>8, <2>9, <1>2, KnownOf DEF DataOK, Pcs
      <3> QED
        BY <3>1 DEF CallRecords
    <2>3. /\ k.pc = "submitted"
           /\ k.kind = call[c].kind /\ k.approved = call[c].approved
           /\ k.alert = call[c].alert /\ k.stamp = call[c].stamp /\ k.want = call[c].want
           /\ k.files = call[c].files /\ k.state = call[c].state
      BY KnownOf DEF CallRecords
    <2> HIDE DEF k
    <2>4. /\ UNCHANGED <<configured, process, database, shown, counters>>
          /\ place' \in [Locations -> Places]
      BY <2>8, <2>9, <1>2, HereMoves DEF Submit
    <2>5. /\ call'[c] = k /\ stamp' = stamp /\ alert' = alert /\ loc' = loc
         /\ DataOK' /\ Leads(alert)' /\ (PathsMatch(stamp) => PathsMatch(stamp)')
      BY <2>1, <2>4, KnownOf, PlaceData DEF Becomes, database, process, Records
    <2>6. CallInv(c)'
      <3>1. KindInv(c)'
        BY <2>8, <2>9, <1>2, <2>1, <2>3, <2>5, KnownOf DEF CallInv, KindInv, Checking, Deciding
      <3>2. CheckInv(c)'
        BY <2>8, <2>9, <1>2, <2>1, <2>3, <2>5, KnownOf DEF CallInv, CheckInv, Checking, KindInv
      <3>3. ApprovedInv(c)'
        BY <2>8, <2>9, <1>2, <2>1, <2>3, <2>5, KnownOf
           DEF CallInv, KindInv, ApprovedInv, Recovering, Deciding, Leads
      <3>4. RemoteInv(c)'
        BY <2>8, <2>9, <1>2, <2>1, <2>3, <2>5, KnownOf
           DEF CallInv, KindInv, RemoteInv, Recovering, Deciding
      <3>5. MovedInv(c)'
        <4>1. call[c].alert.kind = "drift" /\ call[c].alert.previous # None =>
                    place'[call[c].alert.previous] = place[call[c].alert.previous]
          BY <2>8, <2>9, KnownOf, HereMoves, PreviousIsElsewhere
             DEF CallInv, KindInv, Recovering, Deciding
        <4>2. MovedInv(c) /\ Recovering(c) /\ Here' = q
          BY <2>8, <2>9, KnownOf, HereMoves DEF CallInv, KindInv, Recovering, Deciding
        <4> QED
          BY <4>1, <4>2, <2>8, <2>9, <2>1, <2>3, <2>5 DEF MovedInv, Recovering, Deciding, Moving
      <3> QED
        BY <3>1, <3>2, <3>3, <3>4, <3>5 DEF CallInv
    <2> QED
      BY <2>1, <2>2, <2>3, <2>5, <2>6, KnownOf, GoingTurns DEF Out
<1> QED
  BY <1>1, <1>2

\* The retry of a push is no drift, and takes the remote as it is.
LEMMA RetryTurns ==
    ASSUME FailsafeInv, NEW c \in Calls, Retry(c)
    PROVE  Turned(c)
<1>1. CASE ~(Readable)
  <2>1. /\ Holds(c) /\ Parting(c)
        /\ UNCHANGED <<configured, process, place, database, shown, counters>>
    BY <1>1 DEF Retry, At, Parting
  <2> QED
    BY <2>1, SameData, PartingTurns
<1>2. CASE Readable
  <2>9. /\ call' = [call EXCEPT ![c].state = State, ![c].pc = "push"] /\ queue' = queue
        /\ call[c].pc = "retry" /\ Holds(c) /\ call[c].alert.kind = "push"
        /\ UNCHANGED <<configured, process, place, database, shown, counters>>
    BY <1>2, KnownOf DEF Retry, At, CallInv, ApprovedInv, Recovering, Deciding
  <2>8. State \in States /\ State # None /\ State.url = Here.url
    BY KnownOf, StateTyped, NoneAssumption
    <2> DEFINE k == [call[c] EXCEPT !.state = State, !.pc = "push"]
    <2>1. Holds(c) /\ call[c].pc = "retry" /\ Becomes(c, k) /\ queue' = queue
      BY <1>2, <2>9, <2>8, <2>9 DEF Retry, At, Becomes
    <2>2. k \in CallRecords
      <3>1. call[c] \in CallRecords /\ "push" \in Pcs /\ State \in States
        BY <1>2, <2>9, <2>8, <2>9, KnownOf DEF DataOK, Pcs
      <3> QED
        BY <3>1 DEF CallRecords
    <2>3. /\ k.pc = "push" /\ k.state = State
           /\ k.kind = call[c].kind /\ k.approved = call[c].approved
           /\ k.alert = call[c].alert /\ k.stamp = call[c].stamp /\ k.want = call[c].want
           /\ k.files = call[c].files
      BY KnownOf DEF CallRecords
    <2> HIDE DEF k
    <2>4. UNCHANGED <<configured, process, place, database, shown, counters>>
      BY <1>2, <2>9, <2>8, <2>9 DEF Retry
    <2>5. /\ call'[c] = k /\ stamp' = stamp /\ alert' = alert /\ place' = place /\ loc' = loc
         /\ DataOK' /\ Leads(alert)' /\ (PathsMatch(stamp) => PathsMatch(stamp)')
      BY <2>1, <2>4, KnownOf, SameData DEF Becomes, database, process, Records
    <2>6. CallInv(c)'
      <3>1. KindInv(c)'
        BY <1>2, <2>9, <2>8, <2>9, <2>1, <2>3, <2>5, KnownOf
           DEF CallInv, KindInv, Checking, Deciding
      <3>2. CheckInv(c)'
        BY <1>2, <2>9, <2>8, <2>9, <2>1, <2>3, <2>5, KnownOf
           DEF CallInv, CheckInv, Checking, KindInv
      <3>3. ApprovedInv(c)'
        BY <1>2, <2>9, <2>8, <2>9, <2>1, <2>3, <2>5, KnownOf
           DEF CallInv, KindInv, ApprovedInv, Recovering, Deciding, Leads
      <3>4. RemoteInv(c)'
        BY <1>2, <2>9, <2>8, <2>9, <2>1, <2>3, <2>5, KnownOf
           DEF CallInv, KindInv, RemoteInv, Recovering, Deciding
      <3>5. MovedInv(c)'
        <4>1. MovedInv(c) /\ Recovering(c)
          BY <1>2, <2>9, <2>8, <2>9, <2>1, KnownOf DEF CallInv, KindInv, Recovering, Deciding
        <4> QED
          BY <1>2, <2>9, <2>8, <2>9, <2>1, <2>3, <2>5, <4>1
             DEF MovedInv, Here, Recovering, Deciding, Moving
      <3> QED
        BY <3>1, <3>2, <3>3, <3>4, <3>5 DEF CallInv
    <2> QED
      BY <2>1, <2>2, <2>3, <2>5, <2>6, KnownOf, GoingTurns DEF Out
<1> QED
  BY <1>1, <1>2

\* The push of a recovery goes through or raises its alert.
LEMMA RecoveryPushTurns ==
    ASSUME FailsafeInv, NEW c \in Calls, RecoveryPush(c)
    PROVE  Turned(c)
<1>2. /\ call[c].kind = "migrate"
      /\ UNCHANGED <<configured, process, place, database, shown, counters>>
  BY DEF RecoveryPush
<1>3. CASE Goto(c, "after")
    <2> DEFINE k == [call[c] EXCEPT !.pc = "after"]
    <2>1. Holds(c) /\ call[c].pc = "push" /\ Becomes(c, k) /\ queue' = queue
      BY <1>2, <1>3 DEF RecoveryPush, Goto, At, Becomes
    <2>2. k \in CallRecords
      <3>1. call[c] \in CallRecords /\ "after" \in Pcs
        BY <1>2, <1>3, KnownOf DEF DataOK, Pcs
      <3> QED
        BY <3>1 DEF CallRecords
    <2>3. /\ k.pc = "after"
           /\ k.kind = call[c].kind /\ k.approved = call[c].approved
           /\ k.alert = call[c].alert /\ k.stamp = call[c].stamp /\ k.want = call[c].want
           /\ k.files = call[c].files /\ k.state = call[c].state
      BY KnownOf DEF CallRecords
    <2> HIDE DEF k
    <2>4. UNCHANGED <<configured, process, place, database, shown, counters>>
      BY <1>2, <1>3 DEF RecoveryPush
    <2>5. /\ call'[c] = k /\ stamp' = stamp /\ alert' = alert /\ place' = place /\ loc' = loc
         /\ DataOK' /\ Leads(alert)' /\ (PathsMatch(stamp) => PathsMatch(stamp)')
      BY <2>1, <2>4, KnownOf, SameData DEF Becomes, database, process, Records
    <2>6. CallInv(c)'
      <3>1. KindInv(c)'
        BY <1>2, <1>3, <2>1, <2>3, <2>5, KnownOf DEF CallInv, KindInv, Checking, Deciding
      <3>2. CheckInv(c)'
        BY <1>2, <1>3, <2>1, <2>3, <2>5, KnownOf DEF CallInv, CheckInv, Checking, KindInv
      <3>3. ApprovedInv(c)'
        BY <1>2, <1>3, <2>1, <2>3, <2>5, KnownOf
           DEF CallInv, KindInv, ApprovedInv, Recovering, Deciding, Leads
      <3>4. RemoteInv(c)'
        BY <1>2, <1>3, <2>1, <2>3, <2>5, KnownOf
           DEF CallInv, KindInv, RemoteInv, Recovering, Deciding
      <3>5. MovedInv(c)'
        <4>1. MovedInv(c) /\ Recovering(c)
          BY <1>2, <1>3, <2>1, KnownOf DEF CallInv, KindInv, Recovering, Deciding
        <4> QED
          BY <1>2, <1>3, <2>1, <2>3, <2>5, <4>1 DEF MovedInv, Here, Recovering, Deciding, Moving
      <3> QED
        BY <3>1, <3>2, <3>3, <3>4, <3>5 DEF CallInv
    <2> QED
      BY <2>1, <2>2, <2>3, <2>5, <2>6, KnownOf, GoingTurns DEF Out
<1>4. CASE Nest(c, "raise", [call[c] EXCEPT !.want = PushFailure])
  <2> DEFINE a == Alert("push", None, None)
  <2>8. a \in Alerts /\ a # None /\ Leads(a)
    BY AlertsAreTyped DEF Errors
  <2>9. call' = [call EXCEPT ![c] = [[call[c] EXCEPT !.want = a] EXCEPT !.pc = "raise"]]
        /\ queue' = queue /\ Holds(c)
    BY <1>4 DEF RecoveryPush, Nest, At, PushFailure
  <2> HIDE DEF a
    <2> DEFINE k == [call[c] EXCEPT !.want = a, !.pc = "raise"]
    <2>1. Holds(c) /\ call[c].pc = "push" /\ Becomes(c, k) /\ queue' = queue
      BY <1>2, <1>4, <2>8, <2>9 DEF RecoveryPush, At, Becomes
    <2>2. k \in CallRecords
      <3>1. call[c] \in CallRecords /\ "raise" \in Pcs /\ a \in Alerts
        BY <1>2, <1>4, <2>8, <2>9, KnownOf DEF DataOK, Pcs
      <3> QED
        BY <3>1 DEF CallRecords
    <2>3. /\ k.pc = "raise" /\ k.want = a
           /\ k.kind = call[c].kind /\ k.approved = call[c].approved
           /\ k.alert = call[c].alert /\ k.stamp = call[c].stamp /\ k.files = call[c].files
           /\ k.state = call[c].state
      BY KnownOf DEF CallRecords
    <2> HIDE DEF k
    <2>4. UNCHANGED <<configured, process, place, database, shown, counters>>
      BY <1>2, <1>4, <2>8, <2>9 DEF RecoveryPush
    <2>5. /\ call'[c] = k /\ stamp' = stamp /\ alert' = alert /\ place' = place /\ loc' = loc
         /\ DataOK' /\ Leads(alert)' /\ (PathsMatch(stamp) => PathsMatch(stamp)')
      BY <2>1, <2>4, KnownOf, SameData DEF Becomes, database, process, Records
    <2>6. CallInv(c)'
      <3>1. KindInv(c)'
        BY <1>2, <1>4, <2>8, <2>9, <2>1, <2>3, <2>5, KnownOf
           DEF CallInv, KindInv, Checking, Deciding
      <3>2. CheckInv(c)'
        BY <1>2, <1>4, <2>8, <2>9, <2>1, <2>3, <2>5, KnownOf
           DEF CallInv, CheckInv, Checking, KindInv
      <3>3. ~Recovering(c)'
        BY <1>2, <1>4, <2>8, <2>9, <2>1, <2>3, <2>5, KnownOf
           DEF Recovering, Deciding, CallInv, KindInv
      <3> QED
        BY <1>2, <1>4, <2>8, <2>9, <2>1, <2>3, <2>5, <3>1, <3>2, <3>3, CheckingIsSimple
           DEF Recovering
    <2>7. Leads(k.want)
      BY <2>8, <2>3
    <2> QED
      BY <2>1, <2>2, <2>3, <2>5, <2>6, <2>7, KnownOf, GoingTurns DEF Out
<1> QED
  BY <1>3, <1>4 DEF RecoveryPush

\* What has changed during the push ends the recovery.
LEMMA AfterTurns ==
    ASSUME FailsafeInv, NEW c \in Calls, After(c)
    PROVE  Turned(c)
<1>1. CASE State # call[c].state
  <2>1. /\ Holds(c) /\ Parting(c)
        /\ UNCHANGED <<configured, process, place, database, shown, counters>>
    BY <1>1 DEF After, At, Parting
  <2> QED
    BY <2>1, SameData, PartingTurns
<1>2. CASE State = call[c].state
    <2> DEFINE k == [call[c] EXCEPT !.pc = "accept"]
    <2>1. Holds(c) /\ call[c].pc = "after" /\ Becomes(c, k) /\ queue' = queue
      BY <1>2 DEF After, Goto, At, Becomes
    <2>2. k \in CallRecords
      <3>1. call[c] \in CallRecords /\ "accept" \in Pcs
        BY <1>2, KnownOf DEF DataOK, Pcs
      <3> QED
        BY <3>1 DEF CallRecords
    <2>3. /\ k.pc = "accept"
           /\ k.kind = call[c].kind /\ k.approved = call[c].approved
           /\ k.alert = call[c].alert /\ k.stamp = call[c].stamp /\ k.want = call[c].want
           /\ k.files = call[c].files /\ k.state = call[c].state
      BY KnownOf DEF CallRecords
    <2> HIDE DEF k
    <2>4. UNCHANGED <<configured, process, place, database, shown, counters>>
      BY <1>2 DEF After
    <2>5. /\ call'[c] = k /\ stamp' = stamp /\ alert' = alert /\ place' = place /\ loc' = loc
         /\ DataOK' /\ Leads(alert)' /\ (PathsMatch(stamp) => PathsMatch(stamp)')
      BY <2>1, <2>4, KnownOf, SameData DEF Becomes, database, process, Records
    <2>6. CallInv(c)'
      <3>1. KindInv(c)'
        BY <1>2, <2>1, <2>3, <2>5, KnownOf DEF CallInv, KindInv, Checking, Deciding
      <3>2. CheckInv(c)'
        BY <1>2, <2>1, <2>3, <2>5, KnownOf DEF CallInv, CheckInv, Checking, KindInv
      <3>3. ApprovedInv(c)'
        BY <1>2, <2>1, <2>3, <2>5, KnownOf
           DEF CallInv, KindInv, ApprovedInv, Recovering, Deciding, Leads
      <3>4. RemoteInv(c)'
        BY <1>2, <2>1, <2>3, <2>5, KnownOf DEF CallInv, KindInv, RemoteInv, Recovering, Deciding
      <3>5. MovedInv(c)'
        <4>1. MovedInv(c) /\ Recovering(c)
          BY <1>2, <2>1, KnownOf DEF CallInv, KindInv, Recovering, Deciding
        <4> QED
          BY <1>2, <2>1, <2>3, <2>5, <4>1 DEF MovedInv, Here, Recovering, Deciding, Moving
      <3> QED
        BY <3>1, <3>2, <3>3, <3>4, <3>5 DEF CallInv
    <2> QED
      BY <2>1, <2>2, <2>3, <2>5, <2>6, KnownOf, GoingTurns DEF Out
<1> QED
  BY <1>1, <1>2

\* A stamp that is accepted names the location of the process.
LEMMA AcceptTurns ==
    ASSUME FailsafeInv, NEW c \in Calls, Accept(c)
    PROVE  Turned(c)
<1>1. /\ Holds(c) /\ call[c].pc = "accept" /\ Parting(c)
      /\ UNCHANGED <<configured, process, place, row, made, shown, counters>>
      /\ \/ UNCHANGED <<stamp, alert>>
         \/ stamp' = [location |-> loc, url |-> call[c].state.url] /\ alert' = None
  BY DEF Accept, At, Parting
<1>2. call[c].state.url \in Remotes \cup {None}
  BY <1>1, KnownOf DEF CallInv, RemoteInv, CallRecords, States
<1>3. CASE UNCHANGED <<stamp, alert>>
  <2>1. /\ DataOK' /\ loc' = loc /\ Leads(alert)'
        /\ PathsMatch(stamp) => PathsMatch(stamp)'
    BY <1>1, <1>3, KnownOf DEF DataOK, process, counters, Leads, PathsMatch
  <2> QED
    BY <1>1, <2>1, PartingTurns
<1>4. CASE stamp' = [location |-> loc, url |-> call[c].state.url] /\ alert' = None
  <2>1. stamp' \in Stamps /\ stamp' # None /\ stamp'.location = loc
    BY <1>2, <1>4, KnownOf, NoneAssumption DEF Stamps, DataOK
  <2>2. DataOK' /\ loc' = loc /\ Leads(alert)' /\ PathsMatch(stamp)'
    BY <1>1, <1>4, <2>1, KnownOf DEF DataOK, process, counters, Leads, PathsMatch
  <2> QED
    BY <1>1, <2>2, PartingTurns
<1> QED
  BY <1>1, <1>3, <1>4

\* Only a record whose content is missing goes on to be deleted.
LEMMA FindMissingTurns ==
    ASSUME FailsafeInv, NEW c \in Calls, FindMissing(c)
    PROVE  Turned(c)
<1>1. CASE Inconsistency # "missing"
  <2>1. /\ Holds(c) /\ Parting(c)
        /\ UNCHANGED <<configured, process, place, database, shown, counters>>
    BY <1>1 DEF FindMissing, At, Parting
  <2> QED
    BY <2>1, SameData, PartingTurns
<1>2. CASE Inconsistency = "missing"
    <2> DEFINE k == [call[c] EXCEPT !.pc = "delete"]
    <2>1. Holds(c) /\ call[c].pc = "find" /\ Becomes(c, k) /\ queue' = queue
      BY <1>2 DEF FindMissing, Goto, At, Becomes
    <2>2. k \in CallRecords
      <3>1. call[c] \in CallRecords /\ "delete" \in Pcs
        BY <1>2, KnownOf DEF DataOK, Pcs
      <3> QED
        BY <3>1 DEF CallRecords
    <2>3. /\ k.pc = "delete"
           /\ k.kind = call[c].kind /\ k.approved = call[c].approved
           /\ k.alert = call[c].alert /\ k.stamp = call[c].stamp /\ k.want = call[c].want
           /\ k.files = call[c].files /\ k.state = call[c].state
      BY KnownOf DEF CallRecords
    <2> HIDE DEF k
    <2>4. UNCHANGED <<configured, process, place, database, shown, counters>>
      BY <1>2 DEF FindMissing
    <2>5. /\ call'[c] = k /\ stamp' = stamp /\ alert' = alert /\ place' = place /\ loc' = loc
         /\ DataOK' /\ Leads(alert)' /\ (PathsMatch(stamp) => PathsMatch(stamp)')
      BY <2>1, <2>4, KnownOf, SameData DEF Becomes, database, process, Records
    <2>6. CallInv(c)'
      <3>1. KindInv(c)'
        BY <1>2, <2>1, <2>3, <2>5, KnownOf DEF CallInv, KindInv, Checking, Deciding
      <3>2. CheckInv(c)'
        BY <1>2, <2>1, <2>3, <2>5, KnownOf DEF CallInv, CheckInv, Checking, KindInv
      <3>3. ApprovedInv(c)'
        BY <1>2, <2>1, <2>3, <2>5, KnownOf
           DEF CallInv, KindInv, ApprovedInv, Recovering, Deciding, Leads
      <3>4. RemoteInv(c)'
        BY <1>2, <2>1, <2>3, <2>5, KnownOf DEF CallInv, KindInv, RemoteInv, Recovering, Deciding
      <3>5. MovedInv(c)'
        <4>1. MovedInv(c) /\ Recovering(c)
          BY <1>2, <2>1, KnownOf DEF CallInv, KindInv, Recovering, Deciding
        <4> QED
          BY <1>2, <2>1, <2>3, <2>5, <4>1 DEF MovedInv, Here, Recovering, Deciding, Moving
      <3> QED
        BY <3>1, <3>2, <3>3, <3>4, <3>5 DEF CallInv
    <2> QED
      BY <2>1, <2>2, <2>3, <2>5, <2>6, KnownOf, GoingTurns DEF Out
<1> QED
  BY <1>1, <1>2

\* The check nested in a deletion starts without an alert.
LEMMA DeleteRecordTurns ==
    ASSUME FailsafeInv, NEW c \in Calls, DeleteRecord(c)
    PROVE  Turned(c)
<1>1. CASE ~(Current(c) /\ row # "absent")
  <2>1. /\ Holds(c) /\ Parting(c)
        /\ UNCHANGED <<configured, process, place, database, shown, counters>>
    BY <1>1 DEF DeleteRecord, At, Parting, database
  <2> QED
    BY <2>1, SameData, PartingTurns
<1>2. CASE Current(c) /\ row # "absent"
  <2> DEFINE k == [call[c] EXCEPT !.approved = None, !.pc = "records"]
  <2>1. /\ Holds(c) /\ call[c].pc = "delete" /\ call[c].kind = "delete"
        /\ row' = "absent" /\ alert' = None
        /\ UNCHANGED <<configured, process, place, stamp, made, shown, counters>>
    BY <1>2, KnownOf DEF DeleteRecord, At, CallInv, KindInv
  <2>2. Becomes(c, k) /\ queue' = queue
    BY <1>2, <2>1 DEF DeleteRecord, Nest, Becomes
  <2>3. k \in CallRecords
    <3>1. call[c] \in CallRecords /\ "records" \in Pcs
      BY KnownOf DEF Pcs
    <3> QED
      BY <3>1 DEF CallRecords
  <2>4. k.pc = "records" /\ k.kind = "delete" /\ k.want = call[c].want
    BY <2>1, KnownOf DEF CallRecords
  <2> HIDE DEF k
  <2>5. call'[c] = k
    BY <2>2, KnownOf DEF Becomes, Records
  <2>6. DataOK' /\ loc' = loc /\ Leads(alert)' /\ (PathsMatch(stamp) => PathsMatch(stamp)')
    BY <2>1, KnownOf DEF DataOK, process, counters, Leads, PathsMatch
  <2>7. CallInv(c)'
    <3>1. KindInv(c)' /\ CheckInv(c)'
      BY <2>1, <2>4, <2>5 DEF KindInv, CheckInv, Checking, Deciding
    <3>2. ~Recovering(c)'
      BY <2>4, <2>5 DEF Recovering, Deciding
    <3> QED
      BY <2>4, <2>5, <3>1, <3>2, CheckingIsSimple
  <2> QED
    BY <2>1, <2>2, <2>3, <2>4, <2>6, <2>7, KnownOf, GoingTurns DEF Out
<1> QED
  BY <1>1, <1>2

\* A call starts outside the lease and queues for it.
LEMMA StartTurns ==
    ASSUME FailsafeInv, NEW c \in Calls, NEW kind \in {"check", "add", "job"} \cup Recoveries,
           Start(c, kind)
    PROVE  Turned(c)
<1> DEFINE approved == IF kind \in Recoveries THEN shown ELSE None
           k == [Idle EXCEPT !.kind = kind, !.pc = First(kind), !.approved = approved]
<1>1. /\ call[c].pc = "idle" /\ Becomes(c, k) /\ queue' = Append(queue, <<c, 1>>)
      /\ UNCHANGED <<configured, process, place, database, shown, edits, restarts>>
      /\ calls' = calls + 1
  BY DEF Start, Becomes
<1>2. /\ First(kind) \in Pcs
      /\ First(kind) = "records" => kind \in {"check", "add"}
      /\ First(kind) = "begin" => kind = "job"
      /\ First(kind) = "approve" => kind \in Recoveries
      /\ First(kind) \in {"records", "begin", "approve"}
  BY DEF First, Pcs, Recoveries
<1>3. k \in CallRecords /\ k.pc = First(kind) /\ k.kind = kind /\ k.want = None
  <2>1. approved \in Alerts \cup {None}
    BY KnownOf DEF DataOK
  <2> HIDE DEF approved
  <2> QED
    BY <1>2, <2>1 DEF Idle, CallRecords
<1> HIDE DEF k
<1>4. call'[c] = k /\ \A d \in Calls \ {c} : call'[d] = call[d]
  BY <1>1, KnownOf DEF Becomes, Records
<1>5. Records' /\ LeaseInv'
  <2>1. k.pc \in Entry /\ (k.pc = "records" => k.kind # "delete")
    BY <1>2, <1>3 DEF Entry
  <2> QED
    BY <1>1, <1>3, <2>1, KnownOf, LeaseEnters DEF FailsafeInv
<1>6. DataOK' /\ loc' = loc /\ Leads(alert)' /\ (PathsMatch(stamp) => PathsMatch(stamp)')
  BY <1>1, KnownOf DEF DataOK, process, database, Leads, PathsMatch
<1>7. CallInv(c)'
  <2>1. KindInv(c)' /\ CheckInv(c)'
    BY <1>2, <1>3, <1>4 DEF KindInv, CheckInv, Checking, Deciding, Recoveries
  <2>2. ~Recovering(c)'
    BY <1>2, <1>3, <1>4 DEF Recovering, Deciding
  <2> QED
    BY <1>2, <1>3, <1>4, <2>1, <2>2, CheckingIsSimple
<1>8. Leads(call[c].want)' /\ Polite(c)
  BY <1>1, <1>3, <1>4, <1>6 DEF Leads, Polite, Undisturbed, Out, database
<1>9. TypeOK'
  BY <1>5, <1>6 DEF TypeOK, DataOK, Records
<1> QED
  BY <1>4, <1>5, <1>7, <1>8, <1>9 DEF Turned

-----------------------------------------------------------------------------
(* The operator, and the end of the process *)

\* What the operator makes of a place; under a migration only repository and remote.
LEMMA EditedTyped ==
    ASSUME DataOK, NEW l \in Locations, NEW p \in Edited(l)
    PROVE  /\ p \in Places
           /\ Migrating => /\ p.content = place[l].content /\ p.index = place[l].index
                           /\ p.committed = place[l].committed
<1> DEFINE q == place[l]
<1>1. q \in Places /\ q.head + 1 \in Nat
  BY DEF DataOK, Places
<1>2. CASE \E u \in Remotes \cup {None} : p = [q EXCEPT !.url = u]
  BY <1>1, <1>2 DEF Places
<1>3. CASE p = [q EXCEPT !.head = q.head + 1]
  BY <1>1, <1>3 DEF Places
<1>4. CASE p = [q EXCEPT !.branch = "other"]
  BY <1>1, <1>4 DEF Places, Branches
<1>5. CASE \E u \in Remotes : p = [Initialized(q) EXCEPT !.url = u]
  <2> HIDE DEF q
  <2>1. PICK u \in Remotes : p = [Initialized(q) EXCEPT !.url = u]
    BY <1>5
  <2> DEFINE r == Initialized(q)
  <2>2. r \in Places /\ r.content = q.content /\ r.index = q.index /\ r.committed = q.committed
    BY <1>1, InitializedTyped
  <2> HIDE DEF r
  <2>3. p = [r EXCEPT !.url = u]
    BY <2>1 DEF r
  <2>4. p \in Places /\ p.content = r.content /\ p.index = r.index /\ p.committed = r.committed
    BY <2>2, <2>3 DEF Places
  <2> QED
    BY <2>2, <2>4 DEF q
<1>6. CASE ~Migrating /\ \E v \in Versions \cup {None} : p = [q EXCEPT !.content = v]
  BY <1>1, <1>6 DEF Places
<1>7. CASE ~Migrating /\ p = [Bare EXCEPT !.content = q.content]
  BY <1>1, <1>7 DEF Places, Bare, Branches
<1> QED
  BY <1>2, <1>3, <1>4, <1>5, <1>6, <1>7 DEF Edited

\* Whatever the operator does between two steps, no call is misled: what a
\* migration has looked at is either reserved or looked at again.
LEMMA EditKeeps ==
    ASSUME FailsafeInv, NEW l \in Locations, Edit(l)
    PROVE  FailsafeInv'
<1>1. PICK p \in Edited(l) : place' = [place EXCEPT ![l] = p]
  BY DEF Edit
<1>2. /\ edits' = edits + 1
      /\ UNCHANGED <<configured, loc, suspended, row, stamp, alert, made, shown, queue, call,
                     calls, restarts>>
  BY DEF Edit, process, database
<1>3. DataOK /\ Records
  BY TypesTogether DEF FailsafeInv
<1>4. p \in Places
  BY <1>3, EditedTyped
<1>5. TypeOK'
  BY <1>1, <1>2, <1>3, <1>4 DEF TypeOK, DataOK, Records
<1>6. Migrating => \A n \in Locations :
         /\ place'[n].content = place[n].content /\ place'[n].index = place[n].index
         /\ place'[n].committed = place[n].committed
  <2>1. \A n \in Locations \ {l} : place'[n] = place[n]
    BY <1>1, <1>3 DEF DataOK
  <2>2. place'[l] = p
    BY <1>1, <1>3 DEF DataOK
  <2> QED
    BY <1>3, <2>1, <2>2, EditedTyped
<1>7. ASSUME NEW c \in Calls
      PROVE  CallInv(c)'
  <2>1. CallInv(c)
    BY DEF FailsafeInv
  <2>2. KindInv(c)' /\ CheckInv(c)' /\ ApprovedInv(c)' /\ RemoteInv(c)'
    BY <1>2, <2>1
       DEF CallInv, KindInv, CheckInv, ApprovedInv, RemoteInv, Recovering, PathsMatch,
       Leads
  <2>3. MovedInv(c)'
    <3> SUFFICES ASSUME Recovering(c), call[c].alert.kind = "drift",
                        call[c].alert.previous # None, Migrating
                 PROVE  MovedInv(c)'
      BY <1>2 DEF MovedInv, Recovering, Migrating, Moving
    <3>1. call[c].alert.previous \in Locations /\ loc \in Locations
      BY <1>3, PreviousIsElsewhere DEF DataOK
    <3> QED
      BY <1>2, <1>6, <2>1, <3>1 DEF CallInv, MovedInv, Recovering, Here
  <2> QED
    BY <2>2, <2>3 DEF CallInv
<1>8. LeaseInv' /\ AlertInv'
  BY <1>2 DEF FailsafeInv, LeaseInv, AlertInv, Inside, Holds, Leads
<1> QED
  BY <1>5, <1>7, <1>8 DEF FailsafeInv

\* The config file and what the operator was shown are read at steps of their own.
LEMMA ConfigShownKeep ==
    ASSUME FailsafeInv, configured' \in Locations, shown' \in Alerts \cup {None}, edits' \in Nat,
           UNCHANGED <<process, place, database, queue, call, calls, restarts>>
    PROVE  FailsafeInv'
<1>1. TypeOK'
  BY DEF FailsafeInv, TypeOK, process, database
<1>2. LeaseInv' /\ AlertInv'
  BY DEF FailsafeInv, LeaseInv, AlertInv, Inside, Holds, Leads, database
<1>3. ASSUME NEW c \in Calls
      PROVE  CallInv(c)'
  <2>1. CallInv(c)
    BY DEF FailsafeInv
  <2> QED
    BY <2>1 DEF CallInv, KindInv, CheckInv, ApprovedInv, RemoteInv, MovedInv, Recovering,
       PathsMatch, Leads, Here, process, database
<1> QED
  BY <1>1, <1>2, <1>3 DEF FailsafeInv

\* A call that has not started knows nothing.
LEMMA IdleCallsAreFine ==
    ASSUME call = [c \in Calls |-> Idle], queue = <<>>
    PROVE  /\ Records /\ LeaseInv
           /\ \A c \in Calls : CallInv(c) /\ Leads(call[c].want)
<1>1. \A c \in Calls : /\ call[c] = Idle /\ call[c].pc = "idle" /\ call[c].want = None
                       /\ Idle \in CallRecords
  BY DEF Idle, CallRecords, Pcs
<1>2. Records
  BY <1>1, EmptySeq DEF Records
<1>3. Len(queue) = 0
  BY EmptySeq
<1>4. \A c \in Calls : ~Inside(c)
  BY <1>1 DEF Inside, Out, Entry
<1>5. \A c \in Calls : ~Recovering(c)
  BY <1>1 DEF Recovering, Deciding
<1>6. \A c \in Calls : KindInv(c) /\ CheckInv(c) /\ ApprovedInv(c)
  BY <1>1, <1>5 DEF KindInv, CheckInv, ApprovedInv, Checking, Deciding
<1>7. \A c \in Calls : RemoteInv(c) /\ MovedInv(c)
  BY <1>1, <1>5 DEF RemoteInv, MovedInv
<1> QED
  BY <1>1, <1>2, <1>3, <1>4, <1>6, <1>7 DEF LeaseInv, CallInv, Leads

\* The same after the end of the process.
LEMMA RestartedCallsAreFine ==
    ASSUME call' = [c \in Calls |-> Idle], queue' = <<>>
    PROVE  /\ Records' /\ LeaseInv'
           /\ \A c \in Calls : CallInv(c)' /\ Leads(call[c].want)'
<1>1. \A c \in Calls : /\ call'[c] = Idle /\ call'[c].pc = "idle" /\ call'[c].want = None
                       /\ Idle \in CallRecords
  BY DEF Idle, CallRecords, Pcs
<1>2. Records'
  BY <1>1, EmptySeq DEF Records
<1>3. Len(queue') = 0
  BY EmptySeq
<1>4. \A c \in Calls : ~Inside(c)'
  BY <1>1 DEF Inside, Out, Entry
<1>5. \A c \in Calls : ~Recovering(c)'
  BY <1>1 DEF Recovering, Deciding
<1>6. \A c \in Calls : KindInv(c)' /\ CheckInv(c)' /\ ApprovedInv(c)'
  BY <1>1, <1>5 DEF KindInv, CheckInv, ApprovedInv, Checking, Deciding
<1>7. \A c \in Calls : RemoteInv(c)' /\ MovedInv(c)'
  BY <1>1, <1>5 DEF RemoteInv, MovedInv
<1> QED
  BY <1>1, <1>2, <1>3, <1>4, <1>6, <1>7 DEF LeaseInv, CallInv, Leads

\* A restart forgets the calls and loads the config.
LEMMA RestartKeeps ==
    ASSUME FailsafeInv, Restart
    PROVE  FailsafeInv'
<1>1. /\ loc' = configured /\ suspended' = FALSE /\ restarts' = restarts + 1
      /\ queue' = <<>> /\ call' = [c \in Calls |-> Idle]
      /\ UNCHANGED <<configured, place, row, stamp, alert, made, shown, calls, edits>>
  BY DEF Restart, database
<1>2. Records' /\ LeaseInv' /\ \A c \in Calls : CallInv(c)' /\ Leads(call[c].want)'
  BY <1>1, RestartedCallsAreFine
<1>3. DataOK' /\ Leads(alert)'
  <2>1. DataOK /\ Leads(alert)
    BY TypesTogether DEF FailsafeInv, AlertInv
  <2>2. Leads(alert)'
    BY <1>1, <2>1 DEF Leads
  <2>3. loc' \in Locations /\ restarts' \in Nat
    BY <1>1, <2>1 DEF DataOK
  <2>4. suspended' \in BOOLEAN
    BY DEF Restart
  <2> QED
    BY <1>1, <2>1, <2>2, <2>3, <2>4 DEF DataOK
<1> QED
  BY <1>2, <1>3 DEF FailsafeInv, AlertInv, TypeOK, DataOK, Records

-----------------------------------------------------------------------------
(* The theorems *)

\* The invariant holds of a first start and of an accepted backup.
LEMMA FailsafeInit == Init => FailsafeInv
<1> SUFFICES ASSUME Init
             PROVE  FailsafeInv
  OBVIOUS
<1>1. Records /\ LeaseInv /\ \A c \in Calls : CallInv(c) /\ Leads(call[c].want)
  BY IdleCallsAreFine DEF Init
<1>2. place \in [Locations -> Places] /\ stamp \in Stamps \cup {None}
      /\ row \in {"absent", "owed", "success"}
  <2>1. CASE row = "absent" /\ stamp = None /\ place = [l \in Locations |-> Bare]
    BY <2>1 DEF Bare, Places, Branches
  <2>2. CASE /\ row = "success"
             /\ \E old \in Locations, u \in Remotes, v \in Versions :
                   /\ stamp = [location |-> old, url |-> u]
                   /\ place = [l \in Locations |->
                         IF l = old
                         THEN [repo |-> TRUE, branch |-> "configured", url |-> u, head |-> 1,
                               content |-> v, index |-> v, committed |-> v]
                         ELSE Bare]
    BY <2>2 DEF Bare, Places, Branches, Stamps
  <2> QED
    BY <2>1, <2>2 DEF Init
<1>3. DataOK
  BY <1>2 DEF Init, DataOK
<1>4. Leads(alert)
  BY DEF Init, Leads
<1> QED
  BY <1>1, <1>3, <1>4 DEF FailsafeInv, AlertInv, TypeOK, DataOK, Records

\* Every step of a call leaves it well and the others undisturbed.
LEMMA StepTurns ==
    ASSUME FailsafeInv, NEW c \in Calls, Step(c)
    PROVE  Turned(c)
<1>1. CASE \/ RaiseAlert(c) \/ CheckRecords(c) \/ CheckData(c) \/ CheckKeeps(c)
           \/ CheckIdentity(c) \/ CheckRepository(c) \/ CheckContent(c) \/ CheckStamp(c)
           \/ CheckClear(c) \/ Publish(c)
  BY <1>1, RaiseAlertTurns, CheckRecordsTurns, CheckDataTurns, CheckKeepsTurns,
     CheckIdentityTurns, CheckRepositoryTurns, CheckContentTurns, CheckStampTurns,
     CheckClearTurns, PublishTurns
<1>2. CASE \/ JobBegin(c) \/ JobAdd(c) \/ JobCommit(c) \/ JobPush(c) \/ JobClear(c)
           \/ JobRecord(c)
  BY <1>2, JobBeginTurns, JobAddTurns, JobCommitTurns, JobPushTurns, JobClearTurns,
     JobRecordTurns
<1>3. CASE \/ Approve(c) \/ Suspend(c) \/ Rewrite(c) \/ Examine(c) \/ Copy(c) \/ Prepare(c)
           \/ Before(c) \/ Stage(c) \/ Submit(c)
  BY <1>3, ApproveTurns, SuspendTurns, RewriteTurns, ExamineTurns, CopyTurns, PrepareTurns,
     BeforeTurns, StageTurns, SubmitTurns
<1>4. CASE \/ Submitted(c) \/ Retry(c) \/ RecoveryPush(c) \/ After(c) \/ Accept(c)
           \/ FindMissing(c) \/ DeleteRecord(c)
  BY <1>4, SubmittedTurns, RetryTurns, RecoveryPushTurns, AfterTurns, AcceptTurns,
     FindMissingTurns, DeleteRecordTurns
<1> QED
  BY <1>1, <1>2, <1>3, <1>4 DEF Step

\* No step breaks the invariant.
LEMMA FailsafeNext == FailsafeInv /\ [Next]_vars => FailsafeInv'
<1> SUFFICES ASSUME FailsafeInv, [Next]_vars
             PROVE  FailsafeInv'
  OBVIOUS
<1>1. ASSUME NEW c \in Calls, Step(c)
      PROVE  FailsafeInv'
  BY <1>1, StepTurns, TurnedKeeps
<1>2. ASSUME NEW c \in Calls, NEW kind \in {"check", "add", "job"} \cup Recoveries, Start(c, kind)
      PROVE  FailsafeInv'
  BY <1>2, StartTurns, TurnedKeeps
<1>3. CASE Show
  BY <1>3, ConfigShownKeep DEF Show, FailsafeInv, TypeOK, counters
<1>4. ASSUME NEW l \in Locations, Configure(l)
      PROVE  FailsafeInv'
  <2>1. edits' \in Nat
    BY <1>4 DEF Configure, FailsafeInv, TypeOK
  <2> QED
    BY <1>4, <2>1, ConfigShownKeep DEF Configure, FailsafeInv, TypeOK
<1>5. CASE UNCHANGED vars
  BY <1>5, ConfigShownKeep DEF vars, FailsafeInv, TypeOK, counters
<1> QED
  BY <1>1, <1>2, <1>3, <1>4, <1>5, EditKeeps, RestartKeeps DEF Next

\* Whatever calls, edits of the operator and restarts come together: the lease
\* has one owner, a check stands on what is there, a recovery on what was approved.
THEOREM FailsafeInvariance == Spec => []FailsafeInv
BY FailsafeInit, FailsafeNext, PTL DEF Spec

\* Stamp, alerts, calls and locations have their types.
THEOREM FailsafeTypeCorrect == Spec => []TypeOK
<1>1. FailsafeInv => TypeOK
  BY DEF FailsafeInv
<1> QED
  BY <1>1, FailsafeInvariance, PTL

\* A mutation that was found ready writes where the accepted backup is: the stamp
\* it was admitted under, or a later one, names the location of the process.
THEOREM WritesGoWhereAccepted == Spec => []WritesStayWhereAccepted
<1>1. FailsafeInv => WritesStayWhereAccepted
  BY DEF FailsafeInv, CallInv, CheckInv, WritesStayWhereAccepted
<1> QED
  BY <1>1, FailsafeInvariance, PTL

\* Who moves in a step is its call: no step changes where two calls are, but for
\* the end of the process.
LEMMA MoverSteps ==
    ASSUME FailsafeInv, Next, NEW c \in Calls, Moves(c)
    PROVE  \/ Step(c)
           \/ \E kind \in {"check", "add", "job"} \cup Recoveries : Start(c, kind)
           \/ Restart
<1>1. ASSUME NEW d \in Calls, Turned(d)
      PROVE  d = c
  BY <1>1 DEF Turned, Moves
<1>2. ASSUME NEW d \in Calls, Step(d)
      PROVE  Step(c)
  BY <1>1, <1>2, StepTurns
<1>3. ASSUME NEW d \in Calls, NEW kind \in {"check", "add", "job"} \cup Recoveries, Start(d, kind)
      PROVE  Start(c, kind)
  BY <1>1, <1>3, StartTurns
<1>4. CASE Show \/ \E l \in Locations : Edit(l) \/ Configure(l)
  BY <1>4 DEF Show, Edit, Configure, Moves
<1> QED
  BY <1>2, <1>3, <1>4 DEF Next

\* What a check writes rests on the stamp and the alert that are there when it
\* writes: it holds the lease since it has read them.
THEOREM ChecksAreCurrent == Spec => ChecksSeeWhatIs
<1>1. FailsafeInv /\ [Next]_vars =>
        [\A c \in Calls :
           Moves(c) /\ call[c].pc \in {"raise", "stamp", "clear"} /\ call[c].kind \in {"check", "add"}
           /\ <<stamp', alert'>> # <<stamp, alert>>
           => alert = call[c].alert /\ (call[c].pc # "clear" => stamp = call[c].stamp)]_vars
  BY DEF FailsafeInv, CallInv, CheckInv, Checking
<1> QED
  BY <1>1, FailsafeInvariance, PTL DEF Spec, ChecksSeeWhatIs

\* The steps that end an alert.
LEMMA AlertEnders ==
    ASSUME FailsafeInv, NEW c \in Calls, Step(c), alert # None, alert' = None
    PROVE  CheckClear(c) \/ JobClear(c) \/ Accept(c) \/ DeleteRecord(c)
<1>1. ~RaiseAlert(c)
  BY RaisedIsAlert, NoneAssumption
<1>2. ~(CheckRecords(c) \/ CheckData(c) \/ CheckKeeps(c) \/ CheckIdentity(c)
        \/ CheckRepository(c) \/ CheckContent(c) \/ CheckStamp(c) \/ Publish(c))
  BY DEF CheckRecords, CheckData, CheckKeeps, CheckIdentity, CheckRepository, CheckContent,
     CheckStamp, Publish, database
<1>3. ~(JobBegin(c) \/ JobAdd(c) \/ JobCommit(c) \/ JobPush(c) \/ JobRecord(c))
  BY DEF JobBegin, JobAdd, JobCommit, JobPush, JobRecord, database
<1>4. ~(Approve(c) \/ Suspend(c) \/ Rewrite(c) \/ Examine(c) \/ Copy(c) \/ Prepare(c)
        \/ Before(c) \/ Stage(c) \/ Submit(c))
  BY DEF Approve, Suspend, Rewrite, Examine, Copy, Prepare, Before, Stage, Submit, database
<1>5. ~(Submitted(c) \/ Retry(c) \/ RecoveryPush(c) \/ After(c) \/ FindMissing(c))
  BY DEF Submitted, Retry, RecoveryPush, After, FindMissing, database
<1> QED
  BY <1>1, <1>2, <1>3, <1>4, <1>5 DEF Step

\* A call that ends is where it was not before.
LEMMA PartingMoves ==
    ASSUME FailsafeInv, NEW c \in Calls, Parting(c), call[c].pc \notin Out
    PROVE  Moves(c)
<1>1. PICK k \in CallRecords : Becomes(c, k) /\ k.pc \in Out
  BY PartingRecord
<1>2. call'[c] = k
  BY <1>1, KnownOf DEF Becomes, Records
<1> QED
  BY <1>1, <1>2 DEF Moves

Reviewed(c) ==
    CASE call[c].kind \in Recoveries -> call[c].approved = alert
      [] call[c].kind \in {"check", "add"} -> call[c].alert = alert
      [] call[c].kind = "job" -> alert.kind = "push"

\* Whoever ends an alert has read it or was approved for it.
LEMMA EndedIsReviewed ==
    ASSUME FailsafeInv, NEW c \in Calls, Step(c), alert # None, alert' = None
    PROVE  Moves(c) /\ Reviewed(c)
<1>1. CASE CheckClear(c)
  <2>1. call[c].pc = "clear" /\ call[c].kind \in {"check", "add"} /\ call[c].alert = alert
    BY <1>1, KnownOf DEF CheckClear, At, CallInv, KindInv, CheckInv
  <2>2. Parting(c)
    BY <1>1, <2>1, KnownOf DEF CheckClear, EndReady, Parting, CallInv, CheckInv, PathsMatch,
       process
  <2> QED
    BY <2>1, <2>2, PartingMoves DEF Reviewed, Recoveries, Out
<1>2. CASE JobClear(c)
  <2>1. call[c].pc = "cleared" /\ call[c].kind = "job" /\ alert.kind = "push" /\ Parting(c)
    BY <1>2, KnownOf DEF JobClear, At, CallInv, KindInv, Parting, PushFailed
  <2> QED
    BY <2>1, PartingMoves DEF Reviewed, Recoveries, Out
<1>3. CASE Accept(c)
  <2>1. /\ call[c].pc = "accept" /\ call[c].kind = "migrate" /\ Parting(c)
        /\ alert = call[c].alert /\ call[c].alert = call[c].approved
    BY <1>3, KnownOf
       DEF Accept, At, CallInv, KindInv, ApprovedInv, Recovering, Deciding, Parting,
       Current
  <2> QED
    BY <2>1, PartingMoves DEF Reviewed, Recoveries, Out
<1>4. CASE DeleteRecord(c)
  <2>1. /\ call[c].pc = "delete" /\ call[c].kind = "delete" /\ Current(c)
        /\ call[c].alert = call[c].approved
    BY <1>4, KnownOf DEF DeleteRecord, At, CallInv, KindInv, ApprovedInv, Recovering, Deciding
  <2>2. call'[c].pc = "records"
    BY <1>4, <2>1, KnownOf DEF DeleteRecord, Nest, Records, CallRecords
  <2> QED
    BY <2>1, <2>2 DEF Reviewed, Recoveries, Current, Moves
<1> QED
  BY <1>1, <1>2, <1>3, <1>4, AlertEnders

\* No alert goes away unseen: what ends it is a recovery approved for that very
\* generation, a check that read it, or the push that went through after it.
THEOREM AlertsGoReviewed == Spec => AlertGoesReviewed
<1>1. FailsafeInv /\ [Next]_vars =>
        [alert # None /\ alert' = None => \E c \in Calls : Moves(c) /\ Reviewed(c)]_vars
  <2> SUFFICES ASSUME FailsafeInv, Next, alert # None, alert' = None
               PROVE  \E c \in Calls : Moves(c) /\ Reviewed(c)
    BY DEF vars
  <2>1. ASSUME NEW c \in Calls, Step(c)
        PROVE  \E d \in Calls : Moves(d) /\ Reviewed(d)
    BY <2>1, EndedIsReviewed
  <2>2. ~\E c \in Calls : \E kind \in {"check", "add", "job"} \cup Recoveries : Start(c, kind)
    BY DEF Start, database
  <2>3. ~(Show \/ Restart \/ \E l \in Locations : Edit(l) \/ Configure(l))
    BY DEF Show, Restart, Edit, Configure, database
  <2> QED
    BY <2>1, <2>2, <2>3 DEF Next
<1> QED
  BY <1>1, FailsafeInvariance, PTL DEF Spec, AlertGoesReviewed, Reviewed

\* A call about to accept does nothing else.
LEMMA AcceptSteps ==
    ASSUME NEW c \in Calls, call[c].pc = "accept", Step(c)
    PROVE  Accept(c)
<1>1. ~(RaiseAlert(c) \/ CheckRecords(c) \/ CheckData(c) \/ CheckKeeps(c) \/ CheckIdentity(c)
        \/ CheckRepository(c) \/ CheckContent(c) \/ CheckStamp(c) \/ CheckClear(c) \/ Publish(c))
  BY DEF RaiseAlert, CheckRecords, CheckData, CheckKeeps, CheckIdentity, CheckRepository,
     CheckContent, CheckStamp, CheckClear, Publish, At
<1>2. ~(JobBegin(c) \/ JobAdd(c) \/ JobCommit(c) \/ JobPush(c) \/ JobClear(c) \/ JobRecord(c))
  BY DEF JobBegin, JobAdd, JobCommit, JobPush, JobClear, JobRecord, At
<1>3. ~(Approve(c) \/ Suspend(c) \/ Rewrite(c) \/ Examine(c) \/ Copy(c) \/ Prepare(c)
        \/ Before(c) \/ Stage(c) \/ Submit(c))
  BY DEF Approve, Suspend, Rewrite, Examine, Copy, Prepare, Before, Stage, Submit, At
<1>4. ~(Submitted(c) \/ Retry(c) \/ RecoveryPush(c) \/ After(c) \/ FindMissing(c)
        \/ DeleteRecord(c))
  BY DEF Submitted, Retry, RecoveryPush, After, FindMissing, DeleteRecord, At
<1> QED
  BY <1>1, <1>2, <1>3, <1>4 DEF Step

\* A recovery from drift accepts the location and the remote that were approved,
\* and not before what the previous store had is committed there.
THEOREM DriftsAreAcceptedAsShown == Spec => AcceptedAsShown
<1>1. ASSUME FailsafeInv, Next, NEW c \in Calls, Moves(c), call[c].pc = "accept",
             call[c].alert.kind = "drift", stamp' # stamp
      PROVE  /\ stamp' = [location |-> call[c].approved.current, url |-> call[c].approved.url]
             /\ call[c].approved.previous # None =>
                   place[call[c].approved.previous].content
                      \in {None, place[call[c].approved.current].committed}
  <2>1. Accept(c)
    BY <1>1, MoverSteps, AcceptSteps DEF Start, Restart, database
  <2>2. /\ Recovering(c) /\ call[c].alert = call[c].approved
        /\ call[c].alert.current = loc /\ call[c].state.url = call[c].alert.url
    BY <1>1, KnownOf DEF CallInv, ApprovedInv, RemoteInv, Recovering, Deciding
  <2>3. call[c].alert.previous # None =>
           place[call[c].alert.previous].content \in {None, Here.committed}
    BY <1>1, <2>2, KnownOf DEF CallInv, MovedInv, Moving
  <2> QED
    BY <1>1, <2>1, <2>2, <2>3 DEF Accept, Here
<1>2. FailsafeInv /\ [Next]_vars =>
        [\A c \in Calls :
           Moves(c) /\ call[c].pc = "accept" /\ call[c].alert.kind = "drift" /\ stamp' # stamp =>
             LET a == call[c].approved IN
             /\ stamp' = [location |-> a.current, url |-> a.url]
             /\ a.previous # None =>
                   place[a.previous].content \in {None, place[a.current].committed}]_vars
  BY <1>1
<1> QED
  BY <1>2, FailsafeInvariance, PTL DEF Spec, AcceptedAsShown

=============================================================================
