---------------------------- MODULE RuntimeLease ----------------------------
(***************************************************************************)
(* One TRAUMA process owns the storage roots it works on: the coordinator   *)
(* database lists who owns which resources, and a guard file, locked as     *)
(* long as its process lives, tells whether an owner still exists.          *)
(*                                                                          *)
(* A lease is one attempt to own a plan, with an id, a row and a guard of   *)
(* its own.  Acquiring it takes many steps of SQLite and of the file        *)
(* system, between which other processes take theirs or die; inside its     *)
(* process the lease then admits borrowers of the storage.                  *)
(***************************************************************************)
EXTENDS Naturals, FiniteSets

CONSTANTS
    Leases,      \* ids of leases: attempts to own a plan
    Resources,   \* what a plan is made of; two plans overlap when they share one
    MaxTries,    \* how often a publication starts over; 8 in the code
    MaxBorrows,  \* bound: borrowers at once
    MaxFaults,   \* bound: processes that die and releases that fail
    None

ASSUME RuntimeAssumption ==
    /\ MaxTries \in Nat \ {0} /\ MaxBorrows \in Nat /\ MaxFaults \in Nat
    /\ None \notin Leases

VARIABLES
    row,        \* the coordinator's rows: the plan of each lease, {} without one
    file,       \* the leases whose guard file exists
    lock,       \* who holds the exclusive lock of a guard
    pc,         \* where each lease is
    at,         \* what its process has in its hands meanwhile
    plan,       \* what the process believes to own; {} before and after
    admits,     \* the storage is open for borrowers
    recovery,   \* what came of the suspension before a recovery: "none" was
                \* tried or only met borrowers, "granted", "refused"
    borrowers,  \* how many borrow it
    asked,      \* the release is requested
    faults

vars == <<row, file, lock, pc, at, plan, admits, recovery, borrowers, asked, faults>>
inside == <<admits, recovery, borrowers, asked>>

Plans == (SUBSET Resources) \ {{}}
Overlap(p, q) == p \cap q # {}

\* Rows as a process has read them, what it still has to look at, the guard it
\* looks at, those it found stale or live, what it wants, how often it tried.
Nothing == [rows |-> [l \in Leases |-> {}], todo |-> {}, guard |-> None, stale |-> {},
            live |-> {}, want |-> {}, tries |-> 0]

Alive(l) == pc[l] \notin {"off", "failed", "gone", "dead"}
Holding(l) == plan[l] # {} /\ pc[l] # "dead"
Others(l) == Leases \ {l}
Rows(l) == {k \in Others(l) : at[l].rows[k] # {}}

\* A guard younger than a second.  Assumed: its owner locks it within that.
Unlocked(g) == pc[g] = "lock"

Goto(l, where) == pc' = [pc EXCEPT ![l] = where]
Leave(l, where) == Goto(l, where) /\ at' = [at EXCEPT ![l] = Nothing]
Look(l, g, where) == Goto(l, where) /\ at' = [at EXCEPT ![l].guard = g]
Passed(l, g) == at' = [at EXCEPT ![l].todo = @ \ {g}, ![l].guard = None]

----------------------------------------------------------------------------
(* The guards that no row refers to are removed first *)

Start(l) ==
    /\ pc[l] = "off"
    /\ \E p \in Plans :
          at' = [at EXCEPT ![l].rows = row, ![l].want = p]
    /\ Goto(l, "list")
    /\ UNCHANGED <<row, file, lock, plan, inside, faults>>

ListGuards(l) ==
    /\ pc[l] = "list"
    /\ at' = [at EXCEPT ![l].todo = {g \in file : at[l].rows[g] = {}}]
    /\ Goto(l, "clean")
    /\ UNCHANGED <<row, file, lock, plan, inside, faults>>

\* One that is gone meanwhile fails the start.
MissGuard(l) ==
    /\ pc[l] = "clean" /\ ~(at[l].todo \subseteq file)
    /\ Leave(l, "failed")
    /\ UNCHANGED <<row, file, lock, plan, inside, faults>>

\* A young one may belong to a start under way: unless its row has appeared
\* after a pause, this start fails.
MeetYoung(l, g) ==
    /\ pc[l] = "clean" /\ g \in at[l].todo \cap file
    /\ IF row[g] # {} THEN Passed(l, g) /\ UNCHANGED pc
       ELSE Leave(l, "failed")
    /\ UNCHANGED <<row, file, lock, plan, inside, faults>>

\* The probe of an older one takes its lock, if it can.
ProbeOrphan(l, g) ==
    /\ pc[l] = "clean" /\ g \in at[l].todo \cap file /\ ~Unlocked(g)
    /\ IF lock[g] = None
       THEN lock' = [lock EXCEPT ![g] = l] /\ Look(l, g, "stale")
       ELSE Look(l, g, "live") /\ UNCHANGED lock
    /\ UNCHANGED <<row, file, plan, inside, faults>>

\* A locked one is looked at again, after its row.
ProbeAgain(l) ==
    LET g == at[l].guard
    IN  /\ pc[l] = "live"
        /\ \/ /\ row[g] # {} \/ g \notin file
              /\ Passed(l, g) /\ Goto(l, "clean")
              /\ UNCHANGED lock
           \/ /\ row[g] = {} /\ g \in file /\ lock[g] = None
              /\ lock' = [lock EXCEPT ![g] = l]
              /\ Look(l, g, "stale")
           \/ /\ row[g] = {} /\ g \in file /\ lock[g] # None
              /\ Leave(l, "failed")
              /\ UNCHANGED lock
        /\ UNCHANGED <<row, file, plan, inside, faults>>

EndOrphanProbe(l) ==
    /\ pc[l] = "stale"
    /\ lock' = [lock EXCEPT ![at[l].guard] = None]
    /\ IF at[l].guard \in file THEN Goto(l, "remove") /\ UNCHANGED at
       ELSE Leave(l, "failed")
    /\ UNCHANGED <<row, file, plan, inside, faults>>

RemoveOrphan(l) ==
    /\ pc[l] = "remove"
    /\ file' = file \ {at[l].guard}
    /\ Passed(l, at[l].guard) /\ Goto(l, "clean")
    /\ UNCHANGED <<row, lock, plan, inside, faults>>

----------------------------------------------------------------------------
(* The guard and the publication of the plan *)

CreateGuard(l) ==
    /\ pc[l] = "clean" /\ at[l].todo = {}
    /\ file' = file \cup {l}
    /\ Goto(l, "lock")
    /\ UNCHANGED <<row, lock, at, plan, inside, faults>>

LockGuard(l) ==
    /\ pc[l] = "lock"
    /\ lock' = [lock EXCEPT ![l] = l]
    /\ Goto(l, "snapshot")
    /\ UNCHANGED <<row, file, at, plan, inside, faults>>

\* A first publication that fails gives its guard up, a later one changes
\* nothing.
GiveUp(l) == Leave(l, IF plan[l] = {} THEN "close" ELSE "held")

\* The other rows, whose guards are probed outside the transaction.
Snapshot(l) ==
    /\ pc[l] = "snapshot"
    /\ IF at[l].tries < MaxTries
       THEN /\ at' = [at EXCEPT ![l].rows = [row EXCEPT ![l] = {}], ![l].stale = {},
                                ![l].live = {}, ![l].tries = @ + 1]
            /\ Goto(l, "probe")
       ELSE GiveUp(l)
    /\ UNCHANGED <<row, file, lock, plan, inside, faults>>

ProbeRow(l, k) ==
    /\ pc[l] = "probe" /\ k \in Rows(l) \ (at[l].stale \cup at[l].live)
    /\ IF k \notin file THEN
          /\ at' = [at EXCEPT ![l].stale = @ \cup {k}]
          /\ UNCHANGED <<pc, lock>>
       ELSE IF lock[k] = None THEN
          /\ lock' = [lock EXCEPT ![k] = l]
          /\ Look(l, k, "unlock")
       ELSE
          /\ at' = [at EXCEPT ![l].live = @ \cup {k}]
          /\ UNCHANGED <<pc, lock>>
    /\ UNCHANGED <<row, file, plan, inside, faults>>

\* A guard that another start removed meanwhile fails this one.
EndProbe(l) ==
    LET k == at[l].guard
    IN  /\ pc[l] = "unlock"
        /\ lock' = [lock EXCEPT ![k] = None]
        /\ IF k \in file
           THEN /\ at' = [at EXCEPT ![l].stale = @ \cup {k}, ![l].todo = @ \cup {k},
                                    ![l].guard = None]
                /\ Goto(l, "probe")
           ELSE GiveUp(l)
        /\ UNCHANGED <<row, file, plan, inside, faults>>

\* What a probe said counts for the row it saw.
Judged(l, k, verdicts) == k \in verdicts /\ row[k] = at[l].rows[k]
Overlapping(l) == {k \in Others(l) : Overlap(row[k], at[l].want)}
Probed(l) == pc[l] = "probe" /\ Rows(l) = at[l].stale \cup at[l].live

\* Its guard and its row have to be what it left.
Intact(l) == l \in file /\ row[l] = plan[l]

Retry(l) ==
    /\ Probed(l) /\ Intact(l)
    /\ \E k \in Overlapping(l) : ~Judged(l, k, Rows(l))
    /\ at' = [at EXCEPT ![l].todo = {}]
    /\ Goto(l, "snapshot")
    /\ UNCHANGED <<row, file, lock, plan, inside, faults>>

\* By a live owner, or because it is not what it was any more.
Refuse(l) ==
    /\ Probed(l)
    /\ \/ ~Intact(l)
       \/ /\ \A k \in Overlapping(l) : Judged(l, k, Rows(l))
          /\ \E k \in Overlapping(l) : Judged(l, k, at[l].live)
    /\ GiveUp(l)
    /\ UNCHANGED <<row, file, lock, plan, inside, faults>>

\* Faulty form: a row that was published after the snapshot is not looked for.
PublishUnprobed(l) ==
    LET dropped == {k \in Others(l) : row[k] # {} /\ Judged(l, k, at[l].stale)}
    IN  /\ Probed(l) /\ Intact(l)
        /\ \A k \in Overlapping(l) : ~Judged(l, k, at[l].live)
        /\ row' = [k \in Leases |-> IF k = l THEN at[l].want
                                    ELSE IF k \in dropped THEN {} ELSE row[k]]
        /\ plan' = [plan EXCEPT ![l] = at[l].want]
        /\ at' = [at EXCEPT ![l].todo = @ \cap dropped]
        /\ Goto(l, "sweep")
        /\ UNCHANGED <<file, lock, inside, faults>>

\* Faulty form: a live owner elsewhere is replaced with the stale ones.
PublishOverProbed(l) ==
    LET dropped == {k \in Others(l) : row[k] # {} /\ Judged(l, k, Rows(l))}
    IN  /\ Probed(l) /\ Intact(l)
        /\ \A k \in Overlapping(l) : Judged(l, k, at[l].stale)
        /\ row' = [k \in Leases |-> IF k = l THEN at[l].want
                                    ELSE IF k \in dropped THEN {} ELSE row[k]]
        /\ plan' = [plan EXCEPT ![l] = at[l].want]
        /\ at' = [at EXCEPT ![l].todo = @ \cap dropped]
        /\ Goto(l, "sweep")
        /\ UNCHANGED <<file, lock, inside, faults>>

\* Every stale row goes, also those that do not overlap.
PublishPlan(l) ==
    LET dropped == {k \in Others(l) : row[k] # {} /\ Judged(l, k, at[l].stale)}
    IN  /\ Probed(l) /\ Intact(l)
        /\ \A k \in Overlapping(l) : Judged(l, k, at[l].stale)
        /\ row' = [k \in Leases |-> IF k = l THEN at[l].want
                                    ELSE IF k \in dropped THEN {} ELSE row[k]]
        /\ plan' = [plan EXCEPT ![l] = at[l].want]
        /\ at' = [at EXCEPT ![l].todo = @ \cap dropped]
        /\ Goto(l, "sweep")
        /\ UNCHANGED <<file, lock, inside, faults>>

\* The guards of the rows it dropped.
Sweep(l) ==
    /\ pc[l] = "sweep"
    /\ file' = file \ at[l].todo
    /\ Leave(l, "held")
    /\ UNCHANGED <<row, lock, plan, inside, faults>>

----------------------------------------------------------------------------
(* The lease inside its process, one call at a time *)

\* A request, a connection or a background task is admitted.
Borrow(l) ==
    /\ pc[l] = "held" /\ ~asked[l] /\ admits[l] /\ l \in file
    /\ borrowers[l] < MaxBorrows
    /\ borrowers' = [borrowers EXCEPT ![l] = @ + 1]
    /\ UNCHANGED <<row, file, lock, pc, at, plan, admits, recovery, asked, faults>>

ReturnBorrow(l) ==
    /\ pc[l] = "held" /\ borrowers[l] > 0
    /\ borrowers' = [borrowers EXCEPT ![l] = @ - 1]
    /\ UNCHANGED <<row, file, lock, pc, at, plan, admits, recovery, asked, faults>>

\* The roots of a migration or of a recovery are reserved as well, and so is
\* what a call finds one of its roots to be, before it does what it came for.
\* A borrower that is inside does so even after the release was asked for.
Expand(l) ==
    /\ pc[l] = "held" /\ (asked[l] => borrowers[l] > 0) /\ admits[l] /\ l \in file
    /\ \E p \in Plans :
          /\ plan[l] \subseteq p /\ p # plan[l]
          /\ at' = [at EXCEPT ![l].want = p]
    /\ Goto(l, "snapshot")
    /\ UNCHANGED <<row, file, lock, plan, inside, faults>>

Suspended(l, outcome) ==
    /\ pc[l] = "held" /\ ~asked[l] /\ admits[l]
    /\ recovery' = [recovery EXCEPT ![l] = outcome]
    /\ UNCHANGED <<row, file, lock, pc, at, plan, borrowers, asked, faults>>
Closes(l) == admits' = [admits EXCEPT ![l] = FALSE]

\* Faulty form: the roots are changed while they are borrowed.
SuspendBusy(l) ==
    \/ Suspended(l, "granted") /\ l \in file /\ Closes(l)
    \/ Suspended(l, "refused") /\ Closes(l)

\* Faulty form: a coverage that fails leaves the storage open.
SuspendUntrusted(l) ==
    \/ Suspended(l, "granted") /\ l \in file /\ borrowers[l] = 0 /\ Closes(l)
    \/ Suspended(l, "refused") /\ UNCHANGED admits

\* Before a recovery that changes the roots.  One that meets borrowers does not
\* happen and changes nothing.  A coverage that fails closes the storage
\* whoever borrows it: the config names other roots by now, the guard is not
\* what it was, or a root cannot be reserved as what it is now.
SuspendIfIdle(l) ==
    \/ Suspended(l, "granted") /\ l \in file /\ borrowers[l] = 0 /\ Closes(l)
    \/ Suspended(l, "refused") /\ Closes(l)

AskRelease(l) ==
    /\ pc[l] = "held" /\ ~asked[l]
    /\ asked' = [asked EXCEPT ![l] = TRUE]
    /\ UNCHANGED <<row, file, lock, pc, at, plan, admits, recovery, borrowers, faults>>

Fail == faults < MaxFaults /\ faults' = faults + 1

\* The last borrower releases the row first; a release that fails is there to
\* be asked for again.
DeleteRow(l) ==
    /\ pc[l] = "held" /\ asked[l] /\ borrowers[l] = 0
    /\ \/ /\ row[l] = plan[l]
          /\ row' = [row EXCEPT ![l] = {}]
          /\ plan' = [plan EXCEPT ![l] = {}]
          /\ Goto(l, "close")
          /\ UNCHANGED faults
       \/ Fail /\ UNCHANGED <<row, plan, pc>>
    /\ UNCHANGED <<file, lock, at, inside>>

CloseGuard(l) ==
    /\ pc[l] = "close"
    /\ \/ /\ lock' = [lock EXCEPT ![l] = None]
          /\ Goto(l, "unlink")
          /\ UNCHANGED faults
       \/ Fail /\ UNCHANGED <<lock, pc>>
    /\ UNCHANGED <<row, file, at, plan, inside>>

RemoveGuard(l) ==
    /\ pc[l] = "unlink"
    /\ file' = file \ {l}
    /\ Goto(l, "gone")
    /\ UNCHANGED <<row, lock, at, plan, inside, faults>>

\* The locks of a process end with it.
Crash(l) ==
    /\ Alive(l) /\ Fail
    /\ Leave(l, "dead")
    /\ lock' = [g \in Leases |-> IF lock[g] = l THEN None ELSE lock[g]]
    /\ UNCHANGED <<row, file, plan, inside>>

----------------------------------------------------------------------------

Init ==
    /\ row = [l \in Leases |-> {}] /\ file = {}
    /\ lock = [l \in Leases |-> None]
    /\ pc = [l \in Leases |-> "off"]
    /\ at = [l \in Leases |-> Nothing]
    /\ plan = [l \in Leases |-> {}]
    /\ admits = [l \in Leases |-> TRUE]
    /\ recovery = [l \in Leases |-> "none"]
    /\ borrowers = [l \in Leases |-> 0]
    /\ asked = [l \in Leases |-> FALSE]
    /\ faults = 0

Cleanup(l) ==
    \/ ListGuards(l) \/ MissGuard(l) \/ ProbeAgain(l) \/ EndOrphanProbe(l) \/ RemoveOrphan(l)
    \/ \E g \in Leases : MeetYoung(l, g) \/ ProbeOrphan(l, g)

Publication(l) ==
    \/ CreateGuard(l) \/ LockGuard(l) \/ Snapshot(l) \/ EndProbe(l)
    \/ \E k \in Leases : ProbeRow(l, k)
    \/ Retry(l) \/ Refuse(l) \/ PublishPlan(l) \/ Sweep(l)

Admission(l) ==
    Borrow(l) \/ ReturnBorrow(l) \/ Expand(l) \/ SuspendIfIdle(l) \/ AskRelease(l)

Release(l) == DeleteRow(l) \/ CloseGuard(l) \/ RemoveGuard(l)

Next == \E l \in Leases :
    Start(l) \/ Cleanup(l) \/ Publication(l) \/ Admission(l) \/ Release(l) \/ Crash(l)

Spec == Init /\ [][Next]_vars

----------------------------------------------------------------------------
(* Properties *)

\* Two processes never own overlapping resources at once ("Overlapping paths
\* and filesystem aliases contend", overview.md), also when they probe and
\* publish side by side, expand, or take over what a crash has left.
OneOwner ==
    \A k, l \in Leases : k # l /\ Holding(k) /\ Holding(l) => ~Overlap(plan[k], plan[l])

\* A process that owns its plan has its row and its locked guard: no start of
\* another one judges it stale, and no cleanup takes the guard away.
OwnerIsRecorded ==
    \A l \in Leases : Holding(l) => row[l] = plan[l] /\ lock[l] = l /\ l \in file

\* Whoever has borrowed the storage works inside the ownership, and on roots
\* that no recovery goes on to change, also when he entered before a recovery
\* that was refused.
BorrowedIsOwned ==
    \A l \in Leases : borrowers[l] > 0 /\ pc[l] # "dead" => Holding(l) /\ recovery[l] # "granted"

\* A storage whose suspension was granted or refused lets nobody in and adds no
\* root: those who were admitted before only leave.
OnlyDrains ==
    \A l \in Leases : recovery[l] # "none" =>
       /\ borrowers'[l] <= borrowers[l]
       /\ plan'[l] \subseteq plan[l] /\ recovery'[l] = recovery[l]

\* What the admission promises to both sides.  No step takes the ownership away
\* from a borrower or grants a recovery that changes his roots; and after a
\* suspension that was granted, or that found the ownership or the coverage
\* broken ("Keep new storage work closed until process restart even though
\* recovery did not proceed", process-lease.ts), the storage only drains.
AdmissionIsKept == [][BorrowedIsOwned' /\ OnlyDrains]_vars
=============================================================================
