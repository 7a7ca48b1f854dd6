------------------------ MODULE MemoryOperationLease ------------------------
(***************************************************************************)
(* The per-store lease of server/memories/operation-coordination.ts.       *)
(*                                                                         *)
(* Every journaled change of a memory (add, delete, Flashback toggle)      *)
(* holds the lease in the shared kind "mutation"; crash recovery holds it  *)
(* in the exclusive kind "recovery".  The lease of a store is an object    *)
(* { activeMutations, recoveryActive, waiters } reached through a map that *)
(* drops the object as soon as it is idle, so a later request may build a  *)
(* second object for the same store: the model keeps the identity of the   *)
(* objects, because two live ones would be two independent leases.         *)
(*                                                                         *)
(* A handler runs to its next await without interleaving, so a call of     *)
(* acquireLease and a call of a release function are one step each.        *)
(***************************************************************************)
EXTENDS Integers, Sequences

CONSTANTS
    Clients,      \* calls in flight that take the lease of one store
    States,       \* identities of StoreOperationState objects
    NoState       \* operationStates has no entry for the store

ASSUME LeaseAssumption == NoState \notin States

VARIABLES
    entry,        \* operationStates.get(key)
    lease         \* the fields of each StoreOperationState object

leaseVars == <<entry, lease>>

Kinds == {"mutation", "recovery"}

LeaseWaiter == [client : Clients, kind : Kinds]

\* activeMutations and recoveryActive are kept as the sets of the clients
\* whose release functions are outstanding; the code has their sizes.
StoreOperationState ==
    [mutations : SUBSET Clients, recovery : SUBSET Clients, waiters : Seq(LeaseWaiter)]

NewState == [mutations |-> {}, recovery |-> {}, waiters |-> <<>>]

LeaseInit ==
    /\ entry = NoState
    /\ lease = [s \in States |-> NewState]

-----------------------------------------------------------------------------
(* Who holds the lease and who waits for it.                               *)

Busy(st) == st.recovery # {} \/ st.mutations # {}

Waiting(c, s) == \E i \in DOMAIN lease[s].waiters : lease[s].waiters[i].client = c

HoldsLease(c, s) == c \in lease[s].mutations \cup lease[s].recovery

Idle(c) == \A s \in States : ~HoldsLease(c, s) /\ ~Waiting(c, s)

\* getOperationState: the entry of the map, or a new object, one that nobody
\* holds, waits for or can reach through the map.
GetOperationState(s) ==
    IF entry # NoState THEN s = entry ELSE s \in States /\ lease[s] = NewState

-----------------------------------------------------------------------------
(* The functions of the module.                                            *)

\* Faulty form: a release wakes nobody.
DrainCountNever(st, k) == k = 0

\* drainWaiters grants the first k waiters: none while the lease is held; else
\* the first one alone if it is a recovery, or every mutation ahead of the
\* first recovery.
DrainCount(st, k) ==
    \/ /\ Busy(st) \/ st.waiters = <<>>
       /\ k = 0
    \/ /\ ~Busy(st) /\ st.waiters # <<>>
       /\ st.waiters[1].kind = "recovery"
       /\ k = 1
    \/ /\ ~Busy(st) /\ st.waiters # <<>>
       /\ k > 0
       /\ \A i \in 1..k : st.waiters[i].kind = "mutation"
       /\ k < Len(st.waiters) => st.waiters[k + 1].kind = "recovery"

\* Faulty form: a waiter is recorded by its kind instead of its client.
ResolvedKinds(st, k, kind) ==
    {st.waiters[i].kind : i \in {j \in 1..k : st.waiters[j].kind = kind}}

Resolved(st, k, kind) ==
    {st.waiters[i].client : i \in {j \in 1..k : st.waiters[j].kind = kind}}

GrantFirst(st, k) ==
    [mutations |-> st.mutations \cup Resolved(st, k, "mutation"),
     recovery  |-> st.recovery \cup Resolved(st, k, "recovery"),
     waiters   |-> SubSeq(st.waiters, k + 1, Len(st.waiters))]

DrainWaiters(s, st) ==
    \E k \in 0..Len(st.waiters) :
        /\ DrainCount(st, k)
        /\ lease' = [lease EXCEPT ![s] = GrantFirst(st, k)]

\* cleanupOperationState: the map forgets an object that has become idle, if
\* the object still is the entry.
CleanupOperationState(s) ==
    entry' = IF ~Busy(lease'[s]) /\ lease'[s].waiters = <<>> /\ entry = s
             THEN NoState ELSE entry

\* Faulty form: a recovery does not look at the active mutations.
GrantedBesideMutations(st, kind) == st.recovery = {} /\ st.waiters = <<>>

\* Faulty form: a caller does not look at the queue.
GrantedPastTheQueue(st, kind) ==
    /\ st.recovery = {}
    /\ kind = "recovery" => st.mutations = {}

\* acquireLease grants at once only when nobody is queued.
GrantedAtOnce(st, kind) ==
    /\ st.recovery = {}
    /\ kind = "recovery" => st.mutations = {}
    /\ st.waiters = <<>>

AcquireAtOnce(c, kind, s) ==
    /\ Idle(c)
    /\ GetOperationState(s)
    /\ GrantedAtOnce(lease[s], kind)
    /\ lease' = IF kind = "mutation"
                THEN [lease EXCEPT ![s].mutations = @ \cup {c}]
                ELSE [lease EXCEPT ![s].recovery = {c}]
    /\ entry' = s

AcquireQueued(c, kind, s) ==
    /\ Idle(c)
    /\ GetOperationState(s)
    /\ ~GrantedAtOnce(lease[s], kind)
    /\ DrainWaiters(s, [lease[s] EXCEPT
                          !.waiters = Append(@, [client |-> c, kind |-> kind])])
    /\ entry' = s

\* The function createRelease returns, called from a finally block: the kind
\* of the lease, then drainWaiters, then cleanupOperationState.
Release(c, s) ==
    /\ HoldsLease(c, s)
    /\ DrainWaiters(s, [lease[s] EXCEPT !.mutations = @ \ {c},
                                        !.recovery = @ \ {c}])
    /\ CleanupOperationState(s)

LeaseNext ==
    \E c \in Clients, s \in States :
        \/ \E kind \in Kinds : AcquireAtOnce(c, kind, s) \/ AcquireQueued(c, kind, s)
        \/ Release(c, s)

\* An operation that holds the lease ends, and its finally block releases it.
Fairness == \A c \in Clients : WF_leaseVars(\E s \in States : Release(c, s))

LeaseSpec == LeaseInit /\ [][LeaseNext]_leaseVars

FairLeaseSpec == LeaseSpec /\ Fairness

-----------------------------------------------------------------------------
(* Properties.                                                             *)

\* The entry of the map and the fields of every lease object have their types
\* (interface StoreOperationState).
LeaseTypeOK ==
    /\ entry \in States \cup {NoState}
    /\ lease \in [States -> StoreOperationState]

\* Recovery runs alone: whatever lease objects the map has handed out for the
\* store over time, no two clients hold the lease at once when one of them is
\* recovery (docs/architecture/flows.md: "the barrier exists only to prevent
\* recovery from consuming or restoring an operation that is still active").
RecoveryRunsAlone ==
    \A s, t \in States : \A c \in lease[s].recovery, d \in Clients :
        HoldsLease(d, t) => c = d

\* A call waits only on an object somebody holds, so that a release will come
\* to drain the queue: drainWaiters and the early grants never strand a waiter.
NoStrandedWaiter == \A s \in States : lease[s].waiters # <<>> => Busy(lease[s])

\* Everybody who holds or awaits the lease does so on the object of the map:
\* cleanupOperationState never drops an object in use, which would let the
\* next caller build a second, independent lease for the same store.
OneLivingState ==
    \A s \in States : (Busy(lease[s]) \/ lease[s].waiters # <<>>) => s = entry

\* No mutation overtakes a queued recovery: while a recovery waits, a mutation
\* that was not queued is never granted (flows.md: "a queued recovery prevents
\* a new journaled mutation from starting").
NoOvertaking ==
    [][\A s \in States, c \in Clients :
          (\E i \in DOMAIN lease[s].waiters : lease[s].waiters[i].kind = "recovery")
          /\ c \in lease'[s].mutations \ lease[s].mutations
          => Waiting(c, s)]_leaseVars

\* Every queued call is granted: the queue is fair to both kinds.
EveryWaiterIsGranted ==
    \A c \in Clients :
        (\E s \in States : Waiting(c, s)) ~> (\E s \in States : HoldsLease(c, s))

=============================================================================
