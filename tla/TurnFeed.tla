------------------------------ MODULE TurnFeed ------------------------------
(***************************************************************************)
(* What the event stream of a turn promises its followers: the durable log  *)
(* grows, and each follower is shown it in order, every entry once and no   *)
(* process or answer event left out, until it is shown the end of the turn. *)
(* An end that a later end supersedes may be left out.                      *)
(***************************************************************************)
EXTENDS Naturals, Sequences

CONSTANT Followers

VARIABLES
    log,    \* the kinds of the durable events
    seen,   \* the positions of the events each follower was shown
    told    \* the followers that know that the turn is over

vars == <<log, seen, told>>

Init == log = <<>> /\ seen = [c \in Followers |-> <<>>] /\ told = {}

Record(kind) == log' = Append(log, kind) /\ UNCHANGED <<seen, told>>

Last(c) == IF seen[c] = <<>> THEN 0 ELSE seen[c][Len(seen[c])]

See(c, i) ==
    /\ c \notin told
    /\ i \in 1 .. Len(log) /\ i > Last(c)
    /\ \A j \in 1 .. Len(log) : Last(c) < j /\ j < i => log[j] = "end"
    /\ seen' = [seen EXCEPT ![c] = Append(seen[c], i)]
    /\ told' = IF log[i] = "end" THEN told \cup {c} ELSE told
    /\ UNCHANGED log

\* The turn failed and its stream does not say so.
Presume(c) == told' = told \cup {c} /\ UNCHANGED <<log, seen>>

Next ==
    \/ \E kind \in {"delta", "end"} : Record(kind)
    \/ \E c \in Followers : Presume(c) \/ \E i \in 1 .. Len(log) : See(c, i)

Spec == Init /\ [][Next]_vars
=============================================================================
