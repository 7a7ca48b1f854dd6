------------------------- MODULE RuntimeLeaseProofs -------------------------
(***************************************************************************)
(* Exclusive ownership, for any number of leases, resources, retries and    *)
(* crashes.  The argument is that a verdict never goes out of date: a lease *)
(* that is found unguarded after it has published has come to its end, and  *)
(* from its end no lease returns.                                           *)
(***************************************************************************)
EXTENDS RuntimeLease, TLAPS

Cleaning == {"list", "clean", "live", "stale", "remove"}
Publishing == {"snapshot", "probe", "unlock"}
Owning == {"sweep", "held"}
Ending == {"close", "unlink", "gone", "failed", "dead"}
Places == Cleaning \cup Publishing \cup Owning \cup Ending \cup {"off", "lock"}

Hands == [rows : [Leases -> SUBSET Resources], todo : SUBSET Leases,
          guard : Leases \cup {None}, stale : SUBSET Leases, live : SUBSET Leases,
          want : SUBSET Resources, tries : Nat]

\* What comes of a suspension.
Outcomes == {"none", "granted", "refused"}

TypeOK ==
    /\ row \in [Leases -> SUBSET Resources]
    /\ file \in SUBSET Leases
    /\ lock \in [Leases -> Leases \cup {None}]
    /\ pc \in [Leases -> Places]
    /\ at \in [Leases -> Hands]
    /\ plan \in [Leases -> SUBSET Resources]
    /\ admits \in [Leases -> BOOLEAN]
    /\ recovery \in [Leases -> Outcomes]
    /\ borrowers \in [Leases -> Nat]
    /\ asked \in [Leases -> BOOLEAN]
    /\ faults \in Nat

\* Past its end a lease owns nothing, whatever it has left.
Ended(l) == pc[l] \in Ending

\* From its first publication on a lease owns its plan until its end.
Published(l) == Holding(l) \/ Ended(l)

\* Where a lease is tells what it owns and what it wants.
PlaceOf(l) ==
    /\ pc[l] \in Cleaning \cup {"off"} => l \notin file
    /\ pc[l] \in Cleaning \cup {"lock"} \cup Publishing => at[l].want # {}
    /\ pc[l] \in Cleaning \cup {"off", "lock", "close", "unlink", "gone", "failed"} => plan[l] = {}
    /\ pc[l] \in Owning => plan[l] # {}

\* From its creation to its end a lease has its guard, locked but at first.
GuardOf(l) ==
    /\ pc[l] \in {"lock"} \cup Publishing \cup Owning => l \in file
    /\ pc[l] \in Publishing \cup Owning => lock[l] = l

\* What a lease has in its hands about others holds as long as it has it.
KnowledgeOf(l) ==
    /\ \A k \in Others(l) : at[l].rows[k] # {} => Published(k)
    /\ \A k \in at[l].stale : Ended(k)
    /\ pc[l] = "live" => /\ at[l].guard \in Leases
                         /\ pc[at[l].guard] \in Publishing \cup Owning \cup Ending
    /\ pc[l] \in {"stale", "remove", "unlock"} => at[l].guard \in Leases /\ Ended(at[l].guard)
    /\ pc[l] = "sweep" => \A k \in at[l].todo : Ended(k)

\* The same of what a step puts there, in terms of the state it is taken in.
Learned(l) ==
    /\ \A k \in Others(l) : at'[l].rows[k] \in {at[l].rows[k], {}, row[k]}
    /\ \A k \in at'[l].stale : k \in at[l].stale \/ Ended(k)
    /\ pc'[l] = "live" => /\ at'[l].guard \in Leases
                          /\ pc[at'[l].guard] \in Publishing \cup Owning \cup Ending
    /\ pc'[l] \in {"stale", "remove", "unlock"} => at'[l].guard \in Leases /\ Ended(at'[l].guard)
    /\ pc'[l] = "sweep" => \A k \in at'[l].todo : Ended(k)

\* A row belongs to a lease that has published it.
RowOf(l) ==
    /\ row[l] # {} => Published(l)
    /\ Holding(l) => row[l] = plan[l]

\* The storage is closed once its suspension was granted or refused, and so
\* the lease publishes nothing any more.
SuspendedIsClosed ==
    \A l \in Leases : recovery[l] # "none" => ~admits[l] /\ pc[l] \in {"held"} \cup Ending

RuntimeInv ==
    /\ TypeOK
    /\ \A l \in Leases : PlaceOf(l) /\ GuardOf(l) /\ KnowledgeOf(l) /\ RowOf(l)
    /\ OneOwner
    /\ BorrowedIsOwned
    /\ SuspendedIsClosed

-----------------------------------------------------------------------------

LEMMA RuntimeInvInit == Init => RuntimeInv
<1> SUFFICES ASSUME Init PROVE RuntimeInv
  OBVIOUS
<1>1. Nothing \in Hands
  BY DEF Nothing, Hands
<1>2. recovery \in [Leases -> Outcomes] /\ \A l \in Leases : recovery[l] = "none"
  BY DEF Init, Outcomes
<1> QED
  BY <1>1, <1>2 DEF Init, RuntimeInv, TypeOK, PlaceOf, GuardOf, KnowledgeOf, RowOf, OneOwner,
              BorrowedIsOwned, SuspendedIsClosed, Holding, Nothing, Others, Cleaning, Publishing,
              Owning, Ending, Places

\* What the steps write into the hands of a lease keeps their form.
LEMMA HandsEdited ==
    ASSUME NEW h \in Hands
    PROVE  /\ \A rs \in [Leases -> SUBSET Resources], p \in SUBSET Resources :
                 [h EXCEPT !.rows = rs, !.want = p] \in Hands
           /\ \A p \in SUBSET Resources : [h EXCEPT !.want = p] \in Hands
           /\ \A k \in Leases \cup {None} : [h EXCEPT !.guard = k] \in Hands
           /\ \A S \in SUBSET Leases :
                 /\ [h EXCEPT !.todo = S, !.guard = None] \in Hands
                 /\ [h EXCEPT !.stale = S] \in Hands
                 /\ [h EXCEPT !.live = S] \in Hands
           /\ \A S \in SUBSET Leases, T \in SUBSET Leases :
                 [h EXCEPT !.stale = S, !.todo = T, !.guard = None] \in Hands
           /\ \A rs \in [Leases -> SUBSET Resources], n \in Nat :
                 [h EXCEPT !.rows = rs, !.stale = {}, !.live = {}, !.tries = n] \in Hands
BY DEF Hands

LEMMA TypeStays == TypeOK /\ [Next]_vars => TypeOK'
<1> SUFFICES ASSUME TypeOK, [Next]_vars PROVE TypeOK'
  OBVIOUS
<1>0. Nothing \in Hands
  BY DEF Nothing, Hands
<1>0a. at \in [Leases -> Hands]
  BY DEF TypeOK
<1>1. ASSUME NEW l \in Leases, Start(l) PROVE TypeOK'
  <2>a. PICK p \in Plans : at' = [at EXCEPT ![l].rows = row, ![l].want = p]
    BY <1>1 DEF Start
  <2>b. p \in SUBSET Resources /\ row \in [Leases -> SUBSET Resources]
    BY DEF Plans, TypeOK
  <2>c. [at[l] EXCEPT !.rows = row, !.want = p] \in Hands
    BY <1>0a, <2>b, HandsEdited
  <2>1. at' \in [Leases -> Hands]
    BY <1>0, <1>0a, <2>a, <2>b, <2>c, HandsEdited
  <2>2. pc' \in [Leases -> Places]
    BY <1>1 DEF Start, TypeOK, Goto, Leave, Look, Passed, GiveUp, Places, Cleaning, Publishing,
                Owning, Ending, Places
  <2>3. /\ row' \in [Leases -> SUBSET Resources] /\ file' \in SUBSET Leases
        /\ lock' \in [Leases -> Leases \cup {None}] /\ plan' \in [Leases -> SUBSET Resources]
    BY <1>1 DEF Start, TypeOK, Goto, Leave, Look, Passed, GiveUp
  <2>4. /\ admits' \in [Leases -> BOOLEAN] /\ borrowers' \in [Leases -> Nat]
        /\ recovery' \in [Leases -> Outcomes]
        /\ asked' \in [Leases -> BOOLEAN] /\ faults' \in Nat
    BY <1>1 DEF Start, TypeOK, inside, Fail
  <2> QED
    BY <2>1, <2>2, <2>3, <2>4 DEF TypeOK
<1>2. ASSUME NEW l \in Leases, ListGuards(l) PROVE TypeOK'
  BY <1>2, <1>0, RuntimeAssumption DEF ListGuards, TypeOK, Hands, inside, Goto, Leave, Look,
                                       Passed, GiveUp, Fail, Plans, Cleaning, Publishing, Owning,
                                       Ending, Places
<1>3. ASSUME NEW l \in Leases, MissGuard(l) PROVE TypeOK'
  BY <1>3, <1>0, RuntimeAssumption DEF MissGuard, TypeOK, Hands, inside, Goto, Leave, Look,
                                       Passed, GiveUp, Fail, Plans, Cleaning, Publishing, Owning,
                                       Ending, Places
<1>4. ASSUME NEW l \in Leases, ProbeAgain(l) PROVE TypeOK'
  <2> DEFINE k == at[l].guard
  <2>a. \/ at' = [at EXCEPT ![l] = [at[l] EXCEPT !.todo = at[l].todo \ {k}, !.guard = None]]
        \/ at' = [at EXCEPT ![l] = Nothing]
        \/ at' = [at EXCEPT ![l].guard = k]
    BY <1>4 DEF ProbeAgain, Passed, Leave, Look, TypeOK, Hands
  <2>b. at[l].todo \ {k} \in SUBSET Leases /\ k \in Leases \cup {None} /\ at[l] \in Hands
    BY DEF TypeOK, Hands
  <2>c. /\ [at[l] EXCEPT !.todo = at[l].todo \ {k}, !.guard = None] \in Hands
        /\ at[l] \in Hands /\ [at[l] EXCEPT !.guard = k] \in Hands
    BY <1>0a, <2>b, HandsEdited
  <2>1. at' \in [Leases -> Hands]
    BY <1>0, <1>0a, <2>a, <2>b, <2>c, HandsEdited
  <2>2. pc' \in [Leases -> Places]
    BY <1>4 DEF ProbeAgain, TypeOK, Goto, Leave, Look, Passed, GiveUp, Places, Cleaning,
                Publishing, Owning, Ending, Places
  <2>3. /\ row' \in [Leases -> SUBSET Resources] /\ file' \in SUBSET Leases
        /\ lock' \in [Leases -> Leases \cup {None}] /\ plan' \in [Leases -> SUBSET Resources]
    BY <1>4 DEF ProbeAgain, TypeOK, Goto, Leave, Look, Passed, GiveUp
  <2>4. /\ admits' \in [Leases -> BOOLEAN] /\ borrowers' \in [Leases -> Nat]
        /\ recovery' \in [Leases -> Outcomes]
        /\ asked' \in [Leases -> BOOLEAN] /\ faults' \in Nat
    BY <1>4 DEF ProbeAgain, TypeOK, inside, Fail
  <2> QED
    BY <2>1, <2>2, <2>3, <2>4 DEF TypeOK
<1>5. ASSUME NEW l \in Leases, EndOrphanProbe(l) PROVE TypeOK'
  <2>1. at' \in [Leases -> Hands]
    BY SMTT(60), <1>5, <1>0 DEF EndOrphanProbe, TypeOK, Hands, Goto, Leave, Look, Passed, GiveUp, Plans
  <2>2. pc' \in [Leases -> Places]
    BY <1>5 DEF EndOrphanProbe, TypeOK, Goto, Leave, Look, Passed, GiveUp, Places, Cleaning,
                Publishing, Owning, Ending, Places
  <2>3. /\ row' \in [Leases -> SUBSET Resources] /\ file' \in SUBSET Leases
        /\ lock' \in [Leases -> Leases \cup {None}] /\ plan' \in [Leases -> SUBSET Resources]
    BY <1>5 DEF EndOrphanProbe, TypeOK, Goto, Leave, Look, Passed, GiveUp
  <2>4. /\ admits' \in [Leases -> BOOLEAN] /\ borrowers' \in [Leases -> Nat]
        /\ recovery' \in [Leases -> Outcomes]
        /\ asked' \in [Leases -> BOOLEAN] /\ faults' \in Nat
    BY <1>5 DEF EndOrphanProbe, TypeOK, inside, Fail
  <2> QED
    BY <2>1, <2>2, <2>3, <2>4 DEF TypeOK
<1>6. ASSUME NEW l \in Leases, RemoveOrphan(l) PROVE TypeOK'
  BY ZenonT(60), <1>6, <1>0, RuntimeAssumption DEF RemoveOrphan, TypeOK, Hands, inside, Goto, Leave, Look,
                                       Passed, GiveUp, Fail, Plans, Cleaning, Publishing, Owning,
                                       Ending, Places
<1>7. ASSUME NEW l \in Leases, CreateGuard(l) PROVE TypeOK'
  BY <1>7, <1>0, RuntimeAssumption DEF CreateGuard, TypeOK, Hands, inside, Goto, Leave, Look,
                                       Passed, GiveUp, Fail, Plans, Cleaning, Publishing, Owning,
                                       Ending, Places
<1>8. ASSUME NEW l \in Leases, LockGuard(l) PROVE TypeOK'
  BY <1>8, <1>0, RuntimeAssumption DEF LockGuard, TypeOK, Hands, inside, Goto, Leave, Look,
                                       Passed, GiveUp, Fail, Plans, Cleaning, Publishing, Owning,
                                       Ending, Places
<1>9. ASSUME NEW l \in Leases, Snapshot(l) PROVE TypeOK'
  <2> DEFINE others == [row EXCEPT ![l] = {}]
  <2>a. \/ at' = [at EXCEPT ![l] = [at[l] EXCEPT !.rows = others, !.stale = {}, !.live = {},
                                                 !.tries = at[l].tries + 1]]
        \/ at' = [at EXCEPT ![l] = Nothing]
    BY <1>9 DEF Snapshot, GiveUp, Leave, TypeOK, Hands
  <2>b. others \in [Leases -> SUBSET Resources] /\ at[l].tries + 1 \in Nat
    BY <1>0a DEF TypeOK, Hands
  <2>c. [at[l] EXCEPT !.rows = others, !.stale = {}, !.live = {},
                      !.tries = at[l].tries + 1] \in Hands
    BY <1>0a, <2>b, HandsEdited
  <2>1. at' \in [Leases -> Hands]
    BY <1>0, <1>0a, <2>a, <2>b, <2>c, HandsEdited
  <2>2. pc' \in [Leases -> Places]
    BY <1>9 DEF Snapshot, TypeOK, Goto, Leave, Look, Passed, GiveUp, Places, Cleaning, Publishing,
                Owning, Ending, Places
  <2>3. /\ row' \in [Leases -> SUBSET Resources] /\ file' \in SUBSET Leases
        /\ lock' \in [Leases -> Leases \cup {None}] /\ plan' \in [Leases -> SUBSET Resources]
    BY <1>9 DEF Snapshot, TypeOK, Goto, Leave, Look, Passed, GiveUp
  <2>4. /\ admits' \in [Leases -> BOOLEAN] /\ borrowers' \in [Leases -> Nat]
        /\ recovery' \in [Leases -> Outcomes]
        /\ asked' \in [Leases -> BOOLEAN] /\ faults' \in Nat
    BY <1>9 DEF Snapshot, TypeOK, inside, Fail
  <2> QED
    BY <2>1, <2>2, <2>3, <2>4 DEF TypeOK
<1>10. ASSUME NEW l \in Leases, EndProbe(l) PROVE TypeOK'
  <2> DEFINE k == at[l].guard
             seen == [at[l] EXCEPT !.stale = at[l].stale \cup {k}, !.todo = at[l].todo \cup {k},
                                   !.guard = None]
  <2>a. \/ at' = [at EXCEPT ![l] = seen] /\ k \in file
        \/ at' = [at EXCEPT ![l] = Nothing]
    BY <1>10 DEF EndProbe, GiveUp, Leave, TypeOK, Hands
  <2>b. k \in file => /\ at[l].stale \cup {k} \in SUBSET Leases
                      /\ at[l].todo \cup {k} \in SUBSET Leases
    BY DEF TypeOK, Hands
  <2>c. k \in file => seen \in Hands
    BY <1>0a, <2>b, HandsEdited
  <2>1. at' \in [Leases -> Hands]
    BY <1>0, <1>0a, <2>a, <2>b, <2>c, HandsEdited
  <2>2. pc' \in [Leases -> Places]
    BY <1>10 DEF EndProbe, TypeOK, Goto, Leave, Look, Passed, GiveUp, Places, Cleaning,
                 Publishing, Owning, Ending, Places
  <2>3. /\ row' \in [Leases -> SUBSET Resources] /\ file' \in SUBSET Leases
        /\ lock' \in [Leases -> Leases \cup {None}] /\ plan' \in [Leases -> SUBSET Resources]
    BY <1>10 DEF EndProbe, TypeOK, Goto, Leave, Look, Passed, GiveUp
  <2>4. /\ admits' \in [Leases -> BOOLEAN] /\ borrowers' \in [Leases -> Nat]
        /\ recovery' \in [Leases -> Outcomes]
        /\ asked' \in [Leases -> BOOLEAN] /\ faults' \in Nat
    BY <1>10 DEF EndProbe, TypeOK, inside, Fail
  <2> QED
    BY <2>1, <2>2, <2>3, <2>4 DEF TypeOK
<1>11. ASSUME NEW l \in Leases, Retry(l) PROVE TypeOK'
  BY <1>11, <1>0, RuntimeAssumption DEF Retry, TypeOK, Hands, inside, Goto, Leave, Look, Passed,
                                        GiveUp, Fail, Plans, Cleaning, Publishing, Owning, Ending,
                                        Places
<1>12. ASSUME NEW l \in Leases, Refuse(l) PROVE TypeOK'
  BY <1>12, <1>0, RuntimeAssumption DEF Refuse, TypeOK, Hands, inside, Goto, Leave, Look, Passed,
                                        GiveUp, Fail, Plans, Cleaning, Publishing, Owning, Ending,
                                        Places
<1>13. ASSUME NEW l \in Leases, PublishPlan(l) PROVE TypeOK'
  BY <1>13, <1>0, RuntimeAssumption DEF PublishPlan, TypeOK, Hands, inside, Goto, Leave, Look,
                                        Passed, GiveUp, Fail, Plans, Cleaning, Publishing, Owning,
                                        Ending, Places
<1>14. ASSUME NEW l \in Leases, Sweep(l) PROVE TypeOK'
  BY <1>14, <1>0, RuntimeAssumption DEF Sweep, TypeOK, Hands, inside, Goto, Leave, Look, Passed,
                                        GiveUp, Fail, Plans, Cleaning, Publishing, Owning, Ending,
                                        Places
<1>15. ASSUME NEW l \in Leases, Borrow(l) PROVE TypeOK'
  BY <1>15, <1>0, RuntimeAssumption DEF Borrow, TypeOK, Hands, inside, Goto, Leave, Look, Passed,
                                        GiveUp, Fail, Plans, Cleaning, Publishing, Owning, Ending,
                                        Places
<1>16. ASSUME NEW l \in Leases, ReturnBorrow(l) PROVE TypeOK'
  BY <1>16, <1>0, RuntimeAssumption DEF ReturnBorrow, TypeOK, Hands, inside, Goto, Leave, Look,
                                        Passed, GiveUp, Fail, Plans, Cleaning, Publishing, Owning,
                                        Ending, Places
<1>17. ASSUME NEW l \in Leases, Expand(l) PROVE TypeOK'
  <2>a. PICK p \in Plans : at' = [at EXCEPT ![l].want = p]
    BY <1>17 DEF Expand
  <2>b. p \in SUBSET Resources
    BY DEF Plans
  <2>c. [at[l] EXCEPT !.want = p] \in Hands
    BY <1>0a, <2>b, HandsEdited
  <2>1. at' \in [Leases -> Hands]
    BY <1>0, <1>0a, <2>a, <2>b, <2>c, HandsEdited
  <2>2. pc' \in [Leases -> Places]
    BY <1>17 DEF Expand, TypeOK, Goto, Leave, Look, Passed, GiveUp, Places, Cleaning, Publishing,
                 Owning, Ending, Places
  <2>3. /\ row' \in [Leases -> SUBSET Resources] /\ file' \in SUBSET Leases
        /\ lock' \in [Leases -> Leases \cup {None}] /\ plan' \in [Leases -> SUBSET Resources]
    BY <1>17 DEF Expand, TypeOK, Goto, Leave, Look, Passed, GiveUp
  <2>4. /\ admits' \in [Leases -> BOOLEAN] /\ borrowers' \in [Leases -> Nat]
        /\ recovery' \in [Leases -> Outcomes]
        /\ asked' \in [Leases -> BOOLEAN] /\ faults' \in Nat
    BY <1>17 DEF Expand, TypeOK, inside, Fail
  <2> QED
    BY <2>1, <2>2, <2>3, <2>4 DEF TypeOK
<1>18. ASSUME NEW l \in Leases, SuspendIfIdle(l) PROVE TypeOK'
  BY <1>18 DEF SuspendIfIdle, Suspended, Closes, TypeOK, Outcomes
<1>19. ASSUME NEW l \in Leases, AskRelease(l) PROVE TypeOK'
  BY <1>19, <1>0, RuntimeAssumption DEF AskRelease, TypeOK, Hands, inside, Goto, Leave, Look,
                                        Passed, GiveUp, Fail, Plans, Cleaning, Publishing, Owning,
                                        Ending, Places
<1>20. ASSUME NEW l \in Leases, DeleteRow(l) PROVE TypeOK'
  <2>1. at' \in [Leases -> Hands]
    BY <1>20, <1>0 DEF DeleteRow, TypeOK, Hands, Goto, Leave, Look, Passed, GiveUp, Plans
  <2>2. pc' \in [Leases -> Places]
    BY <1>20 DEF DeleteRow, TypeOK, Goto, Leave, Look, Passed, GiveUp, Places, Cleaning,
                 Publishing, Owning, Ending, Places
  <2>3. /\ row' \in [Leases -> SUBSET Resources] /\ file' \in SUBSET Leases
        /\ lock' \in [Leases -> Leases \cup {None}] /\ plan' \in [Leases -> SUBSET Resources]
    BY <1>20 DEF DeleteRow, TypeOK, Goto, Leave, Look, Passed, GiveUp
  <2>4. /\ admits' \in [Leases -> BOOLEAN] /\ borrowers' \in [Leases -> Nat]
        /\ recovery' \in [Leases -> Outcomes]
        /\ asked' \in [Leases -> BOOLEAN] /\ faults' \in Nat
    BY <1>20 DEF DeleteRow, TypeOK, inside, Fail
  <2> QED
    BY <2>1, <2>2, <2>3, <2>4 DEF TypeOK
<1>21. ASSUME NEW l \in Leases, CloseGuard(l) PROVE TypeOK'
  <2>1. at' \in [Leases -> Hands]
    BY <1>21, <1>0 DEF CloseGuard, TypeOK, Hands, Goto, Leave, Look, Passed, GiveUp, Plans
  <2>2. pc' \in [Leases -> Places]
    BY <1>21 DEF CloseGuard, TypeOK, Goto, Leave, Look, Passed, GiveUp, Places, Cleaning,
                 Publishing, Owning, Ending, Places
  <2>3. /\ row' \in [Leases -> SUBSET Resources] /\ file' \in SUBSET Leases
        /\ lock' \in [Leases -> Leases \cup {None}] /\ plan' \in [Leases -> SUBSET Resources]
    BY <1>21 DEF CloseGuard, TypeOK, Goto, Leave, Look, Passed, GiveUp
  <2>4. /\ admits' \in [Leases -> BOOLEAN] /\ borrowers' \in [Leases -> Nat]
        /\ recovery' \in [Leases -> Outcomes]
        /\ asked' \in [Leases -> BOOLEAN] /\ faults' \in Nat
    BY <1>21 DEF CloseGuard, TypeOK, inside, Fail
  <2> QED
    BY <2>1, <2>2, <2>3, <2>4 DEF TypeOK
<1>22. ASSUME NEW l \in Leases, RemoveGuard(l) PROVE TypeOK'
  BY <1>22, <1>0, RuntimeAssumption DEF RemoveGuard, TypeOK, Hands, inside, Goto, Leave, Look,
                                        Passed, GiveUp, Fail, Plans, Cleaning, Publishing, Owning,
                                        Ending, Places
<1>23. ASSUME NEW l \in Leases, Crash(l) PROVE TypeOK'
  BY <1>23, <1>0, RuntimeAssumption DEF Crash, TypeOK, Hands, inside, Goto, Leave, Look, Passed,
                                        GiveUp, Fail, Plans, Cleaning, Publishing, Owning, Ending,
                                        Places
<1>24. ASSUME NEW l \in Leases, NEW g \in Leases, MeetYoung(l, g) PROVE TypeOK'
  <2>a. \/ at' = [at EXCEPT ![l] = [at[l] EXCEPT !.todo = at[l].todo \ {g}, !.guard = None]]
        \/ at' = [at EXCEPT ![l] = Nothing]
    BY <1>24 DEF MeetYoung, Passed, Leave, TypeOK, Hands
  <2>b. at[l].todo \ {g} \in SUBSET Leases /\ at[l] \in Hands
    BY DEF TypeOK, Hands
  <2>c. [at[l] EXCEPT !.todo = at[l].todo \ {g}, !.guard = None] \in Hands
    BY <1>0a, <2>b, HandsEdited
  <2>1. at' \in [Leases -> Hands]
    BY <1>0, <1>0a, <2>a, <2>b, <2>c, HandsEdited
  <2>2. pc' \in [Leases -> Places]
    BY <1>24 DEF MeetYoung, TypeOK, Goto, Leave, Look, Passed, GiveUp, Places, Cleaning,
                 Publishing, Owning, Ending, Places
  <2>3. /\ row' \in [Leases -> SUBSET Resources] /\ file' \in SUBSET Leases
        /\ lock' \in [Leases -> Leases \cup {None}] /\ plan' \in [Leases -> SUBSET Resources]
    BY <1>24 DEF MeetYoung, TypeOK, Goto, Leave, Look, Passed, GiveUp
  <2>4. /\ admits' \in [Leases -> BOOLEAN] /\ borrowers' \in [Leases -> Nat]
        /\ recovery' \in [Leases -> Outcomes]
        /\ asked' \in [Leases -> BOOLEAN] /\ faults' \in Nat
    BY <1>24 DEF MeetYoung, TypeOK, inside, Fail
  <2> QED
    BY <2>1, <2>2, <2>3, <2>4 DEF TypeOK
<1>25. ASSUME NEW l \in Leases, NEW g \in Leases, ProbeOrphan(l, g) PROVE TypeOK'
  <2>a. at' = [at EXCEPT ![l].guard = g]
    BY <1>25 DEF ProbeOrphan, Look
  <2>b. g \in Leases \cup {None}
    OBVIOUS
  <2>c. [at[l] EXCEPT !.guard = g] \in Hands
    BY <1>0a, <2>b, HandsEdited
  <2>1. at' \in [Leases -> Hands]
    BY <1>0, <1>0a, <2>a, <2>b, <2>c, HandsEdited
  <2>2. pc' \in [Leases -> Places]
    BY <1>25 DEF ProbeOrphan, TypeOK, Goto, Leave, Look, Passed, GiveUp, Places, Cleaning,
                 Publishing, Owning, Ending, Places
  <2>3. /\ row' \in [Leases -> SUBSET Resources] /\ file' \in SUBSET Leases
        /\ lock' \in [Leases -> Leases \cup {None}] /\ plan' \in [Leases -> SUBSET Resources]
    BY <1>25 DEF ProbeOrphan, TypeOK, Goto, Leave, Look, Passed, GiveUp
  <2>4. /\ admits' \in [Leases -> BOOLEAN] /\ borrowers' \in [Leases -> Nat]
        /\ recovery' \in [Leases -> Outcomes]
        /\ asked' \in [Leases -> BOOLEAN] /\ faults' \in Nat
    BY <1>25 DEF ProbeOrphan, TypeOK, inside, Fail
  <2> QED
    BY <2>1, <2>2, <2>3, <2>4 DEF TypeOK
<1>26. ASSUME NEW l \in Leases, NEW g \in Leases, ProbeRow(l, g) PROVE TypeOK'
  <2>a. \/ at' = [at EXCEPT ![l] = [at[l] EXCEPT !.stale = at[l].stale \cup {g}]]
        \/ at' = [at EXCEPT ![l] = [at[l] EXCEPT !.live = at[l].live \cup {g}]]
        \/ at' = [at EXCEPT ![l] = [at[l] EXCEPT !.guard = g]]
    BY <1>26 DEF ProbeRow, Look, TypeOK, Hands
  <2>b. /\ at[l].stale \cup {g} \in SUBSET Leases
        /\ at[l].live \cup {g} \in SUBSET Leases
    BY DEF TypeOK, Hands
  <2>c. /\ [at[l] EXCEPT !.stale = at[l].stale \cup {g}] \in Hands
        /\ [at[l] EXCEPT !.live = at[l].live \cup {g}] \in Hands
        /\ [at[l] EXCEPT !.guard = g] \in Hands
    BY <1>0a, <2>b, HandsEdited
  <2>1. at' \in [Leases -> Hands]
    BY <1>0, <1>0a, <2>a, <2>b, <2>c, HandsEdited
  <2>2. pc' \in [Leases -> Places]
    BY <1>26 DEF ProbeRow, TypeOK, Goto, Leave, Look, Passed, GiveUp, Places, Cleaning,
                 Publishing, Owning, Ending, Places
  <2>3. /\ row' \in [Leases -> SUBSET Resources] /\ file' \in SUBSET Leases
        /\ lock' \in [Leases -> Leases \cup {None}] /\ plan' \in [Leases -> SUBSET Resources]
    BY <1>26 DEF ProbeRow, TypeOK, Goto, Leave, Look, Passed, GiveUp
  <2>4. /\ admits' \in [Leases -> BOOLEAN] /\ borrowers' \in [Leases -> Nat]
        /\ recovery' \in [Leases -> Outcomes]
        /\ asked' \in [Leases -> BOOLEAN] /\ faults' \in Nat
    BY <1>26 DEF ProbeRow, TypeOK, inside, Fail
  <2> QED
    BY <2>1, <2>2, <2>3, <2>4 DEF TypeOK
<1>27. CASE UNCHANGED vars
  BY <1>27, <1>0, RuntimeAssumption DEF vars, inside, TypeOK, Hands, inside, Goto, Leave, Look,
                                        Passed, GiveUp, Fail, Plans, Cleaning, Publishing, Owning,
                                        Ending, Places
<1> QED
  BY <1>1, <1>2, <1>3, <1>4, <1>5, <1>6, <1>7, <1>8, <1>9, <1>10, <1>11, <1>12, <1>13, <1>14,
     <1>15, <1>16, <1>17, <1>18, <1>19, <1>20, <1>21, <1>22, <1>23, <1>24, <1>25, <1>26, <1>27
  DEF Next, Cleanup, Publication, Admission, Release

-----------------------------------------------------------------------------
(* A verdict never goes out of date *)

\* Past its end a lease takes no step but to the next place past its end.
LEMMA EndIsForGood ==
    ASSUME TypeOK, [Next]_vars, NEW k \in Leases, Ended(k)
    PROVE  Ended(k)'
<1> USE DEF Goto, Leave, Look, Passed, GiveUp, Probed, inside, TypeOK, Places, Ended, Cleaning,
           Publishing, Owning, Ending
<1>1. ASSUME NEW l \in Leases, Start(l) PROVE Ended(k)'
  BY <1>1 DEF Start
<1>2. ASSUME NEW l \in Leases, ListGuards(l) PROVE Ended(k)'
  BY <1>2 DEF ListGuards
<1>3. ASSUME NEW l \in Leases, MissGuard(l) PROVE Ended(k)'
  BY <1>3 DEF MissGuard
<1>4. ASSUME NEW l \in Leases, ProbeAgain(l) PROVE Ended(k)'
  BY <1>4 DEF ProbeAgain
<1>5. ASSUME NEW l \in Leases, EndOrphanProbe(l) PROVE Ended(k)'
  BY <1>5 DEF EndOrphanProbe
<1>6. ASSUME NEW l \in Leases, RemoveOrphan(l) PROVE Ended(k)'
  BY <1>6 DEF RemoveOrphan
<1>7. ASSUME NEW l \in Leases, CreateGuard(l) PROVE Ended(k)'
  BY <1>7 DEF CreateGuard
<1>8. ASSUME NEW l \in Leases, LockGuard(l) PROVE Ended(k)'
  BY <1>8 DEF LockGuard
<1>9. ASSUME NEW l \in Leases, Snapshot(l) PROVE Ended(k)'
  BY <1>9 DEF Snapshot
<1>10. ASSUME NEW l \in Leases, EndProbe(l) PROVE Ended(k)'
  BY <1>10 DEF EndProbe
<1>11. ASSUME NEW l \in Leases, Retry(l) PROVE Ended(k)'
  BY <1>11 DEF Retry
<1>12. ASSUME NEW l \in Leases, Refuse(l) PROVE Ended(k)'
  BY <1>12 DEF Refuse
<1>13. ASSUME NEW l \in Leases, PublishPlan(l) PROVE Ended(k)'
  BY <1>13 DEF PublishPlan
<1>14. ASSUME NEW l \in Leases, Sweep(l) PROVE Ended(k)'
  BY <1>14 DEF Sweep
<1>15. ASSUME NEW l \in Leases, Borrow(l) PROVE Ended(k)'
  BY <1>15 DEF Borrow
<1>16. ASSUME NEW l \in Leases, ReturnBorrow(l) PROVE Ended(k)'
  BY <1>16 DEF ReturnBorrow
<1>17. ASSUME NEW l \in Leases, Expand(l) PROVE Ended(k)'
  BY <1>17 DEF Expand
<1>18. ASSUME NEW l \in Leases, SuspendIfIdle(l) PROVE Ended(k)'
  BY <1>18 DEF SuspendIfIdle, Suspended, Closes
<1>19. ASSUME NEW l \in Leases, AskRelease(l) PROVE Ended(k)'
  BY <1>19 DEF AskRelease
<1>20. ASSUME NEW l \in Leases, DeleteRow(l) PROVE Ended(k)'
  BY <1>20 DEF DeleteRow
<1>21. ASSUME NEW l \in Leases, CloseGuard(l) PROVE Ended(k)'
  BY <1>21 DEF CloseGuard
<1>22. ASSUME NEW l \in Leases, RemoveGuard(l) PROVE Ended(k)'
  BY <1>22 DEF RemoveGuard
<1>23. ASSUME NEW l \in Leases, Crash(l) PROVE Ended(k)'
  BY <1>23 DEF Crash
<1>24. ASSUME NEW l \in Leases, NEW g \in Leases, MeetYoung(l, g) PROVE Ended(k)'
  BY <1>24 DEF MeetYoung
<1>25. ASSUME NEW l \in Leases, NEW g \in Leases, ProbeOrphan(l, g) PROVE Ended(k)'
  BY <1>25 DEF ProbeOrphan
<1>26. ASSUME NEW l \in Leases, NEW g \in Leases, ProbeRow(l, g) PROVE Ended(k)'
  BY <1>26 DEF ProbeRow
<1>27. CASE UNCHANGED vars
  BY <1>27 DEF vars
<1> QED
  BY <1>1, <1>2, <1>3, <1>4, <1>5, <1>6, <1>7, <1>8, <1>9, <1>10, <1>11, <1>12, <1>13, <1>14,
     <1>15, <1>16, <1>17, <1>18, <1>19, <1>20, <1>21, <1>22, <1>23, <1>24, <1>25, <1>26, <1>27
  DEF Next, Cleanup, Publication, Admission, Release

\* A lease that has its guard locked does not become one that has not yet.
LEMMA GuardIsForGood ==
    ASSUME TypeOK, [Next]_vars, NEW k \in Leases,
           pc[k] \in Publishing \cup Owning \cup Ending
    PROVE  pc'[k] \in Publishing \cup Owning \cup Ending
<1> USE DEF Goto, Leave, Look, Passed, GiveUp, Probed, inside, TypeOK, Places, Cleaning,
           Publishing, Owning, Ending
<1>1. ASSUME NEW l \in Leases, Start(l)
      PROVE  pc'[k] \in Publishing \cup Owning \cup Ending
  BY <1>1 DEF Start
<1>2. ASSUME NEW l \in Leases, ListGuards(l)
      PROVE  pc'[k] \in Publishing \cup Owning \cup Ending
  BY <1>2 DEF ListGuards
<1>3. ASSUME NEW l \in Leases, MissGuard(l)
      PROVE  pc'[k] \in Publishing \cup Owning \cup Ending
  BY <1>3 DEF MissGuard
<1>4. ASSUME NEW l \in Leases, ProbeAgain(l)
      PROVE  pc'[k] \in Publishing \cup Owning \cup Ending
  BY <1>4 DEF ProbeAgain
<1>5. ASSUME NEW l \in Leases, EndOrphanProbe(l)
      PROVE  pc'[k] \in Publishing \cup Owning \cup Ending
  BY <1>5 DEF EndOrphanProbe
<1>6. ASSUME NEW l \in Leases, RemoveOrphan(l)
      PROVE  pc'[k] \in Publishing \cup Owning \cup Ending
  BY <1>6 DEF RemoveOrphan
<1>7. ASSUME NEW l \in Leases, CreateGuard(l)
      PROVE  pc'[k] \in Publishing \cup Owning \cup Ending
  BY <1>7 DEF CreateGuard
<1>8. ASSUME NEW l \in Leases, LockGuard(l)
      PROVE  pc'[k] \in Publishing \cup Owning \cup Ending
  BY <1>8 DEF LockGuard
<1>9. ASSUME NEW l \in Leases, Snapshot(l)
      PROVE  pc'[k] \in Publishing \cup Owning \cup Ending
  BY <1>9 DEF Snapshot
<1>10. ASSUME NEW l \in Leases, EndProbe(l)
      PROVE  pc'[k] \in Publishing \cup Owning \cup Ending
  BY <1>10 DEF EndProbe
<1>11. ASSUME NEW l \in Leases, Retry(l)
      PROVE  pc'[k] \in Publishing \cup Owning \cup Ending
  BY <1>11 DEF Retry
<1>12. ASSUME NEW l \in Leases, Refuse(l)
      PROVE  pc'[k] \in Publishing \cup Owning \cup Ending
  BY <1>12 DEF Refuse
<1>13. ASSUME NEW l \in Leases, PublishPlan(l)
      PROVE  pc'[k] \in Publishing \cup Owning \cup Ending
  BY <1>13 DEF PublishPlan
<1>14. ASSUME NEW l \in Leases, Sweep(l)
      PROVE  pc'[k] \in Publishing \cup Owning \cup Ending
  BY <1>14 DEF Sweep
<1>15. ASSUME NEW l \in Leases, Borrow(l)
      PROVE  pc'[k] \in Publishing \cup Owning \cup Ending
  BY <1>15 DEF Borrow
<1>16. ASSUME NEW l \in Leases, ReturnBorrow(l)
      PROVE  pc'[k] \in Publishing \cup Owning \cup Ending
  BY <1>16 DEF ReturnBorrow
<1>17. ASSUME NEW l \in Leases, Expand(l)
      PROVE  pc'[k] \in Publishing \cup Owning \cup Ending
  BY <1>17 DEF Expand
<1>18. ASSUME NEW l \in Leases, SuspendIfIdle(l)
      PROVE  pc'[k] \in Publishing \cup Owning \cup Ending
  BY <1>18 DEF SuspendIfIdle, Suspended, Closes
<1>19. ASSUME NEW l \in Leases, AskRelease(l)
      PROVE  pc'[k] \in Publishing \cup Owning \cup Ending
  BY <1>19 DEF AskRelease
<1>20. ASSUME NEW l \in Leases, DeleteRow(l)
      PROVE  pc'[k] \in Publishing \cup Owning \cup Ending
  BY <1>20 DEF DeleteRow
<1>21. ASSUME NEW l \in Leases, CloseGuard(l)
      PROVE  pc'[k] \in Publishing \cup Owning \cup Ending
  BY <1>21 DEF CloseGuard
<1>22. ASSUME NEW l \in Leases, RemoveGuard(l)
      PROVE  pc'[k] \in Publishing \cup Owning \cup Ending
  BY <1>22 DEF RemoveGuard
<1>23. ASSUME NEW l \in Leases, Crash(l)
      PROVE  pc'[k] \in Publishing \cup Owning \cup Ending
  BY <1>23 DEF Crash
<1>24. ASSUME NEW l \in Leases, NEW g \in Leases, MeetYoung(l, g)
      PROVE  pc'[k] \in Publishing \cup Owning \cup Ending
  BY <1>24 DEF MeetYoung
<1>25. ASSUME NEW l \in Leases, NEW g \in Leases, ProbeOrphan(l, g)
      PROVE  pc'[k] \in Publishing \cup Owning \cup Ending
  BY <1>25 DEF ProbeOrphan
<1>26. ASSUME NEW l \in Leases, NEW g \in Leases, ProbeRow(l, g)
      PROVE  pc'[k] \in Publishing \cup Owning \cup Ending
  BY <1>26 DEF ProbeRow
<1>27. CASE UNCHANGED vars
  BY <1>27 DEF vars
<1> QED
  BY <1>1, <1>2, <1>3, <1>4, <1>5, <1>6, <1>7, <1>8, <1>9, <1>10, <1>11, <1>12, <1>13, <1>14,
     <1>15, <1>16, <1>17, <1>18, <1>19, <1>20, <1>21, <1>22, <1>23, <1>24, <1>25, <1>26, <1>27
  DEF Next, Cleanup, Publication, Admission, Release

\* What a lease has published it owns until its end.
LEMMA PublicationIsForGood ==
    ASSUME TypeOK, \A l \in Leases : PlaceOf(l), [Next]_vars, NEW k \in Leases, Published(k)
    PROVE  Published(k)'
<1> USE DEF Goto, Leave, Look, Passed, GiveUp, Probed, inside, TypeOK, Places, Published,
           Holding, Ended, PlaceOf, Cleaning, Publishing, Owning, Ending
<1>1. ASSUME NEW l \in Leases, Start(l) PROVE Published(k)'
  BY <1>1 DEF Start
<1>2. ASSUME NEW l \in Leases, ListGuards(l) PROVE Published(k)'
  BY <1>2 DEF ListGuards
<1>3. ASSUME NEW l \in Leases, MissGuard(l) PROVE Published(k)'
  BY <1>3 DEF MissGuard
<1>4. ASSUME NEW l \in Leases, ProbeAgain(l) PROVE Published(k)'
  BY <1>4 DEF ProbeAgain
<1>5. ASSUME NEW l \in Leases, EndOrphanProbe(l) PROVE Published(k)'
  BY <1>5 DEF EndOrphanProbe
<1>6. ASSUME NEW l \in Leases, RemoveOrphan(l) PROVE Published(k)'
  BY <1>6 DEF RemoveOrphan
<1>7. ASSUME NEW l \in Leases, CreateGuard(l) PROVE Published(k)'
  BY <1>7 DEF CreateGuard
<1>8. ASSUME NEW l \in Leases, LockGuard(l) PROVE Published(k)'
  BY <1>8 DEF LockGuard
<1>9. ASSUME NEW l \in Leases, Snapshot(l) PROVE Published(k)'
  BY <1>9 DEF Snapshot
<1>10. ASSUME NEW l \in Leases, EndProbe(l) PROVE Published(k)'
  BY <1>10 DEF EndProbe
<1>11. ASSUME NEW l \in Leases, Retry(l) PROVE Published(k)'
  BY <1>11 DEF Retry
<1>12. ASSUME NEW l \in Leases, Refuse(l) PROVE Published(k)'
  BY <1>12 DEF Refuse
<1>13. ASSUME NEW l \in Leases, PublishPlan(l) PROVE Published(k)'
  BY <1>13 DEF PublishPlan
<1>14. ASSUME NEW l \in Leases, Sweep(l) PROVE Published(k)'
  BY <1>14 DEF Sweep
<1>15. ASSUME NEW l \in Leases, Borrow(l) PROVE Published(k)'
  BY <1>15 DEF Borrow
<1>16. ASSUME NEW l \in Leases, ReturnBorrow(l) PROVE Published(k)'
  BY <1>16 DEF ReturnBorrow
<1>17. ASSUME NEW l \in Leases, Expand(l) PROVE Published(k)'
  BY <1>17 DEF Expand
<1>18. ASSUME NEW l \in Leases, SuspendIfIdle(l) PROVE Published(k)'
  BY <1>18 DEF SuspendIfIdle, Suspended, Closes
<1>19. ASSUME NEW l \in Leases, AskRelease(l) PROVE Published(k)'
  BY <1>19 DEF AskRelease
<1>20. ASSUME NEW l \in Leases, DeleteRow(l) PROVE Published(k)'
  BY <1>20 DEF DeleteRow
<1>21. ASSUME NEW l \in Leases, CloseGuard(l) PROVE Published(k)'
  BY <1>21 DEF CloseGuard
<1>22. ASSUME NEW l \in Leases, RemoveGuard(l) PROVE Published(k)'
  BY <1>22 DEF RemoveGuard
<1>23. ASSUME NEW l \in Leases, Crash(l) PROVE Published(k)'
  BY <1>23 DEF Crash
<1>24. ASSUME NEW l \in Leases, NEW g \in Leases, MeetYoung(l, g) PROVE Published(k)'
  BY <1>24 DEF MeetYoung
<1>25. ASSUME NEW l \in Leases, NEW g \in Leases, ProbeOrphan(l, g) PROVE Published(k)'
  BY <1>25 DEF ProbeOrphan
<1>26. ASSUME NEW l \in Leases, NEW g \in Leases, ProbeRow(l, g) PROVE Published(k)'
  BY <1>26 DEF ProbeRow
<1>27. CASE UNCHANGED vars
  BY <1>27 DEF vars
<1> QED
  BY <1>1, <1>2, <1>3, <1>4, <1>5, <1>6, <1>7, <1>8, <1>9, <1>10, <1>11, <1>12, <1>13, <1>14,
     <1>15, <1>16, <1>17, <1>18, <1>19, <1>20, <1>21, <1>22, <1>23, <1>24, <1>25, <1>26, <1>27
  DEF Next, Cleanup, Publication, Admission, Release

-----------------------------------------------------------------------------
(* The parts of the invariant *)

\* Where a lease is goes on telling what it owns and wants.
\* What a lease owns, wants and has on disk stays as long as it cleans up, or
\* probes, or fails at either.
LEMMA GoingOnKeepsPlace ==
    ASSUME RuntimeInv, NEW l \in Leases, NEW k \in Leases, UNCHANGED <<file, plan>>,
           \A j \in Leases \ {l} : at'[j] = at[j] /\ pc'[j] = pc[j],
           \/ pc[l] \in Cleaning /\ pc'[l] \in Cleaning /\ at'[l].want = at[l].want
           \/ pc[l] \in Cleaning /\ pc'[l] = "failed"
           \/ pc[l] \in Publishing /\ pc'[l] \in Publishing /\ at'[l].want = at[l].want
           \/ pc[l] \in Publishing /\ pc'[l] = IF plan[l] = {} THEN "close" ELSE "held"
    PROVE  PlaceOf(k)'
<1>1. PlaceOf(k) /\ PlaceOf(l)
  BY DEF RuntimeInv
<1>2. CASE k # l
  BY <1>1, <1>2 DEF PlaceOf
<1>3. CASE k = l
  BY <1>1, <1>3 DEF PlaceOf, Cleaning, Publishing, Owning
<1> QED
  BY <1>2, <1>3

LEMMA PlaceStays ==
    ASSUME RuntimeInv, [Next]_vars, NEW k \in Leases
    PROVE  PlaceOf(k)'
<1> USE DEF Goto, Leave, Look, Passed, GiveUp, Probed, inside, RuntimeInv, TypeOK, Places,
           Hands, PlaceOf, Plans, Cleaning, Publishing, Owning, Ending
<1>1. ASSUME NEW l \in Leases, Start(l) PROVE PlaceOf(k)'
  <2>1. PICK p \in Plans : at' = [at EXCEPT ![l].rows = row, ![l].want = p]
    BY <1>1 DEF Start
  <2>2. at \in [Leases -> Hands] /\ at[l] \in Hands
    BY DEF RuntimeInv, TypeOK
  <2>7. p # {}
    BY <2>1 DEF Plans
  <2>3. \A h \in Hands : [h EXCEPT !.rows = row, !.want = p].want = p
    BY DEF Hands
  <2>4. at' = [at EXCEPT ![l] = [at[l] EXCEPT !.rows = row, !.want = p]]
    BY <2>1, <2>2
  <2>5. at'[l].want # {} /\ \A j \in Leases \ {l} : at'[j] = at[j]
    BY <2>2, <2>7, <2>3, <2>4
  <2>6. pc[l] = "off" /\ pc'[l] = "list" /\ \A j \in Leases \ {l} : pc'[j] = pc[j]
    BY <1>1 DEF Start, Goto, RuntimeInv, TypeOK
  <2> QED
    BY <1>1, <2>5, <2>6 DEF Start, RuntimeInv, PlaceOf, Cleaning, Publishing, Owning, Ending
<1>2. ASSUME NEW l \in Leases, ListGuards(l) PROVE PlaceOf(k)'
  BY <1>2 DEF ListGuards
<1>3. ASSUME NEW l \in Leases, MissGuard(l) PROVE PlaceOf(k)'
  BY <1>3 DEF MissGuard
<1>4. ASSUME NEW l \in Leases, ProbeAgain(l) PROVE PlaceOf(k)'
  <2>1. pc[l] = "live" /\ UNCHANGED <<file, plan>>
    BY <1>4 DEF ProbeAgain
  <2>2. \A j \in Leases \ {l} : at'[j] = at[j] /\ pc'[j] = pc[j]
    BY <1>4 DEF ProbeAgain
  <2>3. \/ pc'[l] \in {"clean", "stale"} /\ at'[l].want = at[l].want
        \/ pc'[l] = "failed"
    BY <1>4 DEF ProbeAgain
  <2> HIDE DEF RuntimeInv, TypeOK, PlaceOf
  <2> QED
    BY <2>1, <2>2, <2>3, GoingOnKeepsPlace
<1>5. ASSUME NEW l \in Leases, EndOrphanProbe(l) PROVE PlaceOf(k)'
  BY ZenonT(60), <1>5 DEF EndOrphanProbe
<1>6. ASSUME NEW l \in Leases, RemoveOrphan(l) PROVE PlaceOf(k)'
  BY <1>6 DEF RemoveOrphan
<1>7. ASSUME NEW l \in Leases, CreateGuard(l) PROVE PlaceOf(k)'
  BY <1>7 DEF CreateGuard
<1>8. ASSUME NEW l \in Leases, LockGuard(l) PROVE PlaceOf(k)'
  BY <1>8 DEF LockGuard
<1>9. ASSUME NEW l \in Leases, Snapshot(l) PROVE PlaceOf(k)'
  BY <1>9 DEF Snapshot
<1>10. ASSUME NEW l \in Leases, EndProbe(l) PROVE PlaceOf(k)'
  <2>1. pc[l] = "unlock" /\ UNCHANGED <<file, plan>>
    BY <1>10 DEF EndProbe
  <2>2. \A j \in Leases \ {l} : at'[j] = at[j] /\ pc'[j] = pc[j]
    BY <1>10 DEF EndProbe
  <2>3. \/ pc'[l] = "probe" /\ at'[l].want = at[l].want
        \/ pc'[l] = IF plan[l] = {} THEN "close" ELSE "held"
    BY <1>10 DEF EndProbe
  <2> HIDE DEF RuntimeInv, TypeOK, PlaceOf
  <2> QED
    BY <2>1, <2>2, <2>3, GoingOnKeepsPlace
<1>11. ASSUME NEW l \in Leases, Retry(l) PROVE PlaceOf(k)'
  BY <1>11 DEF Retry
<1>12. ASSUME NEW l \in Leases, Refuse(l) PROVE PlaceOf(k)'
  BY <1>12 DEF Refuse
<1>13. ASSUME NEW l \in Leases, PublishPlan(l) PROVE PlaceOf(k)'
  BY <1>13 DEF PublishPlan
<1>14. ASSUME NEW l \in Leases, Sweep(l) PROVE PlaceOf(k)'
  BY <1>14 DEF Sweep
<1>15. ASSUME NEW l \in Leases, Borrow(l) PROVE PlaceOf(k)'
  BY <1>15 DEF Borrow
<1>16. ASSUME NEW l \in Leases, ReturnBorrow(l) PROVE PlaceOf(k)'
  BY <1>16 DEF ReturnBorrow
<1>17. ASSUME NEW l \in Leases, Expand(l) PROVE PlaceOf(k)'
  BY <1>17 DEF Expand
<1>18. ASSUME NEW l \in Leases, SuspendIfIdle(l) PROVE PlaceOf(k)'
  BY <1>18 DEF SuspendIfIdle, Suspended, Closes
<1>19. ASSUME NEW l \in Leases, AskRelease(l) PROVE PlaceOf(k)'
  BY <1>19 DEF AskRelease
<1>20. ASSUME NEW l \in Leases, DeleteRow(l) PROVE PlaceOf(k)'
  BY <1>20 DEF DeleteRow
<1>21. ASSUME NEW l \in Leases, CloseGuard(l) PROVE PlaceOf(k)'
  BY <1>21 DEF CloseGuard
<1>22. ASSUME NEW l \in Leases, RemoveGuard(l) PROVE PlaceOf(k)'
  BY <1>22 DEF RemoveGuard
<1>23. ASSUME NEW l \in Leases, Crash(l) PROVE PlaceOf(k)'
  BY <1>23 DEF Crash
<1>24. ASSUME NEW l \in Leases, NEW g \in Leases, MeetYoung(l, g) PROVE PlaceOf(k)'
  <2>1. /\ at'[l].want = at[l].want \/ pc'[l] \in {"failed", "close", "held"}
        /\ \A j \in Leases \ {l} : at'[j] = at[j] /\ pc'[j] = pc[j]
    BY <1>24 DEF MeetYoung, Goto, Leave, Look, Passed, GiveUp, RuntimeInv, TypeOK, Places, Hands,
                 Cleaning, Publishing, Owning, Ending
  <2>2. /\ pc[l] \in {"clean", "unlock"}
        /\ pc[l] = "clean" /\ pc'[l] \in {"clean", "failed"}
    BY <1>24 DEF MeetYoung, Goto, Leave, Look, Passed, GiveUp, RuntimeInv, TypeOK, Places, Hands,
                 Cleaning, Publishing, Owning, Ending
  <2> QED
    BY <1>24, <2>1, <2>2 DEF MeetYoung, RuntimeInv, PlaceOf, Cleaning, Publishing, Owning, Ending
<1>25. ASSUME NEW l \in Leases, NEW g \in Leases, ProbeOrphan(l, g) PROVE PlaceOf(k)'
  <2>1. /\ at'[l].want = at[l].want \/ pc'[l] \in {"failed", "close", "held"}
        /\ \A j \in Leases \ {l} : at'[j] = at[j] /\ pc'[j] = pc[j]
    BY <1>25 DEF ProbeOrphan, Goto, Leave, Look, Passed, GiveUp, RuntimeInv, TypeOK, Places,
                 Hands, Cleaning, Publishing, Owning, Ending
  <2>2. /\ pc[l] \in {"clean", "unlock"}
        /\ pc[l] = "clean" /\ pc'[l] \in {"stale", "live"}
    BY <1>25 DEF ProbeOrphan, Goto, Leave, Look, Passed, GiveUp, RuntimeInv, TypeOK, Places,
                 Hands, Cleaning, Publishing, Owning, Ending
  <2> QED
    BY <1>25, <2>1, <2>2 DEF ProbeOrphan, RuntimeInv, PlaceOf, Cleaning, Publishing, Owning,
                             Ending
<1>26. ASSUME NEW l \in Leases, NEW g \in Leases, ProbeRow(l, g) PROVE PlaceOf(k)'
  <2>1. pc[l] = "probe" /\ UNCHANGED <<file, plan>>
    BY <1>26 DEF ProbeRow
  <2>2. \A j \in Leases \ {l} : at'[j] = at[j] /\ pc'[j] = pc[j]
    BY <1>26 DEF ProbeRow
  <2>3. pc'[l] \in {"probe", "unlock"} /\ at'[l].want = at[l].want
    BY <1>26 DEF ProbeRow
  <2> HIDE DEF RuntimeInv, TypeOK, PlaceOf
  <2> QED
    BY <2>1, <2>2, <2>3, GoingOnKeepsPlace
<1>27. CASE UNCHANGED vars
  BY <1>27 DEF vars
<1> QED
  BY <1>1, <1>2, <1>3, <1>4, <1>5, <1>6, <1>7, <1>8, <1>9, <1>10, <1>11, <1>12, <1>13, <1>14,
     <1>15, <1>16, <1>17, <1>18, <1>19, <1>20, <1>21, <1>22, <1>23, <1>24, <1>25, <1>26, <1>27
  DEF Next, Cleanup, Publication, Admission, Release

\* Nobody else unlocks or removes the guard of a lease before its end.
LEMMA GuardStays ==
    ASSUME RuntimeInv, [Next]_vars, NEW k \in Leases
    PROVE  GuardOf(k)'
<1> USE RuntimeAssumption DEF Goto, Leave, Look, Passed, GiveUp, Probed, inside, RuntimeInv,
           TypeOK, Places, PlaceOf, GuardOf, KnowledgeOf, Ended, Cleaning, Publishing, Owning,
           Ending
<1>1. ASSUME NEW l \in Leases, Start(l) PROVE GuardOf(k)'
  BY <1>1 DEF Start
<1>2. ASSUME NEW l \in Leases, ListGuards(l) PROVE GuardOf(k)'
  BY <1>2 DEF ListGuards
<1>3. ASSUME NEW l \in Leases, MissGuard(l) PROVE GuardOf(k)'
  BY <1>3 DEF MissGuard
<1>4. ASSUME NEW l \in Leases, ProbeAgain(l) PROVE GuardOf(k)'
  BY <1>4 DEF ProbeAgain
<1>5. ASSUME NEW l \in Leases, EndOrphanProbe(l) PROVE GuardOf(k)'
  BY <1>5 DEF EndOrphanProbe
<1>6. ASSUME NEW l \in Leases, RemoveOrphan(l) PROVE GuardOf(k)'
  BY <1>6 DEF RemoveOrphan
<1>7. ASSUME NEW l \in Leases, CreateGuard(l) PROVE GuardOf(k)'
  BY <1>7 DEF CreateGuard
<1>8. ASSUME NEW l \in Leases, LockGuard(l) PROVE GuardOf(k)'
  BY <1>8 DEF LockGuard
<1>9. ASSUME NEW l \in Leases, Snapshot(l) PROVE GuardOf(k)'
  BY <1>9 DEF Snapshot
<1>10. ASSUME NEW l \in Leases, EndProbe(l) PROVE GuardOf(k)'
  BY <1>10 DEF EndProbe
<1>11. ASSUME NEW l \in Leases, Retry(l) PROVE GuardOf(k)'
  BY <1>11 DEF Retry
<1>12. ASSUME NEW l \in Leases, Refuse(l) PROVE GuardOf(k)'
  BY <1>12 DEF Refuse
<1>13. ASSUME NEW l \in Leases, PublishPlan(l) PROVE GuardOf(k)'
  BY <1>13 DEF PublishPlan
<1>14. ASSUME NEW l \in Leases, Sweep(l) PROVE GuardOf(k)'
  BY <1>14 DEF Sweep
<1>15. ASSUME NEW l \in Leases, Borrow(l) PROVE GuardOf(k)'
  BY <1>15 DEF Borrow
<1>16. ASSUME NEW l \in Leases, ReturnBorrow(l) PROVE GuardOf(k)'
  BY <1>16 DEF ReturnBorrow
<1>17. ASSUME NEW l \in Leases, Expand(l) PROVE GuardOf(k)'
  BY <1>17 DEF Expand
<1>18. ASSUME NEW l \in Leases, SuspendIfIdle(l) PROVE GuardOf(k)'
  BY <1>18 DEF SuspendIfIdle, Suspended, Closes
<1>19. ASSUME NEW l \in Leases, AskRelease(l) PROVE GuardOf(k)'
  BY <1>19 DEF AskRelease
<1>20. ASSUME NEW l \in Leases, DeleteRow(l) PROVE GuardOf(k)'
  BY <1>20 DEF DeleteRow
<1>21. ASSUME NEW l \in Leases, CloseGuard(l) PROVE GuardOf(k)'
  BY <1>21 DEF CloseGuard
<1>22. ASSUME NEW l \in Leases, RemoveGuard(l) PROVE GuardOf(k)'
  BY <1>22 DEF RemoveGuard
<1>23. ASSUME NEW l \in Leases, Crash(l) PROVE GuardOf(k)'
  BY <1>23 DEF Crash
<1>24. ASSUME NEW l \in Leases, NEW g \in Leases, MeetYoung(l, g) PROVE GuardOf(k)'
  BY <1>24 DEF MeetYoung
<1>25. ASSUME NEW l \in Leases, NEW g \in Leases, ProbeOrphan(l, g) PROVE GuardOf(k)'
  BY <1>25 DEF ProbeOrphan
<1>26. ASSUME NEW l \in Leases, NEW g \in Leases, ProbeRow(l, g) PROVE GuardOf(k)'
  BY <1>26 DEF ProbeRow
<1>27. CASE UNCHANGED vars
  BY <1>27 DEF vars
<1> QED
  BY <1>1, <1>2, <1>3, <1>4, <1>5, <1>6, <1>7, <1>8, <1>9, <1>10, <1>11, <1>12, <1>13, <1>14,
     <1>15, <1>16, <1>17, <1>18, <1>19, <1>20, <1>21, <1>22, <1>23, <1>24, <1>25, <1>26, <1>27
  DEF Next, Cleanup, Publication, Admission, Release

\* A step puts nothing into the hands of a lease but what holds already.
LEMMA OnlyFactsAreLearned ==
    ASSUME RuntimeInv, [Next]_vars, NEW k \in Leases
    PROVE  Learned(k)
<1>1. ASSUME NEW l \in Leases, Start(l) PROVE Learned(k)
  BY <1>1, RuntimeAssumption DEF Start, Goto, Leave, Look, Passed, GiveUp, Probed, inside,
                                 RuntimeInv, TypeOK, Places, Hands, Nothing, PlaceOf, GuardOf,
                                 KnowledgeOf, Learned, Holding, Ended, Others, Rows, Judged,
                                 Unlocked, Cleaning, Publishing, Owning, Ending
<1>2. ASSUME NEW l \in Leases, ListGuards(l) PROVE Learned(k)
  BY <1>2, RuntimeAssumption DEF ListGuards, Goto, Leave, Look, Passed, GiveUp, Probed, inside,
                                 RuntimeInv, TypeOK, Places, Hands, Nothing, PlaceOf, GuardOf,
                                 KnowledgeOf, Learned, Holding, Ended, Others, Rows, Judged,
                                 Unlocked, Cleaning, Publishing, Owning, Ending
<1>3. ASSUME NEW l \in Leases, MissGuard(l) PROVE Learned(k)
  BY <1>3, RuntimeAssumption DEF MissGuard, Goto, Leave, Look, Passed, GiveUp, Probed, inside,
                                 RuntimeInv, TypeOK, Places, Hands, Nothing, PlaceOf, GuardOf,
                                 KnowledgeOf, Learned, Holding, Ended, Others, Rows, Judged,
                                 Unlocked, Cleaning, Publishing, Owning, Ending
<1>4. ASSUME NEW l \in Leases, ProbeAgain(l) PROVE Learned(k)
  <2>1. ASSUME k # l PROVE Learned(k)
    BY <1>4, <2>1 DEF ProbeAgain, Goto, Leave, Look, Passed, RuntimeInv, TypeOK, KnowledgeOf,
                      Learned
  <2>2. /\ at[l].guard \in Leases
        /\ pc[at[l].guard] \in Publishing \cup Owning \cup Ending
    BY <1>4 DEF ProbeAgain, RuntimeInv, KnowledgeOf
  <2>3. ASSUME lock[at[l].guard] = None PROVE Ended(at[l].guard)
    BY <2>2, <2>3, RuntimeAssumption DEF RuntimeInv, GuardOf, Ended
  <2>4. pc[l] = "live" /\ pc \in [Leases -> Places] /\ at \in [Leases -> Hands]
    BY <1>4 DEF ProbeAgain, RuntimeInv, TypeOK
  <2>5. \/ pc'[l] = "clean" /\ at'[l].rows = at[l].rows /\ at'[l].stale = at[l].stale
        \/ /\ pc'[l] = "stale" /\ at'[l].rows = at[l].rows /\ at'[l].stale = at[l].stale
           /\ at'[l].guard = at[l].guard /\ lock[at[l].guard] = None
        \/ pc'[l] = "failed" /\ at'[l] = Nothing
    <3>1. at[l] \in Hands
      BY <2>4
    <3> QED
      BY <1>4, <2>4, <3>1 DEF ProbeAgain, Goto, Leave, Look, Passed, Hands
  <2> QED
    BY <2>1, <2>3, <2>2, <2>5 DEF Learned, Nothing, Others
<1>5. ASSUME NEW l \in Leases, EndOrphanProbe(l) PROVE Learned(k)
  BY <1>5, RuntimeAssumption DEF EndOrphanProbe, Goto, Leave, Look, Passed, GiveUp, Probed,
                                 inside, RuntimeInv, TypeOK, Places, Hands, Nothing, PlaceOf,
                                 GuardOf, KnowledgeOf, Learned, Holding, Ended, Others, Rows,
                                 Judged, Unlocked, Cleaning, Publishing, Owning, Ending
<1>6. ASSUME NEW l \in Leases, RemoveOrphan(l) PROVE Learned(k)
  BY <1>6, RuntimeAssumption DEF RemoveOrphan, Goto, Leave, Look, Passed, GiveUp, Probed, inside,
                                 RuntimeInv, TypeOK, Places, Hands, Nothing, PlaceOf, GuardOf,
                                 KnowledgeOf, Learned, Holding, Ended, Others, Rows, Judged,
                                 Unlocked, Cleaning, Publishing, Owning, Ending
<1>7. ASSUME NEW l \in Leases, CreateGuard(l) PROVE Learned(k)
  BY <1>7, RuntimeAssumption DEF CreateGuard, Goto, Leave, Look, Passed, GiveUp, Probed, inside,
                                 RuntimeInv, TypeOK, Places, Hands, Nothing, PlaceOf, GuardOf,
                                 KnowledgeOf, Learned, Holding, Ended, Others, Rows, Judged,
                                 Unlocked, Cleaning, Publishing, Owning, Ending
<1>8. ASSUME NEW l \in Leases, LockGuard(l) PROVE Learned(k)
  BY <1>8, RuntimeAssumption DEF LockGuard, Goto, Leave, Look, Passed, GiveUp, Probed, inside,
                                 RuntimeInv, TypeOK, Places, Hands, Nothing, PlaceOf, GuardOf,
                                 KnowledgeOf, Learned, Holding, Ended, Others, Rows, Judged,
                                 Unlocked, Cleaning, Publishing, Owning, Ending
<1>9. ASSUME NEW l \in Leases, Snapshot(l) PROVE Learned(k)
  <2>1. ASSUME k # l PROVE Learned(k)
    BY <1>9, <2>1 DEF Snapshot, Goto, Leave, Look, Passed, GiveUp, RuntimeInv, TypeOK,
                      KnowledgeOf, Learned
  <2>2. \/ /\ pc'[l] = "probe" /\ at'[l].stale = {}
           /\ \A g \in Others(l) : at'[l].rows[g] = row[g]
        \/ pc'[l] \in {"close", "held"} /\ at'[l] = Nothing
    BY <1>9 DEF Snapshot, Goto, Leave, GiveUp, Others, RuntimeInv, TypeOK, Places, Hands,
                Cleaning, Publishing, Owning, Ending
  <2> QED
    BY <2>1, <2>2 DEF Learned, Nothing, Others
<1>10. ASSUME NEW l \in Leases, EndProbe(l) PROVE Learned(k)
  <2>1. ASSUME k # l PROVE Learned(k)
    BY <1>10, <2>1 DEF EndProbe, Goto, Leave, Look, Passed, GiveUp, RuntimeInv, TypeOK,
                       KnowledgeOf, Learned
  <2>2. \/ /\ pc'[l] = "probe" /\ at'[l].rows = at[l].rows
           /\ at'[l].stale = at[l].stale \cup {at[l].guard}
        \/ pc'[l] \in {"close", "held"} /\ at'[l] = Nothing
    BY <1>10 DEF EndProbe, Goto, Leave, GiveUp, RuntimeInv, TypeOK, Places, Hands, Cleaning,
                 Publishing, Owning, Ending
  <2>3. Ended(at[l].guard)
    BY <1>10 DEF EndProbe, RuntimeInv, KnowledgeOf
  <2> QED
    BY <2>1, <2>2, <2>3 DEF Learned, Nothing, Others
<1>11. ASSUME NEW l \in Leases, Retry(l) PROVE Learned(k)
  BY <1>11, RuntimeAssumption DEF Retry, Goto, Leave, Look, Passed, GiveUp, Probed, inside,
                                  RuntimeInv, TypeOK, Places, Hands, Nothing, PlaceOf, GuardOf,
                                  KnowledgeOf, Learned, Holding, Ended, Others, Rows, Judged,
                                  Unlocked, Cleaning, Publishing, Owning, Ending
<1>12. ASSUME NEW l \in Leases, Refuse(l) PROVE Learned(k)
  BY <1>12, RuntimeAssumption DEF Refuse, Goto, Leave, Look, Passed, GiveUp, Probed, inside,
                                  RuntimeInv, TypeOK, Places, Hands, Nothing, PlaceOf, GuardOf,
                                  KnowledgeOf, Learned, Holding, Ended, Others, Rows, Judged,
                                  Unlocked, Cleaning, Publishing, Owning, Ending
<1>13. ASSUME NEW l \in Leases, PublishPlan(l) PROVE Learned(k)
  BY <1>13, RuntimeAssumption DEF PublishPlan, Goto, Leave, Look, Passed, GiveUp, Probed, inside,
                                  RuntimeInv, TypeOK, Places, Hands, Nothing, PlaceOf, GuardOf,
                                  KnowledgeOf, Learned, Holding, Ended, Others, Rows, Judged,
                                  Unlocked, Cleaning, Publishing, Owning, Ending
<1>14. ASSUME NEW l \in Leases, Sweep(l) PROVE Learned(k)
  BY <1>14, RuntimeAssumption DEF Sweep, Goto, Leave, Look, Passed, GiveUp, Probed, inside,
                                  RuntimeInv, TypeOK, Places, Hands, Nothing, PlaceOf, GuardOf,
                                  KnowledgeOf, Learned, Holding, Ended, Others, Rows, Judged,
                                  Unlocked, Cleaning, Publishing, Owning, Ending
<1>15. ASSUME NEW l \in Leases, Borrow(l) PROVE Learned(k)
  BY <1>15, RuntimeAssumption DEF Borrow, Goto, Leave, Look, Passed, GiveUp, Probed, inside,
                                  RuntimeInv, TypeOK, Places, Hands, Nothing, PlaceOf, GuardOf,
                                  KnowledgeOf, Learned, Holding, Ended, Others, Rows, Judged,
                                  Unlocked, Cleaning, Publishing, Owning, Ending
<1>16. ASSUME NEW l \in Leases, ReturnBorrow(l) PROVE Learned(k)
  BY <1>16, RuntimeAssumption DEF ReturnBorrow, Goto, Leave, Look, Passed, GiveUp, Probed, inside,
                                  RuntimeInv, TypeOK, Places, Hands, Nothing, PlaceOf, GuardOf,
                                  KnowledgeOf, Learned, Holding, Ended, Others, Rows, Judged,
                                  Unlocked, Cleaning, Publishing, Owning, Ending
<1>17. ASSUME NEW l \in Leases, Expand(l) PROVE Learned(k)
  BY <1>17, RuntimeAssumption DEF Expand, Goto, Leave, Look, Passed, GiveUp, Probed, inside,
                                  RuntimeInv, TypeOK, Places, Hands, Nothing, PlaceOf, GuardOf,
                                  KnowledgeOf, Learned, Holding, Ended, Others, Rows, Judged,
                                  Unlocked, Cleaning, Publishing, Owning, Ending
<1>18. ASSUME NEW l \in Leases, SuspendIfIdle(l) PROVE Learned(k)
  BY <1>18, RuntimeAssumption DEF SuspendIfIdle, Suspended, Closes, Goto, Leave, Look, Passed, GiveUp,
                                  Probed,
                                  inside, RuntimeInv, TypeOK, Places, Hands, Nothing, PlaceOf,
                                  GuardOf, KnowledgeOf, Learned, Holding, Ended, Others, Rows,
                                  Judged, Unlocked, Cleaning, Publishing, Owning, Ending
<1>19. ASSUME NEW l \in Leases, AskRelease(l) PROVE Learned(k)
  BY <1>19, RuntimeAssumption DEF AskRelease, Goto, Leave, Look, Passed, GiveUp, Probed, inside,
                                  RuntimeInv, TypeOK, Places, Hands, Nothing, PlaceOf, GuardOf,
                                  KnowledgeOf, Learned, Holding, Ended, Others, Rows, Judged,
                                  Unlocked, Cleaning, Publishing, Owning, Ending
<1>20. ASSUME NEW l \in Leases, DeleteRow(l) PROVE Learned(k)
  BY <1>20, RuntimeAssumption DEF DeleteRow, Goto, Leave, Look, Passed, GiveUp, Probed, inside,
                                  RuntimeInv, TypeOK, Places, Hands, Nothing, PlaceOf, GuardOf,
                                  KnowledgeOf, Learned, Holding, Ended, Others, Rows, Judged,
                                  Unlocked, Cleaning, Publishing, Owning, Ending
<1>21. ASSUME NEW l \in Leases, CloseGuard(l) PROVE Learned(k)
  BY <1>21 DEF CloseGuard, Goto, RuntimeInv, TypeOK, KnowledgeOf, Learned, Cleaning, Publishing,
               Owning, Ending
<1>22. ASSUME NEW l \in Leases, RemoveGuard(l) PROVE Learned(k)
  BY <1>22, RuntimeAssumption DEF RemoveGuard, Goto, Leave, Look, Passed, GiveUp, Probed, inside,
                                  RuntimeInv, TypeOK, Places, Hands, Nothing, PlaceOf, GuardOf,
                                  KnowledgeOf, Learned, Holding, Ended, Others, Rows, Judged,
                                  Unlocked, Cleaning, Publishing, Owning, Ending
<1>23. ASSUME NEW l \in Leases, Crash(l) PROVE Learned(k)
  BY <1>23, RuntimeAssumption DEF Crash, Goto, Leave, Look, Passed, GiveUp, Probed, inside,
                                  RuntimeInv, TypeOK, Places, Hands, Nothing, PlaceOf, GuardOf,
                                  KnowledgeOf, Learned, Holding, Ended, Others, Rows, Judged,
                                  Unlocked, Cleaning, Publishing, Owning, Ending
<1>24. ASSUME NEW l \in Leases, NEW g \in Leases, MeetYoung(l, g) PROVE Learned(k)
  <2>1. ASSUME k # l PROVE Learned(k)
    BY <1>24, <2>1 DEF MeetYoung, Goto, Leave, Look, Passed, GiveUp, RuntimeInv, TypeOK,
                       KnowledgeOf, Learned
  <2>2. \/ pc'[l] = "clean" /\ at'[l].rows = at[l].rows /\ at'[l].stale = at[l].stale
        \/ pc'[l] = "failed" /\ at'[l] = Nothing
    BY <1>24 DEF MeetYoung, Goto, Leave, Passed, RuntimeInv, TypeOK, Places, Hands, Cleaning,
                 Publishing, Owning, Ending
  <2> QED
    BY <2>1, <2>2 DEF Learned, Nothing, Others
<1>25. ASSUME NEW l \in Leases, NEW g \in Leases, ProbeOrphan(l, g) PROVE Learned(k)
  <2>1. ASSUME k # l PROVE Learned(k)
    BY <1>25, <2>1 DEF ProbeOrphan, Goto, Leave, Look, Passed, GiveUp, RuntimeInv, TypeOK,
                       KnowledgeOf, Learned
  <2>2. /\ at'[l].rows = at[l].rows /\ at'[l].stale = at[l].stale /\ at'[l].guard = g
        /\ pc'[l] = (IF lock[g] = None THEN "stale" ELSE "live")
    BY <1>25 DEF ProbeOrphan, Goto, Look, RuntimeInv, TypeOK, Places, Hands, Cleaning, Publishing,
                 Owning, Ending
  <2>3. pc[g] \in Publishing \cup Owning \cup Ending
    BY <1>25 DEF ProbeOrphan, Unlocked, RuntimeInv, TypeOK, Places, PlaceOf
  <2>4. lock[g] = None => Ended(g)
    BY <2>3, RuntimeAssumption DEF RuntimeInv, GuardOf, Ended
  <2> QED
    BY <2>1, <2>2, <2>3, <2>4 DEF Learned, Others
<1>26. ASSUME NEW l \in Leases, NEW g \in Leases, ProbeRow(l, g) PROVE Learned(k)
  <2>1. ASSUME k # l PROVE Learned(k)
    BY <1>26, <2>1 DEF ProbeRow, Goto, Leave, Look, Passed, GiveUp, RuntimeInv, TypeOK,
                       KnowledgeOf, Learned
  <2>2. /\ at'[l].rows = at[l].rows
        /\ \/ pc'[l] = "unlock" /\ at'[l].stale = at[l].stale /\ at'[l].guard = g /\ lock[g] = None
           \/ pc'[l] = "probe" /\ at'[l].stale \subseteq at[l].stale \cup {g} /\ g \notin file
           \/ pc'[l] = "probe" /\ at'[l].stale = at[l].stale
    BY <1>26 DEF ProbeRow, Goto, Look, RuntimeInv, TypeOK, Places, Hands, Cleaning, Publishing,
                 Owning, Ending
  <2>3. Published(g)
    BY <1>26 DEF ProbeRow, Rows, Others, RuntimeInv, KnowledgeOf
  <2>4. lock[g] = None \/ g \notin file => Ended(g)
    BY <2>3, RuntimeAssumption DEF RuntimeInv, TypeOK, Places, PlaceOf, GuardOf, Published,
                                   Holding, Ended, Cleaning, Publishing, Owning, Ending
  <2> QED
    BY <2>1, <2>2, <2>4 DEF Learned, Others
<1>27. CASE UNCHANGED vars
  BY <1>27, RuntimeAssumption DEF vars, inside, Goto, Leave, Look, Passed, GiveUp, Probed, inside,
                                  RuntimeInv, TypeOK, Places, Hands, Nothing, PlaceOf, GuardOf,
                                  KnowledgeOf, Learned, Holding, Ended, Others, Rows, Judged,
                                  Unlocked, Cleaning, Publishing, Owning, Ending
<1> QED
  BY <1>1, <1>2, <1>3, <1>4, <1>5, <1>6, <1>7, <1>8, <1>9, <1>10, <1>11, <1>12, <1>13, <1>14,
     <1>15, <1>16, <1>17, <1>18, <1>19, <1>20, <1>21, <1>22, <1>23, <1>24, <1>25, <1>26, <1>27
  DEF Next, Cleanup, Publication, Admission, Release

\* So what a lease has found out about the others stays true.
LEMMA KnowledgeStays ==
    ASSUME RuntimeInv, [Next]_vars, NEW k \in Leases
    PROVE  KnowledgeOf(k)'
<1>1. /\ \A g \in Leases : Ended(g) => Ended(g)'
      /\ \A g \in Leases : Published(g) => Published(g)'
      /\ \A g \in Leases : pc[g] \in Publishing \cup Owning \cup Ending
                             => pc'[g] \in Publishing \cup Owning \cup Ending
  BY EndIsForGood, PublicationIsForGood, GuardIsForGood DEF RuntimeInv
<1>2. Learned(k) /\ KnowledgeOf(k) /\ \A g \in Leases : RowOf(g)
  BY OnlyFactsAreLearned DEF RuntimeInv
<1>3. at'[k].stale \in SUBSET Leases /\ at'[k].todo \in SUBSET Leases
  BY TypeStays DEF RuntimeInv, TypeOK, Hands
<1>4. \A g \in at'[k].stale : Ended(g)'
  BY <1>1, <1>2, <1>3 DEF Learned, KnowledgeOf
<1>5. \A g \in Others(k) : at'[k].rows[g] # {} => Published(g)'
  BY <1>1, <1>2 DEF Learned, KnowledgeOf, RowOf, Others
<1>6. pc'[k] = "sweep" => \A g \in at'[k].todo : Ended(g)'
  BY <1>1, <1>2, <1>3 DEF Learned
<1> QED
  BY <1>1, <1>2, <1>4, <1>5, <1>6 DEF Learned, KnowledgeOf, Others, Ended

\* The row of a lease that owns its plan is the plan.
LEMMA RowStays ==
    ASSUME RuntimeInv, [Next]_vars, NEW k \in Leases
    PROVE  RowOf(k)'
<1> USE RuntimeAssumption DEF Goto, Leave, Look, Passed, GiveUp, Probed, inside, RuntimeInv,
           TypeOK, Places, PlaceOf, KnowledgeOf, RowOf, Published, Holding, Ended, Others,
           Judged, Plans, Cleaning, Publishing, Owning, Ending
<1>1. ASSUME NEW l \in Leases, Start(l) PROVE RowOf(k)'
  BY <1>1 DEF Start
<1>2. ASSUME NEW l \in Leases, ListGuards(l) PROVE RowOf(k)'
  BY <1>2 DEF ListGuards
<1>3. ASSUME NEW l \in Leases, MissGuard(l) PROVE RowOf(k)'
  BY <1>3 DEF MissGuard
<1>4. ASSUME NEW l \in Leases, ProbeAgain(l) PROVE RowOf(k)'
  BY <1>4 DEF ProbeAgain
<1>5. ASSUME NEW l \in Leases, EndOrphanProbe(l) PROVE RowOf(k)'
  BY <1>5 DEF EndOrphanProbe
<1>6. ASSUME NEW l \in Leases, RemoveOrphan(l) PROVE RowOf(k)'
  BY <1>6 DEF RemoveOrphan
<1>7. ASSUME NEW l \in Leases, CreateGuard(l) PROVE RowOf(k)'
  BY <1>7 DEF CreateGuard
<1>8. ASSUME NEW l \in Leases, LockGuard(l) PROVE RowOf(k)'
  BY <1>8 DEF LockGuard
<1>9. ASSUME NEW l \in Leases, Snapshot(l) PROVE RowOf(k)'
  BY <1>9 DEF Snapshot
<1>10. ASSUME NEW l \in Leases, EndProbe(l) PROVE RowOf(k)'
  BY <1>10 DEF EndProbe
<1>11. ASSUME NEW l \in Leases, Retry(l) PROVE RowOf(k)'
  BY <1>11 DEF Retry
<1>12. ASSUME NEW l \in Leases, Refuse(l) PROVE RowOf(k)'
  BY <1>12 DEF Refuse
<1>13. ASSUME NEW l \in Leases, PublishPlan(l) PROVE RowOf(k)'
  BY <1>13 DEF PublishPlan
<1>14. ASSUME NEW l \in Leases, Sweep(l) PROVE RowOf(k)'
  BY <1>14 DEF Sweep
<1>15. ASSUME NEW l \in Leases, Borrow(l) PROVE RowOf(k)'
  BY <1>15 DEF Borrow
<1>16. ASSUME NEW l \in Leases, ReturnBorrow(l) PROVE RowOf(k)'
  BY <1>16 DEF ReturnBorrow
<1>17. ASSUME NEW l \in Leases, Expand(l) PROVE RowOf(k)'
  BY <1>17 DEF Expand
<1>18. ASSUME NEW l \in Leases, SuspendIfIdle(l) PROVE RowOf(k)'
  BY <1>18 DEF SuspendIfIdle, Suspended, Closes
<1>19. ASSUME NEW l \in Leases, AskRelease(l) PROVE RowOf(k)'
  BY <1>19 DEF AskRelease
<1>20. ASSUME NEW l \in Leases, DeleteRow(l) PROVE RowOf(k)'
  BY <1>20 DEF DeleteRow
<1>21. ASSUME NEW l \in Leases, CloseGuard(l) PROVE RowOf(k)'
  BY <1>21 DEF CloseGuard
<1>22. ASSUME NEW l \in Leases, RemoveGuard(l) PROVE RowOf(k)'
  BY <1>22 DEF RemoveGuard
<1>23. ASSUME NEW l \in Leases, Crash(l) PROVE RowOf(k)'
  BY <1>23 DEF Crash
<1>24. ASSUME NEW l \in Leases, NEW g \in Leases, MeetYoung(l, g) PROVE RowOf(k)'
  BY <1>24 DEF MeetYoung
<1>25. ASSUME NEW l \in Leases, NEW g \in Leases, ProbeOrphan(l, g) PROVE RowOf(k)'
  BY <1>25 DEF ProbeOrphan
<1>26. ASSUME NEW l \in Leases, NEW g \in Leases, ProbeRow(l, g) PROVE RowOf(k)'
  BY <1>26 DEF ProbeRow
<1>27. CASE UNCHANGED vars
  BY <1>27 DEF vars
<1> QED
  BY <1>1, <1>2, <1>3, <1>4, <1>5, <1>6, <1>7, <1>8, <1>9, <1>10, <1>11, <1>12, <1>13, <1>14,
     <1>15, <1>16, <1>17, <1>18, <1>19, <1>20, <1>21, <1>22, <1>23, <1>24, <1>25, <1>26, <1>27
  DEF Next, Cleanup, Publication, Admission, Release

\* A publication replaces nobody's plan: whoever overlaps has been judged stale
\* in the row it has, and has come to its end.
LEMMA OneOwnerStays ==
    ASSUME RuntimeInv, [Next]_vars
    PROVE  OneOwner'
<1> USE DEF Goto, Leave, Look, Passed, GiveUp, Probed, inside, RuntimeInv, TypeOK, Places,
           PlaceOf, GuardOf, KnowledgeOf, RowOf, OneOwner, Holding, Overlap, Overlapping,
           Others, Judged, Ended, Cleaning, Publishing, Owning, Ending
<1>1. ASSUME NEW l \in Leases, Start(l) PROVE OneOwner'
  BY <1>1 DEF Start
<1>2. ASSUME NEW l \in Leases, ListGuards(l) PROVE OneOwner'
  BY <1>2 DEF ListGuards
<1>3. ASSUME NEW l \in Leases, MissGuard(l) PROVE OneOwner'
  BY <1>3 DEF MissGuard
<1>4. ASSUME NEW l \in Leases, ProbeAgain(l) PROVE OneOwner'
  BY <1>4 DEF ProbeAgain
<1>5. ASSUME NEW l \in Leases, EndOrphanProbe(l) PROVE OneOwner'
  BY <1>5 DEF EndOrphanProbe
<1>6. ASSUME NEW l \in Leases, RemoveOrphan(l) PROVE OneOwner'
  BY <1>6 DEF RemoveOrphan
<1>7. ASSUME NEW l \in Leases, CreateGuard(l) PROVE OneOwner'
  BY <1>7 DEF CreateGuard
<1>8. ASSUME NEW l \in Leases, LockGuard(l) PROVE OneOwner'
  BY <1>8 DEF LockGuard
<1>9. ASSUME NEW l \in Leases, Snapshot(l) PROVE OneOwner'
  BY <1>9 DEF Snapshot
<1>10. ASSUME NEW l \in Leases, EndProbe(l) PROVE OneOwner'
  BY <1>10 DEF EndProbe
<1>11. ASSUME NEW l \in Leases, Retry(l) PROVE OneOwner'
  BY <1>11 DEF Retry
<1>12. ASSUME NEW l \in Leases, Refuse(l) PROVE OneOwner'
  BY <1>12 DEF Refuse
<1>13. ASSUME NEW l \in Leases, PublishPlan(l) PROVE OneOwner'
  BY SMTT(30), <1>13 DEF PublishPlan
<1>14. ASSUME NEW l \in Leases, Sweep(l) PROVE OneOwner'
  BY <1>14 DEF Sweep
<1>15. ASSUME NEW l \in Leases, Borrow(l) PROVE OneOwner'
  BY <1>15 DEF Borrow
<1>16. ASSUME NEW l \in Leases, ReturnBorrow(l) PROVE OneOwner'
  BY <1>16 DEF ReturnBorrow
<1>17. ASSUME NEW l \in Leases, Expand(l) PROVE OneOwner'
  BY <1>17 DEF Expand
<1>18. ASSUME NEW l \in Leases, SuspendIfIdle(l) PROVE OneOwner'
  BY <1>18 DEF SuspendIfIdle, Suspended, Closes
<1>19. ASSUME NEW l \in Leases, AskRelease(l) PROVE OneOwner'
  BY <1>19 DEF AskRelease
<1>20. ASSUME NEW l \in Leases, DeleteRow(l) PROVE OneOwner'
  BY <1>20 DEF DeleteRow
<1>21. ASSUME NEW l \in Leases, CloseGuard(l) PROVE OneOwner'
  BY <1>21 DEF CloseGuard
<1>22. ASSUME NEW l \in Leases, RemoveGuard(l) PROVE OneOwner'
  BY <1>22 DEF RemoveGuard
<1>23. ASSUME NEW l \in Leases, Crash(l) PROVE OneOwner'
  BY <1>23 DEF Crash
<1>24. ASSUME NEW l \in Leases, NEW g \in Leases, MeetYoung(l, g) PROVE OneOwner'
  BY <1>24 DEF MeetYoung
<1>25. ASSUME NEW l \in Leases, NEW g \in Leases, ProbeOrphan(l, g) PROVE OneOwner'
  BY <1>25 DEF ProbeOrphan
<1>26. ASSUME NEW l \in Leases, NEW g \in Leases, ProbeRow(l, g) PROVE OneOwner'
  BY <1>26 DEF ProbeRow
<1>27. CASE UNCHANGED vars
  BY <1>27 DEF vars
<1> QED
  BY <1>1, <1>2, <1>3, <1>4, <1>5, <1>6, <1>7, <1>8, <1>9, <1>10, <1>11, <1>12, <1>13, <1>14,
     <1>15, <1>16, <1>17, <1>18, <1>19, <1>20, <1>21, <1>22, <1>23, <1>24, <1>25, <1>26, <1>27
  DEF Next, Cleanup, Publication, Admission, Release

\* The plan is given up, the roots are changed and the lease is released only
\* without borrowers, and a closed storage is not opened again.
LEMMA BorrowedStays ==
    ASSUME RuntimeInv, [Next]_vars
    PROVE  BorrowedIsOwned' /\ SuspendedIsClosed'
<1> USE DEF Goto, Leave, Look, Passed, GiveUp, Probed, inside, RuntimeInv, TypeOK, Places,
           PlaceOf, GuardOf, RowOf, BorrowedIsOwned, SuspendedIsClosed, Holding, Plans, Fail, Cleaning,
           Publishing,
           Owning, Ending
<1>1. ASSUME NEW l \in Leases, Start(l) PROVE BorrowedIsOwned' /\ SuspendedIsClosed'
  BY <1>1 DEF Start
<1>2. ASSUME NEW l \in Leases, ListGuards(l) PROVE BorrowedIsOwned' /\ SuspendedIsClosed'
  BY <1>2 DEF ListGuards
<1>3. ASSUME NEW l \in Leases, MissGuard(l) PROVE BorrowedIsOwned' /\ SuspendedIsClosed'
  BY <1>3 DEF MissGuard
<1>4. ASSUME NEW l \in Leases, ProbeAgain(l) PROVE BorrowedIsOwned' /\ SuspendedIsClosed'
  BY <1>4 DEF ProbeAgain
<1>5. ASSUME NEW l \in Leases, EndOrphanProbe(l) PROVE BorrowedIsOwned' /\ SuspendedIsClosed'
  BY <1>5 DEF EndOrphanProbe
<1>6. ASSUME NEW l \in Leases, RemoveOrphan(l) PROVE BorrowedIsOwned' /\ SuspendedIsClosed'
  BY <1>6 DEF RemoveOrphan
<1>7. ASSUME NEW l \in Leases, CreateGuard(l) PROVE BorrowedIsOwned' /\ SuspendedIsClosed'
  BY <1>7 DEF CreateGuard
<1>8. ASSUME NEW l \in Leases, LockGuard(l) PROVE BorrowedIsOwned' /\ SuspendedIsClosed'
  BY <1>8 DEF LockGuard
<1>9. ASSUME NEW l \in Leases, Snapshot(l) PROVE BorrowedIsOwned' /\ SuspendedIsClosed'
  BY <1>9 DEF Snapshot
<1>10. ASSUME NEW l \in Leases, EndProbe(l) PROVE BorrowedIsOwned' /\ SuspendedIsClosed'
  BY <1>10 DEF EndProbe
<1>11. ASSUME NEW l \in Leases, Retry(l) PROVE BorrowedIsOwned' /\ SuspendedIsClosed'
  BY <1>11 DEF Retry
<1>12. ASSUME NEW l \in Leases, Refuse(l) PROVE BorrowedIsOwned' /\ SuspendedIsClosed'
  BY <1>12 DEF Refuse
<1>13. ASSUME NEW l \in Leases, PublishPlan(l) PROVE BorrowedIsOwned' /\ SuspendedIsClosed'
  BY <1>13 DEF PublishPlan
<1>14. ASSUME NEW l \in Leases, Sweep(l) PROVE BorrowedIsOwned' /\ SuspendedIsClosed'
  BY <1>14 DEF Sweep
<1>15. ASSUME NEW l \in Leases, Borrow(l) PROVE BorrowedIsOwned' /\ SuspendedIsClosed'
  BY <1>15 DEF Borrow
<1>16. ASSUME NEW l \in Leases, ReturnBorrow(l) PROVE BorrowedIsOwned' /\ SuspendedIsClosed'
  BY <1>16 DEF ReturnBorrow
<1>17. ASSUME NEW l \in Leases, Expand(l) PROVE BorrowedIsOwned' /\ SuspendedIsClosed'
  BY <1>17 DEF Expand
<1>18. ASSUME NEW l \in Leases, SuspendIfIdle(l) PROVE BorrowedIsOwned' /\ SuspendedIsClosed'
  BY <1>18 DEF SuspendIfIdle, Suspended, Closes
<1>19. ASSUME NEW l \in Leases, AskRelease(l) PROVE BorrowedIsOwned' /\ SuspendedIsClosed'
  BY <1>19 DEF AskRelease
<1>20. ASSUME NEW l \in Leases, DeleteRow(l) PROVE BorrowedIsOwned' /\ SuspendedIsClosed'
  BY <1>20 DEF DeleteRow
<1>21. ASSUME NEW l \in Leases, CloseGuard(l) PROVE BorrowedIsOwned' /\ SuspendedIsClosed'
  BY <1>21 DEF CloseGuard
<1>22. ASSUME NEW l \in Leases, RemoveGuard(l) PROVE BorrowedIsOwned' /\ SuspendedIsClosed'
  BY <1>22 DEF RemoveGuard
<1>23. ASSUME NEW l \in Leases, Crash(l) PROVE BorrowedIsOwned' /\ SuspendedIsClosed'
  BY <1>23 DEF Crash
<1>24. ASSUME NEW l \in Leases, NEW g \in Leases, MeetYoung(l, g)
      PROVE BorrowedIsOwned' /\ SuspendedIsClosed'
  BY <1>24 DEF MeetYoung
<1>25. ASSUME NEW l \in Leases, NEW g \in Leases, ProbeOrphan(l, g)
      PROVE BorrowedIsOwned' /\ SuspendedIsClosed'
  BY <1>25 DEF ProbeOrphan
<1>26. ASSUME NEW l \in Leases, NEW g \in Leases, ProbeRow(l, g)
      PROVE BorrowedIsOwned' /\ SuspendedIsClosed'
  BY <1>26 DEF ProbeRow
<1>27. CASE UNCHANGED vars
  BY <1>27 DEF vars
<1> QED
  BY <1>1, <1>2, <1>3, <1>4, <1>5, <1>6, <1>7, <1>8, <1>9, <1>10, <1>11, <1>12, <1>13, <1>14,
     <1>15, <1>16, <1>17, <1>18, <1>19, <1>20, <1>21, <1>22, <1>23, <1>24, <1>25, <1>26, <1>27
  DEF Next, Cleanup, Publication, Admission, Release

-----------------------------------------------------------------------------

\* The invariant holds in every state.
THEOREM RuntimeInvariance == Spec => []RuntimeInv
<1>1. Init => RuntimeInv
  BY RuntimeInvInit
<1>2. RuntimeInv /\ [Next]_vars => RuntimeInv'
  <2> SUFFICES ASSUME RuntimeInv, [Next]_vars PROVE RuntimeInv'
    OBVIOUS
  <2>1. TypeOK' /\ OneOwner' /\ BorrowedIsOwned' /\ SuspendedIsClosed'
    BY TypeStays, OneOwnerStays, BorrowedStays DEF RuntimeInv
  <2>2. \A l \in Leases : PlaceOf(l)' /\ GuardOf(l)' /\ KnowledgeOf(l)' /\ RowOf(l)'
    BY PlaceStays, GuardStays, KnowledgeStays, RowStays
  <2> QED
    BY <2>1, <2>2 DEF RuntimeInv
<1> QED
  BY <1>1, <1>2, PTL DEF Spec

\* Two processes never own overlapping resources, however many start, crash
\* and take over, expand and release side by side (PublishPlan, ProbeRow).
THEOREM OwnershipIsExclusive == Spec => []OneOwner
<1>1. RuntimeInv => OneOwner
  BY DEF RuntimeInv
<1> QED
  BY <1>1, RuntimeInvariance, PTL

\* Whoever owns a plan has its row and its locked guard, which no probe and no
\* cleanup of another process takes away (ProbeOrphan, EndProbe, Sweep).
THEOREM OwnershipIsRecorded == Spec => []OwnerIsRecorded
<1>1. RuntimeInv => OwnerIsRecorded
  BY DEF RuntimeInv, OwnerIsRecorded, Holding, TypeOK, Places, PlaceOf, GuardOf, RowOf,
         Cleaning, Publishing, Owning, Ending
<1> QED
  BY <1>1, RuntimeInvariance, PTL

\* The storage is only borrowed from a lease that owns it and whose roots no
\* recovery goes on to change (Borrow, SuspendIfIdle, DeleteRow).
THEOREM BorrowingIsOwned == Spec => []BorrowedIsOwned
<1>1. RuntimeInv => BorrowedIsOwned
  BY DEF RuntimeInv
<1> QED
  BY <1>1, RuntimeInvariance, PTL

\* A step of a lease that is suspended.
LEMMA DrainingGoesOn ==
    ASSUME RuntimeInv, [Next]_vars, NEW k \in Leases, recovery[k] # "none"
    PROVE  /\ borrowers'[k] <= borrowers[k]
           /\ plan'[k] \subseteq plan[k] /\ recovery'[k] = recovery[k]
<1> DEFINE Drains == /\ borrowers'[k] <= borrowers[k]
                     /\ plan'[k] \subseteq plan[k] /\ recovery'[k] = recovery[k]
<1>0. /\ borrowers \in [Leases -> Nat] /\ plan \in [Leases -> SUBSET Resources]
      /\ recovery \in [Leases -> Outcomes]
      /\ ~admits[k] /\ pc[k] \notin Publishing /\ borrowers[k] \in Nat
  BY DEF RuntimeInv, TypeOK, SuspendedIsClosed, Publishing, Ending
<1>1. ASSUME NEW l \in Leases, Start(l) PROVE Drains
  BY <1>0, <1>1 DEF Start, inside
<1>2. ASSUME NEW l \in Leases, ListGuards(l) PROVE Drains
  BY <1>0, <1>2 DEF ListGuards, inside
<1>3. ASSUME NEW l \in Leases, MissGuard(l) PROVE Drains
  BY <1>0, <1>3 DEF MissGuard, inside
<1>4. ASSUME NEW l \in Leases, ProbeAgain(l) PROVE Drains
  BY <1>0, <1>4 DEF ProbeAgain, inside
<1>5. ASSUME NEW l \in Leases, EndOrphanProbe(l) PROVE Drains
  BY <1>0, <1>5 DEF EndOrphanProbe, inside
<1>6. ASSUME NEW l \in Leases, RemoveOrphan(l) PROVE Drains
  BY <1>0, <1>6 DEF RemoveOrphan, inside
<1>7. ASSUME NEW l \in Leases, CreateGuard(l) PROVE Drains
  BY <1>0, <1>7 DEF CreateGuard, inside
<1>8. ASSUME NEW l \in Leases, LockGuard(l) PROVE Drains
  BY <1>0, <1>8 DEF LockGuard, inside
<1>9. ASSUME NEW l \in Leases, Snapshot(l) PROVE Drains
  BY <1>0, <1>9 DEF Snapshot, inside
<1>10. ASSUME NEW l \in Leases, EndProbe(l) PROVE Drains
  BY <1>0, <1>10 DEF EndProbe, inside
<1>11. ASSUME NEW l \in Leases, Retry(l) PROVE Drains
  BY <1>0, <1>11 DEF Retry, inside
<1>12. ASSUME NEW l \in Leases, Refuse(l) PROVE Drains
  BY <1>0, <1>12 DEF Refuse, inside
<1>13. ASSUME NEW l \in Leases, PublishPlan(l) PROVE Drains
  BY <1>0, <1>13 DEF PublishPlan, Probed, Publishing, inside
<1>14. ASSUME NEW l \in Leases, Sweep(l) PROVE Drains
  BY <1>0, <1>14 DEF Sweep, inside
<1>15. ASSUME NEW l \in Leases, Borrow(l) PROVE Drains
  BY <1>0, <1>15 DEF Borrow, inside
<1>16. ASSUME NEW l \in Leases, ReturnBorrow(l) PROVE Drains
  BY <1>0, <1>16 DEF ReturnBorrow, inside
<1>17. ASSUME NEW l \in Leases, Expand(l) PROVE Drains
  BY <1>0, <1>17 DEF Expand, inside
<1>18. ASSUME NEW l \in Leases, SuspendIfIdle(l) PROVE Drains
  BY <1>0, <1>18 DEF SuspendIfIdle, Suspended, Closes, inside
<1>19. ASSUME NEW l \in Leases, AskRelease(l) PROVE Drains
  BY <1>0, <1>19 DEF AskRelease, inside
<1>20. ASSUME NEW l \in Leases, DeleteRow(l) PROVE Drains
  BY <1>0, <1>20 DEF DeleteRow, inside
<1>21. ASSUME NEW l \in Leases, CloseGuard(l) PROVE Drains
  BY <1>0, <1>21 DEF CloseGuard, inside
<1>22. ASSUME NEW l \in Leases, RemoveGuard(l) PROVE Drains
  BY <1>0, <1>22 DEF RemoveGuard, inside
<1>23. ASSUME NEW l \in Leases, Crash(l) PROVE Drains
  BY <1>0, <1>23 DEF Crash, inside
<1>24. ASSUME NEW l \in Leases, NEW g \in Leases, MeetYoung(l, g) PROVE Drains
  BY <1>0, <1>24 DEF MeetYoung, inside
<1>25. ASSUME NEW l \in Leases, NEW g \in Leases, ProbeOrphan(l, g) PROVE Drains
  BY <1>0, <1>25 DEF ProbeOrphan, inside
<1>26. ASSUME NEW l \in Leases, NEW g \in Leases, ProbeRow(l, g) PROVE Drains
  BY <1>0, <1>26 DEF ProbeRow, inside
<1>27. CASE UNCHANGED vars
  BY <1>0, <1>27 DEF vars
<1> QED
  BY <1>1, <1>2, <1>3, <1>4, <1>5, <1>6, <1>7, <1>8, <1>9, <1>10, <1>11, <1>12, <1>13, <1>14,
     <1>15, <1>16, <1>17, <1>18, <1>19, <1>20, <1>21, <1>22, <1>23, <1>24, <1>25, <1>26, <1>27
  DEF Next, Cleanup, Publication, Admission, Release

\* No step takes the ownership from a borrower or grants a recovery of his roots;
\* once its suspension was granted or refused, a lease admits no borrower and
\* reserves no root any more (Borrow, Expand, SuspendIfIdle, DeleteRow).
THEOREM AdmissionHolds == Spec => AdmissionIsKept
<1>1. RuntimeInv /\ RuntimeInv' /\ [Next]_vars => [BorrowedIsOwned' /\ OnlyDrains]_vars
  BY DrainingGoesOn DEF RuntimeInv, OnlyDrains
<1> QED
  BY <1>1, RuntimeInvariance, PTL DEF Spec, AdmissionIsKept
=============================================================================
