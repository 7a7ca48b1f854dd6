----------------------- MODULE FlashbackExportProofs -----------------------
(***************************************************************************)
(* Theorems about FlashbackExport, for any readers, hashes, selections,    *)
(* failing calls and crashes: the exclusion of the variant lock and of the *)
(* lease, that a toggle writes over just what it read, and, if one job     *)
(* translates into the language, that a stale FLASHBACKS.json has an       *)
(* intent.                                                                 *)
(*                                                                         *)
(* What the ranges of a toggle are is not looked at: how they are computed *)
(* is recursive (FlashbackRanges).  What the marks become rests on the     *)
(* hypothesis RangesAreRight.                                              *)
(*                                                                         *)
(* The last part is about MemoryOperationLease, whose lease the toggles    *)
(* and the replay of the intents take.  The two modules share no variable. *)
(***************************************************************************)
EXTENDS FlashbackExport, MemoryOperationLease, SequenceTheorems, TLAPS

-----------------------------------------------------------------------------
(* The queue of the variant lock.                                          *)

\* No process is in a queue twice.
OnceEach(q) == \A i, k \in 1 .. Len(q) : q[i] = q[k] => i = k
Member(p, q) == \E i \in 1 .. Len(q) : q[i] = p

\* Who joins a queue comes last, and first when nobody was in it.
LEMMA JoiningComesLast ==
    ASSUME NEW S, NEW q \in Seq(S), NEW p \in S, OnceEach(q), ~Member(p, q)
    PROVE  /\ Append(q, p) \in Seq(S) /\ Append(q, p) # <<>> /\ OnceEach(Append(q, p))
           /\ \A x : Member(x, Append(q, p)) <=> x = p \/ Member(x, q)
           /\ q # <<>> => Head(Append(q, p)) = Head(q)
<1>1. /\ Append(q, p) \in Seq(S) /\ Len(Append(q, p)) = Len(q) + 1 /\ Len(q) \in Nat
      /\ \A i \in 1 .. Len(q) : Append(q, p)[i] = q[i]
      /\ Append(q, p)[Len(q) + 1] = p /\ Append(q, p) # <<>>
  BY AppendProperties
<1>2. OnceEach(Append(q, p))
  BY <1>1 DEF OnceEach, Member
<1>3. ASSUME NEW x PROVE Member(x, Append(q, p)) <=> x = p \/ Member(x, q)
  BY <1>1 DEF Member
<1>4. q # <<>> => Head(Append(q, p)) = Head(q)
  BY <1>1, EmptySeq
<1> QED BY <1>1, <1>2, <1>3, <1>4

\* Who leaves the queue is the first of it.
LEMMA TheFirstLeaves ==
    ASSUME NEW S, NEW q \in Seq(S), OnceEach(q), q # <<>>
    PROVE  /\ Tail(q) \in Seq(S) /\ OnceEach(Tail(q)) /\ Head(q) \in S /\ Member(Head(q), q)
           /\ \A x : Member(x, Tail(q)) <=> x # Head(q) /\ Member(x, q)
<1>1. /\ Tail(q) \in Seq(S) /\ Len(q) \in Nat \ {0} /\ Len(Tail(q)) = Len(q) - 1
      /\ \A i \in 1 .. Len(Tail(q)) : Tail(q)[i] = q[i + 1]
      /\ Head(q) = q[1] /\ Head(q) \in S
  BY HeadTailProperties, EmptySeq
<1>2. OnceEach(Tail(q))
  BY <1>1 DEF OnceEach
<1>3. ASSUME NEW x PROVE Member(x, Tail(q)) <=> x # Head(q) /\ Member(x, q)
  <2>1. ASSUME NEW i \in 1 .. Len(Tail(q)), Tail(q)[i] = x
        PROVE  x # Head(q) /\ Member(x, q)
    <3>1. i + 1 \in 1 .. Len(q) /\ q[i + 1] = x /\ i + 1 # 1 /\ 1 \in 1 .. Len(q)
      BY <1>1, <2>1
    <3> QED BY <1>1, <3>1 DEF OnceEach, Member
  <2>2. ASSUME NEW i \in 1 .. Len(q), q[i] = x, x # Head(q)
        PROVE  Member(x, Tail(q))
    <3>1. i - 1 \in 1 .. Len(Tail(q)) /\ Tail(q)[i - 1] = x
      BY <1>1, <2>2
    <3> QED BY <3>1 DEF Member
  <2> QED BY <2>1, <2>2 DEF Member
<1>4. Member(Head(q), q)
  BY <1>1 DEF Member
<1> QED BY <1>1, <1>2, <1>3, <1>4

-----------------------------------------------------------------------------
(* The invariant of the lock and the lease.                                *)

Processes == Readers \cup Jobs \cup {Recovery, Scan}

\* Where a toggle and a commit hold the variant lock.
ToggleSection == {"intend", "replace", "export", "undo", "clear"}
CommitSection == {"output", "intend", "complete", "export", "clear"}

ReaderPcs == {"idle", "resolved", "wait"} \cup ToggleSection
JobPcs == {"idle", "probed", "ready", "wait"} \cup CommitSection
RecoveryPcs == {"off", "start", "next", "wait", "write", "clear", "done", "failed"}
ScanPcs == {"off", "wait", "write", "done"}

\* The types that the proofs need; what ranges look like is left open.
ReaderShape(k) ==
    /\ DOMAIN k = {"pc", "hash", "selection", "before", "after"} /\ k.pc \in ReaderPcs
    /\ k.hash \in Hashes \cup {None} /\ (k.pc # "idle" => k.hash \in Hashes)

JobShape(k) ==
    /\ k \in [pc : JobPcs, hash : Hashes \cup {None}]
    /\ k.pc \notin {"idle", "probed"} => k.hash \in Hashes

TaskShape(k, pcs) ==
    /\ DOMAIN k = {"pc", "todo", "intent", "export"}
    /\ k.pc \in pcs /\ k.todo \subseteq Hashes /\ k.intent \in Hashes \cup {None}

ShapeOK ==
    /\ exists \in BOOLEAN /\ rows = [h \in Hashes |-> rows[h]]
    /\ {output, complete} \subseteq Hashes \cup {None} /\ intents \subseteq Hashes
    /\ reader = [r \in Readers |-> reader[r]] /\ \A r \in Readers : ReaderShape(reader[r])
    /\ job = [j \in Jobs |-> job[j]] /\ \A j \in Jobs : JobShape(job[j])
    /\ TaskShape(recovery, RecoveryPcs) /\ (recovery.pc \in {"wait", "write", "clear"}
                                            => recovery.intent \in Hashes)
    /\ TaskShape(scan, ScanPcs) /\ (scan.pc \in {"wait", "write"} => scan.intent \in Hashes)

\* Who holds the variant lock or waits for it, and who is past its wait.
Queued(p) ==
    \/ p \in Readers /\ reader[p].pc \notin {"idle", "resolved"}
    \/ p \in Jobs /\ job[p].pc \in {"wait"} \cup CommitSection
    \/ p = Recovery /\ recovery.pc \in {"wait", "write"}
    \/ p = Scan /\ scan.pc \in {"wait", "write"}

Entered(p) ==
    \/ p \in Readers /\ reader[p].pc \in ToggleSection
    \/ p \in Jobs /\ job[p].pc \in CommitSection
    \/ p = Recovery /\ recovery.pc = "write"
    \/ p = Scan /\ scan.pc = "write"

LockInv ==
    /\ lock \in Seq(Processes)
    /\ OnceEach(lock)
    /\ \A p \in Processes : Queued(p) <=> Member(p, lock)
    /\ \A p \in Processes : Entered(p) => Holds(p)

\* A replay that has listed the intents excludes the toggles, and a deletion
\* waits for both and for the commits.
LeaseInv ==
    /\ Leased => recovery.pc \in {"off", "start", "done", "failed"}
    /\ ~exists => ~Writing /\ recovery.pc \notin {"wait", "write"}

\* A toggle computes from what the rows are until it writes them, and they are
\* what it wrote until it lets them go.
ToggleInv(r) ==
    LET k == reader[r]
    IN  k.pc \in ToggleSection =>
           /\ k.selection \in Selections
           /\ \E w \in Wishes : k.after = Toggled(k.before, k.selection, w)
           /\ rows[k.hash] = IF k.pc \in {"intend", "replace"} THEN k.before ELSE k.after

SectionInv == ShapeOK /\ LockInv /\ LeaseInv /\ \A r \in Readers : ToggleInv(r)

-----------------------------------------------------------------------------
(* The invariant of the export.                                            *)

\* The language has one translation job, which may be interrupted, run again and
\* give another output each time.  With a second one the export need not have an
\* intent: a toggle may publish for the translation before.
OneTranslation == \A i, j \in Jobs : i = j

\* A file, or none, that tells the rows of the complete translation; the file
\* does, and so does whatever it may be again after a crash.
Tells(e) ==
    \/ e = Export(complete, rows[complete])
    \/ e = None /\ rows[complete] = <<>>

AllTell == \A e \in {file} \cup unsynced : Tells(e)

\* A complete translation stays the current one; until there is one nothing is
\* marked, and a job that is not complete finds none.
CurrentInv ==
    /\ complete # None => exists /\ output = complete
    /\ exists /\ complete = None
       => file = None /\ unsynced = {} /\ \A h \in Hashes : rows[h] = <<>>
    /\ \A j \in Jobs :
          /\ job[j].pc \notin {"idle", "export", "clear"} => complete = None
          /\ job[j].pc \in {"intend", "complete"} => output = job[j].hash
          /\ job[j].pc \in {"export", "clear"} => complete = job[j].hash /\ AllTell

\* Toggles, the replay and the scan export the current translation.
WriterInv ==
    /\ exists => \A r \in Readers : reader[r].pc # "idle" => reader[r].hash = complete
    /\ recovery.pc = "write"
       => complete # None /\ recovery.export = Export(complete, rows[complete])
    /\ exists /\ scan.pc \in {"wait", "write"} => complete # None /\ scan.intent = complete
    /\ exists /\ scan.pc = "write" => scan.export = Export(complete, rows[complete])

\* The intent is there before the rows change, and goes only when the file tells
\* them for good.
IntentInv ==
    /\ \A r \in Readers :
          /\ reader[r].pc \in {"replace", "export", "undo", "clear"} => reader[r].hash \in intents
          /\ reader[r].pc = "clear" => AllTell
    /\ complete # None /\ recovery.pc = "clear" => AllTell
    /\ complete # None => complete \in intents \/ AllTell

ExportInv == SectionInv /\ CurrentInv /\ WriterInv /\ IntentInv

-----------------------------------------------------------------------------
(* The variant lock.                                                       *)

\* Only the first of the queue is past its wait.
LEMMA OneAtATime ==
    ASSUME LockInv
    PROVE  \A p, q \in Processes : Entered(p) /\ Entered(q) => p = q
BY DEF LockInv, Holds

LEMMA LockStays ==
    ASSUME LockInv, UNCHANGED lock, \A p \in Processes : Queued(p)' <=> Queued(p),
           \A p \in Processes : Entered(p)' => Entered(p) \/ Holds(p)
    PROVE  LockInv'
<1>1. \A p \in Processes : Entered(p)' => Holds(p)'
  BY DEF LockInv, Holds
<1> QED BY <1>1 DEF LockInv, OnceEach, Member

LEMMA LockGains ==
    ASSUME LockInv, NEW p \in Processes, ~Queued(p), Queued(p)', lock' = Append(lock, p),
           \A q \in Processes \ {p} : Queued(q)' <=> Queued(q),
           \A q \in Processes : Entered(q)' => Entered(q)
    PROVE  LockInv'
<1>1. lock \in Seq(Processes) /\ OnceEach(lock) /\ ~Member(p, lock)
  BY DEF LockInv
<1>2. /\ lock' \in Seq(Processes) /\ lock' # <<>> /\ OnceEach(lock')
      /\ \A x : Member(x, lock') <=> x = p \/ Member(x, lock)
      /\ lock # <<>> => Head(lock') = Head(lock)
  BY <1>1, JoiningComesLast
<1>3. \A q \in Processes : Entered(q)' => Holds(q)'
  BY <1>2 DEF LockInv, Holds
<1>4. \A q \in Processes : Queued(q)' <=> Member(q, lock)'
  BY <1>2 DEF LockInv, Member
<1> QED BY <1>2, <1>3, <1>4 DEF LockInv, OnceEach

LEMMA LockLoses ==
    ASSUME LockInv, NEW p \in Processes, Holds(p), ~Queued(p)', lock' = Tail(lock),
           \A q \in Processes \ {p} : Queued(q)' <=> Queued(q),
           \A q \in Processes : Entered(q)' => Entered(q) /\ q # p
    PROVE  LockInv'
<1>1. lock \in Seq(Processes) /\ OnceEach(lock) /\ lock # <<>> /\ Head(lock) = p
  BY DEF LockInv, Holds
<1>2. /\ lock' \in Seq(Processes) /\ OnceEach(lock')
      /\ \A x : Member(x, lock') <=> x # p /\ Member(x, lock)
  BY <1>1, TheFirstLeaves
<1>3. \A q \in Processes : ~Entered(q)'
  BY <1>1 DEF LockInv, Holds
<1>4. \A q \in Processes : Queued(q)' <=> Member(q, lock)'
  BY <1>2 DEF LockInv, Member
<1> QED BY <1>2, <1>3, <1>4 DEF LockInv, OnceEach

\* A step of one process leaves the others where they are in the queue.
LockMoves(p) ==
    \/ /\ UNCHANGED lock
       /\ Queued(p)' <=> Queued(p)
       /\ Entered(p)' => Entered(p) \/ Holds(p)
    \/ lock' = Append(lock, p) /\ ~Queued(p) /\ Queued(p)' /\ ~Entered(p)'
    \/ lock' = Tail(lock) /\ Holds(p) /\ ~Queued(p)' /\ ~Entered(p)'

LEMMA LockFollows ==
    ASSUME LockInv, NEW p \in Processes, LockMoves(p),
           \A q \in Processes \ {p} : (Queued(q)' <=> Queued(q)) /\ (Entered(q)' <=> Entered(q))
    PROVE  LockInv'
<1>1. CASE /\ UNCHANGED lock
           /\ Queued(p)' <=> Queued(p)
           /\ Entered(p)' => Entered(p) \/ Holds(p)
  BY <1>1, LockStays
<1>2. CASE lock' = Append(lock, p) /\ ~Queued(p) /\ Queued(p)' /\ ~Entered(p)'
  BY <1>2, LockGains
<1>3. CASE lock' = Tail(lock) /\ Holds(p) /\ ~Queued(p)' /\ ~Entered(p)'
  BY <1>3, LockLoses
<1> QED BY <1>1, <1>2, <1>3 DEF LockMoves

-----------------------------------------------------------------------------
(* What a step of a reader, of a job, of the replay and of the scan moves. *)

LEMMA ReaderMoves ==
    ASSUME ShapeOK, LockInv, NEW r \in Readers, NEW k, ReaderShape(k),
           reader' = [reader EXCEPT ![r] = k], UNCHANGED <<job, recovery, scan>>, LockMoves(r)
    PROVE  /\ LockInv' /\ reader'[r] = k /\ \A q \in Readers \ {r} : reader'[q] = reader[q]
           /\ reader' = [q \in Readers |-> reader'[q]] /\ \A q \in Readers : ReaderShape(reader'[q])
<1>1. /\ reader'[r] = k /\ \A q \in Readers \ {r} : reader'[q] = reader[q]
      /\ reader' = [q \in Readers |-> reader'[q]]
  BY DEF ShapeOK
<1>2. \A q \in Readers : ReaderShape(reader'[q])
  BY <1>1 DEF ShapeOK
<1>3. \A q \in Processes \ {r} : (Queued(q)' <=> Queued(q)) /\ (Entered(q)' <=> Entered(q))
  BY <1>1 DEF Queued, Entered
<1> QED BY <1>1, <1>2, <1>3, LockFollows DEF Processes

LEMMA JobMoves ==
    ASSUME ShapeOK, LockInv, NEW j \in Jobs, NEW k, JobShape(k),
           job' = [job EXCEPT ![j] = k], UNCHANGED <<reader, recovery, scan>>, LockMoves(j)
    PROVE  /\ LockInv' /\ job'[j] = k /\ \A i \in Jobs \ {j} : job'[i] = job[i]
           /\ job' = [i \in Jobs |-> job'[i]] /\ \A i \in Jobs : JobShape(job'[i])
<1>1. /\ job'[j] = k /\ \A i \in Jobs \ {j} : job'[i] = job[i]
      /\ job' = [i \in Jobs |-> job'[i]]
  BY DEF ShapeOK
<1>2. \A i \in Jobs : JobShape(job'[i])
  BY <1>1 DEF ShapeOK
<1>3. \A q \in Processes \ {j} : (Queued(q)' <=> Queued(q)) /\ (Entered(q)' <=> Entered(q))
  BY <1>1 DEF Queued, Entered
<1> QED BY <1>1, <1>2, <1>3, LockFollows DEF Processes

LEMMA TaskMoves ==
    ASSUME LockInv, NEW p \in {Recovery, Scan}, UNCHANGED <<reader, job>>,
           p = Recovery => UNCHANGED scan, p = Scan => UNCHANGED recovery, LockMoves(p)
    PROVE  LockInv'
<1>1. \A q \in Processes \ {p} : (Queued(q)' <=> Queued(q)) /\ (Entered(q)' <=> Entered(q))
  BY DEF Queued, Entered
<1> QED BY <1>1, LockFollows DEF Processes

\* What a step of a reader has to keep of the sections.
LEMMA ReaderSections ==
    ASSUME SectionInv, NEW r \in Readers, NEW k, ReaderShape(k),
           reader' = [reader EXCEPT ![r] = k],
           UNCHANGED <<exists, output, complete, job, recovery, scan>>, LockMoves(r),
           intents' \subseteq Hashes, rows' = [h \in Hashes |-> rows'[h]],
           rows' = rows \/ Entered(r),
           k.pc \notin {"idle", "resolved"}
             => reader[r].pc \notin {"idle", "resolved"} \/ ~Recovering,
           k.pc \in ToggleSection => exists \/ reader[r].pc \in ToggleSection,
           ToggleInv(r)'
    PROVE  SectionInv'
<1>1. /\ LockInv' /\ reader'[r] = k /\ \A q \in Readers \ {r} : reader'[q] = reader[q]
      /\ reader' = [q \in Readers |-> reader'[q]] /\ \A q \in Readers : ReaderShape(reader'[q])
  BY ReaderMoves DEF SectionInv
<1>2. ShapeOK'
  BY <1>1 DEF SectionInv, ShapeOK
<1>3. LeaseInv'
  <2>1. Leased' => recovery'.pc \in {"off", "start", "done", "failed"}
    BY <1>1 DEF SectionInv, LeaseInv, Leased, Recovering
  <2>2. ~exists' => ~Writing'
    BY <1>1 DEF SectionInv, LeaseInv, Writing, ToggleSection
  <2> QED BY <2>1, <2>2 DEF SectionInv, LeaseInv
<1>4. ASSUME NEW q \in Readers \ {r} PROVE ToggleInv(q)'
  <2>1. reader'[q] = reader[q] /\ ToggleInv(q)
    BY <1>1 DEF SectionInv
  <2>2. reader[q].pc \in ToggleSection => rows' = rows
    BY OneAtATime DEF SectionInv, Entered, Processes
  <2> QED BY <2>1, <2>2 DEF ToggleInv
<1> QED BY <1>1, <1>2, <1>3, <1>4 DEF SectionInv

\* What a step of a job has to keep.
LEMMA JobSections ==
    ASSUME SectionInv, NEW j \in Jobs, NEW k, JobShape(k),
           job' = [job EXCEPT ![j] = k],
           UNCHANGED <<exists, rows, reader, recovery, scan>>, LockMoves(j),
           intents' \subseteq Hashes, {output', complete'} \subseteq Hashes \cup {None},
           k.pc \in CommitSection => exists \/ job[j].pc \in CommitSection
    PROVE  SectionInv'
<1>1. /\ LockInv' /\ job'[j] = k /\ \A i \in Jobs \ {j} : job'[i] = job[i]
      /\ job' = [i \in Jobs |-> job'[i]] /\ \A i \in Jobs : JobShape(job'[i])
  BY JobMoves DEF SectionInv
<1>2. ShapeOK'
  BY <1>1 DEF SectionInv, ShapeOK
<1>3. LeaseInv'
  <2>1. ~exists' => ~Writing'
    BY <1>1 DEF SectionInv, LeaseInv, Writing, CommitSection
  <2> QED BY <2>1 DEF SectionInv, LeaseInv, Leased
<1>4. \A q \in Readers : ToggleInv(q)'
  BY DEF SectionInv, ToggleInv
<1> QED BY <1>1, <1>2, <1>3, <1>4 DEF SectionInv

\* What a step of the replay or of the scan has to keep.
LEMMA TaskSections ==
    ASSUME SectionInv, NEW p \in {Recovery, Scan},
           UNCHANGED <<exists, rows, output, complete, reader, job>>, LockMoves(p),
           p = Recovery => UNCHANGED scan, p = Scan => UNCHANGED recovery,
           intents' \subseteq Hashes,
           TaskShape(recovery, RecoveryPcs)', TaskShape(scan, ScanPcs)',
           recovery'.pc \in {"wait", "write", "clear"} => recovery'.intent \in Hashes,
           scan'.pc \in {"wait", "write"} => scan'.intent \in Hashes,
           Leased => recovery'.pc \in {"off", "start", "done", "failed"},
           recovery'.pc \in {"wait", "write"} => exists \/ recovery.pc \in {"wait", "write"}
    PROVE  SectionInv'
<1>1. LockInv'
  BY TaskMoves DEF SectionInv
<1>2. ShapeOK'
  BY DEF SectionInv, ShapeOK
<1>3. LeaseInv'
  BY DEF SectionInv, LeaseInv, Leased, Writing
<1>4. \A q \in Readers : ToggleInv(q)'
  BY DEF SectionInv, ToggleInv
<1> QED BY <1>1, <1>2, <1>3, <1>4 DEF SectionInv

-----------------------------------------------------------------------------
(* The steps of a reader.                                                  *)

LEMMA ResolveKeepsSections ==
    ASSUME SectionInv, NEW r \in Readers, Resolve(r) \/ Enter(r)
    PROVE  SectionInv'
<1>1. ReaderShape(reader[r])
  BY DEF SectionInv, ShapeOK
<1>2. CASE Resolve(r)
  <2> DEFINE k == [reader[r] EXCEPT !.pc = "resolved", !.hash = Authority]
  <2>1. /\ reader' = [reader EXCEPT ![r] = k] /\ UNCHANGED <<store, lock, job, recovery, scan>>
        /\ reader[r].pc = "idle" /\ Authority \in Hashes
    BY <1>2 DEF Resolve, Authority, SectionInv, ShapeOK
  <2>2. ReaderShape(k) /\ k.pc = "resolved"
    BY <1>1, <2>1 DEF ReaderShape, ReaderPcs
  <2>3. reader'[r] = k
    BY <2>1 DEF SectionInv, ShapeOK
  <2>4. LockMoves(r)
    BY <2>1, <2>2, <2>3, ExportAssumption DEF LockMoves, Queued, Entered, ToggleSection
  <2>5. ToggleInv(r)'
    BY <2>2, <2>3 DEF ToggleInv, ToggleSection
  <2> HIDE DEF k
  <2> QED BY <2>1, <2>2, <2>4, <2>5, ReaderSections
          DEF store, ToggleSection, SectionInv, ShapeOK
<1>3. CASE Enter(r)
  <2> DEFINE k == [reader[r] EXCEPT !.pc = "wait"]
  <2>1. /\ reader' = [reader EXCEPT ![r] = k] /\ UNCHANGED <<store, job, recovery, scan>>
        /\ reader[r].pc = "resolved" /\ lock' = Append(lock, r) /\ ~Recovering
    BY <1>3 DEF Enter
  <2>2. ReaderShape(k) /\ k.pc = "wait"
    BY <1>1, <2>1 DEF ReaderShape, ReaderPcs
  <2>3. reader'[r] = k
    BY <2>1 DEF SectionInv, ShapeOK
  <2>4. LockMoves(r)
    BY <2>1, <2>2, <2>3, ExportAssumption DEF LockMoves, Queued, Entered, ToggleSection
  <2>5. ToggleInv(r)'
    BY <2>2, <2>3 DEF ToggleInv, ToggleSection
  <2> HIDE DEF k
  <2> QED BY <2>1, <2>2, <2>4, <2>5, ReaderSections
          DEF store, ToggleSection, SectionInv, ShapeOK
<1> QED BY <1>2, <1>3

\* A toggle that ends lets the lock and the lease go.
LEMMA LeavingKeepsSections ==
    ASSUME SectionInv, NEW r \in Readers, LeaveReader(r), Holds(r),
           reader[r].pc \in {"wait"} \cup ToggleSection,
           UNCHANGED <<exists, output, complete, job, recovery, scan>>,
           intents' \subseteq Hashes, rows' = [h \in Hashes |-> rows'[h]],
           rows' = rows \/ Entered(r)
    PROVE  SectionInv'
<1>1. reader' = [reader EXCEPT ![r] = Asleep] /\ lock' = Tail(lock)
  BY DEF LeaveReader
<1>2. ReaderShape(Asleep) /\ Asleep.pc = "idle"
  BY DEF ReaderShape, ReaderPcs, Asleep
<1>3. reader'[r] = Asleep
  BY <1>1 DEF SectionInv, ShapeOK
<1>4. LockMoves(r)
  BY <1>1, <1>2, <1>3, ExportAssumption DEF LockMoves, Queued, Entered, ToggleSection
<1>5. ToggleInv(r)'
  BY <1>2, <1>3 DEF ToggleInv, ToggleSection
<1> QED BY <1>1, <1>2, <1>4, <1>5, ReaderSections DEF ToggleSection

\* One that goes on keeps them.
LEMMA GoingOnKeepsSections ==
    ASSUME SectionInv, NEW r \in Readers, NEW k, ReaderShape(k),
           reader' = [reader EXCEPT ![r] = k], UNCHANGED lock,
           reader[r].pc \in {"wait"} \cup ToggleSection, Holds(r),
           k.pc \in ToggleSection, exists,
           UNCHANGED <<exists, output, complete, job, recovery, scan>>,
           intents' \subseteq Hashes, rows' = [h \in Hashes |-> rows'[h]],
           rows' = rows \/ Entered(r), ToggleInv(r)'
    PROVE  SectionInv'
<1>1. reader'[r] = k
  BY DEF SectionInv, ShapeOK
<1>2. LockMoves(r)
  BY <1>1, ExportAssumption DEF LockMoves, Queued, Entered, ToggleSection
<1> QED BY <1>2, ReaderSections DEF ToggleSection

\* A toggle that entered holds the lock, and the memory is there.
LEMMA EnteredHolds ==
    ASSUME SectionInv, NEW r \in Readers, reader[r].pc \in ToggleSection
    PROVE  Holds(r) /\ exists /\ Entered(r) /\ ReaderShape(reader[r]) /\ ToggleInv(r)
           /\ reader[r].hash \in Hashes
<1>1. Entered(r) /\ Writing
  BY DEF Entered, Writing, ToggleSection
<1>2. ReaderShape(reader[r]) /\ reader[r].hash \in Hashes
  BY DEF SectionInv, ShapeOK, ReaderShape, ToggleSection
<1> QED BY <1>1, <1>2 DEF SectionInv, LeaseInv, LockInv, Processes, ShapeOK

LEMMA ReadRowsKeepsSections ==
    ASSUME SectionInv, NEW r \in Readers, ReadRows(r)
    PROVE  SectionInv'
<1>1. PICK s \in Selections, w \in Wishes :
         reader' = [reader EXCEPT ![r].pc = "intend", ![r].selection = s,
                        ![r].before = rows[reader[r].hash],
                        ![r].after = Toggled(rows[reader[r].hash], s, w)]
  BY DEF ReadRows
<1>2. /\ reader[r].pc = "wait" /\ Holds(r) /\ exists
      /\ UNCHANGED <<store, lock, job, recovery, scan>>
  BY DEF ReadRows
<1> DEFINE k == [reader[r] EXCEPT !.pc = "intend", !.selection = s,
                     !.before = rows[reader[r].hash],
                     !.after = Toggled(rows[reader[r].hash], s, w)]
<1>3. ReaderShape(reader[r])
  BY DEF SectionInv, ShapeOK
<1>4. /\ ReaderShape(k) /\ k.pc = "intend" /\ k.hash = reader[r].hash /\ k.selection = s
      /\ k.before = rows[k.hash] /\ k.after = Toggled(k.before, s, w)
  BY <1>2, <1>3 DEF ReaderShape, ReaderPcs, ToggleSection
<1>5. reader' = [reader EXCEPT ![r] = k]
  BY <1>1
<1> HIDE DEF k
<1>6. reader'[r] = k
  BY <1>5 DEF SectionInv, ShapeOK
<1>7. ToggleInv(r)'
  BY <1>2, <1>4, <1>6 DEF ToggleInv, store
<1> QED BY <1>2, <1>4, <1>5, <1>7, GoingOnKeepsSections
        DEF store, ToggleSection, SectionInv, ShapeOK

LEMMA RefuseToggleKeepsSections ==
    ASSUME SectionInv, NEW r \in Readers, RefuseToggle(r)
    PROVE  SectionInv'
BY LeavingKeepsSections DEF RefuseToggle, store, SectionInv, ShapeOK

LEMMA PersistIntentKeepsSections ==
    ASSUME SectionInv, NEW r \in Readers, PersistIntent(r)
    PROVE  SectionInv'
<1>1. reader[r].pc = "intend" /\ UNCHANGED <<exists, rows, output, complete, job, recovery, scan>>
  BY DEF PersistIntent
<1>2. /\ Holds(r) /\ exists /\ ReaderShape(reader[r]) /\ ToggleInv(r)
      /\ reader[r].hash \in Hashes
  BY <1>1, EnteredHolds DEF ToggleSection
<1>3. intents' \subseteq Hashes
  BY <1>2 DEF PersistIntent, SectionInv, ShapeOK
<1>4. CASE reader' = [reader EXCEPT ![r].pc = "replace"] /\ UNCHANGED lock
  <2> DEFINE k == [reader[r] EXCEPT !.pc = "replace"]
  <2>1. /\ ReaderShape(k) /\ k.pc = "replace" /\ k.hash = reader[r].hash
        /\ k.selection = reader[r].selection /\ k.before = reader[r].before
        /\ k.after = reader[r].after
    BY <1>2 DEF ReaderShape, ReaderPcs, ToggleSection
  <2>2. reader' = [reader EXCEPT ![r] = k]
    BY <1>4
  <2> HIDE DEF k
  <2>3. reader'[r] = k
    BY <2>2 DEF SectionInv, ShapeOK
  <2>4. ToggleInv(r)'
    BY <1>1, <1>2, <2>1, <2>3 DEF ToggleInv, ToggleSection
  <2> QED BY <1>1, <1>2, <1>3, <1>4, <2>1, <2>2, <2>4, GoingOnKeepsSections
          DEF ToggleSection, SectionInv, ShapeOK
<1>5. CASE LeaveReader(r)
  BY <1>1, <1>2, <1>3, <1>5, LeavingKeepsSections DEF ToggleSection, SectionInv, ShapeOK
<1> QED BY <1>4, <1>5 DEF PersistIntent

LEMMA ReplaceRowsKeepsSections ==
    ASSUME SectionInv, NEW r \in Readers, ReplaceRows(r)
    PROVE  SectionInv'
<1>1. /\ reader[r].pc = "replace"
      /\ UNCHANGED <<exists, output, complete, intents, job, recovery, scan>>
  BY DEF ReplaceRows
<1>2. /\ Holds(r) /\ exists /\ Entered(r) /\ ReaderShape(reader[r]) /\ ToggleInv(r)
      /\ reader[r].hash \in Hashes
  BY <1>1, EnteredHolds DEF ToggleSection
<1>3. CASE /\ rows' = [rows EXCEPT ![reader[r].hash] = reader[r].after]
           /\ reader' = [reader EXCEPT ![r].pc = "export"] /\ UNCHANGED lock
  <2> DEFINE k == [reader[r] EXCEPT !.pc = "export"]
  <2>1. /\ ReaderShape(k) /\ k.pc = "export" /\ k.hash = reader[r].hash
        /\ k.selection = reader[r].selection /\ k.before = reader[r].before
        /\ k.after = reader[r].after
    BY <1>2 DEF ReaderShape, ReaderPcs, ToggleSection
  <2>2. reader' = [reader EXCEPT ![r] = k]
    BY <1>3
  <2> HIDE DEF k
  <2>3. reader'[r] = k
    BY <2>2 DEF SectionInv, ShapeOK
  <2>4. rows' = [h \in Hashes |-> rows'[h]] /\ rows'[k.hash] = k.after
    BY <1>2, <1>3, <2>1 DEF SectionInv, ShapeOK
  <2>5. ToggleInv(r)'
    BY <1>1, <1>2, <2>1, <2>3, <2>4 DEF ToggleInv, ToggleSection
  <2> QED BY <1>1, <1>2, <1>3, <2>1, <2>2, <2>4, <2>5, GoingOnKeepsSections
          DEF ToggleSection, SectionInv, ShapeOK
<1>4. CASE LeaveReader(r) /\ UNCHANGED rows
  BY <1>1, <1>2, <1>4, LeavingKeepsSections DEF ToggleSection, SectionInv, ShapeOK
<1> QED BY <1>3, <1>4 DEF ReplaceRows

LEMMA ExportToggleKeepsSections ==
    ASSUME SectionInv, NEW r \in Readers, ExportToggle(r)
    PROVE  SectionInv'
<1>1. /\ reader[r].pc = "export"
      /\ UNCHANGED <<exists, rows, output, complete, intents, job, recovery, scan>>
  BY DEF ExportToggle
<1>2. /\ Holds(r) /\ exists /\ ReaderShape(reader[r]) /\ ToggleInv(r)
      /\ reader[r].hash \in Hashes
  BY <1>1, EnteredHolds DEF ToggleSection
<1>3. ASSUME NEW pc \in {"clear", "undo"}, reader' = [reader EXCEPT ![r].pc = pc], UNCHANGED lock
      PROVE  SectionInv'
  <2> DEFINE k == [reader[r] EXCEPT !.pc = pc]
  <2>1. /\ ReaderShape(k) /\ k.pc = pc /\ k.hash = reader[r].hash
        /\ k.selection = reader[r].selection /\ k.before = reader[r].before
        /\ k.after = reader[r].after
    BY <1>2 DEF ReaderShape, ReaderPcs, ToggleSection
  <2>2. reader' = [reader EXCEPT ![r] = k]
    BY <1>3
  <2> HIDE DEF k
  <2>3. reader'[r] = k
    BY <2>2 DEF SectionInv, ShapeOK
  <2>4. ToggleInv(r)'
    BY <1>1, <1>2, <2>1, <2>3 DEF ToggleInv, ToggleSection
  <2> QED BY <1>1, <1>2, <1>3, <2>1, <2>2, <2>4, GoingOnKeepsSections
          DEF ToggleSection, SectionInv, ShapeOK
<1>4. CASE LeaveReader(r)
  BY <1>1, <1>2, <1>4, LeavingKeepsSections DEF ToggleSection, SectionInv, ShapeOK
<1> QED BY <1>3, <1>4 DEF ExportToggle

LEMMA EndToggleKeepsSections ==
    ASSUME SectionInv, NEW r \in Readers, UndoRows(r) \/ ClearToggle(r)
    PROVE  SectionInv'
<1>1. /\ reader[r].pc \in {"undo", "clear"} /\ LeaveReader(r)
      /\ UNCHANGED <<exists, output, complete, job, recovery, scan>>
  BY DEF UndoRows, ClearToggle
<1>2. Holds(r) /\ Entered(r)
  BY <1>1, EnteredHolds DEF ToggleSection
<1>3. intents' \subseteq Hashes /\ rows' = [h \in Hashes |-> rows'[h]]
  BY DEF UndoRows, ClearToggle, SectionInv, ShapeOK
<1> QED BY <1>1, <1>2, <1>3, LeavingKeepsSections DEF ToggleSection

LEMMA ReaderKeepsSections ==
    ASSUME SectionInv, NEW r \in Readers, Resolve(r) \/ Enter(r) \/ Toggle(r)
    PROVE  SectionInv'
BY ResolveKeepsSections, ReadRowsKeepsSections, RefuseToggleKeepsSections,
   PersistIntentKeepsSections, ReplaceRowsKeepsSections, ExportToggleKeepsSections,
   EndToggleKeepsSections DEF Toggle

-----------------------------------------------------------------------------
(* The steps of a job.                                                     *)

\* Where a job gets to before it has the lock; and the step to the lock.
LEMMA JobBeforeLockKeepsSections ==
    ASSUME SectionInv, NEW j \in Jobs, Probe(j) \/ Translate(j) \/ JoinCommit(j)
    PROVE  SectionInv'
<1>1. JobShape(job[j])
  BY DEF SectionInv, ShapeOK
<1>2. CASE Probe(j)
  <2> DEFINE k == [job[j] EXCEPT !.pc = "probed"]
  <2>1. /\ job' = [job EXCEPT ![j] = k] /\ job[j].pc = "idle" /\ complete' = None
        /\ UNCHANGED <<exists, rows, output, intents, lock, reader, recovery, scan>>
    BY <1>2 DEF Probe
  <2>2. JobShape(k) /\ k.pc = "probed"
    BY <1>1 DEF JobShape, JobPcs
  <2> HIDE DEF k
  <2>3. job'[j] = k
    BY <2>1 DEF SectionInv, ShapeOK
  <2>4. LockMoves(j)
    BY <2>1, <2>2, <2>3, ExportAssumption DEF LockMoves, Queued, Entered, CommitSection
  <2> QED BY <2>1, <2>2, <2>4, JobSections DEF CommitSection, SectionInv, ShapeOK
<1>3. CASE Translate(j)
  <2>1. PICK h \in Hashes : job' = [job EXCEPT ![j] = [pc |-> "ready", hash |-> h]]
    BY <1>3 DEF Translate
  <2> DEFINE k == [pc |-> "ready", hash |-> h]
  <2>2. job[j].pc = "probed" /\ UNCHANGED <<store, lock, reader, recovery, scan>>
    BY <1>3 DEF Translate
  <2>3. JobShape(k) /\ k.pc = "ready"
    BY DEF JobShape, JobPcs
  <2>4. job' = [job EXCEPT ![j] = k]
    BY <2>1
  <2> HIDE DEF k
  <2>5. job'[j] = k
    BY <2>4 DEF SectionInv, ShapeOK
  <2>6. LockMoves(j)
    BY <2>2, <2>3, <2>5, ExportAssumption DEF LockMoves, Queued, Entered, CommitSection
  <2> QED BY <2>2, <2>3, <2>4, <2>6, JobSections DEF store, CommitSection, SectionInv, ShapeOK
<1>4. CASE JoinCommit(j)
  <2> DEFINE k == [job[j] EXCEPT !.pc = "wait"]
  <2>1. /\ job' = [job EXCEPT ![j] = k] /\ job[j].pc = "ready" /\ lock' = Append(lock, j)
        /\ UNCHANGED <<store, reader, recovery, scan>>
    BY <1>4 DEF JoinCommit
  <2>2. JobShape(k) /\ k.pc = "wait"
    BY <1>1, <2>1 DEF JobShape, JobPcs
  <2> HIDE DEF k
  <2>3. job'[j] = k
    BY <2>1 DEF SectionInv, ShapeOK
  <2>4. LockMoves(j)
    BY <2>1, <2>2, <2>3, ExportAssumption DEF LockMoves, Queued, Entered, CommitSection
  <2> QED BY <2>1, <2>2, <2>4, JobSections DEF store, CommitSection, SectionInv, ShapeOK
<1> QED BY <1>2, <1>3, <1>4

\* A commit that ends lets the lock go.
LEMMA LeavingCommitKeepsSections ==
    ASSUME SectionInv, NEW j \in Jobs, LeaveJob(j), Holds(j),
           job[j].pc \in {"wait"} \cup CommitSection,
           UNCHANGED <<exists, rows, reader, recovery, scan>>,
           intents' \subseteq Hashes, {output', complete'} \subseteq Hashes \cup {None}
    PROVE  SectionInv'
<1>1. job' = [job EXCEPT ![j] = Unmade] /\ lock' = Tail(lock)
  BY DEF LeaveJob
<1>2. JobShape(Unmade) /\ Unmade.pc = "idle"
  BY DEF JobShape, JobPcs, Unmade
<1>3. job'[j] = Unmade
  BY <1>1 DEF SectionInv, ShapeOK
<1>4. LockMoves(j)
  BY <1>1, <1>2, <1>3, ExportAssumption DEF LockMoves, Queued, Entered, CommitSection
<1> QED BY <1>1, <1>2, <1>4, JobSections DEF CommitSection

\* One that goes on to another call keeps it.
LEMMA GoingOnCommitKeepsSections ==
    ASSUME SectionInv, NEW j \in Jobs, NEW pc \in CommitSection,
           job' = [job EXCEPT ![j].pc = pc], UNCHANGED lock,
           job[j].pc \in {"wait"} \cup CommitSection, Holds(j), exists,
           UNCHANGED <<exists, rows, reader, recovery, scan>>,
           intents' \subseteq Hashes, {output', complete'} \subseteq Hashes \cup {None}
    PROVE  SectionInv'
<1> DEFINE k == [job[j] EXCEPT !.pc = pc]
<1>1. JobShape(job[j]) /\ job' = [job EXCEPT ![j] = k]
  BY DEF SectionInv, ShapeOK
<1>2. JobShape(k) /\ k.pc = pc
  BY <1>1 DEF JobShape, JobPcs, CommitSection
<1> HIDE DEF k
<1>3. job'[j] = k
  BY <1>1 DEF SectionInv, ShapeOK
<1>4. LockMoves(j)
  BY <1>2, <1>3, ExportAssumption DEF LockMoves, Queued, Entered, CommitSection
<1> QED BY <1>1, <1>2, <1>4, JobSections

\* A commit that entered holds the lock, and the memory is there.
LEMMA EnteredCommitHolds ==
    ASSUME SectionInv, NEW j \in Jobs, job[j].pc \in CommitSection
    PROVE  Holds(j) /\ exists /\ Entered(j) /\ JobShape(job[j]) /\ job[j].hash \in Hashes
<1>1. Entered(j) /\ Writing
  BY DEF Entered, Writing, CommitSection
<1>2. JobShape(job[j]) /\ job[j].hash \in Hashes
  BY DEF SectionInv, ShapeOK, JobShape, CommitSection
<1> QED BY <1>1, <1>2 DEF SectionInv, LeaseInv, LockInv, Processes, ShapeOK

LEMMA CommitKeepsSections ==
    ASSUME SectionInv, NEW j \in Jobs, Commit(j)
    PROVE  SectionInv'
<1>1. UNCHANGED <<exists, rows, reader, recovery, scan>>
  BY DEF Commit, CheckSource, WriteOutput, IntendCommit, CompleteJob, ExportCommit, ClearCommit,
         store
<1>2. CASE CheckSource(j)
  <2>1. /\ job[j].pc = "wait" /\ Holds(j) /\ UNCHANGED <<output, complete, intents>>
        /\ \/ exists /\ job' = [job EXCEPT ![j].pc = "output"] /\ UNCHANGED lock
           \/ LeaveJob(j)
    BY <1>2 DEF CheckSource, store
  <2> QED BY <1>1, <2>1, LeavingCommitKeepsSections, GoingOnCommitKeepsSections
          DEF CommitSection, SectionInv, ShapeOK
<1>3. ASSUME job[j].pc \in CommitSection,
             \/ \E pc \in CommitSection : job' = [job EXCEPT ![j].pc = pc] /\ UNCHANGED lock
             \/ LeaveJob(j),
             intents' \subseteq Hashes, {output', complete'} \subseteq Hashes \cup {None}
      PROVE  SectionInv'
  BY <1>1, <1>3, EnteredCommitHolds, LeavingCommitKeepsSections, GoingOnCommitKeepsSections
<1>4. job[j].pc \in CommitSection => job[j].hash \in Hashes
  BY EnteredCommitHolds
<1>5. CASE WriteOutput(j)
  BY <1>3, <1>4, <1>5 DEF WriteOutput, CommitSection, SectionInv, ShapeOK
<1>6. CASE IntendCommit(j)
  BY <1>3, <1>4, <1>6 DEF IntendCommit, CommitSection, SectionInv, ShapeOK
<1>7. CASE CompleteJob(j)
  BY <1>3, <1>4, <1>7 DEF CompleteJob, CommitSection, SectionInv, ShapeOK
<1>8. CASE ExportCommit(j)
  BY <1>3, <1>4, <1>8 DEF ExportCommit, CommitSection, SectionInv, ShapeOK
<1>9. CASE ClearCommit(j)
  BY <1>3, <1>4, <1>9 DEF ClearCommit, CommitSection, SectionInv, ShapeOK
<1> QED BY <1>2, <1>5, <1>6, <1>7, <1>8, <1>9 DEF Commit

-----------------------------------------------------------------------------
(* The steps of the replay and of the scan.                                *)

\* A replay that has listed the intents, and a toggle, exclude each other.
LEMMA ReplayExcludesToggles ==
    ASSUME SectionInv, recovery.pc \in {"next", "wait", "write", "clear"}
    PROVE  ~Leased
BY DEF SectionInv, LeaseInv

LEMMA RecoverKeepsSections ==
    ASSUME SectionInv, AskRecovery \/ Recover
    PROVE  SectionInv'
<1>1. /\ TaskShape(recovery, RecoveryPcs) /\ TaskShape(scan, ScanPcs) /\ intents \subseteq Hashes
      /\ scan.pc \in {"wait", "write"} => scan.intent \in Hashes
      /\ recovery.pc \in {"wait", "write", "clear"} => recovery.intent \in Hashes
  BY DEF SectionInv, ShapeOK
<1>2. /\ UNCHANGED <<exists, rows, output, complete, reader, job, scan>>
      /\ intents' \subseteq Hashes
  BY <1>1 DEF AskRecovery, Recover, ListIntents, TakeIntent, ReadAuthority, Reexport,
              ClearRecovered, store
<1>3. TaskShape(scan, ScanPcs)' /\ (scan'.pc \in {"wait", "write"} => scan'.intent \in Hashes)
  BY <1>1, <1>2 DEF TaskShape
<1>4. ASSUME TaskShape(recovery', RecoveryPcs), LockMoves(Recovery),
             recovery'.pc \in {"wait", "write", "clear"} => recovery'.intent \in Hashes,
             ~Leased \/ recovery'.pc = "start",
             recovery'.pc \in {"wait", "write"} => exists \/ recovery.pc \in {"wait", "write"}
      PROVE  SectionInv'
  <2>1. TaskShape(recovery, RecoveryPcs)'
    BY <1>4 DEF TaskShape
  <2> QED BY <1>2, <1>3, <1>4, <2>1, ExportAssumption, TaskSections
<1>5. CASE AskRecovery
  <2>1. TaskShape(recovery', RecoveryPcs) /\ recovery'.pc = "start" /\ UNCHANGED lock
    BY <1>1, <1>5 DEF AskRecovery, TaskShape, RecoveryPcs
  <2>2. LockMoves(Recovery)
    BY <1>5, <2>1, ExportAssumption DEF AskRecovery, LockMoves, Queued, Entered
  <2> QED BY <1>4, <2>1, <2>2
<1>6. CASE ListIntents
  <2>1. /\ TaskShape(recovery', RecoveryPcs) /\ recovery'.pc = "next" /\ UNCHANGED lock
        /\ recovery.pc = "start" /\ ~Leased
    BY <1>1, <1>6 DEF ListIntents, TaskShape, RecoveryPcs
  <2>2. LockMoves(Recovery)
    BY <2>1, ExportAssumption DEF LockMoves, Queued, Entered
  <2> QED BY <1>4, <2>1, <2>2
<1>7. CASE TakeIntent
  <2>1. recovery.pc = "next" /\ ~Leased
    BY <1>7, ReplayExcludesToggles DEF TakeIntent
  <2>2. CASE /\ recovery'.pc \in {"done", "failed"}
             /\ recovery' = [Unstarted EXCEPT !.pc = recovery'.pc] /\ UNCHANGED lock
    <3>1. TaskShape(recovery', RecoveryPcs)
      BY <2>2, ExportAssumption DEF TaskShape, RecoveryPcs, Unstarted
    <3>2. LockMoves(Recovery)
      BY <2>1, <2>2, ExportAssumption DEF LockMoves, Queued, Entered
    <3> QED BY <1>4, <2>1, <2>2, <3>1, <3>2
  <2>3. CASE \E i \in recovery.todo, pc \in {"wait", "clear"} :
                /\ recovery' = [recovery EXCEPT !.pc = pc, !.intent = i,
                                                !.todo = recovery.todo \ {i}]
                /\ pc = "wait" => exists /\ lock' = Append(lock, Recovery)
                /\ pc = "clear" => UNCHANGED lock
    <3>1. PICK i \in recovery.todo, pc \in {"wait", "clear"} :
                /\ recovery' = [recovery EXCEPT !.pc = pc, !.intent = i,
                                                !.todo = recovery.todo \ {i}]
                /\ pc = "wait" => exists /\ lock' = Append(lock, Recovery)
                /\ pc = "clear" => UNCHANGED lock
      BY <2>3
    <3>2. TaskShape(recovery', RecoveryPcs) /\ recovery'.pc = pc /\ recovery'.intent \in Hashes
      BY <1>1, <3>1 DEF TaskShape, RecoveryPcs
    <3>3. LockMoves(Recovery)
      BY <2>1, <3>1, <3>2, ExportAssumption DEF LockMoves, Queued, Entered
    <3> QED BY <1>4, <2>1, <3>1, <3>2, <3>3
  <2>4. \/ /\ recovery' = [Unstarted EXCEPT !.pc = "done"] /\ UNCHANGED lock
        \/ /\ recovery' = [Unstarted EXCEPT !.pc = "failed"] /\ UNCHANGED lock
        \/ \E i \in recovery.todo : /\ recovery' = [recovery EXCEPT !.pc = "wait", !.intent = i,
                                                     !.todo = recovery.todo \ {i}]
                                    /\ exists /\ lock' = Append(lock, Recovery)
        \/ \E i \in recovery.todo : /\ recovery' = [recovery EXCEPT !.pc = "clear", !.intent = i,
                                                     !.todo = recovery.todo \ {i}]
                                    /\ UNCHANGED lock
    BY <1>7 DEF TakeIntent
  <2>5. /\ [Unstarted EXCEPT !.pc = "done"].pc = "done"
        /\ [Unstarted EXCEPT !.pc = "failed"].pc = "failed"
    BY DEF Unstarted
  <2> QED BY <2>2, <2>3, <2>4, <2>5
<1>8. CASE ReadAuthority
  <2>1. /\ recovery.pc = "wait" /\ Holds(Recovery) /\ ~Leased
        /\ \/ recovery' = [recovery EXCEPT !.pc = "clear"] /\ lock' = Tail(lock)
           \/ /\ recovery' = [recovery EXCEPT !.pc = "write",
                                  !.export = Export(Authority, rows[Authority])]
              /\ UNCHANGED lock
    BY <1>8, ReplayExcludesToggles DEF ReadAuthority
  <2>2. /\ TaskShape(recovery', RecoveryPcs) /\ recovery'.intent = recovery.intent
        /\ \/ recovery'.pc = "clear" /\ lock' = Tail(lock)
           \/ recovery'.pc = "write" /\ UNCHANGED lock
    BY <1>1, <2>1 DEF TaskShape, RecoveryPcs
  <2>3. LockMoves(Recovery)
    BY <2>1, <2>2, ExportAssumption DEF LockMoves, Queued, Entered
  <2> QED BY <1>1, <1>4, <2>1, <2>2, <2>3
<1>9. CASE Reexport
  <2>1. recovery.pc = "write" /\ ~Leased /\ Holds(Recovery) /\ lock' = Tail(lock)
    BY <1>9, ReplayExcludesToggles DEF Reexport, SectionInv, LockInv, Entered, Processes
  <2>2. /\ TaskShape(recovery', RecoveryPcs) /\ recovery'.pc \in {"clear", "failed"}
        /\ recovery'.pc = "clear" => recovery'.intent = recovery.intent
    BY <1>1, <1>9, ExportAssumption DEF Reexport, TaskShape, RecoveryPcs, Unstarted
  <2>3. LockMoves(Recovery)
    BY <2>1, <2>2, ExportAssumption DEF LockMoves, Queued, Entered
  <2> QED BY <1>1, <1>4, <2>1, <2>2, <2>3
<1>10. CASE ClearRecovered
  <2>1. recovery.pc = "clear" /\ ~Leased /\ UNCHANGED lock
    BY <1>10, ReplayExcludesToggles DEF ClearRecovered
  <2>2. TaskShape(recovery', RecoveryPcs) /\ recovery'.pc \in {"next", "failed"}
    BY <1>1, <1>10, ExportAssumption DEF ClearRecovered, TaskShape, RecoveryPcs, Unstarted
  <2>3. LockMoves(Recovery)
    BY <2>1, <2>2, ExportAssumption DEF LockMoves, Queued, Entered
  <2> QED BY <1>4, <2>1, <2>2, <2>3
<1> QED BY <1>5, <1>6, <1>7, <1>8, <1>9, <1>10 DEF Recover

LEMMA ScanKeepsSections ==
    ASSUME SectionInv, ScanTranslations \/ Rescan
    PROVE  SectionInv'
<1>1. /\ TaskShape(recovery, RecoveryPcs) /\ TaskShape(scan, ScanPcs) /\ intents \subseteq Hashes
      /\ scan.pc \in {"wait", "write"} => scan.intent \in Hashes
      /\ recovery.pc \in {"wait", "write", "clear"} => recovery.intent \in Hashes
      /\ complete \in Hashes \cup {None}
  BY DEF SectionInv, ShapeOK
<1>2. UNCHANGED <<exists, rows, output, complete, intents, reader, job, recovery>>
  BY DEF ScanTranslations, Rescan, ScanRows, ScanExport, store
<1>3. ASSUME TaskShape(scan', ScanPcs), LockMoves(Scan),
             scan'.pc \in {"wait", "write"} => scan'.intent \in Hashes
      PROVE  SectionInv'
  <2>1. TaskShape(scan, ScanPcs)' /\ TaskShape(recovery, RecoveryPcs)'
    BY <1>1, <1>2, <1>3 DEF TaskShape
  <2>2. Leased => recovery'.pc \in {"off", "start", "done", "failed"}
    BY <1>2 DEF SectionInv, LeaseInv
  <2> QED BY <1>1, <1>2, <1>3, <2>1, <2>2, ExportAssumption, TaskSections
<1>4. CASE ScanTranslations
  <2>1. /\ scan.pc = "off"
        /\ \/ scan' = [scan EXCEPT !.pc = "done"] /\ UNCHANGED lock
           \/ /\ scan' = [scan EXCEPT !.pc = "wait", !.intent = complete]
              /\ complete \in Hashes /\ lock' = Append(lock, Scan)
    BY <1>1, <1>4 DEF ScanTranslations
  <2>2. /\ TaskShape(scan', ScanPcs)
        /\ \/ scan'.pc = "done" /\ UNCHANGED lock
           \/ scan'.pc = "wait" /\ scan'.intent \in Hashes /\ lock' = Append(lock, Scan)
    BY <1>1, <2>1 DEF TaskShape, ScanPcs
  <2>3. LockMoves(Scan)
    BY <2>1, <2>2, ExportAssumption DEF LockMoves, Queued, Entered
  <2> QED BY <1>3, <2>2, <2>3
<1>5. CASE ScanRows
  <2>1. /\ scan.pc = "wait" /\ Holds(Scan)
        /\ \/ scan' = [Unstarted EXCEPT !.pc = "done"] /\ lock' = Tail(lock)
           \/ /\ scan' = [scan EXCEPT !.pc = "write",
                              !.export = Export(scan.intent, rows[scan.intent])]
              /\ UNCHANGED lock
    BY <1>5 DEF ScanRows
  <2>2. /\ TaskShape(scan', ScanPcs)
        /\ \/ scan'.pc = "done" /\ lock' = Tail(lock)
           \/ scan'.pc = "write" /\ scan'.intent = scan.intent /\ UNCHANGED lock
    BY <1>1, <2>1, ExportAssumption DEF TaskShape, ScanPcs, Unstarted
  <2>3. LockMoves(Scan)
    BY <2>1, <2>2, ExportAssumption DEF LockMoves, Queued, Entered
  <2> QED BY <1>1, <1>3, <2>1, <2>2, <2>3
<1>6. CASE ScanExport
  <2>1. /\ scan.pc = "write" /\ Holds(Scan) /\ scan' = [Unstarted EXCEPT !.pc = "done"]
        /\ lock' = Tail(lock)
    BY <1>6 DEF ScanExport, SectionInv, LockInv, Entered, Processes
  <2>2. TaskShape(scan', ScanPcs) /\ scan'.pc = "done"
    BY <2>1, ExportAssumption DEF TaskShape, ScanPcs, Unstarted
  <2>3. LockMoves(Scan)
    BY <2>1, <2>2, ExportAssumption DEF LockMoves, Queued, Entered
  <2> QED BY <1>3, <2>2, <2>3
<1> QED BY <1>4, <1>5, <1>6 DEF Rescan

-----------------------------------------------------------------------------
(* The deletion and the crash.                                             *)

LEMMA DeleteKeepsSections ==
    ASSUME SectionInv, DeleteMemory
    PROVE  SectionInv'
<1>1. /\ ~Recovering /\ ~Writing /\ rows' = [h \in Hashes |-> <<>>]
      /\ output' = None /\ complete' = None /\ exists' = FALSE
      /\ UNCHANGED <<intents, lock, reader, job, recovery, scan>>
  BY DEF DeleteMemory
<1>2. ShapeOK'
  BY <1>1 DEF SectionInv, ShapeOK, TaskShape
<1>3. LockInv'
  BY <1>1, LockStays DEF SectionInv, Queued, Entered
<1>4. LeaseInv'
  BY <1>1 DEF SectionInv, LeaseInv, Leased, Writing, Recovering
<1>5. \A r \in Readers : reader[r].pc \notin ToggleSection
  BY <1>1 DEF Writing, ToggleSection
<1>6. \A r \in Readers : ToggleInv(r)'
  BY <1>1, <1>5 DEF ToggleInv
<1> QED BY <1>2, <1>3, <1>4, <1>6 DEF SectionInv

LEMMA CrashKeepsSections ==
    ASSUME SectionInv, Crash
    PROVE  SectionInv'
<1>1. /\ lock' = <<>> /\ reader' = [r \in Readers |-> Asleep]
      /\ recovery' = Unstarted /\ scan' = Unstarted
      /\ UNCHANGED <<exists, rows, output, complete, intents>>
  BY DEF Crash
<1>2. /\ job' = [j \in Jobs |-> job'[j]]
      /\ \A j \in Jobs : JobShape(job'[j]) /\ job'[j].pc \in {"idle", "ready"}
  <2>1. job' = [j \in Jobs |->
          IF job[j].pc \in {"wait", "output", "intend", "complete"}
          THEN [job[j] EXCEPT !.pc = "ready"]
          ELSE IF job[j].pc = "ready" THEN job[j] ELSE Unmade]
    BY DEF Crash
  <2>2. ASSUME NEW j \in Jobs
        PROVE  JobShape(job'[j]) /\ job'[j].pc \in {"idle", "ready"}
    <3>1. JobShape(job[j])
      BY DEF SectionInv, ShapeOK
    <3>2. CASE job[j].pc \in {"wait", "output", "intend", "complete"}
      <4>1. job'[j] = [job[j] EXCEPT !.pc = "ready"]
        BY <2>1, <3>2
      <4> QED BY <3>1, <3>2, <4>1 DEF JobShape, JobPcs
    <3>3. CASE job[j].pc = "ready"
      BY <2>1, <3>1, <3>3
    <3>4. CASE job[j].pc \notin {"wait", "output", "intend", "complete", "ready"}
      <4>1. job'[j] = Unmade
        BY <2>1, <3>4
      <4> QED BY <4>1 DEF JobShape, JobPcs, Unmade
    <3> QED BY <3>2, <3>3, <3>4
  <2> QED BY <2>1, <2>2
<1>3. ReaderShape(Asleep) /\ Asleep.pc = "idle"
  BY DEF ReaderShape, ReaderPcs, Asleep
<1>4. \A p \in Processes : ~Queued(p)' /\ ~Entered(p)'
  BY <1>1, <1>2, <1>3 DEF Queued, Entered, Unstarted, CommitSection, ToggleSection
<1>5. ShapeOK'
  <2>1. TaskShape(recovery, RecoveryPcs)' /\ TaskShape(scan, ScanPcs)'
    BY <1>1, ExportAssumption DEF TaskShape, RecoveryPcs, ScanPcs, Unstarted
  <2> QED BY <1>1, <1>2, <1>3, <2>1 DEF SectionInv, ShapeOK, Unstarted
<1>6. LockInv'
  BY <1>1, <1>4 DEF LockInv, OnceEach, Member
<1>7. LeaseInv'
  BY <1>1, <1>2, <1>3 DEF LeaseInv, Leased, Writing, Unstarted
<1>8. \A r \in Readers : ToggleInv(r)'
  BY <1>1, <1>3 DEF ToggleInv, ToggleSection
<1> QED BY <1>5, <1>6, <1>7, <1>8 DEF SectionInv

-----------------------------------------------------------------------------

LEMMA SectionInit == Init => SectionInv
<1> SUFFICES ASSUME Init PROVE SectionInv
  OBVIOUS
<1>1. /\ exists = TRUE /\ rows = [h \in Hashes |-> <<>>] /\ output \in Hashes \cup {None}
      /\ complete = output /\ intents = {} /\ lock = <<>>
      /\ reader = [r \in Readers |-> Asleep] /\ job = [j \in Jobs |-> Unmade]
      /\ recovery = [Unstarted EXCEPT !.pc = "done"] /\ scan = [Unstarted EXCEPT !.pc = "done"]
  BY DEF Init
<1>2. ReaderShape(Asleep) /\ Asleep.pc = "idle" /\ JobShape(Unmade) /\ Unmade.pc = "idle"
  BY DEF ReaderShape, ReaderPcs, Asleep, JobShape, JobPcs, Unmade
<1>3. /\ TaskShape(recovery, RecoveryPcs) /\ recovery.pc = "done"
      /\ TaskShape(scan, ScanPcs) /\ scan.pc = "done"
  BY <1>1, ExportAssumption DEF TaskShape, RecoveryPcs, ScanPcs, Unstarted
<1>4. ShapeOK
  BY <1>1, <1>2, <1>3 DEF ShapeOK
<1>5. \A p \in Processes : ~Queued(p) /\ ~Entered(p)
  BY <1>1, <1>2, <1>3 DEF Queued, Entered, CommitSection, ToggleSection
<1>6. LockInv
  BY <1>1, <1>5 DEF LockInv, OnceEach, Member
<1>7. LeaseInv
  BY <1>1, <1>2, <1>3 DEF LeaseInv, Leased, Writing
<1>8. \A r \in Readers : ToggleInv(r)
  BY <1>1, <1>2 DEF ToggleInv, ToggleSection
<1> QED BY <1>4, <1>6, <1>7, <1>8 DEF SectionInv

LEMMA SectionNext == SectionInv /\ [Next]_vars => SectionInv'
<1> SUFFICES ASSUME SectionInv, [Next]_vars PROVE SectionInv'
  OBVIOUS
<1>1. ASSUME NEW r \in Readers, Resolve(r) \/ Enter(r) \/ Toggle(r) PROVE SectionInv'
  BY <1>1, ReaderKeepsSections
<1>2. ASSUME NEW j \in Jobs, Probe(j) \/ Translate(j) \/ JoinCommit(j) \/ Commit(j)
      PROVE  SectionInv'
  BY <1>2, JobBeforeLockKeepsSections, CommitKeepsSections
<1>3. CASE AskRecovery \/ Recover
  BY <1>3, RecoverKeepsSections
<1>4. CASE ScanTranslations \/ Rescan
  BY <1>4, ScanKeepsSections
<1>5. CASE DeleteMemory
  BY <1>5, DeleteKeepsSections
<1>6. CASE Crash
  BY <1>6, CrashKeepsSections
<1>7. CASE UNCHANGED vars
  <2>1. LockInv'
    BY <1>7, LockStays DEF vars, SectionInv, Queued, Entered
  <2>2. ShapeOK' /\ LeaseInv'
    BY <1>7 DEF vars, SectionInv, ShapeOK, TaskShape, LeaseInv, Leased, Writing
  <2>3. \A r \in Readers : ToggleInv(r)'
    BY <1>7 DEF vars, SectionInv, ToggleInv
  <2> QED BY <2>1, <2>2, <2>3 DEF SectionInv
<1> QED BY <1>1, <1>2, <1>3, <1>4, <1>5, <1>6, <1>7 DEF Next

\* The variant lock admits one process at a time, in the order in which they
\* came; the replay and the toggles exclude each other, a deletion waits for
\* both; and what a toggle computed from stays what the rows are until it
\* writes them, and what it wrote until it is over.
THEOREM SectionInvariance == Spec => []SectionInv
BY SectionInit, SectionNext, PTL DEF Spec

-----------------------------------------------------------------------------
(* A stale export has an intent.                                           *)

\* While one process is past its wait, no other is.
LEMMA NobodyElseEntered ==
    ASSUME SectionInv, NEW p \in Processes, Entered(p)
    PROVE  /\ \A r \in Readers \ {p} : reader[r].pc \notin ToggleSection
           /\ \A j \in Jobs \ {p} : job[j].pc \notin CommitSection
           /\ p # Recovery => recovery.pc # "write"
           /\ p # Scan => scan.pc # "write"
BY OneAtATime DEF SectionInv, Entered, Processes

\* While a toggle is past its wait, the replay is not at work.
LEMMA ToggleExcludesReplay ==
    ASSUME SectionInv, NEW r \in Readers, reader[r].pc \in ToggleSection
    PROVE  recovery.pc \notin {"next", "wait", "write", "clear"}
BY DEF SectionInv, LeaseInv, Leased, ToggleSection

LEMMA AuthorityIsComplete ==
    ASSUME CurrentInv
    PROVE  Authority = complete
BY DEF CurrentInv, Authority

\* An export of the current translation: a confirmed one leaves nothing that
\* does not tell the rows; one that is not keeps what told them before.
LEMMA PublishedTells ==
    ASSUME UNCHANGED <<rows, complete>>, NEW e, e = Export(complete, rows[complete]),
           Publish(e) \/ PublishUnsynced(e) \/ NotPublished
    PROVE  /\ Publish(e) => AllTell'
           /\ AllTell => AllTell'
<1>1. Tells(e)'
  BY DEF Tells
<1>2. \A x : Tells(x) => Tells(x)'
  BY DEF Tells
<1> QED BY <1>1, <1>2 DEF AllTell, Publish, PublishUnsynced, NotPublished

\* What a step of a reader that is not past its wait keeps.
LEMMA ReaderBeforeLockKeepsExport ==
    ASSUME ExportInv, NEW r \in Readers, Resolve(r) \/ Enter(r) \/ ReadRows(r) \/ RefuseToggle(r)
    PROVE  CurrentInv' /\ WriterInv' /\ IntentInv'
<1>1. UNCHANGED <<store, job, recovery, scan>>
  BY DEF Resolve, Enter, ReadRows, RefuseToggle
<1>2. ReaderShape(reader[r]) /\ reader = [q \in Readers |-> reader[q]]
  BY DEF ExportInv, SectionInv, ShapeOK
<1>3. /\ \A q \in Readers \ {r} : reader'[q] = reader[q]
      /\ reader'[r].pc \in {"idle", "resolved", "wait", "intend"}
      /\ \/ reader'[r].pc = "idle"
         \/ reader'[r].hash = reader[r].hash /\ reader[r].pc # "idle"
         \/ reader'[r].hash = Authority
  <2>1. CASE Resolve(r)
    BY <1>2, <2>1 DEF Resolve, ReaderShape
  <2>2. CASE Enter(r)
    BY <1>2, <2>2 DEF Enter, ReaderShape
  <2>3. CASE RefuseToggle(r)
    BY <1>2, <2>3 DEF RefuseToggle, LeaveReader, Asleep
  <2>4. CASE ReadRows(r)
    <3>1. reader[r].pc = "wait" /\ \E s, b, a :
             reader' = [reader EXCEPT ![r].pc = "intend", ![r].selection = s,
                            ![r].before = b, ![r].after = a]
      BY <2>4 DEF ReadRows
    <3> QED BY <1>2, <3>1 DEF ReaderShape
  <2> QED BY <2>1, <2>2, <2>3, <2>4
<1>4. AllTell' <=> AllTell
  BY <1>1 DEF AllTell, Tells, store
<1>5. CurrentInv'
  BY <1>1, <1>4 DEF ExportInv, CurrentInv, store
<1>6. WriterInv'
  BY <1>1, <1>3, AuthorityIsComplete DEF ExportInv, WriterInv, store
<1>7. IntentInv'
  BY <1>1, <1>3, <1>4 DEF ExportInv, IntentInv, store
<1> QED BY <1>5, <1>6, <1>7

\* What everybody else has to do with the export while a toggle is past its wait.
LEMMA ToggleAlone ==
    ASSUME ExportInv, NEW r \in Readers, reader[r].pc \in ToggleSection
    PROVE  /\ exists /\ complete # None /\ reader[r].hash = complete /\ output = complete
           /\ ToggleInv(r) /\ complete \in Hashes
           /\ \A q \in Readers \ {r} : reader[q].pc \notin ToggleSection
           /\ \A j \in Jobs : job[j].pc = "idle"
           /\ recovery.pc \notin {"next", "wait", "write", "clear"} /\ scan.pc # "write"
<1>1. exists /\ Entered(r) /\ reader[r].hash \in Hashes /\ ToggleInv(r)
  BY EnteredHolds DEF ExportInv
<1>2. reader[r].pc # "idle"
  BY DEF ToggleSection
<1>3. reader[r].hash = complete /\ complete # None
  BY <1>1, <1>2, ExportAssumption DEF ExportInv, WriterInv
<1>4. /\ \A q \in Readers \ {r} : reader[q].pc \notin ToggleSection
      /\ \A j \in Jobs \ {r} : job[j].pc \notin CommitSection
      /\ scan.pc # "write"
  BY <1>1, NobodyElseEntered, ExportAssumption DEF ExportInv, Processes
<1>5. \A j \in Jobs : job[j].pc = "idle"
  BY <1>3, <1>4, ExportAssumption DEF ExportInv, CurrentInv, CommitSection
<1> QED BY <1>1, <1>3, <1>4, <1>5, ToggleExcludesReplay DEF ExportInv, CurrentInv

LEMMA PersistKeepsExport ==
    ASSUME ExportInv, NEW r \in Readers, PersistIntent(r)
    PROVE  CurrentInv' /\ WriterInv' /\ IntentInv'
<1>1. /\ UNCHANGED <<exists, rows, output, complete, file, unsynced, job, recovery, scan>>
      /\ reader[r].pc = "intend" /\ intents \subseteq intents'
      /\ reader'[r].pc = "replace" => reader[r].hash \in intents'
  BY DEF PersistIntent, LeaveReader, Asleep, ExportInv, SectionInv, ShapeOK
<1>2. ReaderShape(reader[r]) /\ reader = [q \in Readers |-> reader[q]]
  BY DEF ExportInv, SectionInv, ShapeOK
<1>3. /\ \A q \in Readers \ {r} : reader'[q] = reader[q]
      /\ \/ reader'[r].pc = "idle"
         \/ reader'[r].pc = "replace" /\ reader'[r].hash = reader[r].hash
  BY <1>2 DEF PersistIntent, LeaveReader, Asleep, ReaderShape
<1>4. AllTell' <=> AllTell
  BY <1>1 DEF AllTell, Tells
<1>5. CurrentInv'
  BY <1>1, <1>4 DEF ExportInv, CurrentInv
<1>6. WriterInv'
  BY <1>1, <1>3 DEF ExportInv, WriterInv
<1>7. IntentInv'
  BY <1>1, <1>3, <1>4 DEF ExportInv, IntentInv
<1> QED BY <1>5, <1>6, <1>7

\* The rows change, or come back, under the intent.
LEMMA RowsKeepExport ==
    ASSUME ExportInv, NEW r \in Readers, ReplaceRows(r) \/ UndoRows(r)
    PROVE  CurrentInv' /\ WriterInv' /\ IntentInv'
<1>1. /\ reader[r].pc \in {"replace", "undo"}
      /\ UNCHANGED <<exists, output, complete, file, unsynced, intents, job, recovery, scan>>
  BY DEF ReplaceRows, UndoRows
<1>2. /\ exists /\ complete # None /\ reader[r].hash = complete /\ output = complete
      /\ \A q \in Readers \ {r} : reader[q].pc \notin ToggleSection
      /\ \A j \in Jobs : job[j].pc = "idle"
      /\ recovery.pc \notin {"next", "wait", "write", "clear"} /\ scan.pc # "write"
  BY <1>1, ToggleAlone DEF ToggleSection
<1>3. ReaderShape(reader[r]) /\ reader = [q \in Readers |-> reader[q]]
  BY DEF ExportInv, SectionInv, ShapeOK
<1>4. /\ \A q \in Readers \ {r} : reader'[q] = reader[q]
      /\ \/ reader'[r].pc = "idle"
         \/ reader'[r].pc = "export" /\ reader'[r].hash = reader[r].hash
  BY <1>3 DEF ReplaceRows, UndoRows, LeaveReader, Asleep, ReaderShape
<1>5. complete \in intents
  BY <1>1, <1>2 DEF ExportInv, IntentInv
<1>6. CurrentInv'
  BY <1>1, <1>2 DEF ExportInv, CurrentInv
<1>7. WriterInv'
  BY <1>1, <1>2, <1>4 DEF ExportInv, WriterInv
<1>8. IntentInv'
  BY <1>1, <1>2, <1>4, <1>5 DEF ExportInv, IntentInv, ToggleSection
<1> QED BY <1>6, <1>7, <1>8

LEMMA ExportToggleKeepsExport ==
    ASSUME ExportInv, NEW r \in Readers, ExportToggle(r)
    PROVE  CurrentInv' /\ WriterInv' /\ IntentInv'
<1> DEFINE e == Export(reader[r].hash, reader[r].after)
<1>1. /\ reader[r].pc = "export"
      /\ UNCHANGED <<exists, rows, output, complete, intents, job, recovery, scan>>
  BY DEF ExportToggle
<1>2. /\ exists /\ complete # None /\ reader[r].hash = complete /\ output = complete
      /\ ToggleInv(r)
      /\ \A q \in Readers \ {r} : reader[q].pc \notin ToggleSection
      /\ \A j \in Jobs : job[j].pc = "idle"
      /\ recovery.pc \notin {"next", "wait", "write", "clear"} /\ scan.pc # "write"
  BY <1>1, ToggleAlone DEF ToggleSection
<1>3. e = Export(complete, rows[complete])
  BY <1>1, <1>2 DEF ToggleInv, ToggleSection
<1> HIDE DEF e
<1>4. ReaderShape(reader[r]) /\ reader = [q \in Readers |-> reader[q]]
  BY DEF ExportInv, SectionInv, ShapeOK
<1>5. /\ \A q \in Readers \ {r} : reader'[q] = reader[q]
      /\ \/ reader'[r].pc = "idle"
         \/ reader'[r].pc \in {"clear", "undo"} /\ reader'[r].hash = reader[r].hash
      /\ Publish(e) \/ PublishUnsynced(e) \/ NotPublished
      /\ reader'[r].pc = "clear" => Publish(e)
  BY <1>4 DEF ExportToggle, LeaveReader, Asleep, ReaderShape, e
<1>6. (Publish(e) => AllTell') /\ (AllTell => AllTell')
  BY <1>1, <1>3, <1>5, PublishedTells
<1>7. complete \in intents
  BY <1>1, <1>2 DEF ExportInv, IntentInv
<1>8. CurrentInv'
  BY <1>1, <1>2 DEF ExportInv, CurrentInv
<1>9. WriterInv'
  BY <1>1, <1>2, <1>5 DEF ExportInv, WriterInv
<1>10. IntentInv'
  BY <1>1, <1>2, <1>5, <1>6, <1>7 DEF ExportInv, IntentInv, ToggleSection
<1> QED BY <1>8, <1>9, <1>10

LEMMA ClearToggleKeepsExport ==
    ASSUME ExportInv, NEW r \in Readers, ClearToggle(r)
    PROVE  CurrentInv' /\ WriterInv' /\ IntentInv'
<1>1. /\ reader[r].pc = "clear" /\ LeaveReader(r)
      /\ UNCHANGED <<exists, rows, output, complete, file, unsynced, job, recovery, scan>>
  BY DEF ClearToggle
<1>2. /\ exists /\ complete # None
      /\ \A q \in Readers \ {r} : reader[q].pc \notin ToggleSection
      /\ \A j \in Jobs : job[j].pc = "idle"
      /\ recovery.pc \notin {"next", "wait", "write", "clear"}
  BY <1>1, ToggleAlone DEF ToggleSection
<1>3. /\ \A q \in Readers \ {r} : reader'[q] = reader[q]
      /\ reader'[r].pc = "idle"
  BY <1>1 DEF LeaveReader, Asleep, ExportInv, SectionInv, ShapeOK
<1>4. AllTell /\ AllTell'
  BY <1>1 DEF ExportInv, IntentInv, AllTell, Tells
<1>5. CurrentInv'
  BY <1>1, <1>2 DEF ExportInv, CurrentInv
<1>6. WriterInv'
  BY <1>1, <1>3 DEF ExportInv, WriterInv
<1>7. IntentInv'
  BY <1>1, <1>2, <1>3, <1>4 DEF ExportInv, IntentInv, ToggleSection
<1> QED BY <1>5, <1>6, <1>7

\* What is there while a job has not committed, and what else happens then.
LEMMA JobAlone ==
    ASSUME ExportInv, OneTranslation, NEW j \in Jobs, job[j].pc # "idle"
    PROVE  /\ \A i \in Jobs : i = j
           /\ job[j].pc \notin {"export", "clear"} => complete = None
           /\ job[j].pc \in {"intend", "complete"} => output = job[j].hash
           /\ job[j].pc \in {"export", "clear"} => complete = job[j].hash /\ AllTell
           /\ job[j].pc \in CommitSection
                => /\ exists /\ job[j].hash \in Hashes
                   /\ \A r \in Readers : reader[r].pc \notin ToggleSection
                   /\ recovery.pc # "write" /\ scan.pc # "write"
<1>1. ASSUME job[j].pc \in CommitSection
      PROVE  /\ exists /\ job[j].hash \in Hashes
             /\ \A r \in Readers : reader[r].pc \notin ToggleSection
             /\ recovery.pc # "write" /\ scan.pc # "write"
  <2>1. exists /\ Entered(j) /\ job[j].hash \in Hashes
    BY <1>1, EnteredCommitHolds DEF ExportInv
  <2> QED BY <2>1, NobodyElseEntered, ExportAssumption DEF ExportInv, Processes
<1> QED BY <1>1 DEF ExportInv, CurrentInv, OneTranslation

\* The steps of a job that leave the current translation and its export alone.
LEMMA QuietJobKeepsExport ==
    ASSUME ExportInv, OneTranslation, NEW j \in Jobs,
           UNCHANGED <<exists, rows, output, complete, file, unsynced, reader, recovery, scan>>,
           intents \subseteq intents', NEW pc, pc \notin {"export", "clear"},
           NEW h, job' = [job EXCEPT ![j] = [pc |-> pc, hash |-> h]],
           pc # "idle" => complete = None,
           pc \in {"intend", "complete"} => output = h
    PROVE  CurrentInv' /\ WriterInv' /\ IntentInv'
<1>1. \A i \in Jobs : i = j
  BY DEF OneTranslation
<1>2. job'[j].pc = pc /\ job'[j].hash = h
  BY DEF ExportInv, SectionInv, ShapeOK
<1>3. AllTell' <=> AllTell
  BY DEF AllTell, Tells
<1>4. CurrentInv'
  BY <1>1, <1>2, <1>3 DEF ExportInv, CurrentInv
<1>5. WriterInv'
  BY DEF ExportInv, WriterInv
<1>6. IntentInv'
  BY <1>3 DEF ExportInv, IntentInv
<1> QED BY <1>4, <1>5, <1>6

LEMMA JobBeforeCommitKeepsExport ==
    ASSUME ExportInv, OneTranslation, NEW j \in Jobs,
           \/ Probe(j) \/ Translate(j) \/ JoinCommit(j) \/ CheckSource(j) \/ IntendCommit(j)
    PROVE  CurrentInv' /\ WriterInv' /\ IntentInv'
<1>1. JobShape(job[j])
  BY DEF ExportInv, SectionInv, ShapeOK
<1>2. \A pc : [job[j] EXCEPT !.pc = pc] = [pc |-> pc, hash |-> job[j].hash]
  BY <1>1 DEF JobShape
<1>3. CASE Probe(j)
  <2>1. complete = None
    BY <1>3, AuthorityIsComplete DEF Probe, ExportInv
  <2>2. job' = [job EXCEPT ![j] = [pc |-> "probed", hash |-> job[j].hash]]
    BY <1>2, <1>3 DEF Probe
  <2>3. /\ UNCHANGED <<exists, rows, output, complete, file, unsynced, reader, recovery, scan>>
        /\ intents \subseteq intents'
    BY <1>3, <2>1 DEF Probe
  <2> QED BY <2>1, <2>2, <2>3, QuietJobKeepsExport
<1>4. CASE Translate(j)
  <2>1. PICK h \in Hashes : job' = [job EXCEPT ![j] = [pc |-> "ready", hash |-> h]]
    BY <1>4 DEF Translate
  <2>2. complete = None
    BY <1>4, JobAlone DEF Translate
  <2>3. /\ UNCHANGED <<exists, rows, output, complete, file, unsynced, reader, recovery, scan>>
        /\ intents \subseteq intents'
    BY <1>4, <2>1 DEF Translate, store
  <2> QED BY <2>1, <2>2, <2>3, QuietJobKeepsExport
<1>5. CASE JoinCommit(j)
  <2>1. complete = None
    BY <1>5, JobAlone DEF JoinCommit
  <2>2. job' = [job EXCEPT ![j] = [pc |-> "wait", hash |-> job[j].hash]]
    BY <1>2, <1>5 DEF JoinCommit
  <2>3. /\ UNCHANGED <<exists, rows, output, complete, file, unsynced, reader, recovery, scan>>
        /\ intents \subseteq intents'
    BY <1>5, <2>1 DEF JoinCommit, store
  <2> QED BY <2>1, <2>2, <2>3, QuietJobKeepsExport
<1>6. CASE CheckSource(j)
  <2>1. complete = None
    BY <1>6, JobAlone DEF CheckSource
  <2>2. \/ job' = [job EXCEPT ![j] = [pc |-> "output", hash |-> job[j].hash]]
        \/ job' = [job EXCEPT ![j] = [pc |-> "idle", hash |-> None]]
    BY <1>2, <1>6 DEF CheckSource, LeaveJob, Unmade
  <2> QED BY <1>6, <2>1, <2>2, QuietJobKeepsExport DEF CheckSource, store
<1>7. CASE IntendCommit(j)
  <2>1. complete = None /\ output = job[j].hash
    BY <1>7, JobAlone DEF IntendCommit
  <2>2. /\ \/ job' = [job EXCEPT ![j] = [pc |-> "complete", hash |-> job[j].hash]]
           \/ job' = [job EXCEPT ![j] = [pc |-> "idle", hash |-> None]]
        /\ intents \subseteq intents'
    BY <1>2, <1>7 DEF IntendCommit, LeaveJob, Unmade
  <2> QED BY <1>7, <2>1, <2>2, QuietJobKeepsExport DEF IntendCommit
<1> QED BY <1>3, <1>4, <1>5, <1>6, <1>7

LEMMA WriteOutputKeepsExport ==
    ASSUME ExportInv, OneTranslation, NEW j \in Jobs, WriteOutput(j)
    PROVE  CurrentInv' /\ WriterInv' /\ IntentInv'
<1>1. /\ job[j].pc = "output"
      /\ UNCHANGED <<exists, rows, complete, file, unsynced, intents, reader, recovery, scan>>
  BY DEF WriteOutput
<1>2. complete = None /\ \A i \in Jobs : i = j
  BY <1>1, JobAlone
<1>3. JobShape(job[j]) /\ job = [i \in Jobs |-> job[i]]
  BY DEF ExportInv, SectionInv, ShapeOK
<1>4. \/ job'[j].pc = "intend" /\ job'[j].hash = job[j].hash /\ output' = job[j].hash
      \/ job'[j].pc = "idle"
  BY <1>3 DEF WriteOutput, LeaveJob, Unmade, JobShape
<1>5. CurrentInv'
  BY <1>1, <1>2, <1>4 DEF ExportInv, CurrentInv
<1>6. AllTell' <=> AllTell
  BY <1>1 DEF AllTell, Tells
<1>7. WriterInv' /\ IntentInv'
  BY <1>1, <1>6 DEF ExportInv, WriterInv, IntentInv
<1> QED BY <1>5, <1>7

\* The translation becomes the current one; nothing is marked in it yet.
LEMMA CompleteJobKeepsExport ==
    ASSUME ExportInv, OneTranslation, NEW j \in Jobs, CompleteJob(j)
    PROVE  CurrentInv' /\ WriterInv' /\ IntentInv'
<1>1. /\ job[j].pc = "complete"
      /\ UNCHANGED <<exists, rows, output, file, unsynced, intents, reader, recovery, scan>>
  BY DEF CompleteJob
<1>2. /\ complete = None /\ output = job[j].hash /\ exists /\ job[j].hash \in Hashes
      /\ \A i \in Jobs : i = j
      /\ \A r \in Readers : reader[r].pc \notin ToggleSection
      /\ recovery.pc # "write" /\ scan.pc # "write"
  BY <1>1, JobAlone DEF CommitSection
<1>3. JobShape(job[j]) /\ job = [i \in Jobs |-> job[i]]
  BY DEF ExportInv, SectionInv, ShapeOK
<1>4. \/ complete' = job[j].hash /\ job'[j].pc = "export" /\ job'[j].hash = job[j].hash
      \/ complete' = complete /\ job'[j].pc = "idle"
  BY <1>3 DEF CompleteJob, LeaveJob, Unmade, JobShape
<1>5. CASE complete' = complete /\ job'[j].pc = "idle"
  <2>1. CurrentInv'
    BY <1>1, <1>2, <1>5 DEF ExportInv, CurrentInv
  <2>2. AllTell' <=> AllTell
    BY <1>1, <1>5 DEF AllTell, Tells
  <2>3. WriterInv' /\ IntentInv'
    BY <1>1, <1>5, <2>2 DEF ExportInv, WriterInv, IntentInv
  <2> QED BY <2>1, <2>3
<1>6. CASE complete' = job[j].hash /\ job'[j].pc = "export" /\ job'[j].hash = job[j].hash
  <2>1. file = None /\ unsynced = {} /\ \A h \in Hashes : rows[h] = <<>>
    BY <1>2 DEF ExportInv, CurrentInv
  <2>2. AllTell'
    BY <1>1, <1>2, <1>6, <2>1 DEF AllTell, Tells
  <2>3. \A r \in Readers : reader[r].pc = "idle"
    <3>1. \A r \in Readers : reader[r].pc # "idle" => reader[r].hash \in Hashes
      BY DEF ExportInv, SectionInv, ShapeOK, ReaderShape
    <3> QED BY <1>2, <3>1, ExportAssumption DEF ExportInv, WriterInv
  <2>4. CurrentInv'
    BY <1>1, <1>2, <1>6, <2>2, ExportAssumption DEF CurrentInv
  <2>5. WriterInv'
    BY <1>1, <1>2, <2>3 DEF ExportInv, WriterInv
  <2>6. IntentInv'
    BY <1>1, <2>2, <2>3 DEF IntentInv
  <2> QED BY <2>4, <2>5, <2>6
<1> QED BY <1>4, <1>5, <1>6

LEMMA ExportCommitKeepsExport ==
    ASSUME ExportInv, OneTranslation, NEW j \in Jobs, ExportCommit(j)
    PROVE  CurrentInv' /\ WriterInv' /\ IntentInv'
<1> DEFINE e == Export(job[j].hash, rows[job[j].hash])
<1>1. /\ job[j].pc = "export"
      /\ UNCHANGED <<exists, rows, output, complete, intents, reader, recovery, scan>>
  BY DEF ExportCommit
<1>2. /\ complete = job[j].hash /\ AllTell /\ exists /\ complete \in Hashes
      /\ \A i \in Jobs : i = j
      /\ \A r \in Readers : reader[r].pc \notin ToggleSection
      /\ recovery.pc # "write" /\ scan.pc # "write"
  BY <1>1, JobAlone DEF CommitSection
<1>3. JobShape(job[j]) /\ job = [i \in Jobs |-> job[i]]
  BY DEF ExportInv, SectionInv, ShapeOK
<1>4. e = Export(complete, rows[complete])
  BY <1>2
<1> HIDE DEF e
<1>5. /\ Publish(e) \/ PublishUnsynced(e) \/ NotPublished
      /\ \/ job'[j].pc = "clear" /\ job'[j].hash = job[j].hash
         \/ job'[j].pc = "idle"
  BY <1>3 DEF ExportCommit, LeaveJob, Unmade, JobShape, e
<1>6. AllTell'
  BY <1>1, <1>2, <1>4, <1>5, PublishedTells
<1>7. CurrentInv'
  BY <1>1, <1>2, <1>5, <1>6, ExportAssumption DEF ExportInv, CurrentInv
<1>8. WriterInv'
  BY <1>1 DEF ExportInv, WriterInv
<1>9. IntentInv'
  BY <1>1, <1>2, <1>6 DEF ExportInv, IntentInv, ToggleSection
<1> QED BY <1>7, <1>8, <1>9

LEMMA ClearCommitKeepsExport ==
    ASSUME ExportInv, OneTranslation, NEW j \in Jobs, ClearCommit(j)
    PROVE  CurrentInv' /\ WriterInv' /\ IntentInv'
<1>1. /\ job[j].pc = "clear" /\ LeaveJob(j)
      /\ UNCHANGED <<exists, rows, output, complete, file, unsynced, reader, recovery, scan>>
  BY DEF ClearCommit
<1>2. /\ AllTell /\ \A i \in Jobs : i = j
      /\ \A r \in Readers : reader[r].pc \notin ToggleSection
  BY <1>1, JobAlone DEF CommitSection
<1>3. job'[j].pc = "idle"
  BY <1>1 DEF LeaveJob, Unmade, ExportInv, SectionInv, ShapeOK
<1>4. AllTell'
  BY <1>1, <1>2 DEF AllTell, Tells
<1>5. CurrentInv'
  BY <1>1, <1>2, <1>3 DEF ExportInv, CurrentInv
<1>6. WriterInv' /\ IntentInv'
  BY <1>1, <1>2, <1>4 DEF ExportInv, WriterInv, IntentInv, ToggleSection
<1> QED BY <1>5, <1>6

\* The replay leaves the rows alone; what it clears has been written.
LEMMA QuietReplayKeepsExport ==
    ASSUME ExportInv,
           UNCHANGED <<exists, rows, output, complete, file, unsynced, intents, reader, job, scan>>,
           recovery'.pc # "write", recovery'.pc = "clear" => complete = None
    PROVE  CurrentInv' /\ WriterInv' /\ IntentInv'
<1>1. AllTell' <=> AllTell
  BY DEF AllTell, Tells
<1> QED BY <1>1 DEF ExportInv, CurrentInv, WriterInv, IntentInv

LEMMA RecoverKeepsExport ==
    ASSUME ExportInv, AskRecovery \/ Recover
    PROVE  CurrentInv' /\ WriterInv' /\ IntentInv'
<1>1. DOMAIN recovery = {"pc", "todo", "intent", "export"}
  BY DEF ExportInv, SectionInv, ShapeOK, TaskShape
<1>2. CASE AskRecovery
  <2>1. recovery'.pc = "start"
    BY <1>1, <1>2 DEF AskRecovery
  <2> QED BY <1>2, <2>1, QuietReplayKeepsExport DEF AskRecovery, store
<1>3. CASE ListIntents
  <2>1. recovery'.pc = "next"
    BY <1>1, <1>3 DEF ListIntents
  <2> QED BY <1>3, <2>1, QuietReplayKeepsExport DEF ListIntents, store
<1>4. CASE TakeIntent
  <2>1. ~exists => complete = None
    BY DEF ExportInv, CurrentInv
  <2>2. recovery'.pc \in {"done", "failed", "wait"} \/ (recovery'.pc = "clear" /\ ~exists)
    BY <1>1, <1>4 DEF TakeIntent, Unstarted
  <2> QED BY <1>4, <2>1, <2>2, QuietReplayKeepsExport DEF TakeIntent, store
<1>5. CASE ReadAuthority
  <2>1. Authority = complete
    BY AuthorityIsComplete DEF ExportInv
  <2>2. UNCHANGED <<store, reader, job, scan>>
    BY <1>5 DEF ReadAuthority
  <2>3. CASE Authority = None
    <3>1. recovery'.pc = "clear"
      BY <1>1, <1>5, <2>3 DEF ReadAuthority
    <3> QED BY <2>1, <2>2, <2>3, <3>1, QuietReplayKeepsExport DEF store
  <2>4. CASE Authority # None
    <3>1. recovery'.pc = "write" /\ recovery'.export = Export(complete, rows[complete])
      BY <1>1, <1>5, <2>1, <2>4 DEF ReadAuthority
    <3>2. AllTell' <=> AllTell
      BY <2>2 DEF AllTell, Tells, store
    <3>3. CurrentInv' /\ IntentInv'
      BY <2>2, <3>1, <3>2 DEF ExportInv, CurrentInv, IntentInv, store
    <3>4. WriterInv'
      BY <2>1, <2>2, <2>4, <3>1 DEF ExportInv, WriterInv, store
    <3> QED BY <3>3, <3>4
  <2> QED BY <2>3, <2>4
<1>6. CASE Reexport
  <2> DEFINE e == recovery.export
  <2>1. /\ recovery.pc = "write" /\ complete # None /\ e = Export(complete, rows[complete])
        /\ UNCHANGED <<exists, rows, output, complete, intents, reader, job, scan>>
    BY <1>6 DEF Reexport, ExportInv, WriterInv
  <2> HIDE DEF e
  <2>2. /\ \A r \in Readers : reader[r].pc \notin ToggleSection
        /\ \A j \in Jobs : job[j].pc \notin CommitSection
    BY <2>1, NobodyElseEntered, ExportAssumption DEF Entered, Processes, ExportInv
  <2>3. /\ Publish(e) \/ PublishUnsynced(e) \/ NotPublished
        /\ \/ recovery'.pc = "clear" /\ Publish(e)
           \/ recovery'.pc = "failed"
    BY <1>1, <1>6 DEF Reexport, Unstarted, e
  <2>4. (Publish(e) => AllTell') /\ (AllTell => AllTell')
    BY <2>1, <2>3, PublishedTells
  <2>5. CurrentInv'
    BY <2>1, <2>2 DEF ExportInv, CurrentInv, CommitSection
  <2>6. WriterInv'
    BY <2>1, <2>3 DEF ExportInv, WriterInv
  <2>7. IntentInv'
    BY <2>1, <2>2, <2>3, <2>4 DEF ExportInv, IntentInv, ToggleSection
  <2> QED BY <2>5, <2>6, <2>7
<1>7. CASE ClearRecovered
  <2>1. /\ recovery.pc = "clear"
        /\ UNCHANGED <<exists, rows, output, complete, file, unsynced, reader, job, scan>>
    BY <1>7 DEF ClearRecovered
  <2>2. recovery'.pc \in {"next", "failed"}
    BY <1>1, <1>7 DEF ClearRecovered, Unstarted
  <2>3. \A r \in Readers : reader[r].pc \notin ToggleSection
    BY <2>1, ToggleExcludesReplay DEF ExportInv
  <2>4. (AllTell' <=> AllTell) /\ (complete # None => AllTell)
    BY <2>1 DEF AllTell, Tells, ExportInv, IntentInv
  <2>5. CurrentInv' /\ WriterInv'
    BY <2>1, <2>2, <2>4 DEF ExportInv, CurrentInv, WriterInv
  <2>6. IntentInv'
    BY <2>1, <2>2, <2>3, <2>4 DEF IntentInv, ToggleSection
  <2> QED BY <2>5, <2>6
<1> QED BY <1>2, <1>3, <1>4, <1>5, <1>6, <1>7 DEF Recover

LEMMA ScanKeepsExport ==
    ASSUME ExportInv, ScanTranslations \/ Rescan
    PROVE  CurrentInv' /\ WriterInv' /\ IntentInv'
<1>1. DOMAIN scan = {"pc", "todo", "intent", "export"}
  BY DEF ExportInv, SectionInv, ShapeOK, TaskShape
<1>2. UNCHANGED <<exists, rows, output, complete, intents, reader, job, recovery>>
  BY DEF ScanTranslations, Rescan, ScanRows, ScanExport, store
<1>3. CASE UNCHANGED <<file, unsynced>> /\ ~ScanExport
  <2>1. AllTell' <=> AllTell
    BY <1>2, <1>3 DEF AllTell, Tells
  <2>2. CurrentInv' /\ IntentInv'
    BY <1>2, <1>3, <2>1 DEF ExportInv, CurrentInv, IntentInv
  <2>3. CASE ScanTranslations
    <3>1. scan'.pc = "done" \/ (scan'.pc = "wait" /\ scan'.intent = complete /\ complete # None)
      BY <1>1, <2>3 DEF ScanTranslations
    <3> QED BY <1>2, <2>2, <3>1 DEF ExportInv, WriterInv
  <2>4. CASE ScanRows
    <3>1. /\ scan.pc = "wait"
          /\ \/ scan'.pc = "done"
             \/ /\ scan'.pc = "write" /\ scan'.intent = scan.intent
                /\ scan'.export = Export(scan.intent, rows[scan.intent])
      BY <1>1, <2>4 DEF ScanRows, Unstarted
    <3> QED BY <1>2, <2>2, <3>1 DEF ExportInv, WriterInv
  <2> QED BY <1>3, <2>3, <2>4 DEF Rescan
<1>4. CASE ScanExport
  <2> DEFINE e == scan.export
  <2>1. scan.pc = "write" /\ (Publish(e) \/ PublishUnsynced(e) \/ NotPublished)
    BY <1>4 DEF ScanExport
  <2>2. scan'.pc = "done"
    BY <1>4 DEF ScanExport, Unstarted
  <2>3. /\ \A r \in Readers : reader[r].pc \notin ToggleSection
        /\ \A j \in Jobs : job[j].pc \notin CommitSection
    BY <2>1, NobodyElseEntered, ExportAssumption DEF Entered, Processes, ExportInv
  <2>4. exists => complete # None /\ e = Export(complete, rows[complete])
    BY <2>1 DEF ExportInv, WriterInv
  <2>5. complete # None => exists
    BY DEF ExportInv, CurrentInv
  <2> HIDE DEF e
  <2>6. exists => (AllTell => AllTell')
    BY <1>2, <2>1, <2>4, PublishedTells
  <2>7. CurrentInv'
    BY <1>2, <2>3, <2>4 DEF ExportInv, CurrentInv, CommitSection
  <2>8. WriterInv'
    BY <1>2, <2>2 DEF ExportInv, WriterInv
  <2>9. IntentInv'
    BY <1>2, <2>3, <2>5, <2>6 DEF ExportInv, IntentInv, ToggleSection
  <2> QED BY <2>7, <2>8, <2>9
<1>5. ScanTranslations \/ ScanRows => UNCHANGED <<file, unsynced>>
  BY DEF ScanTranslations, ScanRows, store
<1> QED BY <1>3, <1>4, <1>5 DEF Rescan

LEMMA DeleteKeepsExport ==
    ASSUME ExportInv, DeleteMemory
    PROVE  CurrentInv' /\ WriterInv' /\ IntentInv'
<1>1. /\ exists' = FALSE /\ complete' = None /\ ~Writing /\ ~Recovering
      /\ UNCHANGED <<intents, reader, job, recovery, scan>>
  BY DEF DeleteMemory
<1>2. CurrentInv'
  BY <1>1 DEF CurrentInv, Writing
<1>3. WriterInv'
  BY <1>1 DEF WriterInv, Recovering
<1>4. IntentInv'
  BY <1>1 DEF IntentInv, Writing
<1> QED BY <1>2, <1>3, <1>4

LEMMA CrashKeepsExport ==
    ASSUME ExportInv, Crash
    PROVE  CurrentInv' /\ WriterInv' /\ IntentInv'
<1>1. /\ file' \in {file} \cup unsynced /\ unsynced' = {}
      /\ reader' = [r \in Readers |-> Asleep] /\ recovery' = Unstarted /\ scan' = Unstarted
      /\ UNCHANGED <<exists, rows, output, complete, intents>>
  BY DEF Crash
<1>2. ASSUME NEW j \in Jobs
      PROVE  \/ job'[j].pc = "idle"
             \/ job'[j].pc = "ready" /\ job[j].pc \notin {"idle", "export", "clear"}
  <2>1. job[j] \in [pc : JobPcs, hash : Hashes \cup {None}]
    BY DEF ExportInv, SectionInv, ShapeOK, JobShape
  <2>2. job'[j] = IF job[j].pc \in {"wait", "output", "intend", "complete"}
                  THEN [job[j] EXCEPT !.pc = "ready"]
                  ELSE IF job[j].pc = "ready" THEN job[j] ELSE Unmade
    BY DEF Crash
  <2> QED BY <2>1, <2>2 DEF Unmade
<1>3. AllTell => AllTell'
  BY <1>1 DEF AllTell, Tells
<1>4. CurrentInv'
  BY <1>1, <1>2 DEF ExportInv, CurrentInv
<1>5. WriterInv'
  BY <1>1 DEF WriterInv, Asleep, Unstarted
<1>6. IntentInv'
  BY <1>1, <1>3 DEF ExportInv, IntentInv, Asleep, Unstarted
<1> QED BY <1>4, <1>5, <1>6

-----------------------------------------------------------------------------

LEMMA ExportInit == Init => ExportInv
<1> SUFFICES ASSUME Init PROVE ExportInv
  OBVIOUS
<1>1. /\ exists = TRUE /\ rows = [h \in Hashes |-> <<>>] /\ output \in Hashes \cup {None}
      /\ complete = output /\ file = None /\ unsynced = {}
      /\ reader = [r \in Readers |-> Asleep] /\ job = [j \in Jobs |-> Unmade]
      /\ recovery.pc = "done" /\ scan.pc = "done"
  BY DEF Init, Unstarted
<1>2. CurrentInv
  BY <1>1 DEF CurrentInv, Unmade
<1>3. WriterInv
  BY <1>1 DEF WriterInv, Asleep
<1>4. complete # None => AllTell
  BY <1>1 DEF AllTell, Tells
<1>5. IntentInv
  BY <1>1, <1>4 DEF IntentInv, Asleep
<1> QED BY <1>2, <1>3, <1>5, SectionInit DEF ExportInv

LEMMA ExportNext ==
    ASSUME OneTranslation
    PROVE  ExportInv /\ [Next]_vars => ExportInv'
<1> SUFFICES ASSUME ExportInv, [Next]_vars PROVE ExportInv'
  OBVIOUS
<1>1. SectionInv'
  BY SectionNext DEF ExportInv
<1>2. ASSUME NEW r \in Readers, Resolve(r) \/ Enter(r) \/ Toggle(r)
      PROVE  CurrentInv' /\ WriterInv' /\ IntentInv'
  BY <1>2, ReaderBeforeLockKeepsExport, PersistKeepsExport, RowsKeepExport,
     ExportToggleKeepsExport, ClearToggleKeepsExport DEF Toggle
<1>3. ASSUME NEW j \in Jobs, Probe(j) \/ Translate(j) \/ JoinCommit(j) \/ Commit(j)
      PROVE  CurrentInv' /\ WriterInv' /\ IntentInv'
  BY <1>3, JobBeforeCommitKeepsExport, WriteOutputKeepsExport, CompleteJobKeepsExport,
     ExportCommitKeepsExport, ClearCommitKeepsExport DEF Commit
<1>4. CASE AskRecovery \/ Recover
  BY <1>1, <1>4, RecoverKeepsExport DEF ExportInv
<1>5. CASE ScanTranslations \/ Rescan
  BY <1>1, <1>5, ScanKeepsExport DEF ExportInv
<1>6. CASE DeleteMemory
  BY <1>1, <1>6, DeleteKeepsExport DEF ExportInv
<1>7. CASE Crash
  BY <1>1, <1>7, CrashKeepsExport DEF ExportInv
<1>8. CASE UNCHANGED vars
  <2>1. AllTell' <=> AllTell
    BY <1>8 DEF vars, AllTell, Tells
  <2>2. CurrentInv' /\ WriterInv' /\ IntentInv'
    BY <1>8, <2>1 DEF vars, ExportInv, CurrentInv, WriterInv, IntentInv
  <2> QED BY <1>1, <2>2 DEF ExportInv
<1> QED BY <1>1, <1>2, <1>3, <1>4, <1>5, <1>6, <1>7, <1>8 DEF Next, ExportInv

\* While one translation of the language is made at a time, every writer of
\* FLASHBACKS.json writes the current translation, the intent outlives every
\* doubt about the file, and only a file that tells the rows for good, after a
\* crash too, lets the intent go.
THEOREM ExportInvariance ==
    ASSUME OneTranslation
    PROVE  Spec => []ExportInv
BY ExportInit, ExportNext, PTL DEF Spec

\* While one translation of the language is made at a time, a FLASHBACKS.json
\* that does not tell the rows of the current translation has an intent, which
\* the next startup replays.
THEOREM ExportStaleIsJournaled ==
    ASSUME OneTranslation
    PROVE  Spec => []StaleExportIsJournaled
<1>1. ExportInv => StaleExportIsJournaled
  <2> SUFFICES ASSUME ExportInv, Authority # None, ~Agrees(Authority)
               PROVE  intents # {}
    BY DEF StaleExportIsJournaled
  <2>1. Authority = complete
    BY AuthorityIsComplete DEF ExportInv
  <2>2. ~AllTell
    BY <2>1 DEF Agrees, AllTell, Tells
  <2> QED BY <2>1, <2>2 DEF ExportInv, IntentInv
<1> QED BY <1>1, ExportInvariance, PTL

-----------------------------------------------------------------------------
(* What a toggle writes.                                                   *)

\* Every change of the rows of a memory that is there is a toggle that writes
\* what it computed over just what it had read, or takes that back.
WritesOverWhatWasRead ==
    [][\A h \in Hashes : rows'[h] # rows[h] /\ exists' =>
          \E r \in Readers :
             LET k == reader[r]
             IN  /\ k.hash = h /\ k.selection \in Selections
                 /\ \E w \in Wishes : k.after = Toggled(k.before, k.selection, w)
                 /\ \/ k.pc = "replace" /\ rows[h] = k.before /\ rows'[h] = k.after
                    \/ k.pc = "undo" /\ rows[h] = k.after /\ rows'[h] = k.before]_vars

\* No toggle loses what another one wrote: nobody changes the rows between the
\* read and the write of a toggle, or between its write and the undoing of it.
THEOREM TogglesLoseNothing == Spec => WritesOverWhatWasRead
<1> DEFINE A == \A h \in Hashes : rows'[h] # rows[h] /\ exists' =>
                   \E r \in Readers :
                      LET k == reader[r]
                      IN  /\ k.hash = h /\ k.selection \in Selections
                          /\ \E w \in Wishes : k.after = Toggled(k.before, k.selection, w)
                          /\ \/ k.pc = "replace" /\ rows[h] = k.before /\ rows'[h] = k.after
                             \/ k.pc = "undo" /\ rows[h] = k.after /\ rows'[h] = k.before
<1>1. SectionInv /\ [Next]_vars => [A]_vars
  <2> SUFFICES ASSUME SectionInv, Next, NEW h \in Hashes, rows'[h] # rows[h], exists'
               PROVE  \E r \in Readers :
                         LET k == reader[r]
                         IN  /\ k.hash = h /\ k.selection \in Selections
                             /\ \E w \in Wishes : k.after = Toggled(k.before, k.selection, w)
                             /\ \/ k.pc = "replace" /\ rows[h] = k.before /\ rows'[h] = k.after
                                \/ k.pc = "undo" /\ rows[h] = k.after /\ rows'[h] = k.before
    OBVIOUS
  <2>1. rows' # rows /\ ~DeleteMemory
    BY DEF DeleteMemory
  <2>2. PICK r \in Readers : ReplaceRows(r) \/ UndoRows(r)
    BY <2>1 DEF Next, Resolve, Enter, Toggle, ReadRows, RefuseToggle, PersistIntent, ExportToggle,
                ClearToggle, Probe, Translate, JoinCommit, Commit, CheckSource, WriteOutput,
                IntendCommit, CompleteJob, ExportCommit, ClearCommit, AskRecovery, Recover,
                ListIntents, TakeIntent, ReadAuthority, Reexport, ClearRecovered, ScanTranslations,
                Rescan, ScanRows, ScanExport, Crash, store
  <2> DEFINE k == reader[r]
  <2>3. /\ k.pc \in {"replace", "undo"} /\ k.hash \in Hashes /\ ToggleInv(r)
        /\ rows' = [rows EXCEPT ![k.hash] = IF k.pc = "replace" THEN k.after ELSE k.before]
    BY <2>1, <2>2, EnteredHolds DEF ReplaceRows, UndoRows, ToggleSection
  <2>4. h = k.hash /\ rows'[h] = IF k.pc = "replace" THEN k.after ELSE k.before
    BY <2>3 DEF SectionInv, ShapeOK
  <2> QED BY <2>3, <2>4 DEF ToggleInv, ToggleSection
<1> QED BY <1>1, SectionInvariance, PTL DEF Spec, WritesOverWhatWasRead

-----------------------------------------------------------------------------
(* What the marks become, when the ranges are computed as they should be.  *)

\* Every toggle of ranges does what it should; TLC checks the same of short
\* lists of ranges (MCFlashbackExport).
RangesAreRight == TogglesJustTheSelection(Ranges)

\* What the rows and the toggles hold is ranges, and every export is one of
\* ranges.
RangesInv ==
    /\ \A h \in Hashes : rows[h] \in Ranges
    /\ \A r \in Readers : reader[r].before \in Ranges /\ reader[r].after \in Ranges

ExportsInv == \A e \in {file, recovery.export, scan.export} \cup unsynced : IsExport(e)

RangesTypeInv == RangesInv /\ ExportsInv /\ faults \in 0 .. MaxFaults

LEMMA RangesNext ==
    ASSUME RangesAreRight, SectionInv, RangesInv, [Next]_vars
    PROVE  RangesInv'
<1>1. <<>> \in Ranges
  BY DEF Ranges
<1>2. ASSUME UNCHANGED <<rows, reader>> PROVE RangesInv'
  BY <1>2 DEF RangesInv
<1>3. ASSUME NEW r \in Readers, Resolve(r) \/ Enter(r) \/ Toggle(r) PROVE RangesInv'
  <2>1. /\ DOMAIN reader[r] = {"pc", "hash", "selection", "before", "after"}
        /\ reader = [q \in Readers |-> reader[q]] /\ rows = [h \in Hashes |-> rows[h]]
        /\ reader[r].pc # "idle" => reader[r].hash \in Hashes
    BY DEF SectionInv, ShapeOK, ReaderShape
  <2>2. \A q \in Readers \ {r} : reader'[q] = reader[q]
    BY <1>3, <2>1 DEF Resolve, Enter, Toggle, ReadRows, RefuseToggle, PersistIntent, ReplaceRows,
                      ExportToggle, UndoRows, ClearToggle, LeaveReader
  <2>3. \A h \in Hashes : rows'[h] \in Ranges
    BY <1>3, <2>1 DEF RangesInv, Resolve, Enter, Toggle, ReadRows, RefuseToggle, PersistIntent,
                      ReplaceRows, ExportToggle, UndoRows, ClearToggle, store
  <2>4. reader'[r].before \in Ranges /\ reader'[r].after \in Ranges
    <3>1. CASE ReadRows(r)
      <4>1. PICK s \in Selections, w \in Wishes :
               reader' = [reader EXCEPT ![r].pc = "intend", ![r].selection = s,
                              ![r].before = rows[reader[r].hash],
                              ![r].after = Toggled(rows[reader[r].hash], s, w)]
        BY <3>1 DEF ReadRows
      <4>2. rows[reader[r].hash] \in Ranges
        BY <2>1, <3>1 DEF ReadRows, RangesInv
      <4>3. Toggled(rows[reader[r].hash], s, w) \in Ranges
        BY <4>2 DEF RangesAreRight, TogglesJustTheSelection
      <4> QED BY <2>1, <4>1, <4>2, <4>3
    <3>2. CASE LeaveReader(r)
      BY <1>1, <2>1, <3>2 DEF LeaveReader, Asleep
    <3>3. ASSUME NEW pc, \/ reader' = [reader EXCEPT ![r].pc = pc]
                         \/ reader' = [reader EXCEPT ![r].pc = pc, ![r].hash = Authority]
          PROVE  reader'[r].before \in Ranges /\ reader'[r].after \in Ranges
      BY <2>1, <3>3 DEF RangesInv
    <3> QED BY <1>3, <3>1, <3>2, <3>3
            DEF Resolve, Enter, Toggle, RefuseToggle, PersistIntent, ReplaceRows, ExportToggle,
                UndoRows, ClearToggle
  <2> QED BY <2>2, <2>3, <2>4 DEF RangesInv
<1>4. ASSUME NEW j \in Jobs, Probe(j) \/ Translate(j) \/ JoinCommit(j) \/ Commit(j)
      PROVE  RangesInv'
  BY <1>2, <1>4 DEF Probe, Translate, JoinCommit, Commit, CheckSource, WriteOutput, IntendCommit,
                    CompleteJob, ExportCommit, ClearCommit, store
<1>5. CASE AskRecovery \/ Recover \/ ScanTranslations \/ Rescan
  BY <1>2, <1>5 DEF AskRecovery, Recover, ListIntents, TakeIntent, ReadAuthority, Reexport,
                    ClearRecovered, ScanTranslations, Rescan, ScanRows, ScanExport, store
<1>6. CASE DeleteMemory
  BY <1>1, <1>6 DEF DeleteMemory, RangesInv
<1>7. CASE Crash
  BY <1>1, <1>7 DEF Crash, Asleep, RangesInv
<1>8. CASE UNCHANGED vars
  BY <1>2, <1>8 DEF vars
<1> QED BY <1>3, <1>4, <1>5, <1>6, <1>7, <1>8 DEF Next

LEMMA ExportsNext ==
    ASSUME SectionInv, RangesInv, ExportsInv, [Next]_vars
    PROVE  ExportsInv'
<1>1. \A h \in Hashes, x \in Ranges : IsExport(Export(h, x))
  BY DEF IsExport, Export
<1>2. IsExport(None)
  BY DEF IsExport
<1>3. ASSUME NEW e, IsExport(e), Publish(e) \/ PublishUnsynced(e) \/ NotPublished,
             recovery'.export \in {recovery.export, None},
             scan'.export \in {scan.export, None}
      PROVE  ExportsInv'
  BY <1>2, <1>3 DEF ExportsInv, Publish, PublishUnsynced, NotPublished
<1>4. ASSUME UNCHANGED <<file, unsynced>>,
             IsExport(recovery'.export), IsExport(scan'.export)
      PROVE  ExportsInv'
  BY <1>4 DEF ExportsInv
<1>5. IsExport(recovery.export) /\ IsExport(scan.export)
  BY DEF ExportsInv
<1>6. ASSUME NEW r \in Readers, Resolve(r) \/ Enter(r) \/ Toggle(r) PROVE ExportsInv'
  <2>1. CASE ExportToggle(r)
    <3>1. reader[r].hash \in Hashes
      BY <2>1, EnteredHolds DEF ExportToggle, ToggleSection
    <3>2. IsExport(Export(reader[r].hash, reader[r].after))
      BY <1>1, <3>1 DEF RangesInv
    <3> QED BY <1>3, <2>1, <3>2 DEF ExportToggle
  <2>2. CASE Resolve(r) \/ Enter(r) \/ ReadRows(r) \/ RefuseToggle(r) \/ PersistIntent(r)
             \/ ReplaceRows(r) \/ UndoRows(r) \/ ClearToggle(r)
    BY <1>4, <1>5, <2>2 DEF Resolve, Enter, ReadRows, RefuseToggle, PersistIntent, ReplaceRows,
                            UndoRows, ClearToggle, store
  <2> QED BY <1>6, <2>1, <2>2 DEF Toggle
<1>7. ASSUME NEW j \in Jobs, Probe(j) \/ Translate(j) \/ JoinCommit(j) \/ Commit(j)
      PROVE  ExportsInv'
  <2>1. CASE ExportCommit(j)
    <3>1. job[j].hash \in Hashes
      BY <2>1, EnteredCommitHolds DEF ExportCommit, CommitSection
    <3>2. IsExport(Export(job[j].hash, rows[job[j].hash]))
      BY <1>1, <3>1 DEF RangesInv
    <3> QED BY <1>3, <2>1, <3>2 DEF ExportCommit
  <2>2. CASE Probe(j) \/ Translate(j) \/ JoinCommit(j) \/ CheckSource(j) \/ WriteOutput(j)
             \/ IntendCommit(j) \/ CompleteJob(j) \/ ClearCommit(j)
    BY <1>4, <1>5, <2>2 DEF Probe, Translate, JoinCommit, CheckSource, WriteOutput, IntendCommit,
                            CompleteJob, ClearCommit, store
  <2> QED BY <1>7, <2>1, <2>2 DEF Commit
<1>8. DOMAIN recovery = {"pc", "todo", "intent", "export"}
      /\ DOMAIN scan = {"pc", "todo", "intent", "export"}
  BY DEF SectionInv, ShapeOK, TaskShape
<1>9. CASE AskRecovery \/ Recover
  <2>1. CASE Reexport
    <3>1. recovery'.export \in {recovery.export, None} /\ UNCHANGED scan
      BY <1>8, <2>1 DEF Reexport, Unstarted
    <3> QED BY <1>3, <1>5, <2>1, <3>1 DEF Reexport
  <2>2. CASE ReadAuthority
    <3>1. Authority # None => Authority \in Hashes
      BY DEF Authority, SectionInv, ShapeOK
    <3>2. Authority # None => IsExport(Export(Authority, rows[Authority]))
      BY <1>1, <3>1 DEF RangesInv
    <3>3. IsExport(recovery'.export) /\ UNCHANGED <<file, unsynced, scan>>
      BY <1>5, <1>8, <2>2, <3>2 DEF ReadAuthority, store
    <3> QED BY <1>4, <1>5, <3>3
  <2>3. CASE AskRecovery \/ ListIntents \/ TakeIntent \/ ClearRecovered
    <3>1. recovery'.export \in {recovery.export, None} /\ UNCHANGED <<file, unsynced, scan>>
      BY <1>8, <2>3 DEF AskRecovery, ListIntents, TakeIntent, ClearRecovered, Unstarted, store
    <3> QED BY <1>2, <1>4, <1>5, <3>1
  <2> QED BY <1>9, <2>1, <2>2, <2>3 DEF Recover
<1>10. CASE ScanTranslations \/ Rescan
  <2>1. CASE ScanExport
    <3>1. scan'.export \in {scan.export, None} /\ UNCHANGED recovery
      BY <1>8, <2>1 DEF ScanExport, Unstarted
    <3> QED BY <1>3, <1>5, <2>1, <3>1 DEF ScanExport
  <2>2. CASE ScanTranslations \/ ScanRows
    <3>1. scan.pc = "wait" => IsExport(Export(scan.intent, rows[scan.intent]))
      BY <1>1 DEF RangesInv, SectionInv, ShapeOK
    <3>2. IsExport(scan'.export) /\ UNCHANGED <<file, unsynced, recovery>>
      BY <1>2, <1>5, <1>8, <2>2, <3>1 DEF ScanTranslations, ScanRows, Unstarted, store
    <3> QED BY <1>4, <1>5, <3>2
  <2> QED BY <1>10, <2>1, <2>2 DEF Rescan
<1>11. CASE DeleteMemory
  BY <1>2, <1>11 DEF DeleteMemory, ExportsInv
<1>12. CASE Crash
  BY <1>2, <1>12 DEF Crash, ExportsInv, Unstarted
<1>13. CASE UNCHANGED vars
  BY <1>13 DEF vars, ExportsInv
<1> QED BY <1>6, <1>7, <1>9, <1>10, <1>11, <1>12, <1>13 DEF Next

LEMMA FaultsNext ==
    ASSUME faults \in 0 .. MaxFaults, [Next]_vars
    PROVE  faults' \in 0 .. MaxFaults
<1>1. \A kind : Fail(kind) => faults' \in 0 .. MaxFaults
  BY ExportAssumption DEF Fail
<1>2. CASE UNCHANGED faults
  BY <1>2
<1>3. ASSUME NEW r \in Readers, Resolve(r) \/ Enter(r) \/ Toggle(r)
      PROVE  UNCHANGED faults \/ \E kind : Fail(kind)
  BY <1>3 DEF Resolve, Enter, Toggle, ReadRows, RefuseToggle, PersistIntent, ReplaceRows,
              ExportToggle, PublishUnsynced, NotPublished, UndoRows, ClearToggle
<1>4. ASSUME NEW j \in Jobs, Probe(j) \/ Translate(j) \/ JoinCommit(j) \/ Commit(j)
      PROVE  UNCHANGED faults \/ \E kind : Fail(kind)
  BY <1>4 DEF Probe, Translate, JoinCommit, Commit, CheckSource, WriteOutput, IntendCommit,
              CompleteJob, ExportCommit, ClearCommit, PublishUnsynced, NotPublished
<1>5. CASE AskRecovery \/ Recover \/ ScanTranslations \/ Rescan \/ DeleteMemory
  <2>1. UNCHANGED faults \/ \E kind : Fail(kind)
    BY <1>5 DEF AskRecovery, Recover, ListIntents, TakeIntent, ReadAuthority, Reexport,
                ClearRecovered, ScanTranslations, Rescan, ScanRows, ScanExport, PublishUnsynced,
                NotPublished, DeleteMemory
  <2> QED BY <1>1, <1>2, <2>1
<1>6. CASE Crash
  BY <1>6, ExportAssumption DEF Crash
<1>7. CASE UNCHANGED vars
  BY <1>7 DEF vars
<1> QED BY <1>1, <1>2, <1>3, <1>4, <1>5, <1>6, <1>7 DEF Next

LEMMA RangesTypeInit == Init => RangesTypeInv
<1> SUFFICES ASSUME Init PROVE RangesTypeInv
  OBVIOUS
<1>1. <<>> \in Ranges
  BY DEF Ranges
<1>2. RangesInv
  BY <1>1 DEF Init, RangesInv, Asleep
<1>3. ExportsInv
  BY DEF Init, ExportsInv, IsExport, Unstarted
<1>4. faults \in 0 .. MaxFaults
  BY ExportAssumption DEF Init
<1> QED BY <1>2, <1>3, <1>4 DEF RangesTypeInv

\* The rows, the exports and the toggles have their types, and each lock
\* belongs to a process.
THEOREM ExportTypeCorrect ==
    ASSUME RangesAreRight
    PROVE  Spec => []TypeOK
<1>1. SectionInv /\ RangesTypeInv /\ [Next]_vars => RangesTypeInv'
  BY RangesNext, ExportsNext, FaultsNext DEF RangesTypeInv
<1>2. SectionInv /\ RangesTypeInv => TypeOK
  <2> SUFFICES ASSUME SectionInv, RangesTypeInv PROVE TypeOK
    OBVIOUS
  <2>1. rows \in [Hashes -> Ranges]
    BY DEF RangesTypeInv, RangesInv, SectionInv, ShapeOK
  <2>2. ToSet(lock) \subseteq Readers \cup Jobs \cup {Recovery, Scan}
    BY DEF SectionInv, LockInv, Processes, ToSet
  <2>3. \A j \in Jobs : job[j].hash \in Hashes \cup {None}
    BY DEF SectionInv, ShapeOK, JobShape
  <2> QED BY <2>1, <2>2, <2>3
          DEF TypeOK, RangesTypeInv, RangesInv, ExportsInv, SectionInv, ShapeOK
<1> QED BY <1>1, <1>2, RangesTypeInit, SectionInvariance, PTL DEF Spec

\* Whatever readers toggle at once, every change of the rows adds or removes
\* just the offsets of one selection, or takes back what its toggle did.
THEOREM ExportMarksOneAtATime ==
    ASSUME RangesAreRight
    PROVE  Spec => MarksChangeOneToggleAtATime
<1> DEFINE A == \A h \in Hashes : rows'[h] # rows[h] /\ exists' =>
                   \E r \in Readers :
                      LET k == reader[r]
                      IN  /\ k.hash = h /\ k.selection \in Selections
                          /\ \E w \in Wishes : k.after = Toggled(k.before, k.selection, w)
                          /\ \/ k.pc = "replace" /\ rows[h] = k.before /\ rows'[h] = k.after
                             \/ k.pc = "undo" /\ rows[h] = k.after /\ rows'[h] = k.before
           B == \A h \in Hashes : rows'[h] # rows[h] /\ exists' =>
                   \E r \in Readers :
                      LET k == reader[r]
                          selected == k.selection.from .. k.selection.to - 1
                          old == Coverage(rows[h])
                      IN  /\ k.hash = h /\ k.selection # None
                          /\ \/ Coverage(rows'[h]) \in {old \cup selected, old \ selected}
                             \/ k.pc = "undo" /\ rows[h] = k.after /\ rows'[h] = k.before
<1>1. TypeOK /\ [A]_vars => [B]_vars
  <2> SUFFICES ASSUME TypeOK, A PROVE B
    OBVIOUS
  <2> SUFFICES ASSUME NEW h \in Hashes, rows'[h] # rows[h], exists'
               PROVE  \E r \in Readers :
                         LET k == reader[r]
                             selected == k.selection.from .. k.selection.to - 1
                             old == Coverage(rows[h])
                         IN  /\ k.hash = h /\ k.selection # None
                             /\ \/ Coverage(rows'[h]) \in {old \cup selected, old \ selected}
                                \/ k.pc = "undo" /\ rows[h] = k.after /\ rows'[h] = k.before
    OBVIOUS
  <2>1. PICK r \in Readers :
           /\ reader[r].hash = h /\ reader[r].selection \in Selections
           /\ \E w \in Wishes : reader[r].after
                                  = Toggled(reader[r].before, reader[r].selection, w)
           /\ \/ rows[h] = reader[r].before /\ rows'[h] = reader[r].after
              \/ reader[r].pc = "undo" /\ rows[h] = reader[r].after
                 /\ rows'[h] = reader[r].before
    BY DEF A
  <2>2. reader[r].before \in Ranges
    BY DEF TypeOK
  <2>3. Coverage(reader[r].after)
          \in {Coverage(reader[r].before)
                 \cup (reader[r].selection.from .. reader[r].selection.to - 1),
               Coverage(reader[r].before)
                 \ (reader[r].selection.from .. reader[r].selection.to - 1)}
    BY <2>1, <2>2 DEF RangesAreRight, TogglesJustTheSelection
  <2>4. reader[r].selection # None
    BY <2>1, ExportAssumption
  <2> QED BY <2>1, <2>3, <2>4
<1>2. Spec => []TypeOK
  BY ExportTypeCorrect
<1>3. Spec => [][A]_vars
  BY TogglesLoseNothing DEF WritesOverWhatWasRead
<1> HIDE DEF A
<1>4. Spec => [][B]_vars
  BY <1>1, <1>2, <1>3, PTL
<1> QED BY <1>4 DEF MarksChangeOneToggleAtATime

-----------------------------------------------------------------------------
(* The lease of the store.  It gives the exclusion of the replay and the    *)
(* toggles that is a guard above; MemoryOperationLease has its protocol.    *)
(* The inductive invariant adds to the properties only what one lease       *)
(* object must satisfy by itself: a recovery in it is alone in it.          *)

\* In one lease object, a recovery that holds the lease holds it alone.
AloneInState(st) ==
    \A c \in st.recovery : st.recovery = {c} /\ st.mutations = {}

\* In one lease object, somebody who waits waits for somebody who holds.
ServedState(st) == st.waiters # <<>> => Busy(st)

LeaseObjectInv ==
    /\ LeaseTypeOK
    /\ OneLivingState
    /\ \A s \in States : AloneInState(lease[s]) /\ ServedState(lease[s])

-----------------------------------------------------------------------------

\* drainWaiters keeps an object well formed, never grants a recovery beside
\* anybody else, and leaves no waiter behind an object that nobody holds.
LEMMA DrainGrantsSoundly ==
    ASSUME NEW st \in StoreOperationState, AloneInState(st),
           NEW k \in 0..Len(st.waiters), DrainCount(st, k)
    PROVE  /\ GrantFirst(st, k) \in StoreOperationState
           /\ AloneInState(GrantFirst(st, k))
           /\ ServedState(GrantFirst(st, k))
<1> DEFINE new == GrantFirst(st, k)
           ws == st.waiters
<1>1. /\ ws \in Seq(LeaseWaiter)
      /\ st.mutations \in SUBSET Clients
      /\ st.recovery \in SUBSET Clients
      /\ Len(ws) \in Nat
  BY DEF StoreOperationState
<1>2. \A i \in 1..k : ws[i] \in LeaseWaiter
  BY <1>1
<1>3. SubSeq(ws, k + 1, Len(ws)) \in Seq(LeaseWaiter)
  BY <1>1, SubSeqProperties
<1>4. \A kind \in Kinds : Resolved(st, k, kind) \in SUBSET Clients
  BY <1>2 DEF Resolved, LeaseWaiter
<1>5. new \in StoreOperationState
  BY <1>1, <1>3, <1>4 DEF GrantFirst, StoreOperationState, Kinds
<1>6. CASE k = 0
  <2>1. \A kind \in Kinds : Resolved(st, k, kind) = {}
    BY <1>6 DEF Resolved
  <2>2. new.mutations = st.mutations /\ new.recovery = st.recovery
    BY <2>1 DEF GrantFirst, Kinds
  <2>3. Busy(st) \/ ws = <<>>
    BY <1>6 DEF DrainCount
  <2>4. ws = <<>> => new.waiters = <<>>
    BY <1>6 DEF GrantFirst
  <2> QED BY <1>5, <2>2, <2>3, <2>4 DEF AloneInState, ServedState, Busy
<1>7. CASE k > 0
  <2>1. ~Busy(st) /\ ws # <<>>
    BY <1>7 DEF DrainCount
  <2>2. st.mutations = {} /\ st.recovery = {}
    BY <2>1 DEF Busy
  <2>3. CASE ws[1].kind = "recovery"
    <3>1. k = 1
      BY <1>7, <2>3 DEF DrainCount
    <3>2. Resolved(st, k, "mutation") = {}
      BY <2>3, <3>1 DEF Resolved
    <3>3. Resolved(st, k, "recovery") = {ws[1].client}
      BY <2>3, <3>1 DEF Resolved
    <3>4. new.mutations = {} /\ new.recovery = {ws[1].client}
      BY <2>2, <3>2, <3>3 DEF GrantFirst
    <3> QED BY <1>5, <3>4 DEF AloneInState, ServedState, Busy
  <2>4. CASE ws[1].kind # "recovery"
    <3>1. \A i \in 1..k : ws[i].kind = "mutation"
      BY <1>7, <2>4 DEF DrainCount
    <3>2. Resolved(st, k, "recovery") = {}
      BY <3>1 DEF Resolved
    <3>3. ws[1].client \in Resolved(st, k, "mutation")
      BY <1>7, <3>1 DEF Resolved
    <3>4. new.recovery = {} /\ new.mutations # {}
      BY <2>2, <3>2, <3>3 DEF GrantFirst
    <3> QED BY <1>5, <3>4 DEF AloneInState, ServedState, Busy
  <2> QED BY <2>3, <2>4
<1> QED BY <1>6, <1>7

\* A caller reaches the object in use, if there is one: the entry of the map,
\* or, when the map has none, an object while no object is in use.
LEMMA CallerReachesLivingState ==
    ASSUME LeaseObjectInv, NEW s \in States, GetOperationState(s)
    PROVE  \A t \in States \ {s} : ~Busy(lease[t]) /\ lease[t].waiters = <<>>
BY LeaseAssumption DEF LeaseObjectInv, LeaseTypeOK, OneLivingState, GetOperationState

-----------------------------------------------------------------------------

LEMMA LeaseObjectInit == LeaseInit => LeaseObjectInv
<1> SUFFICES ASSUME LeaseInit PROVE LeaseObjectInv
  OBVIOUS
<1>1. NewState \in StoreOperationState
  BY DEF NewState, StoreOperationState
<1> QED BY <1>1 DEF LeaseInit, LeaseObjectInv, LeaseTypeOK, OneLivingState, AloneInState,
                    ServedState, Busy, NewState

LEMMA LeaseObjectNext ==
    LeaseObjectInv /\ [LeaseNext]_leaseVars => LeaseObjectInv'
<1> SUFFICES ASSUME LeaseObjectInv, [LeaseNext]_leaseVars PROVE LeaseObjectInv'
  OBVIOUS
<1>1. ASSUME NEW c \in Clients, NEW s \in States, NEW kind \in Kinds,
             AcquireAtOnce(c, kind, s)
      PROVE  LeaseObjectInv'
  <2> DEFINE new == IF kind = "mutation"
                    THEN [lease[s] EXCEPT !.mutations = @ \cup {c}]
                    ELSE [lease[s] EXCEPT !.recovery = {c}]
  <2>1. lease[s] \in StoreOperationState
    BY DEF LeaseObjectInv, LeaseTypeOK
  <2>2. /\ lease' = [lease EXCEPT ![s] = new]
        /\ entry' = s
    BY <1>1 DEF AcquireAtOnce
  <2>3. new \in StoreOperationState
    BY <2>1 DEF StoreOperationState
  <2>4. AloneInState(new) /\ ServedState(new)
    BY <1>1, <2>1 DEF AcquireAtOnce, GrantedAtOnce, AloneInState, ServedState,
                      StoreOperationState, Kinds
  <2>5. \A t \in States \ {s} : ~Busy(lease[t]) /\ lease[t].waiters = <<>>
    BY <1>1, CallerReachesLivingState DEF AcquireAtOnce
  <2> QED BY <2>2, <2>3, <2>4, <2>5 DEF LeaseObjectInv, LeaseTypeOK, OneLivingState
<1>2. ASSUME NEW c \in Clients, NEW s \in States, NEW kind \in Kinds,
             AcquireQueued(c, kind, s)
      PROVE  LeaseObjectInv'
  <2> DEFINE st == [lease[s] EXCEPT
                      !.waiters = Append(@, [client |-> c, kind |-> kind])]
  <2>1. lease[s] \in StoreOperationState /\ AloneInState(lease[s])
    BY DEF LeaseObjectInv, LeaseTypeOK
  <2>2. [client |-> c, kind |-> kind] \in LeaseWaiter
    BY DEF LeaseWaiter
  <2>3. st \in StoreOperationState
    BY <2>1, <2>2, AppendProperties DEF StoreOperationState
  <2>4. AloneInState(st)
    BY <2>1 DEF AloneInState, StoreOperationState
  <2>5. PICK k \in 0..Len(st.waiters) :
           DrainCount(st, k) /\ lease' = [lease EXCEPT ![s] = GrantFirst(st, k)]
    BY <1>2 DEF AcquireQueued, DrainWaiters
  <2>6. entry' = s
    BY <1>2 DEF AcquireQueued
  <2>7. \A t \in States \ {s} : ~Busy(lease[t]) /\ lease[t].waiters = <<>>
    BY <1>2, CallerReachesLivingState DEF AcquireQueued
  <2>8. /\ GrantFirst(st, k) \in StoreOperationState
        /\ AloneInState(GrantFirst(st, k))
        /\ ServedState(GrantFirst(st, k))
    BY <2>3, <2>4, <2>5, DrainGrantsSoundly
  <2> QED BY <2>5, <2>6, <2>7, <2>8 DEF LeaseObjectInv, LeaseTypeOK, OneLivingState
<1>3. ASSUME NEW c \in Clients, NEW s \in States, Release(c, s)
      PROVE  LeaseObjectInv'
  <2> DEFINE st == [lease[s] EXCEPT !.mutations = @ \ {c}, !.recovery = @ \ {c}]
  <2>1. lease[s] \in StoreOperationState /\ AloneInState(lease[s])
    BY DEF LeaseObjectInv, LeaseTypeOK
  <2>2. st \in StoreOperationState /\ AloneInState(st)
    BY <2>1 DEF StoreOperationState, AloneInState
  <2>3. PICK k \in 0..Len(st.waiters) :
           DrainCount(st, k) /\ lease' = [lease EXCEPT ![s] = GrantFirst(st, k)]
    BY <1>3 DEF Release, DrainWaiters
  <2>4. /\ GrantFirst(st, k) \in StoreOperationState
        /\ AloneInState(GrantFirst(st, k))
        /\ ServedState(GrantFirst(st, k))
    BY <2>2, <2>3, DrainGrantsSoundly
  <2>5. s = entry
    BY <1>3 DEF Release, HoldsLease, Busy, LeaseObjectInv, OneLivingState
  <2>6. lease'[s] = GrantFirst(st, k)
    BY <2>3 DEF LeaseObjectInv, LeaseTypeOK
  <2>7. entry' = IF ~Busy(lease'[s]) /\ lease'[s].waiters = <<>>
                 THEN NoState ELSE s
    BY <1>3, <2>5 DEF Release, CleanupOperationState
  <2>8. \A t \in States \ {s} : lease'[t] = lease[t]
    BY <2>3 DEF LeaseObjectInv, LeaseTypeOK
  <2>9. OneLivingState'
    BY <2>5, <2>7, <2>8 DEF LeaseObjectInv, OneLivingState
  <2> QED BY <2>3, <2>4, <2>6, <2>7, <2>8, <2>9 DEF LeaseObjectInv, LeaseTypeOK
<1>4. CASE UNCHANGED leaseVars
  BY <1>4 DEF leaseVars, LeaseObjectInv, LeaseTypeOK, OneLivingState, AloneInState,
              ServedState, Busy
<1> QED BY <1>1, <1>2, <1>3, <1>4 DEF LeaseNext

-----------------------------------------------------------------------------

\* The lease objects always have the shape of StoreOperationState.
THEOREM LeaseTypeCorrect ==
    LeaseSpec => []LeaseTypeOK
<1>1. LeaseObjectInv => LeaseTypeOK
  BY DEF LeaseObjectInv
<1> QED BY <1>1, LeaseObjectInit, LeaseObjectNext, PTL DEF LeaseSpec

\* cleanupOperationState never drops a lease object that is in use.
THEOREM LeaseStateIsUnique ==
    LeaseSpec => []OneLivingState
<1>1. LeaseObjectInv => OneLivingState
  BY DEF LeaseObjectInv
<1> QED BY <1>1, LeaseObjectInit, LeaseObjectNext, PTL DEF LeaseSpec

\* No call waits on an object nobody will release.
THEOREM LeaseStrandsNobody ==
    LeaseSpec => []NoStrandedWaiter
<1>1. LeaseObjectInv => NoStrandedWaiter
  BY DEF LeaseObjectInv, NoStrandedWaiter, ServedState
<1> QED BY <1>1, LeaseObjectInit, LeaseObjectNext, PTL DEF LeaseSpec

\* Recovery holds the lease of its store alone.
THEOREM LeaseExclusion ==
    LeaseSpec => []RecoveryRunsAlone
<1>1. LeaseObjectInv => RecoveryRunsAlone
  <2> SUFFICES ASSUME LeaseObjectInv, NEW s \in States, NEW t \in States,
                      NEW c \in lease[s].recovery, NEW d \in Clients,
                      HoldsLease(d, t)
               PROVE  c = d
    BY DEF RecoveryRunsAlone
  <2>1. s = entry /\ t = entry
    BY DEF LeaseObjectInv, OneLivingState, Busy, HoldsLease
  <2>2. lease[s].recovery = {c} /\ lease[s].mutations = {}
    BY DEF LeaseObjectInv, AloneInState
  <2> QED BY <2>1, <2>2 DEF HoldsLease
<1> QED BY <1>1, LeaseObjectInit, LeaseObjectNext, PTL DEF LeaseSpec

\* The clients drainWaiters grants are clients that were queued.
LEMMA DrainGrantsWaiters ==
    ASSUME NEW st \in StoreOperationState, NEW k \in 0..Len(st.waiters),
           NEW kind, NEW c \in Resolved(st, k, kind)
    PROVE  \E i \in DOMAIN st.waiters : st.waiters[i].client = c
<1>1. st.waiters \in Seq(LeaseWaiter)
  BY DEF StoreOperationState
<1>2. PICK i \in 1..k : st.waiters[i].client = c
  BY DEF Resolved
<1>3. i \in DOMAIN st.waiters
  BY <1>1, <1>2
<1> QED BY <1>2, <1>3

\* A mutation that was not queued is never granted while a recovery waits.
THEOREM LeaseNoOvertaking ==
    LeaseSpec => NoOvertaking
<1> DEFINE Fair == \A s \in States, c \in Clients :
                      (\E i \in DOMAIN lease[s].waiters : lease[s].waiters[i].kind = "recovery")
                      /\ c \in lease'[s].mutations \ lease[s].mutations
                      => Waiting(c, s)
<1>1. LeaseObjectInv /\ [LeaseNext]_leaseVars => [Fair]_leaseVars
  <2> SUFFICES ASSUME LeaseObjectInv, LeaseNext,
                      NEW t \in States, NEW d \in Clients,
                      \E i \in DOMAIN lease[t].waiters : lease[t].waiters[i].kind = "recovery",
                      d \in lease'[t].mutations \ lease[t].mutations
               PROVE  Waiting(d, t)
    OBVIOUS
  <2>1. Busy(lease[t]) /\ lease[t].waiters # <<>>
    BY DEF LeaseObjectInv, ServedState
  <2>2. lease[t] \in StoreOperationState /\ lease \in [States -> StoreOperationState]
    BY DEF LeaseObjectInv, LeaseTypeOK
  <2>3. ASSUME NEW c \in Clients, NEW s \in States, NEW kind \in Kinds,
               AcquireAtOnce(c, kind, s)
        PROVE  FALSE
    <3>1. s # t
      BY <2>1, <2>3 DEF AcquireAtOnce, GrantedAtOnce
    <3>2. lease'[t] = lease[t]
      BY <2>2, <2>3, <3>1 DEF AcquireAtOnce
    <3> QED BY <3>2
  <2>4. ASSUME NEW c \in Clients, NEW s \in States, NEW kind \in Kinds,
               AcquireQueued(c, kind, s)
        PROVE  FALSE
    <3> DEFINE st == [lease[s] EXCEPT
                        !.waiters = Append(@, [client |-> c, kind |-> kind])]
    <3>1. PICK k \in 0..Len(st.waiters) :
             DrainCount(st, k) /\ lease' = [lease EXCEPT ![s] = GrantFirst(st, k)]
      BY <2>4 DEF AcquireQueued, DrainWaiters
    <3>2. s = t
      BY <2>2, <3>1
    <3>3. st.mutations = lease[t].mutations /\ st.recovery = lease[t].recovery
      BY <2>2, <3>2 DEF StoreOperationState
    <3>4. Busy(st)
      BY <2>1, <3>3 DEF Busy
    <3>5. k = 0
      BY <3>1, <3>4 DEF DrainCount
    <3>6. Resolved(st, k, "mutation") = {}
      BY <3>5 DEF Resolved
    <3>7. lease'[t].mutations = lease[t].mutations
      BY <2>2, <3>1, <3>2, <3>3, <3>6 DEF GrantFirst
    <3> QED BY <3>7
  <2>5. ASSUME NEW c \in Clients, NEW s \in States, Release(c, s)
        PROVE  Waiting(d, t)
    <3> DEFINE st == [lease[s] EXCEPT !.mutations = @ \ {c}, !.recovery = @ \ {c}]
    <3>1. PICK k \in 0..Len(st.waiters) :
             DrainCount(st, k) /\ lease' = [lease EXCEPT ![s] = GrantFirst(st, k)]
      BY <2>5 DEF Release, DrainWaiters
    <3>2. s = t
      BY <2>2, <3>1
    <3>3. /\ st \in StoreOperationState
          /\ st.waiters = lease[t].waiters
          /\ st.mutations = lease[t].mutations \ {c}
      BY <2>2, <3>2 DEF StoreOperationState
    <3>4. lease'[t].mutations = st.mutations \cup Resolved(st, k, "mutation")
      BY <2>2, <3>1, <3>2 DEF GrantFirst
    <3>5. d \in Resolved(st, k, "mutation")
      BY <3>3, <3>4
    <3> HIDE DEF st
    <3>6. \E i \in DOMAIN st.waiters : st.waiters[i].client = d
      BY <3>3, <3>5, DrainGrantsWaiters
    <3> QED BY <3>3, <3>6 DEF Waiting
  <2> QED BY <2>3, <2>4, <2>5 DEF LeaseNext
<1> QED BY <1>1, LeaseObjectInit, LeaseObjectNext, PTL DEF LeaseSpec, NoOvertaking

=============================================================================
