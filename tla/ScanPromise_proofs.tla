-------------------------- MODULE ScanPromise_proofs --------------------------
(***************************************************************************)
(* The scan system implements ScanJobs, and what its completed scans store:  *)
(* theorems for every set of scans, targets, requests, reconciler runs and   *)
(* workers, and any number of faults.                                        *)
(***************************************************************************)
EXTENDS ScanSystem_proofs

(***************************************************************************)
(* What a step does to the rows, the results and the setting together.      *)
(***************************************************************************)
Quiet == UNCHANGED <<storedAt, base, clock, killSwitch>>

\* The edges of ScanJobs's Move.
Movable(from, to) ==
  \/ from = "QUEUED"  /\ to \in {"RUNNING", "FAILED", "CANCELLED"}
  \/ from = "RUNNING" /\ to \in {"PAUSED", "FAILED", "CANCELLED"}
  \/ from = "PAUSED"  /\ to \in {"RUNNING", "CANCELLED"}

MovesTo(s, st) ==
  Movable(status[s], st) /\ status' = [status EXCEPT ![s] = st]

Moves(s) == \E st \in ScanStatuses : MovesTo(s, st)

Completes(w) == Persist(w) /\ MayComplete(worker[w].scan)

LEMMA MoveTo ==
  ASSUME NEW s, NEW st, st \in {"RUNNING", "PAUSED", "FAILED", "CANCELLED"},
         Movable(status[s], st), status' = [status EXCEPT ![s] = st]
  PROVE  Moves(s)
<1>1. st \in ScanStatuses
  BY DEF ScanStatuses, TerminalStatuses, OccupyingStatuses
<1> QED
  BY <1>1 DEF Moves, MovesTo

LEMMA RowMoves ==
  ASSUME TypeInv
  PROVE  /\ \A h \in Handler : ApplyControl(h) \/ Rollback(h) =>
              UNCHANGED status \/ \E s \in Scan : Moves(s)
         /\ \A r \in Sweeper : SweepEnd(r) =>
              UNCHANGED status \/ \E s \in Scan : Moves(s)
         /\ \A w \in Worker : Claim(w) \/ MarkFailed(w) =>
              UNCHANGED status \/ \E s \in Scan : Moves(s)
<1> USE DEF TypeInv, TypeOK, RowsTyped
<1>1. ASSUME NEW h \in Handler, ApplyControl(h)
      PROVE  UNCHANGED status \/ \E s \in Scan : Moves(s)
  <2> DEFINE r == handler[h]
  <2>1. r.scan \in Scan /\ r.action \in {"pause", "resume", "cancel"}
        /\ Allowed(r.action, r.seen) /\ r.seen \in ScanStatuses
    BY <1>1 DEF ApplyControl, Located, HandlerLocated, Created, Handlers
  <2>2. CASE ~StillAsRead(h)
    BY <1>1, <2>2 DEF ApplyControl
  <2>3. CASE StillAsRead(h)
    <3>1. status[r.scan] = r.seen
      BY <2>3 DEF StillAsRead
    <3>2. status' = [status EXCEPT ![r.scan] = Planned(r.action)]
      BY <1>1, <2>3 DEF ApplyControl
    <3>3. /\ Movable(r.seen, Planned(r.action))
          /\ Planned(r.action) \in {"RUNNING", "PAUSED", "FAILED", "CANCELLED"}
      <4>1. CASE r.action = "pause"
        BY <4>1, <2>1 DEF Planned, Allowed, CanPause, Movable
      <4>2. CASE r.action = "resume"
        BY <4>2, <2>1 DEF Planned, Allowed, CanResume, Movable
      <4>3. CASE r.action = "cancel"
        BY <4>3, <2>1
        DEF Planned, Allowed, CanCancel, Movable, ScanStatuses,
            TerminalStatuses, OccupyingStatuses
      <4> QED
        BY <2>1, <4>1, <4>2, <4>3
    <3> QED
      BY <2>1, <3>1, <3>2, <3>3, MoveTo
  <2> QED
    BY <2>2, <2>3
<1>2. ASSUME NEW h \in Handler, Rollback(h)
      PROVE  UNCHANGED status \/ \E s \in Scan : Moves(s)
  <2>1. handler[h].scan \in Scan
    BY <1>2 DEF Rollback, Located, HandlerLocated, Created
  <2> QED
    BY <1>2, <2>1, MoveTo DEF Rollback, RunningBecomes, Movable
<1>3. ASSUME NEW r \in Sweeper, SweepEnd(r)
      PROVE  UNCHANGED status \/ \E s \in Scan : Moves(s)
  <2>1. sweep[r].scan \in Scan
    BY <1>3 DEF SweepEnd, Located, SweepLocated, Created
  <2> QED
    BY <1>3, <2>1, MoveTo DEF SweepEnd, EndableBySweep, Movable
<1>4. ASSUME NEW w \in Worker, Claim(w)
      PROVE  UNCHANGED status \/ \E s \in Scan : Moves(s)
  <2> DEFINE s == worker[w].scan
  <2>1. s \in Scan
    BY <1>4 DEF Claim, Located, WorkerLocated, Created
  <2>2. CASE ~Claimable(w) \/ status[s] = "RUNNING"
    BY <1>4, <2>1, <2>2 DEF Claim
  <2>3. CASE Claimable(w) /\ status[s] = "QUEUED"
    BY <1>4, <2>1, <2>3, MoveTo DEF Claim, Movable
  <2> QED
    BY <2>2, <2>3 DEF Claimable
<1>5. ASSUME NEW w \in Worker, MarkFailed(w)
      PROVE  UNCHANGED status \/ \E s \in Scan : Moves(s)
  <2>1. worker[w].scan \in Scan
    BY <1>5 DEF MarkFailed, Located, WorkerLocated, Created
  <2> QED
    BY <1>5, <2>1, MoveTo DEF MarkFailed, RunningBecomes, Movable
<1> QED
  BY <1>1, <1>2, <1>3, <1>4, <1>5

LEMMA RowStep ==
  ASSUME TypeInv, [Next]_vars
  PROVE  \/ \E h \in Handler, s \in Scan : StartScan(h, s)
         \/ \E h \in Handler : EngageKillSwitch(h)
         \/ ReleaseKillSwitch
         \/ \E w \in Worker : Completes(w)
         \/ Quiet /\ (UNCHANGED status \/ \E s \in Scan : Moves(s))
<1> USE DEF Quiet, rowVars, resultVars, envVars
<1>1. ASSUME NEW h \in Handler, UserStep(h) \/ HandlerStep(h) \/ HandlerFault(h)
      PROVE  \/ \E s \in Scan : StartScan(h, s)
             \/ EngageKillSwitch(h)
             \/ Quiet /\ (\/ UNCHANGED status
                          \/ ApplyControl(h) \/ Rollback(h))
  BY <1>1
  DEF UserStep, HandlerStep, HandlerFault, Enqueue, EnqueueFails,
      ReadForControl, AuthoriseResume, ApplyControl, Rollback, RemoveJob,
      RemoveJobFails, HandlerDies
<1>2. ASSUME NEW r \in Sweeper, SweepStep(r) \/ SweepFault(r)
      PROVE  Quiet /\ (UNCHANGED status \/ SweepEnd(r))
  BY <1>2
  DEF SweepStep, SweepFault, SweepBegin, SweepPick, SweepAuthorise, SweepEnd,
      SweepEnqueue, SweepEnqueueFails, SweepDies
<1>3. ASSUME NEW w \in Worker, WorkerStep(w) \/ WorkerFault(w)
      PROVE  \/ Completes(w)
             \/ Quiet /\ (UNCHANGED status \/ Claim(w) \/ MarkFailed(w))
  BY <1>3
  DEF WorkerStep, WorkerFault, FetchJob, ReturnJob, ThrowJob, LoseLock, Crash,
      Claim, Discover, LookBeforeCrawl, NoticeStop, NoticeHalt, MisreadHalt,
      ConfirmHalt, FinishCrawl, Checkpoint, Compare, Persist, MarkFailed,
      PipelineThrows, Completes
<1>4. ASSUME \/ \E t \in Target : RevokeTarget(t) \/ VerifyTarget(t)
             \/ \E s \in Scan : AgeScan(s) \/ ExpireFailedJob(s)
                                  \/ RedeliverStalledJob(s)
      PROVE  Quiet /\ UNCHANGED status
  BY <1>4
  DEF RevokeTarget, VerifyTarget, AgeScan, ExpireFailedJob, RedeliverStalledJob
<1>5. CASE UNCHANGED vars
  BY <1>5 DEF vars
<1> QED
  BY <1>1, <1>2, <1>3, <1>4, <1>5, RowMoves DEF Next

(***************************************************************************)
(* The results.  An instant is handed out once, to the scan that completes. *)
(***************************************************************************)
ResultsDated ==
  \A s \in Scan : /\ storedAt[s] <= clock
                  /\ storedAt[s] > 0 <=> status[s] = "COMPLETED"

\* What one scan's completion writes.
Stored(s, u) ==
  /\ status[s] = "RUNNING"
  /\ status' = [status EXCEPT ![s] = "COMPLETED"]
  /\ clock' = clock + 1
  /\ storedAt' = [storedAt EXCEPT ![s] = clock + 1]
  /\ base' = [base EXCEPT ![s] = u]

LEMMA CompletionStores ==
  ASSUME TypeInv, NEW w \in Worker, Completes(w)
  PROVE  /\ worker[w].pc = "persist"
         /\ worker[w].scan \in Scan
         /\ worker[w].base \in Scan \cup {NoOne}
         /\ Stored(worker[w].scan, worker[w].base)
         /\ UNCHANGED killSwitch
<1>1. worker[w].pc = "persist"
  BY DEF Completes, Persist
<1>2. worker[w].scan \in Scan /\ worker[w].base \in Scan \cup {NoOne}
  BY <1>1 DEF TypeInv, TypeOK, Workers, Located, WorkerLocated, Created
<1> QED
  BY <1>1, <1>2 DEF Completes, Persist, MayComplete, Stored, envVars

\* Nothing but a completion touches the results or completes a scan.
LEMMA ResultsStep ==
  ASSUME TypeInv, [Next]_vars
  PROVE  \/ \E w \in Worker : Completes(w)
         \/ /\ UNCHANGED <<storedAt, base, clock>>
            /\ \A s \in Scan : status'[s] = "COMPLETED" <=> status[s] = "COMPLETED"
<1> USE DEF TypeInv, TypeOK, RowsTyped, resultVars
<1> DEFINE Same ==
      /\ UNCHANGED <<storedAt, base, clock>>
      /\ \A s \in Scan : status'[s] = "COMPLETED" <=> status[s] = "COMPLETED"
<1>1. ASSUME NEW h \in Handler, NEW s \in Scan, StartScan(h, s) PROVE Same
  BY <1>1 DEF StartScan
<1>2. ASSUME NEW h \in Handler, EngageKillSwitch(h) PROVE Same
  BY <1>2 DEF EngageKillSwitch, Occupying, OccupyingStatuses
<1>3. CASE ReleaseKillSwitch
  BY <1>3 DEF ReleaseKillSwitch, rowVars
<1>4. ASSUME Quiet, NEW s \in Scan, Moves(s) PROVE Same
  BY <1>4 DEF Quiet, Moves, MovesTo, Movable
<1>5. CASE Quiet /\ UNCHANGED status
  BY <1>5 DEF Quiet
<1> QED
  BY <1>1, <1>2, <1>3, <1>4, <1>5, RowStep

LEMMA ResultsDatedStep ==
  ASSUME TypeInv, ResultsDated, [Next]_vars
  PROVE  ResultsDated'
<1> USE DEF TypeInv, TypeOK, RowsTyped, ResultsDated
<1>1. ASSUME NEW w \in Worker, Completes(w) PROVE ResultsDated'
  BY <1>1, CompletionStores DEF Stored
<1>2. CASE UNCHANGED <<storedAt, base, clock>>
           /\ \A s \in Scan : status'[s] = "COMPLETED" <=> status[s] = "COMPLETED"
  BY <1>2
<1> QED
  BY <1>1, <1>2, ResultsStep

(***************************************************************************)
(* The previous scan.  It is read outside the transaction that uses it, but *)
(* the scan it is read for occupies its target: as long as that scan can    *)
(* still complete, no other scan of the target can.                         *)
(***************************************************************************)
Previous(s) == Completed(TargetOf[s]) \ {s}

BaseCurrent ==
  \A w \in Worker :
    worker[w].pc = "persist" /\ Occupying(worker[w].scan)
      => IsLatest(worker[w].base, Previous(worker[w].scan))

\* A worker comes to `persist` by comparing, and stands there unchanged.
LEMMA PersistReached ==
  ASSUME TypeInv, [Next]_vars, NEW w \in Worker, worker'[w].pc = "persist"
  PROVE  Compare(w) \/ worker'[w] = worker[w]
<1> USE DEF TypeInv, TypeOK
<1>1. CASE UNCHANGED worker
  BY <1>1
<1>2. ASSUME NEW v \in Worker, WorkerStep(v) \/ WorkerFault(v)
      PROVE  Compare(w) \/ worker'[w] = worker[w]
  <2>1. ASSUME NEW s \in Scan, FetchJob(v, s) PROVE worker'[w] = worker[w]
    BY <2>1 DEF FetchJob, SlotAt
  <2>2. CASE ReturnJob(v) \/ ThrowJob(v) \/ Crash(v) \/ LoseLock(v)
    BY <2>2 DEF ReturnJob, ThrowJob, Crash, LoseLock, IdleWorker, SlotAt
  <2>3. ASSUME NEW pc \in WorkerPCs \ {"persist"}, Proceed(v, pc)
        PROVE  worker'[w] = worker[w]
    BY <2>3 DEF Proceed, Workers
  <2>4. CASE \/ Claim(v) \/ LookBeforeCrawl(v) \/ NoticeStop(v)
             \/ NoticeHalt(v) \/ ConfirmHalt(v) \/ FinishCrawl(v)
             \/ Checkpoint(v) \/ Persist(v) \/ MarkFailed(v)
             \/ MisreadHalt(v) \/ PipelineThrows(v)
    <3>1. \E pc \in WorkerPCs \ {"persist"} : Proceed(v, pc)
      BY <2>4
      DEF Claim, LookBeforeCrawl, NoticeStop, NoticeHalt, ConfirmHalt,
          FinishCrawl, Checkpoint, Persist, MarkFailed, MisreadHalt,
          PipelineThrows, WorkerPCs
    <3> QED
      BY <2>3, <3>1
  <2>5. CASE Discover(v)
    BY <2>5 DEF Discover, SlotAt
  <2>6. CASE Compare(v)
    BY <2>6 DEF Compare
  <2> QED
    BY <1>2, <2>1, <2>2, <2>4, <2>5, <2>6 DEF WorkerStep, WorkerFault
<1>3. ASSUME NEW h \in Handler, UserStep(h) \/ HandlerStep(h) \/ HandlerFault(h)
      PROVE  UNCHANGED worker
  BY <1>3
  DEF UserStep, HandlerStep, HandlerFault, StartScan, Enqueue, EnqueueFails,
      ReadForControl, AuthoriseResume, ApplyControl, Rollback, RemoveJob,
      RemoveJobFails, EngageKillSwitch, HandlerDies
<1>4. ASSUME NEW r \in Sweeper, SweepStep(r) \/ SweepFault(r)
      PROVE  UNCHANGED worker
  BY <1>4
  DEF SweepStep, SweepFault, SweepBegin, SweepPick, SweepAuthorise, SweepEnd,
      SweepEnqueue, SweepEnqueueFails, SweepDies
<1>5. ASSUME \/ ReleaseKillSwitch
             \/ \E t \in Target : RevokeTarget(t) \/ VerifyTarget(t)
             \/ \E s \in Scan : AgeScan(s) \/ ExpireFailedJob(s)
                                  \/ RedeliverStalledJob(s)
      PROVE  UNCHANGED worker
  BY <1>5
  DEF ReleaseKillSwitch, RevokeTarget, VerifyTarget, AgeScan, ExpireFailedJob,
      RedeliverStalledJob
<1> QED
  BY <1>1, <1>2, <1>3, <1>4, <1>5 DEF Next, vars

\* While s occupies its target, what came before it does not change.
LEMMA PreviousStays ==
  ASSUME TypeInv, OneActivePerTarget, [Next]_vars, NEW s \in Scan, Occupying(s),
         status'[s] \in OccupyingStatuses
  PROVE  /\ Previous(s)' = Previous(s)
         /\ \A v \in Previous(s) : storedAt'[v] = storedAt[v]
<1>1. CASE /\ UNCHANGED <<storedAt, base, clock>>
           /\ \A v \in Scan : status'[v] = "COMPLETED" <=> status[v] = "COMPLETED"
  BY <1>1 DEF Previous, Completed
<1>2. ASSUME NEW w \in Worker, Completes(w)
      PROVE  /\ Previous(s)' = Previous(s)
             /\ \A v \in Previous(s) : storedAt'[v] = storedAt[v]
  <2> DEFINE c == worker[w].scan
  <2>1. c \in Scan /\ status[c] = "RUNNING"
        /\ status' = [status EXCEPT ![c] = "COMPLETED"]
        /\ \A v \in Scan \ {c} : storedAt'[v] = storedAt[v]
    BY <1>2, CompletionStores DEF Stored, TypeInv, TypeOK, RowsTyped
  <2>2. c # s
    BY <2>1 DEF TypeInv, TypeOK, RowsTyped, OccupyingStatuses
  <2>3. TargetOf[c] # TargetOf[s]
    BY <2>1, <2>2 DEF OneActivePerTarget, Occupying, OccupyingStatuses
  <2> QED
    BY <2>1, <2>3 DEF Previous, Completed, TypeInv, TypeOK, RowsTyped
<1> QED
  BY <1>1, <1>2, ResultsStep

LEMMA BaseCurrentStep ==
  ASSUME TypeInv, OneActivePerTarget, BaseCurrent, [Next]_vars
  PROVE  BaseCurrent'
<1> SUFFICES ASSUME NEW w \in Worker, worker'[w].pc = "persist",
                    Occupying(worker[w].scan)'
             PROVE  IsLatest(worker[w].base, Previous(worker[w].scan))'
  BY DEF BaseCurrent
<1>1. CASE Compare(w)
  BY <1>1
  DEF Compare, SlotAt, rowVars, resultVars, IsLatest, Previous, Completed,
      TypeInv, TypeOK
<1>2. CASE worker'[w] = worker[w]
  <2>0. Created(worker[w].scan)
    BY <1>2 DEF TypeInv, Located, WorkerLocated
  <2>1. PICK s \in Scan : worker[w].scan = s /\ Created(s)
    BY <2>0 DEF Created
  <2>2. worker'[w].scan = s /\ status'[s] \in OccupyingStatuses
    BY <1>2, <2>1 DEF Occupying
  <2>3. Occupying(s)
    <3>1. CASE StepsFrom(s)
      BY <2>2, <3>1 DEF StepsFrom, Occupying
    <3>2. ASSUME NEW h \in Handler, NEW v \in Scan, StartScan(h, v)
          PROVE  Occupying(s)
      BY <2>1, <2>2, <3>2
      DEF StartScan, Created, Occupying, TypeInv, TypeOK, RowsTyped
    <3> QED
      BY <2>2, <3>1, <3>2, StatusStep DEF TypeInv
  <2>4. IsLatest(worker[w].base, Previous(s))
    BY <1>2, <2>1, <2>3 DEF BaseCurrent
  <2>5. /\ Previous(s)' = Previous(s)
        /\ \A v \in Previous(s) : storedAt'[v] = storedAt[v]
    BY <2>2, <2>3, PreviousStays
  <2>6. IF Previous(s) = {} THEN worker'[w].base = NoOne
        ELSE /\ worker'[w].base \in Previous(s)
             /\ \A v \in Previous(s) : storedAt'[v] <= storedAt'[worker'[w].base]
    BY <1>2, <2>4, <2>5 DEF IsLatest
  <2> QED
    BY <2>2, <2>5, <2>6 DEF IsLatest, Previous, Completed
<1> QED
  BY <1>1, <1>2, PersistReached

\* The strengthening the theorems below are read off.
ResultsInv ==
  TypeInv /\ OneActivePerTarget /\ ResultsDated /\ BaseCurrent

LEMMA ResultsInvariant == Spec => []ResultsInv
<1>1. Init => ResultsInv
  <2> SUFFICES ASSUME Init PROVE ResultsInv
    OBVIOUS
  <2>1. TypeInv
    BY TypeInit, LocatedInit DEF TypeInv
  <2>2. OneActivePerTarget
    BY DEF Init, OneActivePerTarget, Occupying, OccupyingStatuses
  <2>3. ResultsDated
    BY DEF Init, ResultsDated
  <2>4. BaseCurrent
    BY DEF Init, BaseCurrent, IdleWorker, SlotAt
  <2> QED
    BY <2>1, <2>2, <2>3, <2>4 DEF ResultsInv
<1>2. ResultsInv /\ [Next]_vars => ResultsInv'
  BY TypeInvStep, OneActiveStep, ResultsDatedStep, BaseCurrentStep DEF ResultsInv
<1> QED
  BY <1>1, <1>2, PTL DEF Spec

\* Findings and diff are stored in the step that completes the scan and never
\* again, by however many workers and deliveries.
THEOREM ResultsHold == Spec => ResultsOnce
<1> DEFINE Once ==
      \A s \in Scan :
        /\ storedAt'[s] # storedAt[s] <=>
             status[s] # "COMPLETED" /\ status'[s] = "COMPLETED"
        /\ base'[s] # base[s] => storedAt'[s] # storedAt[s]
<1>1. ResultsInv /\ [Next]_vars => [Once]_vars
  <2> SUFFICES ASSUME ResultsInv, [Next]_vars PROVE Once
    OBVIOUS
  <2> USE DEF ResultsInv, TypeInv, TypeOK, RowsTyped, ResultsDated
  <2>1. ASSUME NEW w \in Worker, Completes(w) PROVE Once
    BY <2>1, CompletionStores DEF Stored
  <2>2. CASE UNCHANGED <<storedAt, base, clock>>
             /\ \A s \in Scan : status'[s] = "COMPLETED" <=> status[s] = "COMPLETED"
    BY <2>2
  <2> QED
    BY <2>1, <2>2, ResultsStep
<1> QED
  BY <1>1, ResultsInvariant, PTL DEF Spec, ResultsOnce

(***************************************************************************)
(* The diff.                                                                *)
(***************************************************************************)
Earlier(s) == {u \in Scan : /\ TargetOf[u] = TargetOf[s]
                            /\ 0 < storedAt[u]
                            /\ storedAt[u] < storedAt[s]}

DiffOf(s) ==
  IF Earlier(s) = {} THEN base[s] = NoOne
  ELSE /\ base[s] \in Earlier(s)
       /\ \A u \in Earlier(s) : storedAt[u] <= storedAt[base[s]]

LEMMA DiffStep ==
  ASSUME ResultsInv, DiffAgainstPrevious, [Next]_vars
  PROVE  DiffAgainstPrevious'
<1> USE DEF ResultsInv, TypeInv, TypeOK, RowsTyped, ResultsDated
<1> SUFFICES ASSUME NEW s \in Scan, storedAt'[s] > 0 PROVE DiffOf(s)'
  BY DEF DiffAgainstPrevious, DiffOf, Earlier
<1>old. storedAt[s] > 0 => DiffOf(s)
  BY DEF DiffAgainstPrevious, DiffOf, Earlier
<1>1. CASE UNCHANGED <<storedAt, base, clock>>
  BY <1>1, <1>old DEF DiffOf, Earlier
<1>2. ASSUME NEW w \in Worker, Completes(w) PROVE DiffOf(s)'
  <2>1. PICK c \in Scan : c = worker[w].scan
    BY <1>2, CompletionStores
  <2>2. /\ status[c] = "RUNNING"
        /\ clock' = clock + 1
        /\ storedAt' = [storedAt EXCEPT ![c] = clock + 1]
        /\ base' = [base EXCEPT ![c] = worker[w].base]
    BY <1>2, <2>1, CompletionStores DEF Stored
  <2>3. storedAt[c] = 0
    BY <2>2
  <2>4. CASE s # c
    <3>1. storedAt'[s] = storedAt[s] /\ base'[s] = base[s] /\ DiffOf(s)
      BY <1>old, <2>2, <2>4
    <3>2. Earlier(s)' = Earlier(s) /\ c \notin Earlier(s)
      BY <2>2, <2>3, <2>4 DEF Earlier
    <3> QED
      BY <2>2, <3>1, <3>2 DEF DiffOf, Earlier
  <2>5. CASE s = c
    <3>1. IsLatest(worker[w].base, Previous(s))
      BY <1>2, <2>1, <2>2, <2>5, CompletionStores
      DEF BaseCurrent, Occupying, OccupyingStatuses
    <3>2. /\ Earlier(s)' = Previous(s)
          /\ \A v \in Previous(s) : v \in Scan /\ storedAt'[v] = storedAt[v]
      BY <2>2, <2>5 DEF Earlier, Previous, Completed
    <3>3. base'[s] = worker[w].base
      BY <2>2, <2>5
    <3> QED
      BY <3>1, <3>2, <3>3 DEF DiffOf, IsLatest
  <2> QED
    BY <2>4, <2>5
<1> QED
  BY <1>1, <1>2, ResultsStep

\* A completed scan's diff is against the scan of its target that completed
\* just before it, although previousScanFingerprints reads that scan outside
\* persistResults' transaction.
THEOREM DiffHolds == Spec => []DiffAgainstPrevious
<1>1. Init => DiffAgainstPrevious
  BY DEF Init, DiffAgainstPrevious
<1>2. ResultsInv /\ DiffAgainstPrevious /\ [Next]_vars => DiffAgainstPrevious'
  BY DiffStep
<1> QED
  BY <1>1, <1>2, ResultsInvariant, PTL DEF Spec

(***************************************************************************)
(* The refinement.                                                          *)
(***************************************************************************)
LEMMA PromiseInit == Init => Promise!Init
BY DEF Init, Promise!Init

\* An instance has its own copy of FiniteSets.
LEMMA SameCardinality ==
  ASSUME NEW S
  PROVE  Promise!Cardinality(S) = Cardinality(S)
BY DEF Cardinality, Promise!Cardinality

\* Requests reserve slots, processes move rows, a worker completes, and the
\* switch is engaged and released: each is one step of ScanJobs, and whatever
\* else happens is none.
LEMMA PromiseStep ==
  ASSUME ResultsInv, [Next]_vars
  PROVE  [Promise!Next]_(Promise!vars)
<1> USE DEF ResultsInv, TypeInv, TypeOK, RowsTyped
<1>1. ASSUME NEW h \in Handler, NEW s \in Scan, StartScan(h, s)
      PROVE  Promise!Queue(s)
  <2> USE DEF Occupying, OccupyingStatuses, Promise!Active,
              Promise!OccupyingStatuses
  <2> DEFINE o == OrgOf[TargetOf[s]]
             slots == {u \in Scan : OrgOf[TargetOf[u]] = o /\ Promise!Active(u)}
  <2>1. Promise!Cardinality(slots) < MaxConcurrent[o]
    <3>1. slots = ActiveOf(o)
      BY DEF ActiveOf
    <3>2. Cardinality(ActiveOf(o)) < MaxConcurrent[o]
      BY <1>1 DEF StartScan, UnderQuota
    <3> HIDE DEF slots
    <3> QED
      BY <3>1, <3>2, SameCardinality
  <2>2. \A u \in Scan : TargetOf[u] = TargetOf[s] => ~Promise!Active(u)
    BY <1>1 DEF StartScan, TargetIsFree
  <2> QED
    BY <1>1, <2>1, <2>2
    DEF StartScan, Halted, resultVars, envVars, Promise!Queue, Promise!Halted,
        Promise!Becomes
<1>2. ASSUME NEW h \in Handler, EngageKillSwitch(h) PROVE Promise!Halt
  BY <1>2
  DEF EngageKillSwitch, Occupying, Halted, resultVars, Promise!Halt,
      Promise!Active, Promise!Halted, OccupyingStatuses,
      Promise!OccupyingStatuses
<1>3. CASE ReleaseKillSwitch
  BY <1>3
  DEF ReleaseKillSwitch, Halted, rowVars, resultVars, Promise!Next,
      Promise!Release, Promise!Halted
<1>4. ASSUME Quiet, NEW s \in Scan, Moves(s) PROVE Promise!Move(s)
  BY <1>4
  DEF Quiet, Moves, MovesTo, Movable, Promise!Move, Promise!Becomes
<1>5. CASE Quiet /\ UNCHANGED status
  BY <1>5 DEF Quiet, Promise!vars
<1>6. ASSUME NEW w \in Worker, Completes(w)
      PROVE  \E s \in Scan : Promise!Complete(s)
  <2>1. PICK s \in Scan : s = worker[w].scan
    BY <1>6, CompletionStores
  <2>2. Stored(s, worker[w].base) /\ UNCHANGED killSwitch
    BY <1>6, <2>1, CompletionStores
  <2>3. IsLatest(worker[w].base, Previous(s))
    BY <1>6, <2>1, <2>2, CompletionStores
    DEF BaseCurrent, Stored, Occupying, OccupyingStatuses
  <2>4. Promise!Before(s) = Previous(s)
    BY <2>2 DEF Stored, Promise!Before, Previous, Completed
  <2>5. Promise!JustBefore(worker[w].base, s)
    BY <2>3, <2>4 DEF IsLatest, Promise!JustBefore
  <2>6. worker[w].base \in Scan \cup {NoOne}
    BY <1>6, CompletionStores
  <2>7. Promise!Complete(s)
    BY <2>2, <2>5, <2>6 DEF Stored, Promise!Complete, Promise!Becomes
  <2> QED
    BY <2>7
<1> QED
  BY <1>1, <1>2, <1>3, <1>4, <1>5, <1>6, RowStep DEF Promise!Next

\* The API, the reconciler and the workers, with all their interleavings and
\* faults, do no more than ScanJobs's atomic steps.
THEOREM Implements == Spec => ImplementsScanJobs
BY PromiseInit, PromiseStep, ResultsInvariant, PTL
DEF Spec, ImplementsScanJobs, Promise!Spec

=============================================================================
