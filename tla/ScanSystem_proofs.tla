--------------------------- MODULE ScanSystem_proofs ---------------------------
(***************************************************************************)
(* Theorems about ScanSystem, for every set of scans, targets, requests,    *)
(* reconciler runs and workers, and any number of faults.                   *)
(***************************************************************************)
EXTENDS ScanSystem, FiniteSetTheorems, TLAPS

(***************************************************************************)
(* What a process works on.  A step uses the row of the scan its process    *)
(* names, so that scan exists and its row has been created.                 *)
(***************************************************************************)
Created(s) == s \in Scan /\ status[s] # "ABSENT"

HandlerLocated ==
  \A h \in Handler :
    /\ handler[h].pc \in {"enqueue", "rollback", "authorise", "apply"}
         => Created(handler[h].scan)
    /\ handler[h].pc = "authorise" => handler[h].action = "resume"
    /\ handler[h].pc \in {"authorise", "apply"}
         => /\ handler[h].action \in {"pause", "resume", "cancel"}
            /\ Allowed(handler[h].action, handler[h].seen)
            /\ handler[h].seen # "ABSENT"

SweepLocated ==
  \A r \in Sweeper :
    /\ sweep[r].pc \in {"authorise", "end", "enqueue"} => Created(sweep[r].scan)
    /\ \A s \in sweep[r].todo : Created(s)

WorkerLocated ==
  \A w \in Worker : worker[w].pc # "idle" => Created(worker[w].scan)

JobLocated == \A s \in Scan : HasJob(s) => status[s] # "ABSENT"

Located == HandlerLocated /\ SweepLocated /\ WorkerLocated /\ JobLocated

-----------------------------------------------------------------------------
LEMMA TypeInit == Init => TypeOK
<1> SUFFICES ASSUME Init PROVE TypeOK
  OBVIOUS
<1>1. RowsTyped
  BY DEF Init, RowsTyped
<1>2. job \in [Scan -> Jobs]
  BY DEF Init, NoJob, JobAt, Jobs, JobStates
<1>3. handler \in [Handler -> Handlers]
  BY DEF Init, IdleHandler, Request, Handlers, HandlerPCs
<1>4. sweep \in [Sweeper -> Sweeps]
  BY DEF Init, IdleSweep, RunAt, Sweeps, SweepPCs
<1>5. worker \in [Worker -> Workers]
  BY DEF Init, IdleWorker, SlotAt, Workers, WorkerPCs
<1> QED
  BY <1>1, <1>2, <1>3, <1>4, <1>5 DEF TypeOK

LEMMA TypeHandler ==
  ASSUME TypeOK, HandlerLocated, NEW h \in Handler,
         UserStep(h) \/ HandlerStep(h) \/ HandlerFault(h)
  PROVE  TypeOK'
<1> USE DEF TypeOK, Goto, Respond, NoFault, Fault, rowVars, resultVars, envVars
<1>idle. IdleHandler \in Handlers
  BY DEF IdleHandler, Request, Handlers, HandlerPCs
<1>1. ASSUME NEW s \in Scan, StartScan(h, s) PROVE TypeOK'
  <2> USE <1>1 DEF StartScan
  <2>1. RowsTyped'
    BY DEF RowsTyped, ScanStatuses, OccupyingStatuses
  <2>2. handler' \in [Handler -> Handlers]
    BY DEF Request, Handlers, HandlerPCs
  <2> QED
    BY <2>1, <2>2
<1>2. ASSUME Enqueue(h) \/ EnqueueFails(h) PROVE TypeOK'
  <2> USE <1>2 DEF Enqueue, EnqueueFails
  <2>1. job' \in [Scan -> Jobs]
    BY DEF Added, JobAt, Jobs, JobStates, Handlers
  <2>2. handler' \in [Handler -> Handlers]
    BY <1>idle DEF Handlers, HandlerPCs
  <2> QED
    BY <2>1, <2>2 DEF RowsTyped
<1>3. ASSUME NEW s \in Scan, NEW action \in Controls,
             ReadForControl(h, s, action)
      PROVE  TypeOK'
  <2> USE <1>3 DEF ReadForControl
  <2>1. handler' \in [Handler -> Handlers]
    BY StoreAssumption DEF Request, Handlers, HandlerPCs, RowsTyped
  <2> QED
    BY <2>1 DEF RowsTyped
<1>4. ASSUME AuthoriseResume(h) \/ HandlerDies(h) PROVE TypeOK'
  <2> USE <1>4 DEF AuthoriseResume, HandlerDies
  <2>1. handler' \in [Handler -> Handlers]
    BY <1>idle DEF Handlers, HandlerPCs
  <2> QED
    BY <2>1 DEF RowsTyped
<1>5. ASSUME ApplyControl(h) PROVE TypeOK'
  <2> DEFINE r == handler[h]
  <2>1. r.pc = "apply" /\ r.scan \in Scan
        /\ r.action \in {"pause", "resume", "cancel"}
    BY <1>5 DEF ApplyControl, HandlerLocated, Created
  <2>2. CASE ~StillAsRead(h)
    BY <1>5, <2>2, <1>idle DEF ApplyControl, RowsTyped
  <2>3. CASE StillAsRead(h)
    <3>1. status' \in [Scan -> ScanStatuses \cup {"ABSENT"}]
      BY <1>5, <2>1, <2>3
      DEF ApplyControl, RowsTyped, Planned, ScanStatuses, OccupyingStatuses,
          TerminalStatuses
    <3>2. NextAttempt(r.action, r.scan) \in Int
      BY <2>1 DEF NextAttempt, RowsTyped
    <3>3. attempt' \in [Scan -> Int]
      BY <1>5, <2>1, <2>3, <3>2 DEF ApplyControl, RowsTyped
    <3>4. NextAttempt("resume", r.scan) \in Int
      BY <2>1 DEF NextAttempt, RowsTyped
    <3>5. /\ Request("enqueue", "resume", r.scan, "ABSENT",
                     NextAttempt("resume", r.scan), {}) \in Handlers
          /\ Request("remove", "cancel", NoOne, "ABSENT", 0, {r.scan})
               \in Handlers
      BY <2>1, <3>4 DEF Request, Handlers, HandlerPCs
    <3>6. handler' \in [Handler -> Handlers]
      BY <1>5, <2>1, <2>3, <3>5, <1>idle DEF ApplyControl
    <3> QED
      BY <1>5, <3>1, <3>3, <3>6 DEF ApplyControl, RowsTyped
  <2> QED
    BY <2>2, <2>3
<1>6. ASSUME Rollback(h) PROVE TypeOK'
  <2> USE <1>6 DEF Rollback
  <2>1. handler[h].scan \in Scan
    BY DEF HandlerLocated, Created
  <2>2. status' \in [Scan -> ScanStatuses \cup {"ABSENT"}]
    BY DEF RowsTyped, RunningBecomes, ScanStatuses, OccupyingStatuses
  <2>3. attempt' \in [Scan -> Int]
    BY <2>1 DEF RowsTyped
  <2> QED
    BY <2>2, <2>3, <1>idle DEF RowsTyped
<1>7. ASSUME NEW s \in Scan, RemoveJob(h, s) \/ RemoveJobFails(h, s)
      PROVE  TypeOK'
  <2> USE <1>7 DEF RemoveJob, RemoveJobFails
  <2>1. job' \in [Scan -> Jobs]
    BY DEF Removed, NoJob, JobAt, Jobs, JobStates
  <2>2. handler' \in [Handler -> Handlers]
    BY <1>idle DEF Dismiss, Handlers
  <2> QED
    BY <2>1, <2>2 DEF RowsTyped
<1>8. ASSUME EngageKillSwitch(h) PROVE TypeOK'
  <2> USE <1>8 DEF EngageKillSwitch
  <2>1. RowsTyped'
    BY DEF RowsTyped, ScanStatuses, TerminalStatuses
  <2>2. handler' \in [Handler -> Handlers]
    BY DEF Request, Handlers, HandlerPCs
  <2> QED
    BY <2>1, <2>2
<1> QED
  BY <1>1, <1>2, <1>3, <1>4, <1>5, <1>6, <1>7, <1>8
  DEF UserStep, HandlerStep, HandlerFault

LEMMA TypeSweep ==
  ASSUME TypeOK, SweepLocated, NEW r \in Sweeper, SweepStep(r) \/ SweepFault(r)
  PROVE  TypeOK'
<1> USE DEF TypeOK, NoFault, Fault, rowVars, resultVars, envVars
<1>idle. IdleSweep \in Sweeps
  BY DEF IdleSweep, RunAt, Sweeps, SweepPCs
<1>next. ASSUME NEW todo \in SUBSET Scan, Continue(r, todo)
         PROVE  sweep' \in [Sweeper -> Sweeps]
  BY <1>next, <1>idle DEF Continue, RunAt, Sweeps, SweepPCs
<1>1. ASSUME SweepBegin(r) PROVE TypeOK'
  <2>1. sweep' \in [Sweeper -> Sweeps]
    BY <1>1 DEF SweepBegin, RunAt, Sweeps, SweepPCs
  <2> QED
    BY <1>1, <2>1 DEF SweepBegin, RowsTyped
<1>2. ASSUME NEW s \in Scan, SweepPick(r, s) PROVE TypeOK'
  <2>1. sweep[r].todo \ {s} \in SUBSET Scan
    BY DEF Sweeps
  <2>2. sweep' \in [Sweeper -> Sweeps]
    BY <1>2, <1>next, <2>1 DEF SweepPick, RunAt, Sweeps, SweepPCs
  <2> QED
    BY <1>2, <2>2 DEF SweepPick, RowsTyped
<1>3. ASSUME SweepAuthorise(r) PROVE TypeOK'
  <2>1. sweep' \in [Sweeper -> Sweeps]
    BY <1>3 DEF SweepAuthorise, Sweeps, SweepPCs
  <2> QED
    BY <1>3, <2>1 DEF SweepAuthorise, RowsTyped
<1>4. ASSUME NextCandidate(r) PROVE sweep' \in [Sweeper -> Sweeps]
  BY <1>4, <1>next DEF NextCandidate, Sweeps
<1>5. ASSUME SweepEnd(r) PROVE TypeOK'
  <2>1. RowsTyped'
    BY <1>5 DEF SweepEnd, RowsTyped, ScanStatuses, TerminalStatuses
  <2> QED
    BY <1>4, <1>5, <2>1 DEF SweepEnd
<1>6. ASSUME SweepEnqueue(r) \/ SweepEnqueueFails(r) PROVE TypeOK'
  <2>1. job' \in [Scan -> Jobs]
    BY <1>6 DEF SweepEnqueue, SweepEnqueueFails, Added, JobAt, Jobs, JobStates
  <2> QED
    BY <1>4, <1>6, <2>1 DEF SweepEnqueue, SweepEnqueueFails, RowsTyped
<1>7. ASSUME SweepDies(r) PROVE TypeOK'
  BY <1>7, <1>idle DEF SweepDies, RowsTyped
<1> QED
  BY <1>1, <1>2, <1>3, <1>5, <1>6, <1>7 DEF SweepStep, SweepFault

LEMMA TypeWorker ==
  ASSUME TypeOK, WorkerLocated, NEW w \in Worker, WorkerStep(w) \/ WorkerFault(w)
  PROVE  TypeOK'
<1> USE DEF TypeOK, Proceed, NoFault, Fault, rowVars, resultVars, envVars
<1>idle. IdleWorker \in Workers
  BY DEF IdleWorker, SlotAt, Workers, WorkerPCs
<1>go. ASSUME NEW pc \in WorkerPCs, Proceed(w, pc)
       PROVE  worker' \in [Worker -> Workers]
  BY <1>go DEF Workers
<1>job. JobAt("none", 0, NoOne, 0) \in Jobs
  BY DEF JobAt, Jobs, JobStates
<1>1. ASSUME NEW s \in Scan, FetchJob(w, s) PROVE TypeOK'
  <2>1. job' \in [Scan -> Jobs] /\ worker' \in [Worker -> Workers]
    BY <1>1, StoreAssumption
    DEF FetchJob, JobAt, Jobs, JobStates, SlotAt, Workers, WorkerPCs
  <2> QED
    BY <1>1, <2>1 DEF FetchJob, RowsTyped
<1>2. ASSUME ReturnJob(w) \/ ThrowJob(w) PROVE TypeOK'
  <2>1. worker[w].scan \in Scan
    BY <1>2 DEF ReturnJob, ThrowJob, WorkerLocated, Created
  <2>2. job' \in [Scan -> Jobs]
    BY <1>2, <2>1 DEF ReturnJob, ThrowJob, Settled, NoJob, JobAt, Jobs, JobStates
  <2> QED
    BY <1>2, <2>2, <1>idle DEF ReturnJob, ThrowJob, RowsTyped
<1>3. ASSUME LoseLock(w) \/ Crash(w) PROVE TypeOK'
  <2>1. job' \in [Scan -> Jobs]
    BY <1>3 DEF LoseLock, Crash, Unlocked, Jobs
  <2> QED
    BY <1>3, <2>1, <1>idle DEF LoseLock, Crash, RowsTyped
<1>4. ASSUME Claim(w) \/ MarkFailed(w) PROVE TypeOK'
  <2>1. worker' \in [Worker -> Workers]
    BY <1>4, <1>go DEF Claim, MarkFailed, WorkerPCs
  <2>2. RowsTyped'
    BY <1>4
    DEF Claim, MarkFailed, RunningBecomes, RowsTyped, ScanStatuses,
        OccupyingStatuses, TerminalStatuses
  <2> QED
    BY <1>4, <2>1, <2>2 DEF Claim, MarkFailed
<1>5. ASSUME Discover(w) PROVE TypeOK'
  <2>1. attempt[worker[w].scan] \in Int /\ worker[w].scan \in Scan
    BY <1>5 DEF Discover, WorkerLocated, Created, RowsTyped
  <2>2. worker' \in [Worker -> Workers]
    BY <1>5, <2>1 DEF Discover, SlotAt, Workers, WorkerPCs
  <2> QED
    BY <1>5, <2>2 DEF Discover, RowsTyped
<1>6. ASSUME \/ LookBeforeCrawl(w) \/ NoticeStop(w) \/ NoticeHalt(w)
             \/ ConfirmHalt(w) \/ FinishCrawl(w) \/ Checkpoint(w)
             \/ MisreadHalt(w) \/ PipelineThrows(w)
      PROVE  TypeOK'
  <2>1. worker' \in [Worker -> Workers]
    BY <1>6, <1>go
    DEF LookBeforeCrawl, NoticeStop, NoticeHalt, ConfirmHalt, FinishCrawl,
        Checkpoint, MisreadHalt, PipelineThrows, WorkerPCs
  <2> QED
    BY <1>6, <2>1
    DEF LookBeforeCrawl, NoticeStop, NoticeHalt, ConfirmHalt, FinishCrawl,
        Checkpoint, MisreadHalt, PipelineThrows, RowsTyped
<1>7. ASSUME Compare(w) PROVE TypeOK'
  <2>1. worker' \in [Worker -> Workers]
    BY <1>7 DEF Compare, SlotAt, Workers, WorkerPCs
  <2> QED
    BY <1>7, <2>1 DEF Compare, RowsTyped
<1>8. ASSUME Persist(w) PROVE TypeOK'
  <2>1. worker[w].base \in Scan \cup {NoOne}
    BY DEF Workers
  <2>2. RowsTyped'
    BY <1>8, <2>1 DEF Persist, RowsTyped, ScanStatuses, TerminalStatuses
  <2>3. worker' \in [Worker -> Workers]
    BY <1>8, <1>go DEF Persist, WorkerPCs
  <2> QED
    BY <1>8, <2>2, <2>3 DEF Persist
<1> QED
  BY <1>1, <1>2, <1>3, <1>4, <1>5, <1>6, <1>7, <1>8
  DEF WorkerStep, WorkerFault

LEMMA TypeEnvironment ==
  ASSUME TypeOK,
         \/ ReleaseKillSwitch
         \/ \E t \in Target : RevokeTarget(t) \/ VerifyTarget(t)
         \/ \E s \in Scan : AgeScan(s) \/ ExpireFailedJob(s)
                              \/ RedeliverStalledJob(s)
  PROVE  TypeOK'
<1> USE DEF TypeOK, NoFault, rowVars, resultVars, envVars
<1>1. CASE ReleaseKillSwitch
  BY <1>1 DEF ReleaseKillSwitch, RowsTyped
<1>2. CASE \E t \in Target : RevokeTarget(t) \/ VerifyTarget(t)
  BY <1>2 DEF RevokeTarget, VerifyTarget, RowsTyped
<1>3. ASSUME NEW s \in Scan, AgeScan(s) PROVE TypeOK'
  BY <1>3 DEF AgeScan, RowsTyped
<1>4. ASSUME NEW s \in Scan, ExpireFailedJob(s) \/ RedeliverStalledJob(s)
      PROVE  TypeOK'
  <2>1. job' \in [Scan -> Jobs]
    BY <1>4
    DEF ExpireFailedJob, RedeliverStalledJob, NoJob, JobAt, Jobs, JobStates
  <2> QED
    BY <1>4, <2>1 DEF ExpireFailedJob, RedeliverStalledJob, RowsTyped
<1> QED
  BY <1>1, <1>2, <1>3, <1>4

(***************************************************************************)
(* What a step does to the rows.  Every property of the statuses follows    *)
(* from this lemma: but for a start, a step leaves a scan where it is or    *)
(* moves one that is queued, running or paused, along the graph or by the   *)
(* kill switch.                                                             *)
(***************************************************************************)
AlongGraph(s) ==
  \/ CanTransition(status[s], status'[s])
  \/ status'[s] = "ABORTED_SAFETY" /\ ~Halted /\ (Halted)'

StepsFrom(s) ==
  \/ status'[s] = status[s]
  \/ Occupying(s) /\ status'[s] \in ScanStatuses /\ AlongGraph(s)

LEMMA StatusStep ==
  ASSUME TypeOK, Located, [Next]_vars
  PROVE  \/ \E h \in Handler, s \in Scan : StartScan(h, s)
         \/ \A s \in Scan : StepsFrom(s)
<1> USE DEF TypeOK, RowsTyped, StepsFrom, AlongGraph, CanTransition, Transitions,
        rowVars
<1> DEFINE Goal == \A s \in Scan : StepsFrom(s)
<1>0. CASE UNCHANGED status
  BY <1>0
<1>1. ASSUME NEW h \in Handler, ApplyControl(h) PROVE Goal
  <2> DEFINE r == handler[h]
  <2>1. r.scan \in Scan /\ r.action \in {"pause", "resume", "cancel"}
        /\ Allowed(r.action, r.seen) /\ r.seen \in ScanStatuses
    BY <1>1 DEF ApplyControl, Located, HandlerLocated, Created, Handlers
  <2>2. CASE ~StillAsRead(h)
    BY <1>1, <2>2 DEF ApplyControl
  <2>3. CASE StillAsRead(h)
    <3>1. Occupying(r.scan)
      BY <2>1, <2>3
      DEF StillAsRead, Occupying, Allowed, CanPause, CanResume, CanCancel,
          ScanStatuses, TerminalStatuses, OccupyingStatuses
    <3>2. /\ status' = [status EXCEPT ![r.scan] = Planned(r.action)]
          /\ Planned(r.action) \in ScanStatuses
      BY <1>1, <2>1, <2>3
      DEF ApplyControl, Planned, ScanStatuses, TerminalStatuses,
          OccupyingStatuses
    <3>3. CanTransition(status[r.scan], Planned(r.action))
      <4>1. status[r.scan] = r.seen
        BY <2>3 DEF StillAsRead
      <4>2. CASE r.action = "pause"
        BY <4>1, <4>2, <2>1 DEF Planned, Allowed, CanPause
      <4>3. CASE r.action = "resume"
        BY <4>1, <4>3, <2>1 DEF Planned, Allowed, CanResume
      <4>4. CASE r.action = "cancel"
        BY <4>1, <4>4, <2>1
        DEF Planned, Allowed, CanCancel, ScanStatuses, TerminalStatuses,
            OccupyingStatuses
      <4> QED
        BY <2>1, <4>2, <4>3, <4>4
    <3> HIDE DEF CanTransition, Transitions
    <3> QED
      BY <3>1, <3>2, <3>3
  <2> QED
    BY <2>2, <2>3
<1>2. ASSUME NEW h \in Handler, Rollback(h) PROVE Goal
  BY <1>2 DEF Rollback, RunningBecomes, Occupying, OccupyingStatuses, ScanStatuses
<1>3. ASSUME NEW h \in Handler, EngageKillSwitch(h) PROVE Goal
  BY <1>3 DEF EngageKillSwitch, Halted, ScanStatuses, TerminalStatuses
<1>4. ASSUME NEW r \in Sweeper, SweepEnd(r) PROVE Goal
  BY <1>4
  DEF SweepEnd, EndableBySweep, Occupying, OccupyingStatuses, ScanStatuses,
      TerminalStatuses
<1>5. ASSUME NEW w \in Worker, Claim(w) PROVE Goal
  BY <1>5 DEF Claim, Claimable, Occupying, OccupyingStatuses, ScanStatuses
<1>6. ASSUME NEW w \in Worker, Persist(w) PROVE Goal
  BY <1>6
  DEF Persist, MayComplete, Occupying, OccupyingStatuses, ScanStatuses,
      TerminalStatuses
<1>7. ASSUME NEW w \in Worker, MarkFailed(w) PROVE Goal
  BY <1>7
  DEF MarkFailed, RunningBecomes, Occupying, OccupyingStatuses, ScanStatuses,
      TerminalStatuses
<1>8. ASSUME NEW h \in Handler, UserStep(h) \/ HandlerStep(h) \/ HandlerFault(h)
      PROVE  \/ \E s \in Scan : StartScan(h, s)
             \/ UNCHANGED status
             \/ ApplyControl(h) \/ Rollback(h) \/ EngageKillSwitch(h)
  BY <1>8
  DEF UserStep, HandlerStep, HandlerFault, Enqueue, EnqueueFails,
      ReadForControl, AuthoriseResume, RemoveJob, RemoveJobFails, HandlerDies
<1>9. ASSUME NEW r \in Sweeper, SweepStep(r) \/ SweepFault(r)
      PROVE  UNCHANGED status \/ SweepEnd(r)
  BY <1>9
  DEF SweepStep, SweepFault, SweepBegin, SweepPick, SweepAuthorise,
      SweepEnqueue, SweepEnqueueFails, SweepDies
<1>10. ASSUME NEW w \in Worker, WorkerStep(w) \/ WorkerFault(w)
       PROVE  UNCHANGED status \/ Claim(w) \/ Persist(w) \/ MarkFailed(w)
  BY <1>10
  DEF WorkerStep, WorkerFault, FetchJob, ReturnJob, ThrowJob, LoseLock, Crash,
      Discover, LookBeforeCrawl, NoticeStop, NoticeHalt, MisreadHalt,
      ConfirmHalt, FinishCrawl, Checkpoint, Compare, PipelineThrows
<1>11. ASSUME \/ ReleaseKillSwitch
              \/ \E t \in Target : RevokeTarget(t) \/ VerifyTarget(t)
              \/ \E s \in Scan : AgeScan(s) \/ ExpireFailedJob(s)
                                   \/ RedeliverStalledJob(s)
       PROVE  UNCHANGED status
  BY <1>11
  DEF ReleaseKillSwitch, RevokeTarget, VerifyTarget, AgeScan, ExpireFailedJob,
      RedeliverStalledJob
<1>12. CASE UNCHANGED vars
  BY <1>12, <1>0 DEF vars
<1> QED
  BY <1>0, <1>1, <1>2, <1>3, <1>4, <1>5, <1>6, <1>7, <1>8, <1>9, <1>10, <1>11,
     <1>12
  DEF Next

\* A created row stays: after the step too it is one of a scan.
StillCreated(s) == s \in Scan /\ status'[s] # "ABSENT"

LEMMA CreatedStays ==
  ASSUME TypeOK, Located, [Next]_vars
  PROVE  \A s \in Scan : Created(s) => StillCreated(s)
<1>1. CASE \E h \in Handler, u \in Scan : StartScan(h, u)
  BY <1>1 DEF StartScan, Created, StillCreated, TypeOK, RowsTyped
<1>2. CASE \A u \in Scan : StepsFrom(u)
  BY <1>2
  DEF StepsFrom, Created, StillCreated, ScanStatuses, TerminalStatuses, OccupyingStatuses
<1> QED
  BY <1>1, <1>2, StatusStep

(***************************************************************************)
(* Located is inductive.                                                    *)
(***************************************************************************)
LEMMA LocatedInit == Init => Located
<1> SUFFICES ASSUME Init PROVE Located
  OBVIOUS
<1>1. HandlerLocated
  BY DEF Init, HandlerLocated, IdleHandler, Request
<1>2. SweepLocated
  BY DEF Init, SweepLocated, IdleSweep, RunAt
<1>3. WorkerLocated
  BY DEF Init, WorkerLocated, IdleWorker, SlotAt
<1>4. JobLocated
  BY DEF Init, JobLocated, HasJob, NoJob, JobAt
<1> QED
  BY <1>1, <1>2, <1>3, <1>4 DEF Located

LEMMA HandlerLocatedStep ==
  ASSUME TypeOK, Located, [Next]_vars
  PROVE  HandlerLocated'
<1> USE DEF Created, StillCreated
<1> DEFINE Good(h) ==
      /\ handler[h].pc \in {"enqueue", "rollback", "authorise", "apply"}
           => Created(handler[h].scan)
      /\ handler[h].pc = "authorise" => handler[h].action = "resume"
      /\ handler[h].pc \in {"authorise", "apply"}
           => /\ handler[h].action \in {"pause", "resume", "cancel"}
              /\ Allowed(handler[h].action, handler[h].seen)
              /\ handler[h].seen # "ABSENT"
<1>1. \A h \in Handler : handler'[h] = handler[h] => Good(h)'
  BY CreatedStays DEF Located, HandlerLocated
<1>2. ASSUME NEW h \in Handler, UserStep(h) \/ HandlerStep(h) \/ HandlerFault(h)
      PROVE  HandlerLocated'
  <2> USE DEF TypeOK, Goto, Respond
  <2>1. \A g \in Handler \ {h} : handler'[g] = handler[g]
    <3>1. CASE ApplyControl(h)
      <4>1. handler[h].action \in {"pause", "resume", "cancel"}
        BY <3>1 DEF ApplyControl, Located, HandlerLocated
      <4> QED
        BY <3>1, <4>1 DEF ApplyControl
    <3>2. CASE \E s \in Scan : RemoveJob(h, s) \/ RemoveJobFails(h, s)
      BY <3>2 DEF RemoveJob, RemoveJobFails, Dismiss
    <3>3. CASE \/ UserStep(h) \/ Enqueue(h) \/ EnqueueFails(h)
               \/ AuthoriseResume(h) \/ Rollback(h) \/ HandlerDies(h)
      BY <3>3
      DEF UserStep, StartScan, ReadForControl, EngageKillSwitch, Enqueue,
          EnqueueFails, AuthoriseResume, Rollback, HandlerDies
    <3> QED
      BY <1>2, <3>1, <3>2, <3>3 DEF HandlerStep, HandlerFault
  <2>2. handler'[h] = IdleHandler => Good(h)'
    BY DEF IdleHandler, Request
  <2>3. ASSUME NEW s \in Scan, StartScan(h, s) PROVE Good(h)'
    <3>1. StillCreated(s)
      BY <2>3 DEF StartScan, Created, RowsTyped
    <3>2. handler'[h] = Request("enqueue", "start", s, "ABSENT", 1, {})
      BY <2>3 DEF StartScan
    <3> QED
      BY <3>1, <3>2 DEF Request
  <2>4. ASSUME Enqueue(h) \/ EnqueueFails(h) PROVE Good(h)'
    <3>1. StillCreated(handler[h].scan)
      BY <2>4, CreatedStays DEF Enqueue, EnqueueFails, Located, HandlerLocated
    <3>2. CASE handler' = [handler EXCEPT ![h] = IdleHandler]
      BY <3>2, <2>2
    <3>3. CASE handler' = [handler EXCEPT ![h].pc = "rollback"]
      BY <3>3, <3>1 DEF Handlers, Created
    <3> QED
      BY <2>4, <3>2, <3>3 DEF Enqueue, EnqueueFails
  <2>5. ASSUME NEW s \in Scan, NEW action \in Controls,
               ReadForControl(h, s, action)
        PROVE  Good(h)'
    <3>1. StillCreated(s)
      BY <2>5, CreatedStays DEF ReadForControl, Created
    <3>2. handler'[h] = Request(IF action = "resume" THEN "authorise"
                                                     ELSE "apply",
                                action, s, status[s], 0, {})
      BY <2>5 DEF ReadForControl
    <3>3. action \in {"pause", "resume", "cancel"} /\ status[s] # "ABSENT"
          /\ Allowed(action, status[s])
      BY <2>5, StoreAssumption DEF ReadForControl
    <3> QED
      BY <3>1, <3>2, <3>3 DEF Request
  <2>6. ASSUME AuthoriseResume(h) PROVE Good(h)'
    <3>1. Good(h) /\ handler[h].pc = "authorise"
      BY <2>6 DEF AuthoriseResume, Located, HandlerLocated
    <3>2. StillCreated(handler[h].scan)
      BY <3>1, CreatedStays
    <3>3. CASE handler' = [handler EXCEPT ![h] = IdleHandler]
      BY <3>3, <2>2
    <3>4. CASE handler' = [handler EXCEPT ![h].pc = "apply"]
      BY <3>4, <3>1, <3>2 DEF Handlers, Created
    <3> QED
      BY <2>6, <3>3, <3>4 DEF AuthoriseResume
  <2>7. ASSUME ApplyControl(h) PROVE Good(h)'
    <3>1. handler[h].pc = "apply" /\ Created(handler[h].scan)
          /\ handler[h].action \in {"pause", "resume", "cancel"}
      BY <2>7 DEF ApplyControl, Located, HandlerLocated
    <3>2. StillCreated(handler[h].scan)
      BY <3>1, CreatedStays
    <3>3. \/ handler'[h] = IdleHandler
          \/ handler'[h] = Request("enqueue", "resume", handler[h].scan,
                                   "ABSENT",
                                   NextAttempt("resume", handler[h].scan), {})
          \/ handler'[h] = Request("remove", "cancel", NoOne, "ABSENT", 0,
                                   {handler[h].scan})
      BY <2>7, <3>1 DEF ApplyControl
    <3> QED
      BY <2>2, <3>2, <3>3 DEF Request, Created
  <2>8. ASSUME \/ Rollback(h) \/ HandlerDies(h)
               \/ \E s \in Scan : RemoveJob(h, s) \/ RemoveJobFails(h, s)
        PROVE  Good(h)'
    <3>1. CASE handler' = [handler EXCEPT ![h] = IdleHandler]
      BY <3>1, <2>2
    <3>2. ASSUME NEW s \in Scan, RemoveJob(h, s) \/ RemoveJobFails(h, s),
                 handler' = [handler EXCEPT ![h].todo = @ \ {s}]
          PROVE  Good(h)'
      BY <3>2 DEF RemoveJob, RemoveJobFails, Handlers
    <3> QED
      BY <2>8, <3>1, <3>2
      DEF Rollback, HandlerDies, RemoveJob, RemoveJobFails, Dismiss
  <2>9. ASSUME EngageKillSwitch(h) PROVE Good(h)'
    <3>1. CASE handler' = handler
      BY <3>1, <1>1
    <3>2. CASE handler'[h] = Request("remove", "engage", NoOne, "ABSENT", 0,
                                     {s \in Scan : Occupying(s)})
      BY <3>2 DEF Request
    <3> QED
      BY <2>9, <3>1, <3>2 DEF EngageKillSwitch
  <2>10. Good(h)'
    BY <1>2, <2>3, <2>4, <2>5, <2>6, <2>7, <2>8, <2>9
    DEF UserStep, HandlerStep, HandlerFault
  <2> QED
    BY <1>1, <2>1, <2>10 DEF HandlerLocated
<1>3. CASE UNCHANGED handler
  BY <1>1, <1>3 DEF HandlerLocated
<1>4. ASSUME NEW r \in Sweeper, SweepStep(r) \/ SweepFault(r)
      PROVE  UNCHANGED handler
  BY <1>4
  DEF SweepStep, SweepFault, SweepBegin, SweepPick, SweepAuthorise, SweepEnd,
      SweepEnqueue, SweepEnqueueFails, SweepDies
<1>5. ASSUME NEW w \in Worker, WorkerStep(w) \/ WorkerFault(w)
      PROVE  UNCHANGED handler
  BY <1>5
  DEF WorkerStep, WorkerFault, FetchJob, Claim, Discover, LookBeforeCrawl,
      NoticeStop, NoticeHalt, MisreadHalt, ConfirmHalt, FinishCrawl,
      Checkpoint, Compare, Persist, MarkFailed, PipelineThrows, ReturnJob,
      ThrowJob, LoseLock, Crash
<1>6. ASSUME \/ ReleaseKillSwitch
             \/ \E t \in Target : RevokeTarget(t) \/ VerifyTarget(t)
             \/ \E s \in Scan : AgeScan(s) \/ ExpireFailedJob(s)
                                  \/ RedeliverStalledJob(s)
      PROVE  UNCHANGED handler
  BY <1>6
  DEF ReleaseKillSwitch, RevokeTarget, VerifyTarget, AgeScan, ExpireFailedJob,
      RedeliverStalledJob
<1> QED
  BY <1>2, <1>3, <1>4, <1>5, <1>6 DEF Next, vars

LEMMA SweepLocatedStep ==
  ASSUME TypeOK, Located, [Next]_vars
  PROVE  SweepLocated'
<1> USE DEF Created, StillCreated
<1> DEFINE Good(r) ==
      /\ sweep[r].pc \in {"authorise", "end", "enqueue"}
           => Created(sweep[r].scan)
      /\ \A s \in sweep[r].todo : Created(s)
<1>1. \A r \in Sweeper : sweep'[r] = sweep[r] => Good(r)'
  BY CreatedStays DEF Located, SweepLocated
<1>2. ASSUME NEW r \in Sweeper, SweepStep(r) \/ SweepFault(r)
      PROVE  SweepLocated'
  <2> USE DEF TypeOK
  <2>1. \A q \in Sweeper \ {r} : sweep'[q] = sweep[q]
    BY <1>2
    DEF SweepStep, SweepFault, SweepBegin, SweepPick, SweepAuthorise, SweepEnd,
        SweepEnqueue, SweepEnqueueFails, SweepDies, NextCandidate, Continue
  <2>2. sweep'[r] = IdleSweep => Good(r)'
    BY DEF IdleSweep, RunAt
  <2>3. \A s \in sweep[r].todo : StillCreated(s)
    BY CreatedStays DEF Located, SweepLocated
  <2>4. ASSUME NEW todo \in SUBSET Scan, \A s \in todo : StillCreated(s),
               Continue(r, todo)
        PROVE  Good(r)'
    <3>1. sweep'[r] = IdleSweep \/ sweep'[r] = RunAt("pick", NoOne, todo, sweep[r].old)
      BY <2>4 DEF Continue
    <3> QED
      BY <2>2, <2>4, <3>1 DEF RunAt, Created
  <2>5. sweep[r].todo \in SUBSET Scan
    BY DEF Sweeps
  <2>6. ASSUME SweepBegin(r) PROVE Good(r)'
    <3> DEFINE lost == {s \in Scan : status[s] = "QUEUED" /\ age[s] # "fresh"}
    <3>1. \A s \in lost : StillCreated(s)
      BY CreatedStays DEF Created
    <3>2. sweep'[r] = RunAt("pick", NoOne, lost,
                            {s \in lost : age[s] = "abandoned"})
      BY <2>6 DEF SweepBegin
    <3> QED
      BY <3>1, <3>2 DEF RunAt, Created
  <2>7. ASSUME NEW s \in Scan, SweepPick(r, s) PROVE Good(r)'
    <3> DEFINE left == sweep[r].todo \ {s}
    <3>1. CASE HasJob(s)
      BY <2>7, <3>1, <2>3, <2>4, <2>5 DEF SweepPick
    <3>2. CASE ~HasJob(s)
      <4>1. sweep'[r] = RunAt(IF s \in sweep[r].old THEN "end"
                                                    ELSE "authorise",
                              s, left, sweep[r].old)
        BY <2>7, <3>2 DEF SweepPick
      <4>2. s \in sweep[r].todo
        BY <2>7 DEF SweepPick
      <4> QED
        BY <2>3, <4>1, <4>2 DEF RunAt, Created
    <3> QED
      BY <3>1, <3>2
  <2>8. ASSUME SweepAuthorise(r) PROVE Good(r)'
    <3>1. StillCreated(sweep[r].scan)
      BY <2>8, CreatedStays DEF SweepAuthorise, Located, SweepLocated
    <3>2. sweep'[r].scan = sweep[r].scan /\ sweep'[r].todo = sweep[r].todo
      BY <2>8 DEF SweepAuthorise, Sweeps
    <3> QED
      BY <2>3, <3>1, <3>2 DEF Created
  <2>9. ASSUME SweepEnd(r) \/ SweepEnqueue(r) \/ SweepEnqueueFails(r)
        PROVE  Good(r)'
    BY <2>9, <2>3, <2>4, <2>5
    DEF SweepEnd, SweepEnqueue, SweepEnqueueFails, NextCandidate
  <2>10. ASSUME SweepDies(r) PROVE Good(r)'
    BY <2>10, <2>2 DEF SweepDies
  <2>11. Good(r)'
    BY <1>2, <2>6, <2>7, <2>8, <2>9, <2>10 DEF SweepStep, SweepFault
  <2> QED
    BY <1>1, <2>1, <2>11 DEF SweepLocated
<1>3. CASE UNCHANGED sweep
  BY <1>1, <1>3 DEF SweepLocated
<1>4. ASSUME NEW h \in Handler, UserStep(h) \/ HandlerStep(h) \/ HandlerFault(h)
      PROVE  UNCHANGED sweep
  BY <1>4
  DEF UserStep, HandlerStep, HandlerFault, StartScan, Enqueue, EnqueueFails,
      ReadForControl, AuthoriseResume, ApplyControl, Rollback, RemoveJob,
      RemoveJobFails, EngageKillSwitch, HandlerDies
<1>5. ASSUME NEW w \in Worker, WorkerStep(w) \/ WorkerFault(w)
      PROVE  UNCHANGED sweep
  BY <1>5
  DEF WorkerStep, WorkerFault, FetchJob, Claim, Discover, LookBeforeCrawl,
      NoticeStop, NoticeHalt, MisreadHalt, ConfirmHalt, FinishCrawl,
      Checkpoint, Compare, Persist, MarkFailed, PipelineThrows, ReturnJob,
      ThrowJob, LoseLock, Crash
<1>6. ASSUME \/ ReleaseKillSwitch
             \/ \E t \in Target : RevokeTarget(t) \/ VerifyTarget(t)
             \/ \E s \in Scan : AgeScan(s) \/ ExpireFailedJob(s)
                                  \/ RedeliverStalledJob(s)
      PROVE  UNCHANGED sweep
  BY <1>6
  DEF ReleaseKillSwitch, RevokeTarget, VerifyTarget, AgeScan, ExpireFailedJob,
      RedeliverStalledJob
<1> QED
  BY <1>2, <1>3, <1>4, <1>5, <1>6 DEF Next, vars

LEMMA WorkerLocatedStep ==
  ASSUME TypeOK, Located, [Next]_vars
  PROVE  WorkerLocated'
<1> USE DEF Created, StillCreated
<1> DEFINE Good(w) == worker[w].pc # "idle" => Created(worker[w].scan)
<1>2. ASSUME NEW w \in Worker, worker'[w] = worker[w] PROVE Good(w)'
  BY <1>2, CreatedStays DEF Located, WorkerLocated
<1>3. ASSUME NEW w \in Worker, WorkerStep(w) \/ WorkerFault(w)
      PROVE  WorkerLocated'
  <2> USE DEF TypeOK, Proceed
  <2>1. \A v \in Worker \ {w} : worker'[v] = worker[v]
    BY <1>3
    DEF WorkerStep, WorkerFault, FetchJob, Claim, Discover, LookBeforeCrawl,
        NoticeStop, NoticeHalt, MisreadHalt, ConfirmHalt, FinishCrawl,
        Checkpoint, Compare, Persist, MarkFailed, PipelineThrows, ReturnJob,
        ThrowJob, LoseLock, Crash
  <2>2. ASSUME NEW s \in Scan, FetchJob(w, s) PROVE Good(w)'
    <3>1. Created(s)
      BY <2>2 DEF FetchJob, Located, JobLocated, HasJob
    <3>2. StillCreated(s)
      BY <3>1, CreatedStays
    <3>3. worker'[w] = SlotAt("claim", s, job[s].attempt, 0, NoOne)
      BY <2>2 DEF FetchJob
    <3> QED
      BY <3>2, <3>3 DEF SlotAt
  <2>3. ASSUME ReturnJob(w) \/ ThrowJob(w) \/ Crash(w) PROVE Good(w)'
    BY <2>3 DEF ReturnJob, ThrowJob, Crash, IdleWorker, SlotAt
  <2>4. ASSUME LoseLock(w) PROVE Good(w)'
    BY <2>4, <1>2 DEF LoseLock
  <2>5. ASSUME worker[w].pc # "idle", worker'[w].scan = worker[w].scan
        PROVE  Good(w)'
    BY <2>5, CreatedStays DEF Located, WorkerLocated
  <2>6. ASSUME \/ Claim(w) \/ LookBeforeCrawl(w) \/ NoticeStop(w)
               \/ NoticeHalt(w) \/ ConfirmHalt(w) \/ FinishCrawl(w)
               \/ Checkpoint(w) \/ Persist(w) \/ MarkFailed(w)
               \/ MisreadHalt(w) \/ PipelineThrows(w)
        PROVE  Good(w)'
    <3>1. worker[w].pc # "idle"
      BY <2>6
      DEF Claim, LookBeforeCrawl, NoticeStop, NoticeHalt, ConfirmHalt,
          FinishCrawl, Checkpoint, Persist, MarkFailed, MisreadHalt,
          PipelineThrows
    <3>2. \E pc : worker' = [worker EXCEPT ![w].pc = pc]
      BY <2>6
      DEF Claim, LookBeforeCrawl, NoticeStop, NoticeHalt, ConfirmHalt,
          FinishCrawl, Checkpoint, Persist, MarkFailed, MisreadHalt,
          PipelineThrows
    <3>3. worker'[w].scan = worker[w].scan
      BY <3>2 DEF Workers
    <3> QED
      BY <2>5, <3>1, <3>3
  <2>7. ASSUME Discover(w) \/ Compare(w) PROVE Good(w)'
    <3>1. worker[w].pc # "idle" /\ worker'[w].scan = worker[w].scan
      BY <2>7 DEF Discover, Compare, SlotAt
    <3> QED
      BY <2>5, <3>1
  <2>8. Good(w)'
    BY <1>3, <2>2, <2>3, <2>4, <2>6, <2>7 DEF WorkerStep, WorkerFault
  <2> QED
    BY <1>2, <2>1, <2>8 DEF WorkerLocated
<1>4. CASE UNCHANGED worker
  BY <1>2, <1>4 DEF WorkerLocated
<1>5. ASSUME NEW h \in Handler, UserStep(h) \/ HandlerStep(h) \/ HandlerFault(h)
      PROVE  UNCHANGED worker
  BY <1>5
  DEF UserStep, HandlerStep, HandlerFault, StartScan, Enqueue, EnqueueFails,
      ReadForControl, AuthoriseResume, ApplyControl, Rollback, RemoveJob,
      RemoveJobFails, EngageKillSwitch, HandlerDies
<1>6. ASSUME NEW r \in Sweeper, SweepStep(r) \/ SweepFault(r)
      PROVE  UNCHANGED worker
  BY <1>6
  DEF SweepStep, SweepFault, SweepBegin, SweepPick, SweepAuthorise, SweepEnd,
      SweepEnqueue, SweepEnqueueFails, SweepDies
<1>7. ASSUME \/ ReleaseKillSwitch
             \/ \E t \in Target : RevokeTarget(t) \/ VerifyTarget(t)
             \/ \E s \in Scan : AgeScan(s) \/ ExpireFailedJob(s)
                                  \/ RedeliverStalledJob(s)
      PROVE  UNCHANGED worker
  BY <1>7
  DEF ReleaseKillSwitch, RevokeTarget, VerifyTarget, AgeScan, ExpireFailedJob,
      RedeliverStalledJob
<1> QED
  BY <1>3, <1>4, <1>5, <1>6, <1>7 DEF Next, vars

LEMMA JobLocatedStep ==
  ASSUME TypeOK, Located, [Next]_vars
  PROVE  JobLocated'
<1> USE DEF Created, StillCreated
<1> DEFINE Kept == \A s \in Scan : job'[s].state # "none" => Created(s)
<1>1. ASSUME Kept PROVE JobLocated'
  BY <1>1, CreatedStays DEF JobLocated, HasJob
<1>2. CASE UNCHANGED job
  BY <1>1, <1>2 DEF Located, JobLocated, HasJob
<1>3. ASSUME NEW u \in Scan, Created(u), NEW a \in Int, job' = Added(u, a)
      PROVE  Kept
  BY <1>3 DEF Added, JobAt, TypeOK, Located, JobLocated, HasJob
<1>4. ASSUME NEW h \in Handler, UserStep(h) \/ HandlerStep(h) \/ HandlerFault(h)
      PROVE  UNCHANGED job \/ Kept
  <2>1. CASE Enqueue(h) \/ EnqueueFails(h)
    <3>1. Created(handler[h].scan) /\ handler[h].attempt \in Int
      BY <2>1
      DEF Enqueue, EnqueueFails, Located, HandlerLocated, TypeOK, Handlers
    <3> QED
      BY <2>1, <1>3, <3>1 DEF Enqueue, EnqueueFails
  <2>2. CASE \E s \in Scan : RemoveJob(h, s)
    BY <2>2
    DEF RemoveJob, Removed, NoJob, JobAt, TypeOK, Located, JobLocated, HasJob
  <2> QED
    BY <1>4, <2>1, <2>2
    DEF UserStep, HandlerStep, HandlerFault, StartScan, ReadForControl,
        AuthoriseResume, ApplyControl, Rollback, RemoveJobFails,
        EngageKillSwitch, HandlerDies
<1>5. ASSUME NEW r \in Sweeper, SweepStep(r) \/ SweepFault(r)
      PROVE  UNCHANGED job \/ Kept
  <2>1. CASE SweepEnqueue(r) \/ SweepEnqueueFails(r)
    <3>1. Created(sweep[r].scan)
      BY <2>1 DEF SweepEnqueue, SweepEnqueueFails, Located, SweepLocated
    <3> QED
      BY <2>1, <1>3, <3>1 DEF SweepEnqueue, SweepEnqueueFails
  <2> QED
    BY <1>5, <2>1
    DEF SweepStep, SweepFault, SweepBegin, SweepPick, SweepAuthorise, SweepEnd,
        SweepDies
<1>6. ASSUME NEW w \in Worker, WorkerStep(w) \/ WorkerFault(w)
      PROVE  UNCHANGED job \/ Kept
  <2> USE DEF TypeOK, Located, JobLocated, HasJob
  <2>1. CASE \E s \in Scan : FetchJob(w, s)
    BY <2>1 DEF FetchJob, JobAt
  <2>2. CASE ReturnJob(w) \/ ThrowJob(w)
    <3>1. Created(worker[w].scan)
      BY <2>2 DEF ReturnJob, ThrowJob, WorkerLocated
    <3> QED
      BY <2>2, <3>1 DEF ReturnJob, ThrowJob, Settled, NoJob, JobAt
  <2>3. CASE LoseLock(w) \/ Crash(w)
    BY <2>3 DEF LoseLock, Crash, Unlocked, Jobs
  <2> QED
    BY <1>6, <2>1, <2>2, <2>3
    DEF WorkerStep, WorkerFault, Claim, Discover, LookBeforeCrawl, NoticeStop,
        NoticeHalt, MisreadHalt, ConfirmHalt, FinishCrawl, Checkpoint, Compare,
        Persist, MarkFailed, PipelineThrows
<1>7. ASSUME \/ ReleaseKillSwitch
             \/ \E t \in Target : RevokeTarget(t) \/ VerifyTarget(t)
             \/ \E s \in Scan : AgeScan(s) \/ ExpireFailedJob(s)
                                  \/ RedeliverStalledJob(s)
      PROVE  UNCHANGED job \/ Kept
  <2>1. CASE \E s \in Scan : ExpireFailedJob(s) \/ RedeliverStalledJob(s)
    BY <2>1
    DEF ExpireFailedJob, RedeliverStalledJob, NoJob, JobAt, TypeOK, Located,
        JobLocated, HasJob
  <2> QED
    BY <1>7, <2>1 DEF ReleaseKillSwitch, RevokeTarget, VerifyTarget, AgeScan
<1>8. CASE UNCHANGED vars
  BY <1>2, <1>8 DEF vars
<1> QED
  BY <1>1, <1>2, <1>4, <1>5, <1>6, <1>7, <1>8 DEF Next

-----------------------------------------------------------------------------
TypeInv == TypeOK /\ Located

LEMMA TypeInvStep == TypeInv /\ [Next]_vars => TypeInv'
<1> SUFFICES ASSUME TypeInv, [Next]_vars PROVE TypeInv'
  OBVIOUS
<1>1. Located'
  BY HandlerLocatedStep, SweepLocatedStep, WorkerLocatedStep, JobLocatedStep
  DEF TypeInv, Located
<1>2. CASE UNCHANGED vars
  BY <1>1, <1>2 DEF vars, TypeInv, TypeOK, RowsTyped
<1>3. CASE Next
  <2>1. TypeOK /\ HandlerLocated /\ SweepLocated /\ WorkerLocated
    BY DEF TypeInv, Located
  <2> QED
    BY <1>3, <2>1, TypeHandler, TypeSweep, TypeWorker, TypeEnvironment, <1>1
    DEF Next, TypeInv
<1> QED
  BY <1>1, <1>2, <1>3 DEF TypeInv

LEMMA TypeInvariant == Spec => []TypeInv
<1>1. Init => TypeInv
  BY TypeInit, LocatedInit DEF TypeInv
<1> QED
  BY <1>1, TypeInvStep, PTL DEF Spec

\* Every variable keeps its type, whatever the numbers of scans, requests,
\* reconciler runs, workers and faults.
THEOREM TypeCorrect == Spec => []TypeOK
<1>1. TypeInv => TypeOK
  BY DEF TypeInv
<1> QED
  BY <1>1, TypeInvariant, PTL

(***************************************************************************)
(* The statuses: what StatusStep gives for every number of processes.       *)
(***************************************************************************)
\* Only haltAll engages the switch.
LEMMA SwitchStep ==
  ASSUME [Next]_vars
  PROVE  \/ UNCHANGED killSwitch
         \/ killSwitch' = "released"
         \/ \E h \in Handler : EngageKillSwitch(h)
BY DEF Next, vars, envVars, UserStep, HandlerStep, HandlerFault, StartScan,
       Enqueue, EnqueueFails, ReadForControl, AuthoriseResume, ApplyControl,
       Rollback, RemoveJob, RemoveJobFails, HandlerDies, ReleaseKillSwitch,
       RevokeTarget, VerifyTarget, SweepStep, SweepFault, SweepBegin,
       SweepPick, SweepAuthorise, SweepEnd, SweepEnqueue, SweepEnqueueFails,
       SweepDies, WorkerStep, WorkerFault, FetchJob, Claim, Discover,
       LookBeforeCrawl, NoticeStop, NoticeHalt, MisreadHalt, ConfirmHalt,
       FinishCrawl, Checkpoint, Compare, Persist, MarkFailed, PipelineThrows,
       ReturnJob, ThrowJob, LoseLock, Crash, AgeScan, ExpireFailedJob,
       RedeliverStalledJob

\* Whoever occupies a slot after a step that starts nothing had it before.
LEMMA StillOccupying ==
  ASSUME NEW s \in Scan, StepsFrom(s), Occupying(s)'
  PROVE  Occupying(s)
BY DEF StepsFrom, Occupying

LEMMA KillSwitchStep ==
  ASSUME TypeInv, KillSwitchClears, [Next]_vars
  PROVE  KillSwitchClears'
<1> SUFFICES ASSUME Halted', NEW s \in Scan, Occupying(s)' PROVE FALSE
  BY DEF KillSwitchClears
<1>1. CASE \E h \in Handler : EngageKillSwitch(h)
  BY <1>1
  DEF EngageKillSwitch, TypeInv, TypeOK, RowsTyped, Occupying,
      OccupyingStatuses
<1>2. CASE ~\E h \in Handler : EngageKillSwitch(h)
  <2>1. Halted
    BY <1>2, SwitchStep DEF Halted
  <2>2. ~Occupying(s)
    BY <2>1 DEF KillSwitchClears
  <2>3. ~\E h \in Handler, u \in Scan : StartScan(h, u)
    BY <2>1 DEF StartScan
  <2>4. StepsFrom(s)
    BY <2>3, StatusStep DEF TypeInv
  <2> QED
    BY <2>2, <2>4, StillOccupying
<1> QED
  BY <1>1, <1>2

LEMMA OneActiveStep ==
  ASSUME TypeInv, OneActivePerTarget, [Next]_vars
  PROVE  OneActivePerTarget'
<1> SUFFICES ASSUME NEW s \in Scan, NEW u \in Scan, TargetOf[s] = TargetOf[u],
                    Occupying(s)', Occupying(u)'
             PROVE  s = u
  BY DEF OneActivePerTarget
<1>1. CASE \A v \in Scan : StepsFrom(v)
  BY <1>1, StillOccupying DEF OneActivePerTarget
<1>2. ASSUME NEW h \in Handler, NEW v \in Scan, StartScan(h, v) PROVE s = u
  <2>1. \A x \in Scan : Occupying(x)' => x = v \/ Occupying(x)
    BY <1>2 DEF StartScan, TypeInv, TypeOK, RowsTyped, Occupying
  <2>2. \A x \in Scan : TargetOf[x] = TargetOf[v] => ~Occupying(x)
    BY <1>2 DEF StartScan, TargetIsFree
  <2> QED
    BY <2>1, <2>2 DEF OneActivePerTarget
<1> QED
  BY <1>1, <1>2, StatusStep DEF TypeInv

\* An engaged kill switch leaves nothing queued, running or paused: haltAll's
\* promise, kept although the starts, resumes and claims it overlaps with do
\* not all share its transaction.
THEOREM KillSwitchHolds == Spec => []KillSwitchClears
<1>1. Init => KillSwitchClears
  BY DEF Init, KillSwitchClears, Halted
<1>2. TypeInv /\ KillSwitchClears /\ [Next]_vars => KillSwitchClears'
  BY KillSwitchStep
<1> QED
  BY <1>1, <1>2, TypeInvariant, PTL DEF Spec

\* However many requests start scans at once, no target has two active ones.
THEOREM OneActiveHolds == Spec => []OneActivePerTarget
<1>1. Init => OneActivePerTarget
  BY DEF Init, OneActivePerTarget, Occupying, OccupyingStatuses
<1>2. TypeInv /\ OneActivePerTarget /\ [Next]_vars => OneActivePerTarget'
  BY OneActiveStep
<1> QED
  BY <1>1, <1>2, TypeInvariant, PTL DEF Spec

\* Terminal states are absorbing: no late cancel, rollback, claim, failure or
\* completion moves a finished scan.
THEOREM TerminalHolds == Spec => TerminalAbsorbing
<1> DEFINE Absorbed ==
      \A s \in Scan : status[s] \in TerminalStatuses => status'[s] = status[s]
<1>1. TypeInv /\ [Next]_vars => [Absorbed]_vars
  <2> SUFFICES ASSUME TypeInv, [Next]_vars PROVE Absorbed
    OBVIOUS
  <2>1. CASE \A s \in Scan : StepsFrom(s)
    BY <2>1
    DEF StepsFrom, Occupying, OccupyingStatuses, TerminalStatuses
  <2>2. CASE \E h \in Handler, s \in Scan : StartScan(h, s)
    BY <2>2 DEF StartScan, TypeInv, TypeOK, RowsTyped, TerminalStatuses
  <2> QED
    BY <2>1, <2>2, StatusStep DEF TypeInv
<1> QED
  BY <1>1, TypeInvariant, PTL DEF Spec, TerminalAbsorbing

\* Every change of status is an edge of the graph or an abort by the kill
\* switch, although no writer asks `canTransition`.
THEOREM GraphHolds == Spec => ChangesFollowGraph
<1> DEFINE Follows ==
      \A s \in Scan : status[s] \notin {"ABSENT", status'[s]} =>
        \/ CanTransition(status[s], status'[s])
        \/ Occupying(s) /\ status'[s] = "ABORTED_SAFETY" /\ ~Halted /\ (Halted)'
<1>1. TypeInv /\ [Next]_vars => [Follows]_vars
  <2> SUFFICES ASSUME TypeInv, [Next]_vars PROVE Follows
    OBVIOUS
  <2>1. CASE \A s \in Scan : StepsFrom(s)
    BY <2>1 DEF StepsFrom, AlongGraph
  <2>2. CASE \E h \in Handler, s \in Scan : StartScan(h, s)
    BY <2>2 DEF StartScan, TypeInv, TypeOK, RowsTyped
  <2> QED
    BY <2>1, <2>2, StatusStep DEF TypeInv
<1> QED
  BY <1>1, TypeInvariant, PTL DEF Spec, ChangesFollowGraph

(***************************************************************************)
(* The quota.                                                               *)
(***************************************************************************)
LEMMA ActiveFinite ==
  ASSUME NEW o \in Org
  PROVE  IsFiniteSet(ActiveOf(o)) /\ IsFiniteSet(ActiveOf(o)')
<1>1. ActiveOf(o) \in SUBSET Scan /\ ActiveOf(o)' \in SUBSET Scan
  BY DEF ActiveOf
<1> QED
  BY <1>1, FiniteScans, FS_Subset

LEMMA QuotaStep ==
  ASSUME TypeInv, QuotaRespected, [Next]_vars
  PROVE  QuotaRespected'
<1> SUFFICES ASSUME NEW o \in Org
             PROVE  Cardinality(ActiveOf(o)') <= MaxConcurrent[o]
  BY DEF QuotaRespected
<1>1. /\ Cardinality(ActiveOf(o)) \in Nat
      /\ Cardinality(ActiveOf(o)') \in Nat
      /\ MaxConcurrent[o] \in Nat
      /\ Cardinality(ActiveOf(o)) <= MaxConcurrent[o]
  BY ActiveFinite, FS_CardinalityType, StoreAssumption DEF QuotaRespected
<1>2. CASE \A s \in Scan : StepsFrom(s)
  <2>1. ActiveOf(o)' \subseteq ActiveOf(o)
    BY <1>2, StillOccupying DEF ActiveOf
  <2>2. Cardinality(ActiveOf(o)') <= Cardinality(ActiveOf(o))
    BY <2>1, ActiveFinite, FS_Subset
  <2> QED
    BY <1>1, <2>2
<1>3. ASSUME NEW h \in Handler, NEW s \in Scan, StartScan(h, s)
      PROVE  Cardinality(ActiveOf(o)') <= MaxConcurrent[o]
  <2>1. \A x \in Scan : Occupying(x)' => x = s \/ Occupying(x)
    BY <1>3 DEF StartScan, TypeInv, TypeOK, RowsTyped, Occupying
  <2>2. CASE OrgOf[TargetOf[s]] = o
    <3>1. Cardinality(ActiveOf(o)) < MaxConcurrent[o]
      BY <1>3, <2>2 DEF StartScan, UnderQuota
    <3>2. ActiveOf(o)' \subseteq ActiveOf(o) \cup {s}
      BY <2>1 DEF ActiveOf
    <3>3. /\ IsFiniteSet(ActiveOf(o) \cup {s})
          /\ Cardinality(ActiveOf(o) \cup {s}) <= Cardinality(ActiveOf(o)) + 1
          /\ Cardinality(ActiveOf(o) \cup {s}) \in Nat
      BY <1>1, ActiveFinite, FS_AddElement, FS_CardinalityType
    <3>4. Cardinality(ActiveOf(o)') <= Cardinality(ActiveOf(o) \cup {s})
      BY <3>2, <3>3, FS_Subset
    <3> QED
      BY <1>1, <3>1, <3>3, <3>4
  <2>3. CASE OrgOf[TargetOf[s]] # o
    <3>1. ActiveOf(o)' \subseteq ActiveOf(o)
      BY <2>1, <2>3 DEF ActiveOf
    <3>2. Cardinality(ActiveOf(o)') <= Cardinality(ActiveOf(o))
      BY <3>1, ActiveFinite, FS_Subset
    <3> QED
      BY <1>1, <3>2
  <2> QED
    BY <2>2, <2>3
<1> QED
  BY <1>2, <1>3, StatusStep DEF TypeInv

\* No organisation ever holds more slots than its quota, for any quotas.
THEOREM QuotaHolds == Spec => []QuotaRespected
<1>1. Init => QuotaRespected
  <2> SUFFICES ASSUME Init, NEW o \in Org
               PROVE  Cardinality(ActiveOf(o)) <= MaxConcurrent[o]
    BY DEF QuotaRespected
  <2>1. ActiveOf(o) = {}
    BY DEF Init, ActiveOf, Occupying, OccupyingStatuses
  <2> QED
    BY <2>1, FS_EmptySet, StoreAssumption
<1>2. TypeInv /\ QuotaRespected /\ [Next]_vars => QuotaRespected'
  BY QuotaStep
<1> QED
  BY <1>1, <1>2, TypeInvariant, PTL DEF Spec

=============================================================================
