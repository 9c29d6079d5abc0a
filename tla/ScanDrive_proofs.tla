--------------------------- MODULE ScanDrive_proofs ---------------------------
(***************************************************************************)
(* Who works on a scan while nothing fails: theorems for every set of scans, *)
(* targets, requests, reconciler runs and workers.                           *)
(***************************************************************************)
EXTENDS ScanSystem_proofs

(***************************************************************************)
(* The invariant.  Without a fault a worker keeps the lock of its job until *)
(* it reports the outcome, so the job of a scan that is worked on stays in  *)
(* the queue and absorbs every other delivery of that scan.                 *)
(***************************************************************************)
LocksHeld ==
  /\ \A w \in Worker : worker[w].pc # "idle" =>
       job[worker[w].scan].state = "active" /\ job[worker[w].scan].holder = w
  /\ \A s \in Scan : job[s].state = "active" => job[s].holder # NoOne

\* No request takes a resume back, so an attempt that was ever handed out is
\* at most the attempt of the row.
Issued(a, s) == 1 <= a /\ a <= attempt[s]

RowsIssued == \A s \in Scan : 1 <= attempt[s]

JobsIssued == \A s \in Scan : HasJob(s) => Issued(job[s].attempt, s)

HandlersIssued ==
  \A h \in Handler :
    /\ handler[h].pc # "rollback"
    /\ handler[h].pc = "enqueue" => Issued(handler[h].attempt, handler[h].scan)

WorkersIssued ==
  \A w \in Worker :
    /\ worker[w].pc \notin {"failed", "throw"}
    /\ worker[w].pc # "idle" => Issued(worker[w].attempt, worker[w].scan)
    /\ worker[w].pc \in {"look", "crawl"} =>
         Issued(worker[w].run, worker[w].scan)

\* The worker that claimed the first attempt is still at it.
FirstRunWatched ==
  \A s \in Scan : status[s] = "RUNNING" /\ attempt[s] = 1 =>
    \E w \in Worker : Busy(w, s)

Smooth ==
  /\ LocksHeld
  /\ RowsIssued /\ JobsIssued /\ HandlersIssued /\ WorkersIssued
  /\ FirstRunWatched

NothingFailed == faults = 0 => Smooth

(***************************************************************************)
(* The steps that are no fault.                                             *)
(***************************************************************************)
HandlerMove == \E h \in Handler : UserStep(h) \/ HandlerStep(h)
SweepMove   == \E r \in Sweeper : SweepStep(r)
WorkerMove  == \E w \in Worker : WorkerStep(w)
OtherMove ==
  \/ ReleaseKillSwitch
  \/ \E t \in Target : RevokeTarget(t) \/ VerifyTarget(t)
  \/ \E s \in Scan : AgeScan(s) \/ ExpireFailedJob(s) \/ RedeliverStalledJob(s)
  \/ UNCHANGED vars

Move == HandlerMove \/ SweepMove \/ WorkerMove \/ OtherMove

LEMMA UnfaultedStep ==
  ASSUME TypeOK, [Next]_vars, faults' = 0
  PROVE  faults = 0 /\ Move
<1> USE DEF TypeOK, RowsTyped, NoFault, Fault, Move, HandlerMove, SweepMove,
        WorkerMove, OtherMove
<1>0. ~Fault
  OBVIOUS
<1>1. ASSUME NEW h \in Handler, HandlerFault(h) PROVE Fault
  BY <1>1 DEF HandlerFault, EnqueueFails, RemoveJobFails, HandlerDies
<1>2. ASSUME NEW r \in Sweeper, SweepFault(r) PROVE Fault
  BY <1>2 DEF SweepFault, SweepEnqueueFails, SweepDies
<1>3. ASSUME NEW w \in Worker, WorkerFault(w) PROVE Fault
  BY <1>3 DEF WorkerFault, MisreadHalt, PipelineThrows, LoseLock, Crash
<1>4. Move
  BY <1>0, <1>1, <1>2, <1>3 DEF Next
<1>5. CASE HandlerMove
  BY <1>5
  DEF UserStep, HandlerStep, StartScan, Enqueue, ReadForControl,
      AuthoriseResume, ApplyControl, Rollback, RemoveJob, EngageKillSwitch
<1>6. CASE SweepMove
  BY <1>6
  DEF SweepStep, SweepBegin, SweepPick, SweepAuthorise, SweepEnd, SweepEnqueue
<1>7. CASE WorkerMove
  BY <1>7
  DEF WorkerStep, FetchJob, Claim, Discover, LookBeforeCrawl, NoticeStop,
      NoticeHalt, ConfirmHalt, FinishCrawl, Checkpoint, Compare, Persist,
      MarkFailed, ReturnJob, ThrowJob
<1>8. CASE OtherMove
  BY <1>8
  DEF ReleaseKillSwitch, RevokeTarget, VerifyTarget, AgeScan, ExpireFailedJob,
      RedeliverStalledJob, vars
<1> QED
  BY <1>4, <1>5, <1>6, <1>7, <1>8

LEMMA MoveIsStep == ASSUME Move PROVE [Next]_vars
BY DEF Move, HandlerMove, SweepMove, WorkerMove, OtherMove, Next

\* What each party leaves alone.
LEMMA SweepFrame ==
  ASSUME SweepMove PROVE UNCHANGED <<attempt, handler, worker, killSwitch>>
BY DEF SweepMove, SweepStep, SweepBegin, SweepPick, SweepAuthorise, SweepEnd,
       SweepEnqueue, rowVars, envVars

LEMMA OtherFrame ==
  ASSUME OtherMove PROVE UNCHANGED <<status, attempt, handler, worker>>
BY DEF OtherMove, ReleaseKillSwitch, RevokeTarget, VerifyTarget, AgeScan,
       ExpireFailedJob, RedeliverStalledJob, vars, rowVars

LEMMA HandlerFrame ==
  ASSUME HandlerMove PROVE UNCHANGED <<worker>>
BY DEF HandlerMove, UserStep, HandlerStep, StartScan, Enqueue, ReadForControl,
       AuthoriseResume, ApplyControl, Rollback, RemoveJob, EngageKillSwitch

LEMMA WorkerFrame ==
  ASSUME WorkerMove PROVE UNCHANGED <<attempt, handler, killSwitch>>
BY DEF WorkerMove, WorkerStep, FetchJob, Claim, Discover, LookBeforeCrawl,
       NoticeStop, NoticeHalt, ConfirmHalt, FinishCrawl, Checkpoint, Compare,
       Persist, MarkFailed, ReturnJob, ThrowJob, rowVars, envVars

\* A step of one worker leaves the others where they are.
LEMMA OneWorkerMoves ==
  ASSUME TypeOK, NEW w \in Worker, WorkerStep(w)
  PROVE  \A v \in Worker \ {w} : worker'[v] = worker[v]
BY DEF TypeOK, WorkerStep, FetchJob, Claim, Discover, LookBeforeCrawl,
       NoticeStop, NoticeHalt, ConfirmHalt, FinishCrawl, Checkpoint, Compare,
       Persist, MarkFailed, ReturnJob, ThrowJob, Proceed

(***************************************************************************)
(* Attempts.                                                                *)
(***************************************************************************)
StillIssued(a, s) == 1 <= a /\ a <= attempt'[s]

Kept(s) == Created(s) => attempt[s] <= attempt'[s]

LEMMA AttemptStep ==
  ASSUME TypeInv, RowsIssued, HandlersIssued, Move
  PROVE  RowsIssued' /\ \A s \in Scan : Kept(s)
<1> USE DEF TypeInv, TypeOK, RowsTyped, RowsIssued, Kept
<1>1. CASE UNCHANGED attempt
  BY <1>1
<1>2. ASSUME NEW h \in Handler, UserStep(h) \/ HandlerStep(h)
      PROVE  RowsIssued' /\ \A u \in Scan : Kept(u)
  <2>1. ASSUME NEW s \in Scan, StartScan(h, s)
        PROVE  RowsIssued' /\ \A u \in Scan : Kept(u)
    BY <2>1 DEF StartScan, Created
  <2>2. ASSUME ApplyControl(h)
        PROVE  RowsIssued' /\ \A u \in Scan : Kept(u)
    <3> DEFINE n == NextAttempt(handler[h].action, handler[h].scan)
    <3>1. handler[h].scan \in Scan
      BY <2>2 DEF ApplyControl, Located, HandlerLocated, Created
    <3>2. n \in Int /\ attempt[handler[h].scan] <= n
      BY <3>1 DEF NextAttempt
    <3>3. \/ UNCHANGED attempt
          \/ attempt' = [attempt EXCEPT ![handler[h].scan] = n]
      BY <2>2 DEF ApplyControl
    <3> HIDE DEF n
    <3> QED
      BY <3>1, <3>2, <3>3
  <2>3. ~Rollback(h)
    BY DEF Rollback, HandlersIssued
  <2> QED
    BY <1>1, <1>2, <2>1, <2>2, <2>3
    DEF UserStep, HandlerStep, Enqueue, ReadForControl, AuthoriseResume,
        RemoveJob, EngageKillSwitch, rowVars
<1> QED
  BY <1>1, <1>2, SweepFrame, WorkerFrame, OtherFrame DEF Move, HandlerMove

LEMMA IssuedStays ==
  ASSUME TypeInv, RowsIssued, HandlersIssued, Move,
         NEW s \in Scan, Created(s), NEW a \in Int, Issued(a, s)
  PROVE  StillIssued(a, s)
<1>1. attempt[s] \in Int /\ attempt'[s] \in Int /\ attempt[s] <= attempt'[s]
  <2>1. attempt' \in [Scan -> Int]
    BY TypeInvStep, MoveIsStep DEF TypeInv, TypeOK, RowsTyped
  <2> QED
    BY <2>1, AttemptStep DEF Kept, TypeInv, TypeOK, RowsTyped
<1> QED
  BY <1>1 DEF Issued, StillIssued

LEMMA JobsStep ==
  ASSUME TypeInv, Smooth, Move
  PROVE  JobsIssued'
<1> USE DEF Smooth
<1> DEFINE Good == \A s \in Scan :
                     job'[s].state # "none" =>
                       /\ Created(s)
                       /\ job'[s].attempt \in Int /\ Issued(job'[s].attempt, s)
<1>1. ASSUME Good PROVE JobsIssued'
  BY <1>1, IssuedStays DEF JobsIssued, HasJob, Issued, StillIssued
<1>old. \A s \in Scan : job[s].state # "none" =>
          /\ Created(s)
          /\ job[s].attempt \in Int /\ Issued(job[s].attempt, s)
  BY DEF TypeInv, TypeOK, Jobs, Located, JobLocated, Created, JobsIssued, HasJob
<1>2. CASE UNCHANGED job
  BY <1>1, <1>2, <1>old
<1>3. ASSUME NEW s \in Scan, Created(s), NEW a \in Int, Issued(a, s),
             job' = Added(s, a)
      PROVE  Good
  BY <1>3, <1>old DEF Added, JobAt, TypeInv, TypeOK
<1>4. ASSUME NEW s \in Scan, NEW j, job' = [job EXCEPT ![s] = j],
             \/ j.state = "none"
             \/ job[s].state # "none" /\ j.attempt = job[s].attempt
      PROVE  Good
  BY <1>4, <1>old DEF TypeInv, TypeOK
<1>5. ASSUME NEW h \in Handler, UserStep(h) \/ HandlerStep(h)
      PROVE  Good \/ UNCHANGED job
  <2>1. CASE Enqueue(h)
    <3>1. /\ Created(handler[h].scan) /\ handler[h].attempt \in Int
          /\ Issued(handler[h].attempt, handler[h].scan)
      BY <2>1
      DEF Enqueue, TypeInv, TypeOK, Located, HandlerLocated, Handlers,
          HandlersIssued
    <3> QED
      BY <2>1, <3>1, <1>3 DEF Enqueue, Created
  <2>2. ASSUME NEW s \in Scan, RemoveJob(h, s) PROVE Good \/ UNCHANGED job
    BY <2>2, <1>4 DEF RemoveJob, Removed, NoJob, JobAt
  <2> QED
    BY <1>5, <2>1, <2>2
    DEF UserStep, HandlerStep, StartScan, ReadForControl, AuthoriseResume,
        ApplyControl, Rollback, EngageKillSwitch
<1>6. ASSUME NEW r \in Sweeper, SweepStep(r) PROVE Good \/ UNCHANGED job
  <2>1. CASE SweepEnqueue(r)
    <3>1. Created(sweep[r].scan)
      BY <2>1 DEF SweepEnqueue, TypeInv, Located, SweepLocated
    <3>2. Issued(1, sweep[r].scan)
      BY <3>1 DEF Issued, RowsIssued, Created
    <3> QED
      BY <2>1, <3>1, <3>2, <1>3 DEF SweepEnqueue, Created
  <2> QED
    BY <1>6, <2>1
    DEF SweepStep, SweepBegin, SweepPick, SweepAuthorise, SweepEnd
<1>7. ASSUME NEW w \in Worker, WorkerStep(w) PROVE Good \/ UNCHANGED job
  <2>1. ASSUME NEW s \in Scan, FetchJob(w, s) PROVE Good
    BY <2>1, <1>4 DEF FetchJob, JobAt
  <2>2. CASE ReturnJob(w)
    BY <2>2, <1>4
    DEF ReturnJob, Settled, NoJob, JobAt, TypeInv, Located, WorkerLocated,
        Created
  <2>3. ~ThrowJob(w)
    BY DEF ThrowJob, WorkersIssued
  <2> QED
    BY <1>7, <2>1, <2>2, <2>3
    DEF WorkerStep, Claim, Discover, LookBeforeCrawl, NoticeStop, NoticeHalt,
        ConfirmHalt, FinishCrawl, Checkpoint, Compare, Persist, MarkFailed
<1>8. CASE OtherMove
  <2>1. ASSUME NEW s \in Scan, ExpireFailedJob(s) \/ RedeliverStalledJob(s)
        PROVE  Good
    BY <2>1, <1>4 DEF ExpireFailedJob, RedeliverStalledJob, NoJob, JobAt
  <2> QED
    BY <1>1, <1>2, <1>8, <2>1
    DEF OtherMove, ReleaseKillSwitch, RevokeTarget, VerifyTarget, AgeScan, vars
<1> QED
  BY <1>1, <1>2, <1>5, <1>6, <1>7, <1>8
  DEF Move, HandlerMove, SweepMove, WorkerMove

LEMMA HandlersStep ==
  ASSUME TypeInv, Smooth, Move
  PROVE  HandlersIssued'
<1> USE DEF Smooth
<1> DEFINE Good(h) == /\ handler'[h].pc # "rollback"
                      /\ handler'[h].pc = "enqueue" =>
                           StillIssued(handler'[h].attempt, handler'[h].scan)
<1>1. ASSUME \A h \in Handler : Good(h) PROVE HandlersIssued'
  BY <1>1 DEF HandlersIssued, Issued, StillIssued
<1>2. ASSUME NEW h \in Handler, handler'[h] = handler[h] PROVE Good(h)
  <2>1. handler[h].pc = "enqueue" =>
          Created(handler[h].scan) /\ handler[h].attempt \in Int
    BY DEF TypeInv, TypeOK, Located, HandlerLocated, Handlers
  <2> QED
    BY <1>2, <2>1, IssuedStays DEF HandlersIssued, Created
<1>3. CASE UNCHANGED handler
  BY <1>1, <1>2, <1>3
<1>4. ASSUME NEW h \in Handler, UserStep(h) \/ HandlerStep(h)
      PROVE  HandlersIssued'
  <2> USE DEF Goto, Respond
  <2>typed. handler \in [Handler -> Handlers]
    BY DEF TypeInv, TypeOK
  <2>1. ASSUME NEW r, handler' = [handler EXCEPT ![h] = r],
               r.pc \notin {"enqueue", "rollback"}
        PROVE  HandlersIssued'
    BY <2>1, <2>typed, <1>1, <1>2
  <2>2. ASSUME NEW r, handler' = [handler EXCEPT ![h] = r],
               r.pc = "enqueue", StillIssued(r.attempt, r.scan)
        PROVE  HandlersIssued'
    BY <2>2, <2>typed, <1>1, <1>2
  <2>idle. IdleHandler.pc = "idle"
    BY DEF IdleHandler, Request
  <2>3. ASSUME NEW s \in Scan, StartScan(h, s) PROVE HandlersIssued'
    <3> DEFINE r == Request("enqueue", "start", s, "ABSENT", 1, {})
    <3>1. StillIssued(1, s)
      BY <2>3 DEF StartScan, StillIssued, TypeInv, TypeOK, RowsTyped
    <3>2. r.pc = "enqueue" /\ r.attempt = 1 /\ r.scan = s
      BY DEF Request
    <3>3. handler' = [handler EXCEPT ![h] = r]
      BY <2>3 DEF StartScan
    <3> HIDE DEF r
    <3> QED
      BY <3>1, <3>2, <3>3, <2>2
  <2>4. ASSUME NEW s \in Scan, NEW action \in Controls,
               ReadForControl(h, s, action)
        PROVE  HandlersIssued'
    <3> DEFINE r == Request(IF action = "resume" THEN "authorise" ELSE "apply",
                            action, s, status[s], 0, {})
    <3>1. r.pc \in {"authorise", "apply"}
      BY DEF Request
    <3>2. handler' = [handler EXCEPT ![h] = r]
      BY <2>4 DEF ReadForControl
    <3> HIDE DEF r
    <3> QED
      BY <3>1, <3>2, <2>1
  <2>5. ASSUME EngageKillSwitch(h) PROVE HandlersIssued'
    <3> DEFINE r == Request("remove", "engage", NoOne, "ABSENT", 0,
                            {s \in Scan : Occupying(s)})
    <3>1. r.pc = "remove"
      BY DEF Request
    <3>2. UNCHANGED handler \/ handler' = [handler EXCEPT ![h] = r]
      BY <2>5 DEF EngageKillSwitch
    <3> HIDE DEF r
    <3> QED
      BY <3>1, <3>2, <2>1, <1>3
  <2>6. CASE Enqueue(h)
    BY <2>6, <2>1, <2>idle DEF Enqueue
  <2>7. CASE AuthoriseResume(h)
    <3>1. CASE handler' = [handler EXCEPT ![h] = IdleHandler]
      BY <3>1, <2>1, <2>idle
    <3>2. CASE handler' = [handler EXCEPT ![h].pc = "apply"]
      BY <3>2, <2>typed, <2>1 DEF Handlers
    <3> QED
      BY <2>7, <3>1, <3>2 DEF AuthoriseResume
  <2>8. CASE ApplyControl(h)
    <3> DEFINE s == handler[h].scan
               n == NextAttempt("resume", s)
               go == Request("enqueue", "resume", s, "ABSENT", n, {})
               gone == Request("remove", "cancel", NoOne, "ABSENT", 0, {s})
    <3>1. s \in Scan /\ handler[h].action \in {"pause", "resume", "cancel"}
      BY <2>8 DEF ApplyControl, TypeInv, Located, HandlerLocated, Created
    <3>2. \/ handler' = [handler EXCEPT ![h] = IdleHandler]
          \/ handler' = [handler EXCEPT ![h] = gone]
          \/ /\ handler' = [handler EXCEPT ![h] = go]
             /\ attempt' = [attempt EXCEPT ![s] = n]
      BY <2>8, <3>1 DEF ApplyControl
    <3>3. n = attempt[s] + 1 /\ 1 <= attempt[s] /\ attempt[s] \in Int
          /\ attempt \in [Scan -> Int]
      BY <3>1 DEF NextAttempt, RowsIssued, TypeInv, TypeOK, RowsTyped
    <3>4. /\ go.pc = "enqueue" /\ go.attempt = n /\ go.scan = s
          /\ gone.pc = "remove"
      BY DEF Request
    <3> HIDE DEF go, gone, n
    <3>5. attempt' = [attempt EXCEPT ![s] = n] => StillIssued(n, s)
      BY <3>1, <3>3 DEF StillIssued
    <3> HIDE DEF s
    <3> QED
      BY <3>2, <3>4, <3>5, <2>1, <2>2, <2>idle
  <2>9. ~Rollback(h)
    BY DEF Rollback, HandlersIssued
  <2>10. ASSUME NEW s \in Scan, RemoveJob(h, s) PROVE HandlersIssued'
    <3>1. CASE handler' = [handler EXCEPT ![h] = IdleHandler]
      BY <3>1, <2>1, <2>idle
    <3>2. CASE handler' = [handler EXCEPT ![h].todo = @ \ {s}]
      <4>1. handler'[h].pc = handler[h].pc /\ handler[h].pc = "remove"
        BY <3>2, <2>10, <2>typed DEF RemoveJob, Handlers
      <4>2. \A g \in Handler \ {h} : handler'[g] = handler[g]
        BY <3>2, <2>typed
      <4> QED
        BY <4>1, <4>2, <1>1, <1>2
    <3> QED
      BY <2>10, <3>1, <3>2 DEF RemoveJob, Dismiss
  <2> QED
    BY <1>4, <2>3, <2>4, <2>5, <2>6, <2>7, <2>8, <2>9, <2>10
    DEF UserStep, HandlerStep
<1> QED
  BY <1>3, <1>4, SweepFrame, WorkerFrame, OtherFrame DEF Move, HandlerMove

LEMMA WorkersStep ==
  ASSUME TypeInv, Smooth, Move
  PROVE  WorkersIssued'
<1> USE DEF Smooth
<1> DEFINE Good(w) ==
      /\ worker'[w].pc \notin {"failed", "throw"}
      /\ worker'[w].pc # "idle" =>
           StillIssued(worker'[w].attempt, worker'[w].scan)
      /\ worker'[w].pc \in {"look", "crawl"} =>
           StillIssued(worker'[w].run, worker'[w].scan)
<1>1. ASSUME \A w \in Worker : Good(w) PROVE WorkersIssued'
  BY <1>1 DEF WorkersIssued, Issued, StillIssued
<1>typed. worker \in [Worker -> Workers]
  BY DEF TypeInv, TypeOK
<1>old. ASSUME NEW w \in Worker, worker[w].pc # "idle"
        PROVE  /\ worker[w].scan \in Scan
               /\ StillIssued(worker[w].attempt, worker[w].scan)
               /\ worker[w].pc \in {"look", "crawl"} =>
                    StillIssued(worker[w].run, worker[w].scan)
  <2>1. /\ worker[w].attempt \in Int /\ worker[w].run \in Int
        /\ Created(worker[w].scan) /\ worker[w].scan \in Scan
    BY <1>old, <1>typed DEF Workers, TypeInv, Located, WorkerLocated, Created
  <2> QED
    BY <1>old, <2>1, IssuedStays DEF WorkersIssued
<1>2. ASSUME NEW w \in Worker, worker'[w] = worker[w] PROVE Good(w)
  BY <1>2, <1>old DEF WorkersIssued
<1>3. CASE UNCHANGED worker
  BY <1>1, <1>2, <1>3
<1>4. ASSUME NEW w \in Worker, WorkerStep(w) PROVE Good(w)
  <2> USE DEF Proceed
  <2>1. ASSUME NEW s \in Scan, FetchJob(w, s) PROVE Good(w)
    <3>1. worker'[w] = SlotAt("claim", s, job[s].attempt, 0, NoOne)
      BY <2>1, <1>typed DEF FetchJob
    <3>2. /\ Created(s) /\ job[s].attempt \in Int
          /\ Issued(job[s].attempt, s)
      BY <2>1
      DEF FetchJob, TypeInv, TypeOK, Jobs, Located, JobLocated, HasJob,
          JobsIssued, Created
    <3>3. StillIssued(job[s].attempt, s)
      BY <3>2, IssuedStays
    <3> QED
      BY <3>1, <3>3 DEF SlotAt
  <2>2. ASSUME NEW pc \in {"discover", "return", "halted", "fail", "checkpoint",
                           "compare"},
               worker[w].pc # "idle", worker' = [worker EXCEPT ![w].pc = pc]
        PROVE  Good(w)
    <3>1. /\ worker'[w].pc = pc /\ worker'[w].attempt = worker[w].attempt
          /\ worker'[w].scan = worker[w].scan
      BY <2>2, <1>typed DEF Workers
    <3> QED
      BY <2>2, <3>1, <1>old
  <2>3. CASE Claim(w)
    BY <2>3, <2>2 DEF Claim
  <2>4. CASE Discover(w)
    <3> DEFINE s == worker[w].scan
    <3>1. /\ worker'[w] = SlotAt("look", s, worker[w].attempt, attempt[s], NoOne)
          /\ worker[w].pc # "idle" /\ attempt' = attempt
      BY <2>4, <1>typed DEF Discover, rowVars
    <3>2. s \in Scan /\ StillIssued(worker[w].attempt, s)
      BY <3>1, <1>old
    <3>3. StillIssued(attempt[s], s)
      BY <3>1, <3>2 DEF StillIssued, RowsIssued, TypeInv, TypeOK, RowsTyped
    <3> HIDE DEF s
    <3> QED
      BY <3>1, <3>2, <3>3 DEF SlotAt
  <2>5. CASE LookBeforeCrawl(w)
    <3>1. CASE worker' = [worker EXCEPT ![w].pc = "crawl"]
      <4>1. /\ worker'[w].pc = "crawl" /\ worker'[w].scan = worker[w].scan
            /\ worker'[w].attempt = worker[w].attempt
            /\ worker'[w].run = worker[w].run /\ worker[w].pc = "look"
        BY <2>5, <3>1, <1>typed DEF Workers, LookBeforeCrawl
      <4> QED
        BY <4>1, <1>old
    <3> QED
      BY <2>5, <2>2, <3>1 DEF LookBeforeCrawl
  <2>6. CASE \/ NoticeStop(w) \/ NoticeHalt(w) \/ ConfirmHalt(w)
             \/ FinishCrawl(w) \/ Checkpoint(w)
    BY <2>6, <2>2
    DEF NoticeStop, NoticeHalt, ConfirmHalt, FinishCrawl, Checkpoint
  <2>7. CASE Compare(w)
    <3>1. PICK u \in Scan \cup {NoOne} :
            worker' = [worker EXCEPT ![w] =
                         SlotAt("persist", worker[w].scan, worker[w].attempt,
                                worker[w].run, u)]
      BY <2>7 DEF Compare
    <3>2. worker[w].pc # "idle"
      BY <2>7 DEF Compare
    <3>3. worker'[w] = SlotAt("persist", worker[w].scan, worker[w].attempt,
                              worker[w].run, u)
      BY <3>1, <1>typed
    <3> QED
      BY <3>2, <3>3, <1>old DEF SlotAt
  <2>8. CASE Persist(w)
    BY <2>8, <2>2 DEF Persist
  <2>9. CASE MarkFailed(w)
    BY <2>9, <2>2 DEF MarkFailed, WorkersIssued
  <2>10. CASE ReturnJob(w)
    BY <2>10, <1>typed DEF ReturnJob, IdleWorker, SlotAt
  <2>11. ~ThrowJob(w)
    BY DEF ThrowJob, WorkersIssued
  <2> QED
    BY <1>4, <2>1, <2>3, <2>4, <2>5, <2>6, <2>7, <2>8, <2>9, <2>10, <2>11
    DEF WorkerStep
<1>5. CASE WorkerMove
  BY <1>5, <1>1, <1>2, <1>4, OneWorkerMoves DEF WorkerMove, TypeInv
<1> QED
  BY <1>3, <1>5, HandlerFrame, SweepFrame, OtherFrame DEF Move

(***************************************************************************)
(* Locks.                                                                   *)
(***************************************************************************)
LEMMA LocksStep ==
  ASSUME TypeInv, Smooth, Move
  PROVE  LocksHeld'
<1> USE DEF Smooth
<1> DEFINE Held(w) == worker[w].pc # "idle" =>
                        /\ worker[w].scan \in Scan
                        /\ job[worker[w].scan].state = "active"
                        /\ job[worker[w].scan].holder = w
           Locked(s) == job[s].state = "active" => job[s].holder # NoOne
<1>typed. job \in [Scan -> Jobs] /\ worker \in [Worker -> Workers]
  BY DEF TypeInv, TypeOK
<1>old. (\A w \in Worker : Held(w)) /\ (\A s \in Scan : Locked(s))
  BY DEF LocksHeld, TypeInv, Located, WorkerLocated, Created
<1>new. ASSUME \A w \in Worker : Held(w)', \A s \in Scan : Locked(s)'
        PROVE  LocksHeld'
  BY <1>new DEF LocksHeld
<1>away. NoOne \notin Worker
  BY StoreAssumption
<1>none. NoJob.state = "none"
  BY DEF NoJob, JobAt
<1>1. CASE UNCHANGED <<job, worker>>
  BY <1>1, <1>old, <1>new
<1>2. ASSUME UNCHANGED worker, NEW s \in Scan, NEW j,
             job' = [job EXCEPT ![s] = j],
             job[s].state # "active" \/ job[s].holder = NoOne,
             j.state # "active"
      PROVE  LocksHeld'
  <2>1. \A u \in Scan : Locked(u)'
    BY <1>2, <1>old, <1>typed
  <2>2. \A w \in Worker : Held(w)'
    BY <1>2, <1>old, <1>typed, <1>away
  <2> QED
    BY <2>1, <2>2, <1>new
<1>3. ASSUME UNCHANGED worker, NEW s \in Scan, NEW a, job' = Added(s, a)
      PROVE  LocksHeld'
  BY <1>3, <1>1, <1>2 DEF Added, JobAt, HasJob
<1>4. ASSUME NEW h \in Handler, UserStep(h) \/ HandlerStep(h) PROVE LocksHeld'
  <2>0. UNCHANGED worker
    BY <1>4, HandlerFrame DEF HandlerMove
  <2>1. CASE Enqueue(h)
    BY <2>0, <2>1, <1>3
    DEF Enqueue, TypeInv, Located, HandlerLocated, Created
  <2>2. ASSUME NEW s \in Scan, RemoveJob(h, s) PROVE LocksHeld'
    BY <2>0, <2>2, <1>none, <1>1, <1>2 DEF RemoveJob, Removed
  <2> QED
    BY <1>4, <2>0, <2>1, <2>2, <1>1
    DEF UserStep, HandlerStep, StartScan, ReadForControl, AuthoriseResume,
        ApplyControl, Rollback, EngageKillSwitch
<1>5. ASSUME NEW r \in Sweeper, SweepStep(r) PROVE LocksHeld'
  <2>0. UNCHANGED worker
    BY <1>5, SweepFrame DEF SweepMove
  <2>1. CASE SweepEnqueue(r)
    BY <2>0, <2>1, <1>3
    DEF SweepEnqueue, TypeInv, Located, SweepLocated, Created
  <2> QED
    BY <1>5, <2>0, <2>1, <1>1
    DEF SweepStep, SweepBegin, SweepPick, SweepAuthorise, SweepEnd
<1>6. ASSUME NEW w \in Worker, WorkerStep(w) PROVE LocksHeld'
  <2> USE DEF Proceed
  <2>0. \A v \in Worker \ {w} : worker'[v] = worker[v]
    BY <1>6, OneWorkerMoves DEF TypeInv
  <2>1. ASSUME NEW s \in Scan, FetchJob(w, s) PROVE LocksHeld'
    <3>1. /\ job[s].state = "waiting"
          /\ job' = [job EXCEPT ![s] =
                       JobAt("active", job[s].attempt, w, job[s].stalls)]
          /\ worker'[w] = SlotAt("claim", s, job[s].attempt, 0, NoOne)
      BY <2>1, <1>typed DEF FetchJob
    <3>2. /\ job'[s].state = "active" /\ job'[s].holder = w
          /\ \A u \in Scan \ {s} : job'[u] = job[u]
      BY <3>1, <1>typed DEF JobAt
    <3>3. worker'[w].pc # "idle" /\ worker'[w].scan = s
      BY <3>1 DEF SlotAt
    <3>4. \A u \in Scan : Locked(u)'
      BY <3>2, <1>old, <1>away
    <3>5. \A v \in Worker \ {w} : Held(v)'
      BY <3>1, <3>2, <2>0, <1>old
    <3> QED
      BY <3>2, <3>3, <3>4, <3>5, <1>new
  <2>2. ASSUME ReturnJob(w) PROVE LocksHeld'
    <3> DEFINE s == worker[w].scan
    <3>1. /\ worker[w].pc = "return" /\ job' = Settled(w, s, NoJob)
          /\ worker'[w] = IdleWorker
      BY <2>2, <1>typed DEF ReturnJob
    <3>2. s \in Scan /\ job[s].holder = w
      BY <3>1, <1>old
    <3>3. /\ job'[s].state # "active"
          /\ \A u \in Scan \ {s} : job'[u] = job[u]
      BY <3>1, <3>2, <1>typed DEF Settled, NoJob, JobAt
    <3>4. worker'[w].pc = "idle"
      BY <3>1 DEF IdleWorker, SlotAt
    <3>5. \A u \in Scan : Locked(u)'
      BY <3>3, <1>old
    <3>6. \A v \in Worker \ {w} : Held(v)'
      BY <3>2, <3>3, <2>0, <1>old
    <3> QED
      BY <3>4, <3>5, <3>6, <1>new
  <2>3. ~ThrowJob(w)
    BY DEF ThrowJob, WorkersIssued
  <2>4. ASSUME UNCHANGED job, worker[w].pc # "idle",
               worker'[w].scan = worker[w].scan
        PROVE  LocksHeld'
    BY <2>0, <2>4, <1>old, <1>new
  <2>5. CASE \/ Claim(w) \/ LookBeforeCrawl(w) \/ NoticeStop(w)
             \/ NoticeHalt(w) \/ ConfirmHalt(w) \/ FinishCrawl(w)
             \/ Checkpoint(w) \/ Persist(w) \/ MarkFailed(w)
    <3>1. worker[w].pc # "idle" /\ UNCHANGED job
      BY <2>5
      DEF Claim, LookBeforeCrawl, NoticeStop, NoticeHalt, ConfirmHalt,
          FinishCrawl, Checkpoint, Persist, MarkFailed
    <3>2. \E pc : worker' = [worker EXCEPT ![w].pc = pc]
      BY <2>5
      DEF Claim, LookBeforeCrawl, NoticeStop, NoticeHalt, ConfirmHalt,
          FinishCrawl, Checkpoint, Persist, MarkFailed
    <3> QED
      BY <3>1, <3>2, <2>4, <1>typed DEF Workers
  <2>6. CASE Discover(w) \/ Compare(w)
    <3>1. /\ worker[w].pc # "idle" /\ UNCHANGED job
          /\ worker'[w].scan = worker[w].scan
      BY <2>6, <1>typed DEF Discover, Compare, SlotAt
    <3> QED
      BY <3>1, <2>4
  <2> QED
    BY <1>6, <2>1, <2>2, <2>3, <2>5, <2>6 DEF WorkerStep
<1>7. CASE OtherMove
  <2>0. UNCHANGED worker
    BY <1>7, OtherFrame
  <2>1. ASSUME NEW s \in Scan, ExpireFailedJob(s) PROVE LocksHeld'
    BY <2>0, <2>1, <1>none, <1>2 DEF ExpireFailedJob
  <2>2. ASSUME NEW s \in Scan PROVE ~RedeliverStalledJob(s)
    BY <1>old DEF RedeliverStalledJob
  <2> QED
    BY <1>7, <2>0, <2>1, <2>2, <1>1
    DEF OtherMove, ReleaseKillSwitch, RevokeTarget, VerifyTarget, AgeScan, vars
<1> QED
  BY <1>4, <1>5, <1>6, <1>7 DEF Move, HandlerMove, SweepMove, WorkerMove

(***************************************************************************)
(* The first run.                                                           *)
(***************************************************************************)
FirstRun(s) == status[s] = "RUNNING" /\ attempt[s] = 1

\* A scan is in its first run after a step only if it was before, or by the
\* claim of the worker that now runs it.
LEMMA FirstRunBegins ==
  ASSUME TypeInv, Smooth, Move, NEW s \in Scan, FirstRun(s)'
  PROVE  \/ FirstRun(s)
         \/ \E w \in Worker : Claim(w) /\ Claimable(w) /\ worker[w].scan = s
<1> USE DEF Smooth, FirstRun, TypeInv, TypeOK, RowsTyped
<1>1. CASE UNCHANGED <<status, attempt>>
  BY <1>1
<1>2. ASSUME NEW h \in Handler, UserStep(h) \/ HandlerStep(h) PROVE FirstRun(s)
  <2>1. ASSUME NEW u \in Scan, StartScan(h, u) PROVE FirstRun(s)
    BY <2>1 DEF StartScan
  <2>2. ASSUME ApplyControl(h) PROVE FirstRun(s)
    <3> DEFINE r == handler[h]
    <3>1. r.scan \in Scan /\ r.action \in {"pause", "resume", "cancel"}
      BY <2>2 DEF ApplyControl, Located, HandlerLocated, Created
    <3>2. CASE r.action = "resume"
      BY <2>2, <3>1, <3>2 DEF ApplyControl, NextAttempt, RowsIssued
    <3>3. CASE r.action # "resume"
      BY <2>2, <3>1, <3>3 DEF ApplyControl, NextAttempt, Planned
    <3> QED
      BY <3>2, <3>3
  <2>3. ASSUME EngageKillSwitch(h) PROVE FirstRun(s)
    BY <2>3 DEF EngageKillSwitch
  <2>4. ~Rollback(h)
    BY DEF Rollback, HandlersIssued
  <2> QED
    BY <1>1, <1>2, <2>1, <2>2, <2>3, <2>4
    DEF UserStep, HandlerStep, Enqueue, ReadForControl, AuthoriseResume,
        RemoveJob, rowVars
<1>3. ASSUME NEW r \in Sweeper, SweepStep(r) PROVE FirstRun(s)
  <2>1. CASE SweepEnd(r)
    BY <2>1 DEF SweepEnd
  <2> QED
    BY <1>1, <1>3, <2>1
    DEF SweepStep, SweepBegin, SweepPick, SweepAuthorise, SweepEnqueue, rowVars
<1>4. ASSUME NEW w \in Worker, WorkerStep(w)
      PROVE  \/ FirstRun(s)
             \/ Claim(w) /\ Claimable(w) /\ worker[w].scan = s
  <2>1. CASE Claim(w)
    BY <2>1 DEF Claim
  <2>2. CASE Persist(w) \/ MarkFailed(w)
    BY <2>2 DEF Persist, MarkFailed, RunningBecomes
  <2> QED
    BY <1>1, <1>4, <2>1, <2>2
    DEF WorkerStep, FetchJob, Discover, LookBeforeCrawl, NoticeStop, NoticeHalt,
        ConfirmHalt, FinishCrawl, Checkpoint, Compare, ReturnJob, ThrowJob,
        rowVars
<1> QED
  BY <1>1, <1>2, <1>3, <1>4, OtherFrame
  DEF Move, HandlerMove, SweepMove, WorkerMove

\* Whoever is at the first run of a scan stays at it while the run goes on.
LEMMA FirstRunStaysWatched ==
  ASSUME TypeInv, KillSwitchClears, Smooth, Move,
         NEW s \in Scan, FirstRun(s), FirstRun(s)',
         NEW w \in Worker, Busy(w, s)
  PROVE  Busy(w, s)'
<1> USE DEF Smooth, Busy, FirstRun, Proceed
<1>typed. worker \in [Worker -> Workers]
  BY DEF TypeInv, TypeOK
<1>0. CASE worker'[w] = worker[w]
  BY <1>0
<1>1. ASSUME WorkerStep(w) PROVE Busy(w, s)'
  <2>0. worker[w].scan = s /\ worker[w].pc \notin {"idle", "return", "throw"}
    OBVIOUS
  <2>issued. /\ worker[w].attempt = 1
             /\ worker[w].pc \in {"look", "crawl"} => worker[w].run = 1
    BY <1>typed, <2>0 DEF WorkersIssued, Issued, Workers
  <2>goes. ~ShouldStop(w)
              \/ worker[w].pc \notin {"look", "crawl"}
    BY <2>0, <2>issued DEF ShouldStop
  <2>1. ASSUME NEW pc \in {"discover", "crawl", "halted", "fail", "checkpoint",
                           "compare"},
               worker' = [worker EXCEPT ![w].pc = pc]
        PROVE  Busy(w, s)'
    BY <2>0, <2>1, <1>typed DEF Workers
  <2>2. CASE Claim(w)
    <3>1. Claimable(w)
      BY <2>0, <2>issued DEF Claimable
    <3> QED
      BY <2>1, <2>2, <3>1 DEF Claim
  <2>3. CASE Discover(w)
    BY <2>0, <2>3, <1>typed DEF Discover, SlotAt
  <2>4. CASE LookBeforeCrawl(w)
    BY <2>1, <2>4, <2>goes DEF LookBeforeCrawl
  <2>5. CASE NoticeHalt(w) \/ FinishCrawl(w)
    BY <2>1, <2>5 DEF NoticeHalt, FinishCrawl
  <2>6. ~NoticeStop(w)
    BY <2>goes DEF NoticeStop
  <2>7. CASE ConfirmHalt(w)
    <3>1. ~Halted
      BY DEF KillSwitchClears, Occupying, OccupyingStatuses
    <3> QED
      BY <2>1, <2>7, <3>1 DEF ConfirmHalt
  <2>8. CASE Checkpoint(w)
    BY <2>0, <2>1, <2>8 DEF Checkpoint
  <2>9. CASE Compare(w)
    BY <2>0, <2>9, <1>typed DEF Compare, SlotAt
  <2>10. CASE Persist(w)
    <3>1. status' = [status EXCEPT ![s] = "COMPLETED"]
      BY <2>0, <2>10 DEF Persist, MayComplete
    <3> QED
      BY <3>1 DEF TypeInv, TypeOK, RowsTyped
  <2>11. CASE MarkFailed(w)
    <3>1. status' = [status EXCEPT ![s] = "FAILED"]
      BY <2>0, <2>11 DEF MarkFailed, RunningBecomes
    <3> QED
      BY <3>1 DEF TypeInv, TypeOK, RowsTyped
  <2>12. ~\E u \in Scan : FetchJob(w, u)
    BY <2>0 DEF FetchJob
  <2>13. ~ReturnJob(w) /\ ~ThrowJob(w)
    BY <2>0 DEF ReturnJob, ThrowJob
  <2> QED
    BY <1>1, <2>2, <2>3, <2>4, <2>5, <2>6, <2>7, <2>8, <2>9, <2>10, <2>11,
       <2>12, <2>13
    DEF WorkerStep
<1>2. CASE WorkerMove
  BY <1>0, <1>1, <1>2, OneWorkerMoves DEF WorkerMove, TypeInv
<1> QED
  BY <1>0, <1>2, HandlerFrame, SweepFrame, OtherFrame DEF Move

LEMMA WatchedStep ==
  ASSUME TypeInv, KillSwitchClears, Smooth, Move
  PROVE  FirstRunWatched'
<1> SUFFICES ASSUME NEW s \in Scan, FirstRun(s)'
             PROVE  \E w \in Worker : Busy(w, s)'
  BY DEF FirstRunWatched, FirstRun
<1>1. CASE FirstRun(s)
  <2>1. PICK w \in Worker : Busy(w, s)
    BY <1>1 DEF FirstRun, Smooth, FirstRunWatched
  <2> QED
    BY <1>1, <2>1, FirstRunStaysWatched
<1>2. ASSUME NEW w \in Worker, Claim(w), Claimable(w), worker[w].scan = s
      PROVE  Busy(w, s)'
  <2>1. worker' = [worker EXCEPT ![w].pc = "discover"]
    BY <1>2 DEF Claim, Proceed
  <2> QED
    BY <1>2, <2>1 DEF Busy, TypeInv, TypeOK, Workers
<1> QED
  BY <1>1, <1>2, FirstRunBegins

-----------------------------------------------------------------------------
LEMMA SmoothInit == Init => Smooth
<1> SUFFICES ASSUME Init PROVE Smooth
  OBVIOUS
<1>1. LocksHeld
  BY DEF Init, LocksHeld, IdleWorker, SlotAt, NoJob, JobAt
<1>2. RowsIssued /\ JobsIssued
  BY DEF Init, RowsIssued, JobsIssued, HasJob, NoJob, JobAt
<1>3. HandlersIssued
  BY DEF Init, HandlersIssued, IdleHandler, Request
<1>4. WorkersIssued
  BY DEF Init, WorkersIssued, IdleWorker, SlotAt
<1>5. FirstRunWatched
  BY DEF Init, FirstRunWatched
<1> QED
  BY <1>1, <1>2, <1>3, <1>4, <1>5 DEF Smooth

LEMMA NothingFailedStep ==
  ASSUME TypeInv, KillSwitchClears, NothingFailed, [Next]_vars
  PROVE  NothingFailed'
<1> SUFFICES ASSUME faults' = 0 PROVE Smooth'
  BY DEF NothingFailed
<1>1. faults = 0 /\ Move
  BY UnfaultedStep DEF TypeInv
<1>2. Smooth
  BY <1>1 DEF NothingFailed
<1>3. RowsIssued'
  BY <1>1, <1>2, AttemptStep DEF Smooth
<1> QED
  BY <1>1, <1>2, <1>3, LocksStep, JobsStep, HandlersStep, WorkersStep,
     WatchedStep
  DEF Smooth

LEMMA NothingFailedInvariant == Spec => []NothingFailed
<1>1. Init => NothingFailed
  BY SmoothInit DEF NothingFailed
<1>2. TypeInv /\ KillSwitchClears /\ NothingFailed /\ [Next]_vars
        => NothingFailed'
  BY NothingFailedStep
<1> QED
  BY <1>1, <1>2, TypeInvariant, KillSwitchHolds, PTL DEF Spec

\* However starts, resumes, reconciler runs and deliveries overlap, one worker
\* at a time works on a scan as long as nothing failed: the lock its worker
\* holds keeps the job in the queue, where it absorbs every other delivery.
THEOREM OneWorkerHolds == Spec => []OneWorkerPerScan
<1>1. NothingFailed => OneWorkerPerScan
  BY DEF NothingFailed, Smooth, LocksHeld, OneWorkerPerScan, Busy
<1> QED
  BY <1>1, NothingFailedInvariant, PTL

\* A scan in its first run has somebody who moves it, as long as nothing
\* failed: no stop check, late claim or kill-switch read drops it.
THEOREM DrivenHolds == Spec => []DrivenUntilResumed
<1>1. NothingFailed => DrivenUntilResumed
  BY DEF NothingFailed, Smooth, FirstRunWatched, DrivenUntilResumed, Driven
<1> QED
  BY <1>1, NothingFailedInvariant, PTL

=============================================================================
