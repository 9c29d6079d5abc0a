------------------------------ MODULE ScanSystem ------------------------------
(***************************************************************************)
(* The API, the reconciler and the workers over the database and the queue,  *)
(* and what must hold of all of them together.                               *)
(***************************************************************************)
EXTENDS ScanApi, ScanReconciler, ScanWorker

Init ==
  /\ status = [s \in Scan |-> "ABSENT"]
  /\ attempt = [s \in Scan |-> 1]
  /\ age = [s \in Scan |-> "fresh"]
  /\ storedAt = [s \in Scan |-> 0]
  /\ base = [s \in Scan |-> NoOne]
  /\ clock = 0
  /\ killSwitch = "released"
  /\ scannable \in SUBSET Target
  /\ job = [s \in Scan |-> NoJob]
  /\ handler = [h \in Handler |-> IdleHandler]
  /\ sweep = [r \in Sweeper |-> IdleSweep]
  /\ worker = [w \in Worker |-> IdleWorker]
  /\ faults = 0

Next ==
  \/ \E h \in Handler : UserStep(h) \/ HandlerStep(h) \/ HandlerFault(h)
  \/ ReleaseKillSwitch
  \/ \E t \in Target : RevokeTarget(t) \/ VerifyTarget(t)
  \/ \E r \in Sweeper : SweepStep(r) \/ SweepFault(r)
  \/ \E w \in Worker : WorkerStep(w) \/ WorkerFault(w)
  \/ \E s \in Scan : AgeScan(s) \/ ExpireFailedJob(s) \/ RedeliverStalledJob(s)

Spec == Init /\ [][Next]_vars

\* The scheduler keeps starting reconciler runs and a run goes through its
\* list; workers take and finish jobs; time passes; BullMQ checks for stalled
\* jobs and drops old failed ones.  Nothing is assumed of the users.
Fairness ==
  /\ \A h \in Handler : WF_vars(HandlerStep(h))
  /\ \A r \in Sweeper : WF_vars(SweepStep(r))
  /\ \A w \in Worker : WF_vars(WorkerStep(w))
  /\ \A s \in Scan : /\ WF_vars(AgeScan(s))
                     /\ WF_vars(ExpireFailedJob(s))
                     /\ WF_vars(RedeliverStalledJob(s))

FairSpec == Spec /\ Fairness

(***************************************************************************)
(* Types                                                                   *)
(***************************************************************************)
JobStates == {"none", "waiting", "active", "failed"}

HandlerPCs == {"idle", "enqueue", "rollback", "authorise", "apply", "remove"}
SweepPCs   == {"idle", "pick", "authorise", "end", "enqueue"}
WorkerPCs  == {"idle", "claim", "discover", "look", "crawl", "halted",
               "checkpoint", "compare", "persist", "fail", "failed", "return",
               "throw"}

RowsTyped ==
  /\ status \in [Scan -> ScanStatuses \cup {"ABSENT"}]
  /\ attempt \in [Scan -> Int]
  /\ age \in [Scan -> {"fresh", "lost", "abandoned"}]
  /\ storedAt \in [Scan -> Nat]
  /\ base \in [Scan -> Scan \cup {NoOne}]
  /\ clock \in Nat
  /\ killSwitch \in {"engaged", "released"}
  /\ scannable \in SUBSET Target
  /\ faults \in Nat

Jobs == [state : JobStates, attempt : Int, holder : Worker \cup {NoOne},
         stalls : Nat]

Handlers ==
  [pc : HandlerPCs,
   action : {"none", "start", "pause", "resume", "cancel", "engage"},
   scan : Scan \cup {NoOne}, seen : ScanStatuses \cup {"ABSENT"},
   attempt : Int, todo : SUBSET Scan]

Sweeps == [pc : SweepPCs, scan : Scan \cup {NoOne}, todo : SUBSET Scan,
           old : SUBSET Scan]

Workers == [pc : WorkerPCs, scan : Scan \cup {NoOne}, attempt : Int,
            run : Int, base : Scan \cup {NoOne}]

\* Every variable holds a value of its type, whatever the interleaving.
TypeOK ==
  /\ RowsTyped
  /\ job \in [Scan -> Jobs]
  /\ handler \in [Handler -> Handlers]
  /\ sweep \in [Sweeper -> Sweeps]
  /\ worker \in [Worker -> Workers]

(***************************************************************************)
(* Safety                                                                  *)
(***************************************************************************)
\* While the kill switch is engaged no scan is queued, running or paused,
\* although starts, resumes, rollbacks and claims overlap the halt and only
\* some of them share its serializable transactions (ADR-0008).
KillSwitchClears == Halted => \A s \in Scan : ~Occupying(s)

\* One active scan per target.
OneActivePerTarget ==
  \A s, u \in Scan :
    TargetOf[s] = TargetOf[u] /\ Occupying(s) /\ Occupying(u) => s = u

\* An organisation never holds more slots than its quota, paused scans
\* included, so a resume never has to ask for one.
QuotaRespected ==
  \A o \in Org : Cardinality(ActiveOf(o)) <= MaxConcurrent[o]

\* The NEW / PERSISTING / RESOLVED diff of a completed scan is against the
\* scan of the same target that completed just before it.  The previous scan
\* is read outside the transaction that writes the diff.
DiffAgainstPrevious ==
  \A s \in Scan : storedAt[s] > 0 =>
    LET earlier == {u \in Scan : /\ TargetOf[u] = TargetOf[s]
                                 /\ 0 < storedAt[u]
                                 /\ storedAt[u] < storedAt[s]}
    IN IF earlier = {} THEN base[s] = NoOne
       ELSE /\ base[s] \in earlier
            /\ \A u \in earlier : storedAt[u] <= storedAt[base[s]]

(***************************************************************************)
(* Action properties                                                       *)
(***************************************************************************)
\* Terminal states are absorbing: no late cancel, rollback, claim, failure or
\* completion moves a finished scan.
TerminalAbsorbing ==
  [][\A s \in Scan : status[s] \in TerminalStatuses => status'[s] = status[s]]_vars

\* No writer asks `canTransition`, each has a guard of its own, and yet every
\* change of status is an edge of the graph, but for the kill switch, which
\* aborts queued and paused scans too as it engages.
ChangesFollowGraph ==
  [][\A s \in Scan : status[s] \notin {"ABSENT", status'[s]} =>
       \/ CanTransition(status[s], status'[s])
       \/ Occupying(s) /\ status'[s] = "ABORTED_SAFETY" /\ ~Halted /\ (Halted)'
    ]_vars

\* Findings and diff are stored in the step that completes the scan and never
\* again, however often its job was delivered and by however many workers.
ResultsOnce ==
  [][\A s \in Scan :
       /\ storedAt'[s] # storedAt[s] <=>
            status[s] # "COMPLETED" /\ status'[s] = "COMPLETED"
       /\ base'[s] # base[s] => storedAt'[s] # storedAt[s]]_vars

(***************************************************************************)
(* Refinement                                                              *)
(***************************************************************************)
Promise == INSTANCE ScanJobs WITH status <- status, storedAt <- storedAt,
             base <- base, clock <- clock, killSwitch <- killSwitch

\* The system implements what ScanJobs promises.
ImplementsScanJobs == Promise!Spec

(***************************************************************************)
(* Who is working                                                          *)
(***************************************************************************)
Busy(w, s) == worker[w].scan = s /\ worker[w].pc \notin {"idle", "return", "throw"}

Delivering(h, s) ==
  handler[h].scan = s /\ handler[h].pc \in {"enqueue", "rollback"}

\* Something can still move a RUNNING scan: a request that is about to hand it
\* over, a worker, or a job that names its attempt.
Driven(s) ==
  \/ \E h \in Handler : Delivering(h, s)
  \/ \E w \in Worker : Busy(w, s)
  \/ job[s].state \in {"waiting", "active"} /\ job[s].attempt = attempt[s]

\* No scan reads RUNNING while nothing will ever run it.
RunningIsDriven == \A s \in Scan : status[s] = "RUNNING" => Driven(s)

\* The same, for a scan that was never resumed and as long as nothing failed.
DrivenUntilResumed ==
  faults = 0 =>
    \A s \in Scan : status[s] = "RUNNING" /\ attempt[s] = 1 => Driven(s)

\* As long as nothing failed, a scan is worked on by one worker at a time:
\* however its start and its resumes overlap, none of them queues a
\* second job beside the one that is being worked on.
OneWorkerPerScan ==
  faults = 0 =>
    \A s \in Scan, v, w \in Worker : Busy(v, s) /\ Busy(w, s) => v = w

(***************************************************************************)
(* Liveness                                                                *)
(***************************************************************************)
\* No scan stays QUEUED: a worker starts it, or the reconciler hands it over
\* again or ends it.
QueuedLeaves ==
  \A s \in Scan : status[s] = "QUEUED" ~> status[s] # "QUEUED"

\* The queue does not keep the job of a scan that has ended.
QueueDrains ==
  \A s \in Scan : status[s] \in TerminalStatuses ~> ~HasJob(s)

\* A running scan ends or is paused, where nothing fails and nobody resumes it.
RunningLeaves ==
  [](faults = 0) =>
    \A s \in Scan : [](attempt[s] = 1) =>
      (status[s] = "RUNNING" ~> status[s] # "RUNNING")

\* Nothing gets stuck on the way: not the scan that waits, nor the one that runs,
\* nor the job of one that has ended (the reconciler, the worker and BullMQ).
ScansMoveOn == QueuedLeaves /\ QueueDrains /\ RunningLeaves

=============================================================================
