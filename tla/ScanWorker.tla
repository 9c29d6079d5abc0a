------------------------------ MODULE ScanWorker ------------------------------
(***************************************************************************)
(* The scan worker: BullMQ's delivery (apps/worker/src/worker.ts), the       *)
(* orchestrator's pipeline (apps/worker/src/orchestrator) and the places     *)
(* where the engine looks whether it should stop (apps/worker/src/engine).   *)
(* One worker here is one of the concurrent job slots of a worker process.   *)
(***************************************************************************)
EXTENDS ScanStore

SlotAt(pc, s, a, run, prev) ==
  [pc |-> pc, scan |-> s, attempt |-> a, run |-> run, base |-> prev]

IdleWorker == SlotAt("idle", NoOne, 0, 0, NoOne)

Proceed(w, pc) == worker' = [worker EXCEPT ![w].pc = pc]

(***************************************************************************)
(* Delivery                                                                *)
(***************************************************************************)
FetchJob(w, s) ==
  /\ worker[w].pc = "idle" /\ job[s].state = "waiting"
  /\ job' = [job EXCEPT ![s] =
               JobAt("active", job[s].attempt, w, job[s].stalls)]
  /\ worker' = [worker EXCEPT ![w] =
                  SlotAt("claim", s, job[s].attempt, 0, NoOne)]
  /\ NoFault
  /\ UNCHANGED <<rowVars, resultVars, envVars, handler, sweep>>

\* The processor returned: the job is completed, and so removed.
ReturnJob(w) ==
  /\ worker[w].pc = "return"
  /\ job' = Settled(w, worker[w].scan, NoJob)
  /\ worker' = [worker EXCEPT ![w] = IdleWorker]
  /\ NoFault
  /\ UNCHANGED <<rowVars, resultVars, envVars, handler, sweep>>

\* The processor threw: attempts is 1, so the job is failed, and kept.
ThrowJob(w) ==
  LET s == worker[w].scan IN
  /\ worker[w].pc = "throw"
  /\ job' = Settled(w, s, JobAt("failed", job[s].attempt, NoOne, 0))
  /\ worker' = [worker EXCEPT ![w] = IdleWorker]
  /\ NoFault
  /\ UNCHANGED <<rowVars, resultVars, envVars, handler, sweep>>

\* removeOnFail, had the jobs been added without it.
ExpireFailedJob_Never(s) == FALSE /\ UNCHANGED vars

\* removeOnFail: an old failed job is dropped.
ExpireFailedJob(s) ==
  /\ job[s].state = "failed"
  /\ job' = [job EXCEPT ![s] = NoJob]
  /\ NoFault
  /\ UNCHANGED <<rowVars, resultVars, envVars, handler, sweep, worker>>

\* BullMQ's stalled check: an active job nobody holds the lock of is delivered
\* again, and failed once that has happened too often.
RedeliverStalledJob(s) ==
  /\ job[s].state = "active" /\ job[s].holder = NoOne
  /\ job' = [job EXCEPT ![s] =
               IF job[s].stalls < MaxStalledCount
                 THEN JobAt("waiting", job[s].attempt, NoOne, job[s].stalls + 1)
                 ELSE JobAt("failed", job[s].attempt, NoOne, 0)]
  /\ NoFault
  /\ UNCHANGED <<rowVars, resultVars, envVars, handler, sweep, worker>>

Unlocked(w) ==
  [s \in Scan |-> IF job[s].holder = w THEN [job[s] EXCEPT !.holder = NoOne]
                                       ELSE job[s]]

\* The process stops renewing its lock for too long, and carries on.
LoseLock(w) ==
  /\ \E s \in Scan : job[s].holder = w
  /\ job' = Unlocked(w)
  /\ Fault
  /\ UNCHANGED <<rowVars, resultVars, envVars, handler, sweep, worker>>

\* The process dies, and is started again.
Crash(w) ==
  /\ worker[w].pc # "idle"
  /\ job' = Unlocked(w)
  /\ worker' = [worker EXCEPT ![w] = IdleWorker]
  /\ Fault
  /\ UNCHANGED <<rowVars, resultVars, envVars, handler, sweep>>

(***************************************************************************)
(* processScanJob                                                          *)
(***************************************************************************)
\* The claim, had it compared the attempt alone.
Claimable_AnyStatus(w) == attempt[worker[w].scan] = worker[w].attempt

\* The claim: only a QUEUED scan, or a RUNNING one at exactly this attempt.
Claimable(w) ==
  /\ attempt[worker[w].scan] = worker[w].attempt
  /\ status[worker[w].scan] \in {"QUEUED", "RUNNING"}

Claim(w) ==
  LET s == worker[w].scan IN
  /\ worker[w].pc = "claim"
  /\ IF Claimable(w)
       THEN status' = [status EXCEPT ![s] = "RUNNING"] /\ Proceed(w, "discover")
       ELSE UNCHANGED status /\ Proceed(w, "return")
  /\ NoFault
  /\ UNCHANGED <<attempt, age, resultVars, envVars, job, handler, sweep>>

\* discover reads the row again, and the engine's stop check compares with the
\* attempt of that row, not with the attempt of the job.
Discover(w) ==
  /\ worker[w].pc = "discover"
  /\ worker' = [worker EXCEPT ![w] =
                  SlotAt("look", worker[w].scan, worker[w].attempt,
                         attempt[worker[w].scan], NoOne)]
  /\ NoFault
  /\ UNCHANGED <<rowVars, resultVars, envVars, job, handler, sweep>>

\* The stop check, had attempts been counted from 0 on one side.
ShouldStop_OffByOne(w) ==
  \/ status[worker[w].scan] # "RUNNING"
  \/ attempt[worker[w].scan] # worker[w].run + 1

\* stopReader: the row is no longer RUNNING at the attempt this run is for.
ShouldStop(w) ==
  \/ status[worker[w].scan] # "RUNNING"
  \/ attempt[worker[w].scan] # worker[w].run

\* Before its first request the engine reads the kill switch and the row.
LookBeforeCrawl(w) ==
  /\ worker[w].pc = "look"
  /\ Proceed(w, IF Halted THEN "halted"
                ELSE IF ShouldStop(w) THEN "return" ELSE "crawl")
  /\ NoFault
  /\ UNCHANGED <<rowVars, resultVars, envVars, job, handler, sweep>>

\* Between requests it reads the kill switch every time, and the row at most
\* every STATUS_POLL_MS: it may send requests, or finish, without noticing.
NoticeStop(w) ==
  /\ worker[w].pc = "crawl" /\ ShouldStop(w)
  /\ Proceed(w, "return")
  /\ NoFault
  /\ UNCHANGED <<rowVars, resultVars, envVars, job, handler, sweep>>

NoticeHalt(w) ==
  /\ worker[w].pc = "crawl" /\ Halted
  /\ Proceed(w, "halted")
  /\ NoFault
  /\ UNCHANGED <<rowVars, resultVars, envVars, job, handler, sweep>>

\* The kill-switch read fails closed: a database error looks like the switch.
MisreadHalt(w) ==
  /\ worker[w].pc \in {"look", "crawl"}
  /\ Proceed(w, "halted")
  /\ Fault
  /\ UNCHANGED <<rowVars, resultVars, envVars, job, handler, sweep>>

\* killSwitchConfirmed: nobody else moves the row of a scan that was stopped
\* by a failed read.
ConfirmHalt(w) ==
  /\ worker[w].pc = "halted"
  /\ Proceed(w, IF Halted THEN "return" ELSE "fail")
  /\ NoFault
  /\ UNCHANGED <<rowVars, resultVars, envVars, job, handler, sweep>>

FinishCrawl(w) ==
  /\ worker[w].pc = "crawl"
  /\ Proceed(w, "checkpoint")
  /\ NoFault
  /\ UNCHANGED <<rowVars, resultVars, envVars, job, handler, sweep>>

\* updateWhileRunning
Checkpoint(w) ==
  /\ worker[w].pc = "checkpoint"
  /\ Proceed(w, IF status[worker[w].scan] = "RUNNING" THEN "compare"
                                                      ELSE "return")
  /\ NoFault
  /\ UNCHANGED <<rowVars, resultVars, envVars, job, handler, sweep>>

\* previousScanFingerprints: the latest other COMPLETED scan of the target.
\* Scans are identified with the findings they stored.
Completed(t) == {u \in Scan : TargetOf[u] = t /\ status[u] = "COMPLETED"}

IsLatest(u, others) ==
  IF others = {} THEN u = NoOne
  ELSE u \in others /\ \A v \in others : storedAt[v] <= storedAt[u]

Compare(w) ==
  LET s == worker[w].scan IN
  /\ worker[w].pc = "compare"
  /\ \E u \in Scan \cup {NoOne} :
       /\ IsLatest(u, Completed(TargetOf[s]) \ {s})
       /\ worker' = [worker EXCEPT ![w] =
                       SlotAt("persist", s, worker[w].attempt, worker[w].run,
                              u)]
  /\ NoFault
  /\ UNCHANGED <<rowVars, resultVars, envVars, job, handler, sweep>>

\* The completion, had it not compared the status.
MayComplete_Unguarded(s) == TRUE

\* persistResults: status, findings and diff in one transaction, or nothing.
MayComplete(s) == status[s] = "RUNNING"

Persist(w) ==
  LET s == worker[w].scan IN
  /\ worker[w].pc = "persist"
  /\ IF MayComplete(s)
       THEN /\ status' = [status EXCEPT ![s] = "COMPLETED"]
            /\ clock' = clock + 1
            /\ storedAt' = [storedAt EXCEPT ![s] = clock + 1]
            /\ base' = [base EXCEPT ![s] = worker[w].base]
       ELSE UNCHANGED <<status, resultVars>>
  /\ Proceed(w, "return")
  /\ NoFault
  /\ UNCHANGED <<attempt, age, envVars, job, handler, sweep>>

\* markFailed, and then: return if the scan was merely stopped, else rethrow.
MarkFailed(w) ==
  /\ worker[w].pc \in {"fail", "failed"}
  /\ RunningBecomes(worker[w].scan, "FAILED")
  /\ Proceed(w, IF worker[w].pc = "fail" THEN "return" ELSE "throw")
  /\ NoFault
  /\ UNCHANGED <<attempt, age, resultVars, envVars, job, handler, sweep>>

\* Anything in the pipeline may throw.  An error before the claim, or in the
\* catch's own markFailed, goes straight to BullMQ; killSwitchConfirmed answers
\* an error of its own with FALSE.
PipelineThrows(w) ==
  /\ worker[w].pc \in {"claim", "discover", "look", "crawl", "halted",
                       "checkpoint", "compare", "persist", "fail", "failed"}
  /\ Proceed(w, CASE worker[w].pc \in {"claim", "failed"} -> "throw"
                  [] worker[w].pc = "halted" -> "fail"
                  [] OTHER -> "failed")
  /\ Fault
  /\ UNCHANGED <<rowVars, resultVars, envVars, job, handler, sweep>>

WorkerStep(w) ==
  \/ \E s \in Scan : FetchJob(w, s)
  \/ Claim(w)
  \/ Discover(w)
  \/ LookBeforeCrawl(w)
  \/ NoticeStop(w)
  \/ NoticeHalt(w)
  \/ ConfirmHalt(w)
  \/ FinishCrawl(w)
  \/ Checkpoint(w)
  \/ Compare(w)
  \/ Persist(w)
  \/ MarkFailed(w)
  \/ ReturnJob(w)
  \/ ThrowJob(w)

WorkerFault(w) ==
  \/ MisreadHalt(w)
  \/ PipelineThrows(w)
  \/ LoseLock(w)
  \/ Crash(w)

=============================================================================
