---------------------------- MODULE ScanReconciler ----------------------------
(***************************************************************************)
(* The reconciler (apps/api/src/modules/scans/scan-reconciler.ts), which the *)
(* scheduler runs every few minutes.  It hands a QUEUED row whose job the   *)
(* queue lost back to the queue, or ends it.  One run is a sweeper; the     *)
(* file claims that runs may overlap each other and the API.                *)
(***************************************************************************)
EXTENDS ScanStore

RunAt(pc, s, todo, old) ==
  [pc |-> pc, scan |-> s, todo |-> todo, old |-> old]

IdleSweep == RunAt("idle", NoOne, {}, {})

\* One candidate is dealt with: on to the next, or the run is over.
Continue(r, todo) ==
  sweep' = [sweep EXCEPT ![r] =
              IF todo = {} THEN IdleSweep
                           ELSE RunAt("pick", NoOne, todo, sweep[r].old)]

NextCandidate(r) == Continue(r, sweep[r].todo)

\* Time passes for a row that is still queued: LOST_AFTER_MS, then
\* ABANDONED_AFTER_MS.
AgeScan(s) ==
  /\ status[s] = "QUEUED" /\ age[s] # "abandoned"
  /\ age' = [age EXCEPT ![s] = IF @ = "fresh" THEN "lost" ELSE "abandoned"]
  /\ NoFault
  /\ UNCHANGED <<status, attempt, resultVars, envVars, job, handler, sweep,
                 worker>>

\* The switch and the list of candidates are read once, and `now` with them: a
\* row's age is what it was when the run began.
SweepBegin(r) ==
  LET lost == {s \in Scan : status[s] = "QUEUED" /\ age[s] # "fresh"} IN
  /\ sweep[r].pc = "idle" /\ ~Halted /\ lost # {}
  /\ sweep' = [sweep EXCEPT ![r] =
                 RunAt("pick", NoOne, lost,
                       {s \in lost : age[s] = "abandoned"})]
  /\ NoFault
  /\ UNCHANGED <<rowVars, resultVars, envVars, job, handler, worker>>

\* hasScanJob: a job the queue still holds is a capacity problem, not a lost
\* row.  Otherwise reconcileOne looks at the row's age first.
SweepPick(r, s) ==
  LET left == sweep[r].todo \ {s} IN
  /\ sweep[r].pc = "pick" /\ s \in sweep[r].todo
  /\ IF HasJob(s)
       THEN Continue(r, left)
       ELSE sweep' = [sweep EXCEPT ![r] =
              RunAt(IF s \in sweep[r].old THEN "end" ELSE "authorise",
                    s, left, sweep[r].old)]
  /\ NoFault
  /\ UNCHANGED <<rowVars, resultVars, envVars, job, handler, worker>>

\* isStillScannable
SweepAuthorise(r) ==
  /\ sweep[r].pc = "authorise"
  /\ sweep' = [sweep EXCEPT ![r].pc =
                 IF TargetOf[sweep[r].scan] \in scannable THEN "enqueue"
                                                       ELSE "end"]
  /\ NoFault
  /\ UNCHANGED <<rowVars, resultVars, envVars, job, handler, worker>>

\* endScan, had it guarded on the wrong status.
EndableBySweep_IfPaused(s) == status[s] = "PAUSED"

\* endScan, guarded on QUEUED
EndableBySweep(s) == status[s] = "QUEUED"

SweepEnd(r) ==
  LET s == sweep[r].scan IN
  /\ sweep[r].pc = "end"
  /\ status' = IF EndableBySweep(s) THEN [status EXCEPT ![s] = "FAILED"]
                                    ELSE status
  /\ NextCandidate(r)
  /\ NoFault
  /\ UNCHANGED <<attempt, age, resultVars, envVars, job, handler, worker>>

\* enqueueScan with its default attempt, 1
SweepEnqueue(r) ==
  /\ sweep[r].pc = "enqueue"
  /\ job' = Added(sweep[r].scan, 1)
  /\ NextCandidate(r)
  /\ NoFault
  /\ UNCHANGED <<rowVars, resultVars, envVars, handler, worker>>

SweepEnqueueFails(r) ==
  /\ sweep[r].pc = "enqueue"
  /\ job' \in {job, Added(sweep[r].scan, 1)}
  /\ NextCandidate(r)
  /\ Fault
  /\ UNCHANGED <<rowVars, resultVars, envVars, handler, worker>>

\* An exception or a killed process ends the run; the next one starts over.
SweepDies(r) ==
  /\ sweep[r].pc # "idle"
  /\ sweep' = [sweep EXCEPT ![r] = IdleSweep]
  /\ Fault
  /\ UNCHANGED <<rowVars, resultVars, envVars, job, handler, worker>>

SweepStep(r) ==
  \/ SweepBegin(r)
  \/ \E s \in Scan : SweepPick(r, s)
  \/ SweepAuthorise(r)
  \/ SweepEnd(r)
  \/ SweepEnqueue(r)

SweepFault(r) == SweepEnqueueFails(r) \/ SweepDies(r)

=============================================================================
