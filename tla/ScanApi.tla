------------------------------- MODULE ScanApi -------------------------------
(***************************************************************************)
(* The API's side of a scan: startScan, controlScan and the kill switch     *)
(* (apps/api/src/modules/scans, apps/api/src/modules/scope-guard).          *)
(*                                                                         *)
(* A handler is one request in flight.  It runs from one await to the next, *)
(* so each database transaction and each Redis call is a step of its own,   *)
(* and a request may die (an exception, a restart) between any two.         *)
(***************************************************************************)
EXTENDS ScanStore

Request(pc, action, s, seen, a, todo) ==
  [pc |-> pc, action |-> action, scan |-> s, seen |-> seen, attempt |-> a,
   todo |-> todo]

IdleHandler == Request("idle", "none", NoOne, "ABSENT", 0, {})

Goto(h, pc) == handler' = [handler EXCEPT ![h].pc = pc]
Respond(h)  == handler' = [handler EXCEPT ![h] = IdleHandler]

(***************************************************************************)
(* POST /scans                                                             *)
(***************************************************************************)
\* The check, had it looked for running scans only.
TargetIsFree_IfNotRunning(t) ==
  \A s \in Scan : TargetOf[s] = t => status[s] # "RUNNING"

\* A second scan of the same target would be two crawls against one host.
TargetIsFree(t) == \A s \in Scan : TargetOf[s] = t => ~Occupying(s)

\* The quota, had it let the last slot be taken twice.
UnderQuota_OffByOne(o) == Cardinality(ActiveOf(o)) <= MaxConcurrent[o]

UnderQuota(o) == Cardinality(ActiveOf(o)) < MaxConcurrent[o]

\* reserveScan's transaction.  It is serializable, and so are the only two
\* writers it must not interleave with (another reserveScan and haltAll), so it
\* is one step.  startScan's own earlier look at the target can only refuse
\* sooner.
StartScan(h, s) ==
  /\ handler[h].pc = "idle" /\ status[s] = "ABSENT"
  /\ ~Halted
  /\ UnderQuota(OrgOf[TargetOf[s]])
  /\ TargetOf[s] \in scannable
  /\ TargetIsFree(TargetOf[s])
  /\ status' = [status EXCEPT ![s] = "QUEUED"]
  /\ attempt' = [attempt EXCEPT ![s] = 1]
  /\ handler' = [handler EXCEPT ![h] =
                   Request("enqueue", "start", s, "ABSENT", 1, {})]
  /\ NoFault /\ UNCHANGED <<age, resultVars, envVars, job, sweep, worker>>

\* enqueueScan answered, by startScan or by deliverControl.
Enqueue(h) ==
  /\ handler[h].pc = "enqueue"
  /\ job' = Added(handler[h].scan, handler[h].attempt)
  /\ Respond(h)
  /\ NoFault /\ UNCHANGED <<rowVars, resultVars, envVars, sweep, worker>>

\* enqueueScan threw; the job may have been added before the answer was lost.
\* A start leaves the row QUEUED, a resume goes on to take its write back.
EnqueueFails(h) ==
  /\ handler[h].pc = "enqueue"
  /\ job' \in {job, Added(handler[h].scan, handler[h].attempt)}
  /\ IF handler[h].action = "resume" THEN Goto(h, "rollback") ELSE Respond(h)
  /\ Fault /\ UNCHANGED <<rowVars, resultVars, envVars, sweep, worker>>

(***************************************************************************)
(* POST /scans/:id/pause, /resume, /cancel                                 *)
(***************************************************************************)
\* findScanForOrg and planAction: the status read here is the one the update
\* will compare against.
ReadForControl(h, s, action) ==
  /\ handler[h].pc = "idle" /\ status[s] # "ABSENT"
  /\ Allowed(action, status[s])
  /\ action = "resume" => attempt[s] < MaxAttempt
  /\ handler' = [handler EXCEPT ![h] =
                   Request(IF action = "resume" THEN "authorise" ELSE "apply",
                           action, s, status[s], 0, {})]
  /\ NoFault
  /\ UNCHANGED <<rowVars, resultVars, envVars, job, sweep, worker>>

\* resumeRefusal.  It shares a transaction with the update, but at the
\* database's default isolation each statement reads what is committed when it
\* runs, and nothing locks the target's row.
AuthoriseResume(h) ==
  /\ handler[h].pc = "authorise"
  /\ IF ~Halted /\ TargetOf[handler[h].scan] \in scannable
       THEN Goto(h, "apply") ELSE Respond(h)
  /\ NoFault
  /\ UNCHANGED <<rowVars, resultVars, envVars, job, sweep, worker>>

\* The plan, had it named a status the lifecycle does not have.
Planned_Misspelt(action) ==
  CASE action = "pause"  -> "PAUSED"
    [] action = "resume" -> "RUNNING"
    [] action = "cancel" -> "CANCELED"

\* applyControl's update, where status = the status read: the planned status,
\* and for a resume the next attempt number.
Planned(action) ==
  CASE action = "pause"  -> "PAUSED"
    [] action = "resume" -> "RUNNING"
    [] action = "cancel" -> "CANCELLED"

\* The update, had it named the row only.
StillAsRead_Unchecked(h) == TRUE

StillAsRead(h) == status[handler[h].scan] = handler[h].seen

NextAttempt(action, s) ==
  IF action = "resume" THEN attempt[s] + 1 ELSE attempt[s]

ApplyControl(h) ==
  LET r == handler[h] IN
  /\ r.pc = "apply"
  /\ IF StillAsRead(h)
       THEN /\ status' = [status EXCEPT ![r.scan] = Planned(r.action)]
            /\ attempt' = [attempt EXCEPT ![r.scan] =
                                NextAttempt(r.action, r.scan)]
            /\ CASE r.action = "pause"  -> Respond(h)
                 [] r.action = "resume" ->
                      handler' = [handler EXCEPT ![h] =
                        Request("enqueue", "resume", r.scan, "ABSENT",
                                NextAttempt("resume", r.scan), {})]
                 [] r.action = "cancel" ->
                      handler' = [handler EXCEPT ![h] =
                        Request("remove", "cancel", NoOne, "ABSENT", 0,
                                {r.scan})]
       ELSE UNCHANGED <<status, attempt>> /\ Respond(h)
  /\ NoFault /\ UNCHANGED <<age, resultVars, envVars, job, sweep, worker>>

\* deliverControl's catch: put the scan back where the user left it.
Rollback(h) ==
  LET s == handler[h].scan IN
  /\ handler[h].pc = "rollback"
  /\ RunningBecomes(s, "PAUSED")
  /\ attempt' = IF status[s] = "RUNNING" THEN [attempt EXCEPT ![s] = @ - 1]
                                         ELSE attempt
  /\ Respond(h)
  /\ NoFault /\ UNCHANGED <<age, resultVars, envVars, job, sweep, worker>>

\* removeScanJob, after a cancel or for each scan the kill switch aborted.  Its
\* errors are swallowed.
Dismiss(h, s) ==
  IF handler[h].todo = {s} THEN Respond(h)
  ELSE handler' = [handler EXCEPT ![h].todo = @ \ {s}]

RemoveJob(h, s) ==
  /\ handler[h].pc = "remove" /\ s \in handler[h].todo
  /\ job' = Removed(s)
  /\ Dismiss(h, s)
  /\ NoFault /\ UNCHANGED <<rowVars, resultVars, envVars, sweep, worker>>

RemoveJobFails(h, s) ==
  /\ handler[h].pc = "remove" /\ s \in handler[h].todo
  /\ Dismiss(h, s)
  /\ Fault /\ UNCHANGED <<rowVars, resultVars, envVars, job, sweep, worker>>

(***************************************************************************)
(* The kill switch                                                         *)
(***************************************************************************)
\* haltAll: the setting and every occupying row, in one serializable step; the
\* jobs are removed after the commit.
EngageKillSwitch(h) ==
  LET aborted == {s \in Scan : Occupying(s)} IN
  /\ handler[h].pc = "idle" /\ ~Halted
  /\ killSwitch' = "engaged"
  /\ status' = [s \in Scan |->
                  IF s \in aborted THEN "ABORTED_SAFETY" ELSE status[s]]
  /\ handler' = IF aborted = {} THEN handler
                ELSE [handler EXCEPT ![h] =
                        Request("remove", "engage", NoOne, "ABSENT", 0,
                                aborted)]
  /\ NoFault
  /\ UNCHANGED <<attempt, age, resultVars, scannable, job, sweep, worker>>

\* Restarts nothing.
ReleaseKillSwitch ==
  /\ Halted /\ killSwitch' = "released"
  /\ NoFault
  /\ UNCHANGED <<rowVars, resultVars, scannable, job, handler, sweep, worker>>

(***************************************************************************)
(* A target loses its authorisation (archived, a failed re-verification, an *)
(* expiry, a blocklist entry) or is verified again.  Neither touches a scan.*)
(***************************************************************************)
RevokeTarget(t) ==
  /\ t \in scannable /\ scannable' = scannable \ {t}
  /\ NoFault
  /\ UNCHANGED <<rowVars, resultVars, killSwitch, job, handler, sweep, worker>>

VerifyTarget(t) ==
  /\ t \notin scannable /\ scannable' = scannable \cup {t}
  /\ NoFault
  /\ UNCHANGED <<rowVars, resultVars, killSwitch, job, handler, sweep, worker>>

\* The request ends where it stands: an exception, or the process restarts.
HandlerDies(h) ==
  /\ handler[h].pc # "idle"
  /\ Respond(h)
  /\ Fault /\ UNCHANGED <<rowVars, resultVars, envVars, job, sweep, worker>>

HandlerStep(h) ==
  \/ Enqueue(h)
  \/ AuthoriseResume(h)
  \/ ApplyControl(h)
  \/ Rollback(h)
  \/ \E s \in Scan : RemoveJob(h, s)

HandlerFault(h) ==
  \/ EnqueueFails(h)
  \/ \E s \in Scan : RemoveJobFails(h, s)
  \/ HandlerDies(h)

UserStep(h) ==
  \/ \E s \in Scan : StartScan(h, s)
  \/ \E s \in Scan, action \in Controls : ReadForControl(h, s, action)
  \/ EngageKillSwitch(h)

=============================================================================
