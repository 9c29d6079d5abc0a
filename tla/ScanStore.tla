------------------------------ MODULE ScanStore ------------------------------
(***************************************************************************)
(* What the scan components share: the scan_jobs table, the kill-switch     *)
(* setting, the targets' authorisation, and the BullMQ queue `scans`.       *)
(*                                                                         *)
(* The API, the reconciler and the workers never talk to each other: they   *)
(* read and write these two stores, and no transaction spans both.  Every   *)
(* hazard of the scan lifecycle comes from the gap between them.            *)
(***************************************************************************)
EXTENDS ScanStatus, Integers, FiniteSets

CONSTANTS
  Scan,           \* the ids scan_jobs rows can be created with
  Target,         \* registered targets
  Org,            \* organisations
  TargetOf,       \* [Scan -> Target]: the target a row is created for
  OrgOf,          \* [Target -> Org]
  MaxConcurrent,  \* [Org -> Nat]: organization.maxConcurrentScans
  Handler,        \* API requests in flight at once
  Sweeper,        \* reconciler runs in flight at once
  Worker,         \* job slots over all worker processes
  NoOne,          \* stands for "no scan" and "no worker"
  Controls,       \* the control actions users issue
  MaxAttempt,     \* bound: no resume is requested past this attempt
  MaxFaults,      \* bound: how many faults a behaviour has
  MaxStalledCount \* BullMQ: redeliveries of a job whose lock lapsed

ASSUME StoreAssumption ==
  /\ TargetOf \in [Scan -> Target]
  /\ OrgOf \in [Target -> Org]
  /\ MaxConcurrent \in [Org -> Nat]
  /\ NoOne \notin Scan /\ NoOne \notin Worker
  /\ Controls \subseteq {"pause", "resume", "cancel"}
  /\ MaxAttempt \in Nat /\ MaxFaults \in Nat /\ MaxStalledCount \in Nat

ASSUME FiniteScans == IsFiniteSet(Scan)
ASSUME FiniteHandlers == IsFiniteSet(Handler)

VARIABLES
  \* scan_jobs, one row per scan; "ABSENT" until the row is created
  status,       \* status
  attempt,      \* attempt
  age,          \* how old a QUEUED row is: "fresh", "lost" or "abandoned"
  storedAt,     \* the completedAt that persistResults writes with the findings,
                \* as a logical instant; 0 before (the completedAt of other
                \* endings orders nothing and is left out)
  base,         \* the scan whose findings the stored diff was made against
  clock,        \* the latest completion instant handed out
  \* system_settings and targets
  killSwitch,   \* scan.kill_switch: "engaged" or "released"
  scannable,    \* the targets isScannable accepts right now
  \* Redis
  job,          \* [Scan -> the BullMQ job whose id is that scan's id]
  \* processes
  handler,      \* [Handler -> an API request]
  sweep,        \* [Sweeper -> a reconciler run]
  worker,       \* [Worker -> a job slot]
  faults        \* faults injected so far

rowVars    == <<status, attempt, age>>
resultVars == <<storedAt, base, clock>>
envVars    == <<killSwitch, scannable>>
vars == <<status, attempt, age, storedAt, base, clock, killSwitch,
          scannable, job, handler, sweep, worker, faults>>

(***************************************************************************)
(* The setting and the rows                                                *)
(***************************************************************************)
\* isScanningHalted
Halted == killSwitch = "engaged"

Occupying(s) == status[s] \in OccupyingStatuses

ActiveOf(o) == {s \in Scan : OrgOf[TargetOf[s]] = o /\ Occupying(s)}

\* The update, had it named the row only.
RunningBecomes_Unguarded(s, st) == status' = [status EXCEPT ![s] = st]

\* Compare-and-set: `updateMany where status = RUNNING`, and what it writes.
RunningBecomes(s, st) ==
  status' = IF status[s] = "RUNNING" THEN [status EXCEPT ![s] = st] ELSE status

(***************************************************************************)
(* The queue.  A job's id is its scan's id, so a scan has at most one job.  *)
(* removeOnComplete deletes a finished job; a failed one keeps its id.      *)
(***************************************************************************)
JobAt(state, a, holder, stalls) ==
  [state |-> state, attempt |-> a, holder |-> holder, stalls |-> stalls]

NoJob == JobAt("none", 0, NoOne, 0)

HasJob(s) == job[s].state # "none"

\* Queue.add, had each delivery an id of its own.
Added_Always(s, a) == [job EXCEPT ![s] = JobAt("waiting", a, NoOne, 0)]

\* Queue.add with a jobId that may be taken: an existing job, in whatever
\* state, absorbs the call.
Added(s, a) ==
  IF HasJob(s) THEN job
  ELSE [job EXCEPT ![s] = JobAt("waiting", a, NoOne, 0)]

\* Queue.remove: a job that a worker holds the lock of stays.
Removed(s) ==
  IF job[s].holder = NoOne THEN [job EXCEPT ![s] = NoJob] ELSE job

\* A worker reports the outcome of the delivery it holds the lock of; without
\* the lock the report is refused and changes nothing.
Settled(w, s, result) ==
  IF job[s].holder = w THEN [job EXCEPT ![s] = result] ELSE job

Fault == faults < MaxFaults /\ faults' = faults + 1
NoFault == UNCHANGED faults

=============================================================================
