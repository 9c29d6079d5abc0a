------------------------------- MODULE ScanJobs -------------------------------
(***************************************************************************)
(* What the scan subsystem promises its users, with no queue, no workers     *)
(* and no requests in it: each scan moves through its lifecycle in atomic    *)
(* steps, an engaged kill switch leaves nothing active, an organisation and  *)
(* a target never have more scans than they may, and a scan completes with   *)
(* a diff against the scan of its target that completed just before it.      *)
(***************************************************************************)
EXTENDS ScanStatus, Integers, FiniteSets

CONSTANTS Scan, Target, Org, TargetOf, OrgOf, MaxConcurrent, NoOne

VARIABLES status, storedAt, base, clock, killSwitch

vars == <<status, storedAt, base, clock, killSwitch>>

Active(s) == status[s] \in OccupyingStatuses

Halted == killSwitch = "engaged"

Becomes(s, st) == status' = [status EXCEPT ![s] = st]

Init ==
  /\ status = [s \in Scan |-> "ABSENT"]
  /\ storedAt = [s \in Scan |-> 0]
  /\ base = [s \in Scan |-> NoOne]
  /\ clock = 0
  /\ killSwitch = "released"

Queue(s) ==
  /\ status[s] = "ABSENT" /\ ~Halted
  /\ \A u \in Scan : TargetOf[u] = TargetOf[s] => ~Active(u)
  /\ Cardinality({u \in Scan : /\ OrgOf[TargetOf[u]] = OrgOf[TargetOf[s]]
                               /\ Active(u)})
       < MaxConcurrent[OrgOf[TargetOf[s]]]
  /\ Becomes(s, "QUEUED")
  /\ UNCHANGED <<storedAt, base, clock, killSwitch>>

\* Every move but completion and the kill switch.  A queued scan starts or is
\* ended unstarted; a running one pauses or ends; a paused one resumes or is
\* cancelled.
Move(s) ==
  /\ \/ status[s] = "QUEUED"  /\ \E st \in {"RUNNING", "FAILED", "CANCELLED"} :
                                   Becomes(s, st)
     \/ status[s] = "RUNNING" /\ \E st \in {"PAUSED", "FAILED", "CANCELLED"} :
                                   Becomes(s, st)
     \/ status[s] = "PAUSED"  /\ \E st \in {"RUNNING", "CANCELLED"} :
                                   Becomes(s, st)
  /\ UNCHANGED <<storedAt, base, clock, killSwitch>>

\* The scans of s's target that have completed.
Before(s) ==
  {u \in Scan : TargetOf[u] = TargetOf[s] /\ status[u] = "COMPLETED"}

JustBefore(u, s) ==
  IF Before(s) = {} THEN u = NoOne
  ELSE u \in Before(s) /\ \A v \in Before(s) : storedAt[v] <= storedAt[u]

Complete(s) ==
  /\ status[s] = "RUNNING" /\ Becomes(s, "COMPLETED")
  /\ clock' = clock + 1
  /\ storedAt' = [storedAt EXCEPT ![s] = clock + 1]
  /\ \E u \in Scan \cup {NoOne} :
       JustBefore(u, s) /\ base' = [base EXCEPT ![s] = u]
  /\ UNCHANGED killSwitch

Halt ==
  /\ ~Halted /\ killSwitch' = "engaged"
  /\ status' = [s \in Scan |-> IF Active(s) THEN "ABORTED_SAFETY"
                                            ELSE status[s]]
  /\ UNCHANGED <<storedAt, base, clock>>

Release ==
  /\ Halted /\ killSwitch' = "released"
  /\ UNCHANGED <<status, storedAt, base, clock>>

Next ==
  \/ \E s \in Scan : Queue(s) \/ Move(s) \/ Complete(s)
  \/ Halt
  \/ Release

Spec == Init /\ [][Next]_vars

=============================================================================
