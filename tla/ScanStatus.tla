----------------------------- MODULE ScanStatus -----------------------------
(***************************************************************************)
(* The scan lifecycle rules both halves of the system share                *)
(* (packages/shared/src/scans/lifecycle.ts): the statuses, which of them   *)
(* are terminal, which hold an organisation's concurrency slot, the        *)
(* transition graph and the predicates the control endpoints ask.          *)
(***************************************************************************)

TerminalStatuses == {"COMPLETED", "FAILED", "CANCELLED", "ABORTED_SAFETY"}

OccupyingStatuses == {"QUEUED", "RUNNING", "PAUSED"}

ScanStatuses == TerminalStatuses \cup OccupyingStatuses

\* TRANSITIONS, the graph the file's comment draws.
Transitions ==
  [QUEUED         |-> {"RUNNING", "CANCELLED", "FAILED"},
   RUNNING        |-> {"PAUSED", "COMPLETED", "FAILED", "CANCELLED",
                       "ABORTED_SAFETY"},
   PAUSED         |-> {"RUNNING", "CANCELLED", "FAILED"},
   COMPLETED      |-> {},
   FAILED         |-> {},
   CANCELLED      |-> {},
   ABORTED_SAFETY |-> {}]

CanTransition(from, to) == to \in Transitions[from]

CanPause(st)  == st = "RUNNING"
CanResume(st) == st = "PAUSED"
CanCancel(st) == st \notin TerminalStatuses

\* planAction's `allowed`: may this control be applied to a row in status st?
Allowed(action, st) ==
  CASE action = "pause"  -> CanPause(st)
    [] action = "resume" -> CanResume(st)
    [] action = "cancel" -> CanCancel(st)

=============================================================================
