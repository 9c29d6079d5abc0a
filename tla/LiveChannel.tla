----------------------------- MODULE LiveChannel -----------------------------
(***************************************************************************)
(* How one scan reaches one open dashboard: the scan row, the events its     *)
(* publishers put on the Redis channel, the gateway that forwards them, and  *)
(* the browser's state.  The browser learns of the row twice, by REST        *)
(* snapshots and by events, and nothing orders the two but time stamps.      *)
(***************************************************************************)
EXTENDS ScanStatus, Integers, Sequences

CONSTANTS
  Finding,        \* fingerprints of what the scan finds
  Nothing,        \* no row, no patch, no event
  Disturbances,   \* what may happen meanwhile: controls of users and of
                  \* administrators, a refresh, a socket that closes or
                  \* goes silent, a lost publication, an expiry of the
                  \* gateway's ownership entry
  SocketAtMount,  \* the socket states the page can be opened in
  Elapsed,        \* how far the clock may move between two stamps
  MaxReconnects,  \* MAX_RECONNECT_ATTEMPTS
  MaxDisturbances \* bound: how many of them a behaviour has

ASSUME ChannelAssumption ==
  /\ Disturbances \subseteq {"pause", "resume", "cancel", "engage", "refresh",
                              "disconnect", "loss", "expiry"}
  /\ SocketAtMount \subseteq {"connecting", "connected", "error"}
  /\ Elapsed \subseteq Nat
  /\ MaxReconnects \in Nat /\ MaxDisturbances \in Nat

VARIABLES
  \* the server
  row,           \* the scan_jobs row, with the findings stored beside it
  clock,         \* the latest time stamp
  pipeline,      \* the worker running the scan
  handed,        \* whether a job of the scan waits for a worker
  aborted,       \* the status an engaging kill switch still has to announce
  sending,       \* [publisher -> the event it has stamped, not yet published]
  channel,       \* wvs:scan-events, to one API instance
  owner,         \* its cache of the scan's organisation: "known" or "unknown"
  lookups,       \* events whose fan-out waits for the ownership query
  \* the browser
  socket,        \* the WebSocket: status, or "silent" when half-open
  attempts,      \* reconnectAttemptRef
  scanQuery,     \* the ['scan', id] query
  findingsQuery, \* the ['scan-findings', id] query
  reply,         \* the request of a control of this page
  patch,         \* what the events said: LivePatch
  list,          \* findingsRef: [Finding -> how it is held]
  \* bound
  spent          \* how many disturbances there were

serverVars  == <<row, clock, pipeline, handed, aborted>>
busVars     == <<sending, channel, owner, lookups>>
queryVars   == <<scanQuery, findingsQuery, reply>>
socketVars  == <<socket, attempts>>
vars == <<row, clock, pipeline, handed, aborted, sending, channel, owner,
          lookups, socket, attempts, scanQuery, findingsQuery, reply, patch,
          list, spent>>

Disturbs(kind) ==
  /\ kind \in Disturbances /\ spent < MaxDisturbances
  /\ spent' = spent + 1

(***************************************************************************)
(* The row.  A field's value carries the number of the write that set it, so *)
(* that newer can be told from older; the code only has the time stamps.     *)
(***************************************************************************)
\* What events carry parts of; `progress` stands for the counters.
Field == {"status", "phase", "progress"}

Value(is, since) == [is |-> is, since |-> since]

\* Of an event or a patch, which carry some of the fields.
Carried(part) == {f \in Field : part[f] # Nothing}

\* Spreads g over f: { ...f, ...g }.
Over(f, g) == [x \in Field |-> IF g[x] = Nothing THEN f[x] ELSE g[x]]

NoFields == [f \in Field |-> Nothing]

\* What a write of these fields leaves in them.
Set(changes) ==
  [f \in Field |-> IF f \in DOMAIN changes THEN Value(changes[f], row.version + 1)
                   ELSE Nothing]

\* The row after an update at `now`: updatedAt moves with every write.
Updated(changes, found, now) ==
  [fields |-> Over(row.fields, Set(changes)), found |-> row.found \cup found,
   version |-> row.version + 1, updatedAt |-> now]

\* Every stamp is `new Date()` at some later moment.
Now == {clock + e : e \in Elapsed}

StatusNow == row.fields["status"].is

\* What the page asks of the API is asked, read there and answered.
Asked(query) == [query EXCEPT !.state = "asked"]

(***************************************************************************)
(* Events                                                                  *)
(***************************************************************************)
\* scan.status and scan.progress carry fields, scan.finding a finding.
Event(at, fields, found) == [at |-> at, fields |-> fields, found |-> found]

EndsScan(e) ==
  "status" \in Carried(e.fields) /\ e.fields["status"].is \in TerminalStatuses

(***************************************************************************)
(* What these values are, and that "nothing" is none of them.                *)
(***************************************************************************)
Values == [is : ScanStatuses \cup {"DISCOVERY", "DETECTION", "COMPLETED"},
           since : Nat]
Parts  == [Field -> Values \cup {Nothing}]
Rows   == [fields : [Field -> Values], found : SUBSET Finding,
           version : Nat, updatedAt : Nat]
Events == [at : Nat, fields : Parts, found : SUBSET Finding]
Patches == [at : Nat, fields : Parts]

ASSUME NothingAssumption ==
  Nothing \notin Values /\ Nothing \notin Events /\ Nothing \notin Patches

=============================================================================
