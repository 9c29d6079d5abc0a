------------------------------- MODULE LiveView -------------------------------
(***************************************************************************)
(* The dashboard's live scan view: the WebSocket provider, the two queries,  *)
(* the patch the events build up and the finding list (use-live-scan.ts).    *)
(***************************************************************************)
EXTENDS LiveChannel

BrowserRest == UNCHANGED <<serverVars, busVars, spent>>

(***************************************************************************)
(* What is shown                                                           *)
(***************************************************************************)
Snapshot == scanQuery.data

\* usePatch
PatchIsFresh == patch # Nothing /\ patch.at >= Snapshot.updatedAt

\* The merged scan: the patch's fields over the snapshot's.
Shown ==
  IF PatchIsFresh THEN Over(Snapshot.fields, patch.fields) ELSE Snapshot.fields

Loaded == Snapshot # Nothing

\* The socket's status, as the hooks see it: a half-open one reads as open.
IsConnected == socket \in {"connected", "silent"}

(***************************************************************************)
(* The queries                                                             *)
(***************************************************************************)
\* An invalidation starts a fetch or restarts the one under way, but for the
\* first: a query without data keeps the fetch it waits for.
Restarted(query, loaded) ==
  IF loaded \/ query.state = "idle" THEN Asked(query) ELSE query

\* refetchInterval, for as long as the snapshot itself is unfinished.
PollScan ==
  /\ Loaded /\ scanQuery.state = "idle"
  /\ Snapshot.fields["status"].is \notin TerminalStatuses
  /\ ~IsConnected
  /\ scanQuery' = Asked(scanQuery)
  /\ BrowserRest
  /\ UNCHANGED <<findingsQuery, reply, socketVars, patch, list>>

\* The user comes back to the window and the data has gone stale.
RefetchOnFocus ==
  /\ Loaded
  /\ scanQuery' = [scanQuery EXCEPT !.state = IF @ = "idle" THEN "asked" ELSE @]
  /\ findingsQuery' = [findingsQuery EXCEPT !.state = IF @ = "idle" THEN "asked" ELSE @]
  /\ BrowserRest
  /\ UNCHANGED <<reply, socketVars, patch, list>>

ReadScan ==
  /\ scanQuery.state = "asked"
  /\ scanQuery' = [scanQuery EXCEPT !.state = "read", !.answer = row]
  /\ BrowserRest
  /\ UNCHANGED <<findingsQuery, reply, socketVars, patch, list>>

ScanArrives ==
  /\ scanQuery.state = "read"
  /\ scanQuery' = [state |-> "idle", answer |-> Nothing, data |-> scanQuery.answer]
  /\ BrowserRest
  /\ UNCHANGED <<findingsQuery, reply, socketVars, patch, list>>

ReadFindings ==
  /\ findingsQuery.state = "asked"
  /\ findingsQuery' = [findingsQuery EXCEPT !.state = "read", !.answer = row.found]
  /\ BrowserRest
  /\ UNCHANGED <<scanQuery, reply, socketVars, patch, list>>

\* supersedes, had the newest always won.
Supersedes_Always(incoming, held) == TRUE

\* supersedes: a saved row replaces a streamed one; nothing else replaces.
Supersedes(incoming, held) ==
  \/ held = "absent"
  \/ held = "streamed" /\ incoming = "saved"

\* upsertFinding for each of a set of findings.
Upserted(findings, incoming) ==
  [f \in Finding |->
     IF f \in findings /\ Supersedes(incoming, list[f]) THEN incoming ELSE list[f]]

\* The effect on findingsQuery.data seeds the list.
FindingsArrive ==
  /\ findingsQuery.state = "read"
  /\ findingsQuery' = [state |-> "idle", answer |-> {}, loaded |-> TRUE]
  /\ list' = Upserted(findingsQuery.answer, "saved")
  /\ BrowserRest
  /\ UNCHANGED <<scanQuery, reply, socketVars, patch>>

\* controlScan answers this page with the row as it reads by then.
AnswerControl ==
  /\ reply.state = "asked"
  /\ reply' = [state |-> "read", answer |-> row]
  /\ BrowserRest
  /\ UNCHANGED <<scanQuery, findingsQuery, socketVars, patch, list>>

\* The answer becomes the snapshot (settle); no fetch under way is cancelled.
SettleControl ==
  /\ reply.state = "read"
  /\ scanQuery' = [scanQuery EXCEPT !.data = reply.answer]
  /\ reply' = [state |-> "idle", answer |-> Nothing]
  /\ BrowserRest
  /\ UNCHANGED <<findingsQuery, socketVars, patch, list>>

\* refresh, offered while an unfinished scan has been silent: drops the patch.
Refresh ==
  /\ Loaded /\ Shown["status"].is \in {"QUEUED", "RUNNING"}
  /\ Disturbs("refresh")
  /\ patch' = Nothing
  /\ scanQuery' = Asked(scanQuery)
  /\ UNCHANGED <<serverVars, busVars, findingsQuery, reply, socketVars, list>>

(***************************************************************************)
(* Events                                                                  *)
(***************************************************************************)
\* applyPatch, had a newer event replaced the patch.
Applied_Replacing(e) ==
  IF patch = Nothing \/ e.at >= patch.at
  THEN [at |-> e.at, fields |-> e.fields] ELSE patch

\* applyPatch: a newer event wins the fields it carries and the stamp, an
\* older one fills the gaps.  One stamp stands for all the fields.
Applied(e) ==
  IF patch = Nothing THEN [at |-> e.at, fields |-> e.fields]
  ELSE IF e.at < patch.at
       THEN [at |-> patch.at, fields |-> Over(e.fields, patch.fields)]
       ELSE [at |-> e.at, fields |-> Over(patch.fields, e.fields)]

\* The queries an ending invalidates, had the list been forgotten.
Invalidate_ScanOnly ==
  /\ scanQuery' = Restarted(scanQuery, Loaded)
  /\ UNCHANGED findingsQuery

\* A terminal status invalidates both queries.
Invalidate ==
  /\ scanQuery' = Restarted(scanQuery, Loaded)
  /\ findingsQuery' = Restarted(findingsQuery, findingsQuery.loaded)

\* The subscriber, for an event the gateway sends: nothing is heard on a socket
\* that is not open.
Receive(e) ==
  IF socket # "connected"
  THEN UNCHANGED <<scanQuery, findingsQuery, patch, list>>
  ELSE /\ patch' = IF Carried(e.fields) = {} THEN patch ELSE Applied(e)
       /\ list' = Upserted(e.found, "streamed")
       /\ IF EndsScan(e) THEN Invalidate
          ELSE UNCHANGED <<scanQuery, findingsQuery>>

(***************************************************************************)
(* The socket                                                              *)
(***************************************************************************)
NothingElse == UNCHANGED <<serverVars, busVars, queryVars, patch, list>>
SocketOnly  == NothingElse /\ UNCHANGED spent

\* onopen
SocketOpens ==
  /\ socket = "connecting"
  /\ socket' = "connected" /\ attempts' = 0
  /\ SocketOnly

\* scheduleReconnect
Closed ==
  /\ attempts' = attempts + 1
  /\ socket' = IF attempts + 1 > MaxReconnects THEN "error" ELSE "disconnected"

\* onclose, of an open socket or of an attempt
SocketCloses ==
  /\ socket \in {"connecting", "connected"}
  /\ Disturbs("disconnect")
  /\ Closed
  /\ NothingElse

\* A proxy or a NAT swallows the connection without a close.
SocketGoesSilent ==
  /\ socket = "connected"
  /\ socket' = "silent"
  /\ Disturbs("disconnect")
  /\ UNCHANGED attempts
  /\ NothingElse

\* The watchdog, had it looked at the ready state only.
WatchdogCloses_IfClosed == FALSE /\ UNCHANGED vars

\* Two pings missed: the watchdog closes the socket, and onclose follows.
WatchdogCloses ==
  /\ socket = "silent"
  /\ Closed
  /\ SocketOnly

Reconnect ==
  /\ socket = "disconnected"
  /\ socket' = "connecting"
  /\ UNCHANGED attempts
  /\ SocketOnly

ViewStep ==
  \/ PollScan \/ ReadScan \/ ScanArrives \/ ReadFindings \/ FindingsArrive
  \/ AnswerControl \/ SettleControl \/ WatchdogCloses \/ Reconnect
ViewChange ==
  \/ RefetchOnFocus \/ Refresh
  \/ SocketOpens \/ SocketCloses \/ SocketGoesSilent

=============================================================================
