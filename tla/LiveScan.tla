------------------------------- MODULE LiveScan -------------------------------
(***************************************************************************)
(* The live view of one scan: publishers, gateway and browser together.      *)
(***************************************************************************)
EXTENDS LiveFeed, LiveView

QueryIdle == [state |-> "idle", answer |-> Nothing, data |-> Nothing]

\* The page is opened for a queued scan: both queries are asked at once.
Init ==
  /\ row = [fields |-> [f \in Field |->
                          Value(IF f = "status" THEN "QUEUED" ELSE "DISCOVERY", 0)],
            found |-> {}, version |-> 0, updatedAt |-> 0]
  /\ clock = 0
  /\ pipeline = PipelineAt("idle", row.fields, {})
  /\ handed = TRUE
  /\ aborted = Nothing
  /\ sending = [p \in {"worker", "api"} |-> Nothing]
  /\ channel = <<>>
  /\ lookups = {}
  /\ socket \in SocketAtMount
  /\ attempts = 0
  /\ scanQuery = Asked(QueryIdle)
  /\ findingsQuery = [state |-> "asked", answer |-> {}, loaded |-> FALSE]
  /\ reply = [state |-> "idle", answer |-> Nothing]
  /\ patch = Nothing
  /\ list = [f \in Finding |-> "absent"]
  /\ owner = "known"
  /\ spent = 0

(***************************************************************************)
(* fanOut: to the client at once when the owner is cached, when its query    *)
(* answers otherwise.                                                      *)
(***************************************************************************)
ForwardNow ==
  /\ channel # <<>> /\ owner = "known"
  /\ Receive(Head(channel))
  /\ channel' = Tail(channel)
  /\ UNCHANGED <<serverVars, sending, owner, lookups, socketVars, reply, spent>>

ForwardLater ==
  \E e \in lookups :
    /\ Receive(e)
    /\ lookups' = lookups \ {e}
    /\ owner' = "known"
    /\ UNCHANGED <<serverVars, sending, channel, socketVars, reply, spent>>

\* What the browser keeps while the server moves, but for `reply`, which a
\* control of this page sets.
BrowserKeeps ==
  UNCHANGED <<scanQuery, findingsQuery, socketVars, patch, list>>

ControlStep ==
  /\ AbortScan \/ \E action \in DOMAIN Becomes : ControlScan(action)
  /\ BrowserKeeps

ServerStep  == FeedStep /\ BrowserKeeps /\ UNCHANGED reply
ServerFault == FeedFault /\ BrowserKeeps /\ UNCHANGED reply

Next ==
  \/ ServerStep \/ ServerFault \/ ControlStep
  \/ ForwardNow \/ ForwardLater
  \/ ViewStep \/ ViewChange

Spec == Init /\ [][Next]_vars

\* Workers, the API, Redis, the gateway and the browser's timers and fetches go
\* on; nothing is assumed of users or of the network's connections.
Fairness ==
  /\ WF_vars(ServerStep)
  /\ WF_vars(ForwardNow) /\ WF_vars(ForwardLater)
  /\ WF_vars(PollScan \/ ReadScan \/ ScanArrives)
  /\ WF_vars(ReadFindings \/ FindingsArrive)
  /\ WF_vars(WatchdogCloses)

FairSpec == Spec /\ Fairness

(***************************************************************************)
(* Types                                                                   *)
(***************************************************************************)
PipelinePCs == {"idle", "claimed", "begun", "crawling", "checked", "detecting",
                "saved", "completed", "counted", "failed"}
Pipelines   == [pc : PipelinePCs, knows : [Field -> Values],
                unsent : SUBSET Finding]

ServerTyped ==
  /\ row \in Rows
  /\ clock \in Nat
  /\ pipeline \in Pipelines
  /\ handed \in BOOLEAN
  /\ aborted \in Parts \cup {Nothing}

BusTyped ==
  /\ sending \in [{"worker", "api"} -> Events \cup {Nothing}]
  /\ channel \in Seq(Events)
  /\ owner \in {"known", "unknown"}
  /\ lookups \in SUBSET Events

QueryStates == {"idle", "asked", "read"}

BrowserTyped ==
  /\ socket \in {"connecting", "connected", "silent", "disconnected", "error"}
  /\ attempts \in Nat
  /\ scanQuery \in [state : QueryStates, answer : Rows \cup {Nothing},
                    data : Rows \cup {Nothing}]
  /\ findingsQuery \in [state : QueryStates, answer : SUBSET Finding,
                        loaded : BOOLEAN]
  /\ reply \in [state : QueryStates, answer : Rows \cup {Nothing}]
  /\ patch \in Patches \cup {Nothing}
  /\ list \in [Finding -> {"absent", "streamed", "saved"}]

\* Every variable holds a value of its type; in particular the patch only ever
\* holds fields that events carry.
TypeOK ==
  /\ ServerTyped /\ BusTyped /\ BrowserTyped
  /\ spent \in Nat

(***************************************************************************)
(* Safety                                                                  *)
(***************************************************************************)
\* Nothing is shown that is not so: a finding on the screen is stored, and an
\* ending on the screen is the row's, whatever arrives late, twice or never.
ShownIsStored ==
  /\ \A f \in Finding : list[f] # "absent" => f \in row.found
  /\ Loaded /\ Shown["status"].is \in TerminalStatuses
     => StatusNow = Shown["status"].is

\* A finding never leaves the list, and never loses the id it links to.
FindingsOnlyImprove ==
  [][\A f \in Finding :
       \/ list'[f] = list[f] \/ list[f] = "absent"
       \/ list'[f] = "saved"]_vars

\* "the view cannot go backwards": the status shown is never older than the
\* one shown before, unless the user dropped the patch.
StatusForward ==
  [][Loaded /\ (Loaded)' /\ ~(patch # Nothing /\ patch' = Nothing)
     => Shown'["status"].since >= Shown["status"].since]_vars

(***************************************************************************)
(* Liveness                                                                *)
(***************************************************************************)
\* A scan that has ended is shown as ended.
EndingShown ==
  \A st \in TerminalStatuses :
    StatusNow = st ~> Loaded /\ Shown["status"].is = st

\* What a scan found is listed, with the ids of the stored rows, on a socket that
\* never goes away and for a page that had loaded its list before the scan
\* completed.
FindingsShownIfLoaded ==
  [](socket = "connected") =>
    (findingsQuery.loaded /\ StatusNow = "RUNNING"
       ~> StatusNow = "FAILED" \/ \A f \in Finding : list[f] = "saved")

=============================================================================
