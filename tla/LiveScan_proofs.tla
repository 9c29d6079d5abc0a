---------------------------- MODULE LiveScan_proofs ----------------------------
(***************************************************************************)
(* Proofs about LiveScan, for any findings, any users and any faults.        *)
(***************************************************************************)
EXTENDS LiveScan, TLAPS

Words == ScanStatuses \cup {"DISCOVERY", "DETECTION", "COMPLETED"}

(***************************************************************************)
(* What the operators return                                               *)
(***************************************************************************)
LEMMA SetStatus ==
  ASSUME row \in Rows, NEW st \in Words
  PROVE  /\ Set([status |-> st]) \in Parts
         /\ Set([status |-> st])["status"] = Value(st, row.version + 1)
BY DEF Set, Parts, Values, Value, Field, Rows, Words

LEMMA SetProgress ==
  ASSUME row \in Rows, NEW st \in Words
  PROVE  /\ Set([phase |-> st, progress |-> st]) \in Parts
         /\ Set([phase |-> st, progress |-> st])["status"] = Nothing
BY DEF Set, Parts, Values, Value, Field, Rows, Words

LEMMA SetAll ==
  ASSUME row \in Rows, NEW st \in Words, NEW ph \in Words
  PROVE  /\ Set([status |-> st, phase |-> ph, progress |-> ph]) \in Parts
         /\ Set([status |-> st, phase |-> ph, progress |-> ph])["status"]
              = Value(st, row.version + 1)
BY DEF Set, Parts, Values, Value, Field, Rows, Words

LEMMA OverTyped ==
  ASSUME NEW f, NEW g \in Parts
  PROVE  /\ f \in Parts => Over(f, g) \in Parts
         /\ f \in [Field -> Values] => Over(f, g) \in [Field -> Values]
BY DEF Over, Parts

LEMMA NowTyped ==
  ASSUME TypeOK, NEW now \in Now
  PROVE  now \in Nat
BY ChannelAssumption DEF Now, TypeOK, ServerTyped, ChannelAssumption

LEMMA UpdatedTyped ==
  ASSUME TypeOK, NEW changes, Set(changes) \in Parts,
         NEW found \in SUBSET Finding, NEW now \in Nat
  PROVE  Updated(changes, found, now) \in Rows
<1>1. row \in Rows
  BY DEF TypeOK, ServerTyped
<1>2. Over(row.fields, Set(changes)) \in [Field -> Values]
  BY <1>1, OverTyped DEF Rows
<1>3. QED
  BY <1>1, <1>2 DEF Updated, Rows

LEMMA KnowsTyped ==
  ASSUME TypeOK, NEW changes, Set(changes) \in Parts
  PROVE  Knows(changes) \in [Field -> Values]
BY OverTyped DEF Knows, TypeOK, ServerTyped, Pipelines

LEMMA PartTyped ==
  ASSUME NEW fields \in [Field -> Values], NEW some
  PROVE  Part(fields, some) \in Parts
BY DEF Part, Parts

LEMMA EventTyped ==
  ASSUME NEW at \in Nat, NEW fields \in Parts, NEW found \in SUBSET Finding
  PROVE  Event(at, fields, found) \in Events
BY DEF Event, Events

LEMMA AppliedTyped ==
  ASSUME TypeOK, NEW e \in Events
  PROVE  Applied(e) \in Patches
<1>1. CASE patch = Nothing
  BY <1>1 DEF Applied, Events, Patches
<1>2. CASE patch # Nothing
  <2>1. patch \in Patches
    BY <1>2 DEF TypeOK, BrowserTyped
  <2>2. /\ Over(e.fields, patch.fields) \in Parts
        /\ Over(patch.fields, e.fields) \in Parts
    BY <2>1, OverTyped DEF Events, Patches
  <2>3. QED
    BY <1>2, <2>1, <2>2 DEF Applied, Events, Patches
<1>3. QED
  BY <1>1, <1>2

LEMMA UpsertedTyped ==
  ASSUME TypeOK, NEW findings, NEW incoming \in {"streamed", "saved"}
  PROVE  Upserted(findings, incoming) \in [Finding -> {"absent", "streamed", "saved"}]
BY DEF Upserted, TypeOK, BrowserTyped

LEMMA ReceiveTyped ==
  ASSUME TypeOK, NEW e \in Events, Receive(e), UNCHANGED <<socketVars, reply>>
  PROVE  BrowserTyped'
<1>1. patch' \in Patches \cup {Nothing}
  BY AppliedTyped DEF Receive, TypeOK, BrowserTyped
<1>2. list' \in [Finding -> {"absent", "streamed", "saved"}]
  BY UpsertedTyped DEF Receive, TypeOK, BrowserTyped
<1>3. /\ scanQuery' \in [state : QueryStates, answer : Rows \cup {Nothing},
                         data : Rows \cup {Nothing}]
      /\ findingsQuery' \in [state : QueryStates, answer : SUBSET Finding,
                          loaded : BOOLEAN]
  BY DEF Receive, Invalidate, Restarted, Asked, TypeOK, BrowserTyped, QueryStates
<1>4. QED
  BY <1>1, <1>2, <1>3 DEF TypeOK, BrowserTyped, socketVars

LEMMA DisturbsTyped ==
  ASSUME TypeOK, NEW kind, Disturbs(kind)
  PROVE  spent' \in Nat
BY DEF Disturbs, TypeOK

LEMMA WriteTyped ==
  ASSUME TypeOK, NEW changes, Set(changes) \in Parts,
         NEW found \in SUBSET Finding, NEW pc \in PipelinePCs,
         NEW unsent \in SUBSET Finding,
         WriteWhileRunning(changes, found, pc, unsent)
  PROVE  row' \in Rows /\ clock' \in Nat /\ pipeline' \in Pipelines
<1>1. CASE StatusNow = "RUNNING"
  <2>1. PICK now \in Now : /\ row' = Updated(changes, found, now)
                           /\ clock' = now
                           /\ pipeline' = PipelineAt(pc, Knows(changes), unsent)
    BY <1>1 DEF WriteWhileRunning
  <2>2. QED
    BY <2>1, NowTyped, UpdatedTyped, KnowsTyped DEF PipelineAt, Pipelines
<1>2. CASE StatusNow # "RUNNING"
  BY <1>2 DEF WriteWhileRunning, TypeOK, ServerTyped, Pipelines, PipelinePCs
<1>3. QED
  BY <1>1, <1>2

(***************************************************************************)
(* Types                                                                   *)
(***************************************************************************)
LEMMA TypeInit == Init => TypeOK
<1>. SUFFICES ASSUME Init PROVE TypeOK
  OBVIOUS
<1>. USE DEF Init
<1>w. {"QUEUED", "DISCOVERY"} \subseteq ScanStatuses \cup {"DISCOVERY", "DETECTION", "COMPLETED"}
  BY DEF ScanStatuses, OccupyingStatuses
<1>0. row \in Rows
  BY <1>w DEF Rows, Values, Value, Field
<1>1. ServerTyped
  BY <1>0 DEF ServerTyped, Pipelines, PipelinePCs, PipelineAt, Rows
<1>2. BusTyped
  BY DEF BusTyped
<1>3. BrowserTyped
  <2>1. socket \in {"connecting", "connected", "silent", "disconnected", "error"}
    BY ChannelAssumption DEF ChannelAssumption
  <2>2. QED
    BY <2>1 DEF BrowserTyped, QueryIdle, Asked, QueryStates
<1>4. spent \in Nat
  OBVIOUS
<1>5. QED
  BY <1>1, <1>2, <1>3, <1>4 DEF TypeOK

\* The worker's steps.
LEMMA TypePipeline ==
  ASSUME TypeOK, PipelineStep \/ PipelineFails
  PROVE  ServerTyped' /\ BusTyped' /\ UNCHANGED spent
<1>. USE DEF TypeOK, ServerTyped
<1>r. row \in Rows
  OBVIOUS
<1>w. {"RUNNING", "FAILED", "COMPLETED", "DISCOVERY", "DETECTION"} \subseteq Words
  BY DEF Words, ScanStatuses, TerminalStatuses, OccupyingStatuses
<1>1. CASE Claim
  <2>. DEFINE changes == [status |-> "RUNNING", phase |-> "DISCOVERY",
                          progress |-> "DISCOVERY"]
  <2>1. Set(changes) \in Parts
    BY <1>r, <1>w, SetAll
  <2>2. CASE StatusNow \in {"QUEUED", "RUNNING"}
    <3>1. PICK now \in Now :
            /\ row' = Updated(changes, {}, now)
            /\ clock' = now
            /\ pipeline' = PipelineAt("claimed", Knows(changes), {})
      BY <1>1, <2>2 DEF Claim
    <3>2. row' \in Rows /\ clock' \in Nat
      BY <2>1, <3>1, NowTyped, UpdatedTyped
    <3>3. pipeline' \in Pipelines
      <4>. HIDE DEF changes
      <4>. QED
        BY <2>1, <3>1, KnowsTyped DEF PipelineAt, Pipelines, PipelinePCs
    <3>4. QED
      BY <1>1, <3>2, <3>3 DEF Claim, WorkerOnly, BusTyped
  <2>3. CASE StatusNow \notin {"QUEUED", "RUNNING"}
    BY <1>1, <2>3 DEF Claim, WorkerOnly, BusTyped
  <2>4. QED
    BY <2>2, <2>3
<1>2. CASE Checkpoint
  <2>1. Set([phase |-> "DETECTION", progress |-> "DETECTION"]) \in Parts
    BY <1>r, <1>w, SetProgress
  <2>2. row' \in Rows /\ clock' \in Nat /\ pipeline' \in Pipelines
    <3>. "checked" \in PipelinePCs
      BY DEF PipelinePCs
    <3>. QED
      BY <1>2, <2>1, WriteTyped DEF Checkpoint
  <2>3. QED
    BY <1>2, <2>2 DEF Checkpoint, WorkerOnly, BusTyped
<1>3. CASE Persist
  <2>1. Set([status |-> "COMPLETED", phase |-> "COMPLETED",
             progress |-> "COMPLETED"]) \in Parts
    BY <1>r, <1>w, SetAll
  <2>2. row' \in Rows /\ clock' \in Nat /\ pipeline' \in Pipelines
    <3>. "saved" \in PipelinePCs
      BY DEF PipelinePCs
    <3>. QED
      BY <1>3, <2>1, WriteTyped DEF Persist
  <2>3. QED
    BY <1>3, <2>2 DEF Persist, WorkerOnly, BusTyped
<1>4. CASE PipelineFails
  <2>1. Set([status |-> "FAILED"]) \in Parts
    BY <1>r, <1>w, SetStatus
  <2>2. row' \in Rows /\ clock' \in Nat /\ pipeline' \in Pipelines
    <3>. "failed" \in PipelinePCs
      BY DEF PipelinePCs
    <3>. QED
      BY <1>4, <2>1, WriteTyped DEF PipelineFails
  <2>3. QED
    BY <1>4, <2>2 DEF PipelineFails, WorkerOnly, BusTyped
<1>5. CASE Announce
  <2>1. PICK now \in Now :
          /\ sending' = [sending EXCEPT !["worker"] =
               Event(now, Part(pipeline.knows, Announces[pipeline.pc]), {})]
          /\ clock' = now
    BY <1>5 DEF Announce
  <2>2. Event(now, Part(pipeline.knows, Announces[pipeline.pc]), {}) \in Events
    BY NowTyped, PartTyped, EventTyped DEF Pipelines
  <2>3. pipeline' \in Pipelines
    BY <1>5 DEF Announce, After, Announces, Pipelines, PipelinePCs
  <2>4. QED
    BY <1>5, <2>1, <2>2, <2>3, NowTyped DEF Announce, WorkerOnly, BusTyped
<1>6. CASE AnnounceFinding
  <2>1. CASE pipeline.unsent = {}
    BY <1>6, <2>1 DEF AnnounceFinding, WorkerOnly, BusTyped, Pipelines, PipelinePCs
  <2>2. CASE pipeline.unsent # {}
    <3>1. PICK f \in pipeline.unsent, now \in Now :
            /\ sending' = [sending EXCEPT !["worker"] = Event(now, NoFields, {f})]
            /\ clock' = now
            /\ pipeline' = [pipeline EXCEPT !.unsent = @ \ {f}]
      BY <1>6, <2>2 DEF AnnounceFinding
    <3>2. Event(now, NoFields, {f}) \in Events
      BY NowTyped, EventTyped DEF NoFields, Parts, Pipelines
    <3>3. pipeline' \in Pipelines
      BY <3>1 DEF Pipelines
    <3>4. QED
      BY <1>6, <3>1, <3>2, <3>3, NowTyped DEF AnnounceFinding, WorkerOnly, BusTyped
  <2>3. QED
    BY <2>1, <2>2
<1>u. UNCHANGED spent
  BY DEF PipelineStep, Claim, Checkpoint, Persist, PipelineFails, Announce,
         AnnounceFinding, WorkerOnly
<1>7. QED
  BY <1>1, <1>2, <1>3, <1>4, <1>5, <1>6, <1>u DEF PipelineStep

\* Users and administrators: a control, an engaging kill switch.
LEMMA TypeControl ==
  ASSUME TypeOK, ControlStep
  PROVE  TypeOK'
<1>. USE DEF TypeOK, ServerTyped
<1>r. row \in Rows
  OBVIOUS
<1>1. CASE AbortScan
  <2>1. Set([status |-> "ABORTED_SAFETY"]) \in Parts
    BY <1>r, SetStatus DEF Words, ScanStatuses, TerminalStatuses
  <2>2. row' \in Rows /\ clock' \in Nat /\ aborted' \in Parts
    BY <1>1, <2>1, NowTyped, UpdatedTyped DEF AbortScan
  <2>3. spent' \in Nat
    BY <1>1, DisturbsTyped DEF AbortScan
  <2>4. QED
    BY <1>1, <2>2, <2>3
    DEF AbortScan, ControlStep, BrowserKeeps, BusTyped, BrowserTyped, socketVars
<1>2. ASSUME NEW action \in DOMAIN Becomes, ControlScan(action)
      PROVE  TypeOK'
  <2>. DEFINE changes == [status |-> Becomes[action]]
  <2>1. Becomes[action] \in Words
    BY DEF Becomes, Words, ScanStatuses, TerminalStatuses, OccupyingStatuses
  <2>2. Set(changes) \in Parts
    BY <1>r, <2>1, SetStatus
  <2>3. PICK now \in Now : row' = Updated(changes, {}, now) /\ clock' = now
    BY <1>2 DEF ControlScan
  <2>4. row' \in Rows /\ clock' \in Nat
    <3>. HIDE DEF changes
    <3>. QED
      BY <2>2, <2>3, NowTyped, UpdatedTyped
  <2>5. spent' \in Nat
    BY <1>2, DisturbsTyped DEF ControlScan
  <2>6. reply' \in [state : QueryStates, answer : Rows \cup {Nothing}]
    BY <1>2 DEF ControlScan, BrowserTyped, Asked, QueryStates
  <2>7. pipeline' \in Pipelines /\ handed' \in BOOLEAN /\ aborted' = aborted
    BY <1>2 DEF ControlScan
  <2>8. QED
    BY <1>2, <2>4, <2>5, <2>6, <2>7
    DEF ControlScan, ControlStep, BrowserKeeps, BusTyped, BrowserTyped, socketVars
<1>3. QED
  BY <1>1, <1>2 DEF ControlStep

\* The announcement of an abort, and the channel.
LEMMA TypeChannel ==
  ASSUME TypeOK,
         \/ AnnounceAbort \/ LookUpOwner \/ OwnershipExpires
         \/ \E p \in {"worker", "api"} : Publish(p) \/ PublishFails(p)
  PROVE  /\ ServerTyped' /\ BusTyped'
         /\ spent' \in Nat
<1>. USE DEF TypeOK, ServerTyped, BusTyped
<1>1. CASE AnnounceAbort
  <2>1. PICK now \in Now :
          /\ sending' = [sending EXCEPT !["api"] = Event(now, aborted, {})]
          /\ clock' = now
    BY <1>1 DEF AnnounceAbort
  <2>2. now \in Nat /\ Event(now, aborted, {}) \in Events
    BY <1>1, NowTyped, EventTyped DEF AnnounceAbort
  <2>3. QED
    BY <1>1, <2>1, <2>2 DEF AnnounceAbort
<1>2. CASE LookUpOwner
  BY <1>2 DEF LookUpOwner, serverVars
<1>3. CASE OwnershipExpires
  BY <1>3, DisturbsTyped DEF OwnershipExpires, serverVars
<1>4. ASSUME NEW p \in {"worker", "api"}, Publish(p)
      PROVE  /\ ServerTyped' /\ BusTyped'
             /\ spent' \in Nat
  BY <1>4 DEF Publish, serverVars
<1>5. ASSUME NEW p \in {"worker", "api"}, PublishFails(p)
      PROVE  /\ ServerTyped' /\ BusTyped'
             /\ spent' \in Nat
  BY <1>5, DisturbsTyped DEF PublishFails, serverVars
<1>6. QED
  BY <1>1, <1>2, <1>3, <1>4, <1>5

\* fanOut.
LEMMA TypeForward ==
  ASSUME TypeOK, ForwardNow \/ ForwardLater
  PROVE  TypeOK'
<1>1. CASE ForwardNow
  <2>1. Head(channel) \in Events /\ Tail(channel) \in Seq(Events)
    BY <1>1 DEF ForwardNow, TypeOK, BusTyped
  <2>2. BrowserTyped'
    BY <1>1, <2>1, ReceiveTyped DEF ForwardNow
  <2>3. QED
    BY <1>1, <2>1, <2>2 DEF ForwardNow, TypeOK, ServerTyped, BusTyped, serverVars
<1>2. CASE ForwardLater
  <2>1. PICK e \in lookups :
          /\ Receive(e)
          /\ lookups' = lookups \ {e}
          /\ owner' = "known"
          /\ UNCHANGED <<serverVars, sending, channel, socketVars, reply, spent>>
    BY <1>2 DEF ForwardLater
  <2>2. e \in Events
    BY DEF TypeOK, BusTyped
  <2>3. BrowserTyped'
    BY <2>1, <2>2, ReceiveTyped
  <2>4. QED
    BY <2>1, <2>3 DEF TypeOK, ServerTyped, BusTyped, serverVars
<1>3. QED
  BY <1>1, <1>2

\* The browser's own steps.
LEMMA TypeView ==
  ASSUME TypeOK, ViewStep \/ ViewChange
  PROVE  TypeOK'
<1>. USE DEF TypeOK, BrowserTyped, QueryStates, Asked, BrowserRest, serverVars,
             busVars, socketVars, queryVars, ServerTyped, BusTyped
<1>1. CASE PollScan
  <2>1. scanQuery' \in [state : QueryStates, answer : Rows \cup {Nothing},
                       data : Rows \cup {Nothing}]
    BY <1>1 DEF PollScan
  <2>2. QED
    BY <1>1, <2>1 DEF PollScan
<1>2. CASE ReadScan
  <2>1. scanQuery' \in [state : QueryStates, answer : Rows \cup {Nothing},
                       data : Rows \cup {Nothing}]
    BY <1>2 DEF ReadScan
  <2>2. QED
    BY <1>2, <2>1 DEF ReadScan
<1>3. CASE ScanArrives
  <2>1. scanQuery' \in [state : QueryStates, answer : Rows \cup {Nothing},
                       data : Rows \cup {Nothing}]
    BY <1>3 DEF ScanArrives
  <2>2. QED
    BY <1>3, <2>1 DEF ScanArrives
<1>4. CASE ReadFindings
  <2>1. row.found \in SUBSET Finding
    BY DEF Rows
  <2>2. findingsQuery' \in [state : QueryStates, answer : SUBSET Finding,
                          loaded : BOOLEAN]
    BY <1>4, <2>1 DEF ReadFindings
  <2>3. QED
    BY <1>4, <2>2 DEF ReadFindings
<1>5. CASE FindingsArrive
  BY <1>5, UpsertedTyped DEF FindingsArrive
<1>6. CASE SettleControl
  BY <1>6 DEF SettleControl
<1>14. CASE AnswerControl
  BY <1>14 DEF AnswerControl
<1>7. CASE WatchdogCloses
  BY <1>7 DEF WatchdogCloses, Closed, SocketOnly, NothingElse
<1>8. CASE Reconnect
  BY <1>8 DEF Reconnect, SocketOnly, NothingElse
<1>9. CASE RefetchOnFocus
  <2>1. /\ scanQuery' \in [state : QueryStates, answer : Rows \cup {Nothing},
                           data : Rows \cup {Nothing}]
        /\ findingsQuery' \in [state : QueryStates, answer : SUBSET Finding,
                          loaded : BOOLEAN]
    <3>1. \A st \in QueryStates : (IF st = "idle" THEN "asked" ELSE st) \in QueryStates
      OBVIOUS
    <3>2. QED
      BY <1>9, <3>1 DEF RefetchOnFocus
  <2>2. QED
    BY <1>9, <2>1 DEF RefetchOnFocus
<1>10. CASE Refresh
  <2>1. scanQuery' \in [state : QueryStates, answer : Rows \cup {Nothing},
                       data : Rows \cup {Nothing}]
    BY <1>10 DEF Refresh
  <2>2. QED
    BY <1>10, <2>1, DisturbsTyped DEF Refresh
<1>11. CASE SocketOpens
  BY <1>11 DEF SocketOpens, SocketOnly, NothingElse
<1>12. CASE SocketCloses
  BY <1>12, DisturbsTyped DEF SocketCloses, Closed, NothingElse
<1>13. CASE SocketGoesSilent
  BY <1>13, DisturbsTyped DEF SocketGoesSilent, NothingElse
<1>15. QED
  BY <1>1, <1>2, <1>3, <1>4, <1>5, <1>6, <1>7, <1>8, <1>9, <1>10, <1>11, <1>12,
     <1>13, <1>14 DEF ViewStep, ViewChange

LEMMA LiveTypesStep ==
  ASSUME TypeOK, [Next]_vars
  PROVE  TypeOK'
<1>1. CASE ServerStep \/ ServerFault
  <2>1. /\ ServerTyped' /\ BusTyped'
        /\ spent' \in Nat
    BY <1>1, TypePipeline, TypeChannel
    DEF ServerStep, ServerFault, FeedStep, FeedFault, TypeOK
  <2>2. BrowserTyped'
    BY <1>1 DEF ServerStep, ServerFault, BrowserKeeps, TypeOK, BrowserTyped,
       socketVars
  <2>3. QED
    BY <2>1, <2>2 DEF TypeOK
<1>2. CASE ControlStep
  BY <1>2, TypeControl
<1>3. CASE ForwardNow \/ ForwardLater
  BY <1>3, TypeForward
<1>4. CASE ViewStep \/ ViewChange
  BY <1>4, TypeView
<1>5. CASE UNCHANGED vars
  BY <1>5 DEF vars, TypeOK, ServerTyped, BusTyped, BrowserTyped
<1>6. QED
  BY <1>1, <1>2, <1>3, <1>4, <1>5 DEF Next

\* Every variable of the live view keeps its type: whatever the worker, the API,
\* Redis, the gateway and the page do, in any order.
THEOREM LiveTypes == Spec => []TypeOK
BY TypeInit, LiveTypesStep, PTL DEF Spec

(***************************************************************************)
(* The finding list                                                        *)
(***************************************************************************)
LEMMA UpsertImproves ==
  ASSUME TypeOK, NEW findings, NEW incoming \in {"streamed", "saved"},
         list' = Upserted(findings, incoming), NEW f \in Finding
  PROVE  list'[f] = list[f] \/ list[f] = "absent" \/ list'[f] = "saved"
BY DEF Upserted, Supersedes

\* A finding on the screen stays there, and one with the id of its stored row
\* keeps it, however events and REST answers interleave.
THEOREM FindingsImprove == Spec => FindingsOnlyImprove
<1>. DEFINE Improves(f) == \/ list'[f] = list[f] \/ list[f] = "absent"
                           \/ list'[f] = "saved"
<1>1. ASSUME TypeOK, [Next]_vars
      PROVE  [\A f \in Finding : Improves(f)]_vars
  <2>. SUFFICES \A f \in Finding : Improves(f)
    OBVIOUS
  <2>1. CASE ForwardNow \/ ForwardLater
    <3>1. \/ list' = list
          \/ \E findings : list' = Upserted(findings, "streamed")
      BY <2>1 DEF ForwardNow, ForwardLater, Receive
    <3>2. QED
      BY <1>1, <3>1, UpsertImproves
  <2>2. CASE FindingsArrive
    BY <1>1, <2>2, UpsertImproves DEF FindingsArrive
  <2>3. CASE ServerStep \/ ServerFault \/ ControlStep
    BY <2>3 DEF ServerStep, ServerFault, ControlStep, BrowserKeeps
  <2>4. CASE (ViewStep /\ ~FindingsArrive) \/ ViewChange
    BY <2>4 DEF ViewStep, ViewChange, PollScan, ReadScan, ScanArrives,
       ReadFindings, AnswerControl, SettleControl, WatchdogCloses, Reconnect, RefetchOnFocus,
       Refresh, SocketOpens, SocketCloses, SocketGoesSilent, SocketOnly, NothingElse
  <2>5. CASE UNCHANGED vars
    BY <2>5 DEF vars
  <2>6. QED
    BY <1>1, <2>1, <2>2, <2>3, <2>4, <2>5 DEF Next, ViewStep
<1>2. QED
  BY LiveTypes, <1>1, PTL DEF Spec, FindingsOnlyImprove

(***************************************************************************)
(* What is shown is stored.  Every copy of the row and every event under way  *)
(* is true of the row: an ending it tells of is the row's, and its findings   *)
(* are stored.  A copy stays true because an ending is never left and stored  *)
(* findings are never removed.                                             *)
(***************************************************************************)
Truthful(part, r) ==
  part["status"] # Nothing /\ part["status"].is \in TerminalStatuses
    => r.fields["status"].is = part["status"].is

TruthfulRow(copy, r)   == copy # Nothing => Truthful(copy.fields, r)
TruthfulEvent(e, r) ==
  e # Nothing => e.found \subseteq r.found /\ Truthful(e.fields, r)

FeedTruthful ==
  /\ Truthful(pipeline.knows, row)
  /\ pipeline.unsent \subseteq row.found
  /\ aborted # Nothing => Truthful(aborted, row)
  /\ \A p \in {"worker", "api"} : TruthfulEvent(sending[p], row)
  /\ \A i \in 1..Len(channel) : TruthfulEvent(channel[i], row)
  /\ \A e \in lookups : TruthfulEvent(e, row)

ViewTruthful ==
  /\ TruthfulRow(scanQuery.data, row)
  /\ TruthfulRow(scanQuery.answer, row)
  /\ TruthfulRow(reply.answer, row)
  /\ patch # Nothing => Truthful(patch.fields, row)
  /\ findingsQuery.answer \subseteq row.found
  /\ \A f \in Finding : list[f] # "absent" => f \in row.found

StoredInv == TypeOK /\ FeedTruthful /\ ViewTruthful

\* Row s may come after row r.
Follows(r, s) ==
  /\ r.found \subseteq s.found
  /\ r.fields["status"].is \in TerminalStatuses
       => s.fields["status"].is = r.fields["status"].is

LEMMA StaysTruthful ==
  ASSUME NEW r, NEW s, Follows(r, s)
  PROVE  /\ \A part : Truthful(part, r) => Truthful(part, s)
         /\ \A copy : TruthfulRow(copy, r) => TruthfulRow(copy, s)
         /\ \A e : TruthfulEvent(e, r) => TruthfulEvent(e, s)
BY DEF Follows, Truthful, TruthfulRow, TruthfulEvent

LEMMA OverTruthful ==
  ASSUME NEW f, NEW g, NEW r, Truthful(f, r), Truthful(g, r)
  PROVE  Truthful(Over(f, g), r)
BY DEF Truthful, Over, Field

LEMMA PartTruthful ==
  ASSUME NEW f, NEW some, NEW r, Truthful(f, r)
  PROVE  Truthful(Part(f, some), r)
BY DEF Truthful, Part, Field

\* What a write leaves: it starts from an unfinished row.
LEMMA WrittenTruthful ==
  ASSUME StoredInv, StatusNow \notin TerminalStatuses, NEW changes,
         Set(changes) \in Parts, NEW found, NEW now,
         row' = Updated(changes, found, now)
  PROVE  /\ Follows(row, row')
         /\ Truthful(Set(changes), row')
         /\ row'.found = row.found \cup found
<1>1. row'.fields = Over(row.fields, Set(changes)) /\ row'.found = row.found \cup found
  BY DEF Updated
<1>2. Set(changes)["status"] # Nothing
        => row'.fields["status"] = Set(changes)["status"]
  BY <1>1 DEF Over, Field
<1>3. QED
  BY <1>1, <1>2 DEF Follows, Truthful, StatusNow

LEMMA FeedKept ==
  ASSUME StoredInv, Follows(row, row'),
         UNCHANGED <<sending, channel, lookups>>,
         aborted' = aborted \/ (aborted' # Nothing => Truthful(aborted', row')),
         Truthful(pipeline'.knows, row'), pipeline'.unsent \subseteq row'.found
  PROVE  FeedTruthful'
BY StaysTruthful DEF StoredInv, FeedTruthful

LEMMA ViewKept ==
  ASSUME StoredInv, Follows(row, row'), BrowserKeeps,
         reply' = reply \/ reply' = Asked(reply)
  PROVE  ViewTruthful'
<1>1. reply'.answer = reply.answer
  BY DEF Asked, StoredInv, TypeOK, BrowserTyped
<1>2. /\ TruthfulRow(scanQuery.data, row') /\ TruthfulRow(scanQuery.answer, row')
      /\ TruthfulRow(reply.answer, row')
      /\ patch # Nothing => Truthful(patch.fields, row')
  BY StaysTruthful DEF StoredInv, ViewTruthful
<1>3. row.found \subseteq row'.found
  BY DEF Follows
<1>4. QED
  BY <1>1, <1>2, <1>3 DEF StoredInv, ViewTruthful, BrowserKeeps

LEMMA StoredInit == Init => StoredInv
<1>. SUFFICES ASSUME Init PROVE StoredInv
  OBVIOUS
<1>1. FeedTruthful
  <2>1. Truthful(row.fields, row)
    BY DEF Truthful
  <2>2. QED
    BY <2>1 DEF Init, FeedTruthful, PipelineAt, TruthfulEvent
<1>2. ViewTruthful
  BY DEF Init, ViewTruthful, TruthfulRow, QueryIdle, Asked
<1>3. QED
  BY <1>1, <1>2, TypeInit DEF StoredInv

\* An update of the running scan: the worker's picture stays true.
LEMMA WriteTruthful ==
  ASSUME StoredInv, NEW changes, Set(changes) \in Parts,
         NEW found \in SUBSET Finding, NEW pc, NEW unsent \in SUBSET found,
         WriteWhileRunning(changes, found, pc, unsent)
  PROVE  /\ Follows(row, row')
         /\ Truthful(pipeline'.knows, row')
         /\ pipeline'.unsent \subseteq row'.found
<1>1. CASE StatusNow = "RUNNING"
  <2>1. PICK now \in Now : /\ row' = Updated(changes, found, now)
                           /\ pipeline' = PipelineAt(pc, Knows(changes), unsent)
    BY <1>1 DEF WriteWhileRunning
  <2>2. /\ Follows(row, row') /\ Truthful(Set(changes), row')
        /\ row'.found = row.found \cup found
    BY <1>1, <2>1, WrittenTruthful DEF TerminalStatuses
  <2>3. Truthful(pipeline.knows, row')
    BY <2>2, StaysTruthful DEF StoredInv, FeedTruthful
  <2>4. Truthful(Knows(changes), row')
    BY <2>2, <2>3, OverTruthful DEF Knows
  <2>5. QED
    BY <2>1, <2>2, <2>4 DEF PipelineAt
<1>2. CASE StatusNow # "RUNNING"
  <2>1. row' = row /\ pipeline'.knows = pipeline.knows
                  /\ pipeline'.unsent = pipeline.unsent
    BY <1>2 DEF WriteWhileRunning, StoredInv, TypeOK, ServerTyped, Pipelines
  <2>2. QED
    BY <2>1 DEF StoredInv, FeedTruthful, Follows
<1>3. QED
  BY <1>1, <1>2

\* The worker's steps.
LEMMA StoredPipeline ==
  ASSUME StoredInv, PipelineStep \/ PipelineFails
  PROVE  Follows(row, row') /\ FeedTruthful'
<1>t. TypeOK /\ row \in Rows /\ pipeline \in Pipelines
  BY DEF StoredInv, TypeOK, ServerTyped
<1>w. {"RUNNING", "FAILED", "COMPLETED", "DISCOVERY", "DETECTION"} \subseteq Words
  BY DEF Words, ScanStatuses, TerminalStatuses, OccupyingStatuses
<1>s. row' = row => Follows(row, row')
  BY DEF Follows
<1>1. CASE Claim
  <2>. DEFINE changes == [status |-> "RUNNING", phase |-> "DISCOVERY",
                          progress |-> "DISCOVERY"]
  <2>1. Set(changes) \in Parts
    BY <1>t, <1>w, SetAll
  <2>2. CASE StatusNow \in {"QUEUED", "RUNNING"}
    <3>1. PICK now \in Now :
            /\ row' = Updated(changes, {}, now)
            /\ pipeline' = PipelineAt("claimed", Knows(changes), {})
      BY <1>1, <2>2 DEF Claim
    <3>. HIDE DEF changes
    <3>2. Follows(row, row') /\ Truthful(Set(changes), row')
      BY <2>1, <2>2, <3>1, WrittenTruthful DEF TerminalStatuses
    <3>3. Truthful(pipeline.knows, row')
      BY <3>2, StaysTruthful DEF StoredInv, FeedTruthful
    <3>4. Truthful(pipeline'.knows, row') /\ pipeline'.unsent = {}
      BY <3>1, <3>2, <3>3, OverTruthful DEF Knows, PipelineAt
    <3>5. QED
      BY <1>1, <3>2, <3>4, FeedKept DEF Claim, WorkerOnly
  <2>3. CASE StatusNow \notin {"QUEUED", "RUNNING"}
    <3>1. row' = row /\ pipeline' = pipeline
      BY <1>1, <2>3 DEF Claim
    <3>2. /\ Truthful(pipeline'.knows, row') /\ pipeline'.unsent \subseteq row'.found
      BY <3>1 DEF StoredInv, FeedTruthful
    <3>3. QED
      BY <1>1, <1>s, <3>1, <3>2, FeedKept DEF Claim, WorkerOnly
  <2>4. QED
    BY <2>2, <2>3
<1>2. CASE Checkpoint
  <2>1. Set([phase |-> "DETECTION", progress |-> "DETECTION"]) \in Parts
    BY <1>t, <1>w, SetProgress
  <2>2. /\ Follows(row, row') /\ Truthful(pipeline'.knows, row')
        /\ pipeline'.unsent \subseteq row'.found
    BY <1>2, <2>1, WriteTruthful DEF Checkpoint
  <2>3. QED
    BY <1>2, <2>2, FeedKept DEF Checkpoint, WorkerOnly
<1>3. CASE Persist
  <2>1. Set([status |-> "COMPLETED", phase |-> "COMPLETED",
             progress |-> "COMPLETED"]) \in Parts
    BY <1>t, <1>w, SetAll
  <2>2. /\ Follows(row, row') /\ Truthful(pipeline'.knows, row')
        /\ pipeline'.unsent \subseteq row'.found
    BY <1>3, <2>1, WriteTruthful DEF Persist
  <2>3. QED
    BY <1>3, <2>2, FeedKept DEF Persist, WorkerOnly
<1>4. CASE PipelineFails
  <2>1. Set([status |-> "FAILED"]) \in Parts
    BY <1>t, <1>w, SetStatus
  <2>2. /\ Follows(row, row') /\ Truthful(pipeline'.knows, row')
        /\ pipeline'.unsent \subseteq row'.found
    <3>1. WriteWhileRunning([status |-> "FAILED"], {}, "failed", {})
      BY <1>4 DEF PipelineFails
    <3>2. QED
      BY <2>1, <3>1, WriteTruthful
  <2>3. QED
    BY <1>4, <2>2, FeedKept DEF PipelineFails, WorkerOnly
<1>5. CASE Announce
  <2>1. PICK now \in Now :
          sending' = [sending EXCEPT !["worker"] =
            Event(now, Part(pipeline.knows, Announces[pipeline.pc]), {})]
    BY <1>5 DEF Announce
  <2>2. Truthful(Part(pipeline.knows, Announces[pipeline.pc]), row)
    BY PartTruthful DEF StoredInv, FeedTruthful
  <2>3. TruthfulEvent(sending'["worker"], row)
    BY <2>1, <2>2 DEF TruthfulEvent, Event, StoredInv, TypeOK, BusTyped
  <2>4. sending'["api"] = sending["api"]
    BY <2>1 DEF StoredInv, TypeOK, BusTyped
  <2>5. pipeline'.knows = pipeline.knows /\ pipeline'.unsent = pipeline.unsent
    BY <1>5, <1>t DEF Announce, Pipelines
  <2>6. QED
    BY <1>5, <1>s, <2>3, <2>4, <2>5 DEF Announce, WorkerOnly, StoredInv, FeedTruthful
<1>6. CASE AnnounceFinding
  <2>1. CASE pipeline.unsent = {}
    <3>1. pipeline'.knows = pipeline.knows /\ pipeline'.unsent = pipeline.unsent
      BY <1>6, <1>t, <2>1 DEF AnnounceFinding, Pipelines
    <3>2. QED
      BY <1>6, <1>s, <2>1, <3>1
      DEF AnnounceFinding, WorkerOnly, StoredInv, FeedTruthful
  <2>2. CASE pipeline.unsent # {}
    <3>1. PICK f \in pipeline.unsent, now \in Now :
            /\ sending' = [sending EXCEPT !["worker"] = Event(now, NoFields, {f})]
            /\ pipeline' = [pipeline EXCEPT !.unsent = @ \ {f}]
      BY <1>6, <2>2 DEF AnnounceFinding
    <3>2. Truthful(NoFields, row)
      BY DEF Truthful, NoFields, Field
    <3>3. TruthfulEvent(sending'["worker"], row)
      BY <3>1, <3>2
      DEF TruthfulEvent, Event, StoredInv, FeedTruthful, TypeOK, BusTyped
    <3>4. sending'["api"] = sending["api"]
      BY <3>1 DEF StoredInv, TypeOK, BusTyped
    <3>5. pipeline'.knows = pipeline.knows /\ pipeline'.unsent \subseteq pipeline.unsent
      BY <1>t, <3>1 DEF Pipelines
    <3>6. row' = row /\ UNCHANGED <<aborted, channel, lookups>>
      BY <1>6 DEF AnnounceFinding, WorkerOnly
    <3>7. QED
      BY <1>s, <3>3, <3>4, <3>5, <3>6 DEF StoredInv, FeedTruthful
  <2>3. QED
    BY <2>1, <2>2
<1>7. QED
  BY <1>1, <1>2, <1>3, <1>4, <1>5, <1>6 DEF PipelineStep

\* The announcement of an abort, and the channel.
LEMMA StoredChannel ==
  ASSUME StoredInv,
         \/ AnnounceAbort \/ LookUpOwner \/ OwnershipExpires
         \/ \E p \in {"worker", "api"} : Publish(p) \/ PublishFails(p)
  PROVE  Follows(row, row') /\ FeedTruthful'
<1>. USE DEF StoredInv, FeedTruthful, serverVars
<1>t. /\ sending \in [{"worker", "api"} -> Events \cup {Nothing}]
      /\ channel \in Seq(Events)
  BY DEF TypeOK, BusTyped
<1>r. row' = row
  BY DEF AnnounceAbort, LookUpOwner, OwnershipExpires, Publish, PublishFails
<1>s. Follows(row, row')
  BY <1>r DEF Follows
<1>n. TruthfulEvent(Nothing, row)
  BY DEF TruthfulEvent
<1>1. CASE AnnounceAbort
  <2>1. PICK now \in Now :
          sending' = [sending EXCEPT !["api"] = Event(now, aborted, {})]
    BY <1>1 DEF AnnounceAbort
  <2>2. TruthfulEvent(Event(now, aborted, {}), row)
    BY <1>1 DEF AnnounceAbort, TruthfulEvent, Event
  <2>3. \A p \in {"worker", "api"} : TruthfulEvent(sending'[p], row)
    BY <1>t, <2>1, <2>2
  <2>4. QED
    BY <1>1, <1>r, <1>s, <2>3 DEF AnnounceAbort
<1>2. CASE LookUpOwner
  <2>1. TruthfulEvent(Head(channel), row)
    BY <1>2, <1>t DEF LookUpOwner
  <2>2. \A i \in 1..Len(channel') : TruthfulEvent(channel'[i], row)
    BY <1>2, <1>t DEF LookUpOwner
  <2>3. QED
    BY <1>2, <1>r, <1>s, <2>1, <2>2 DEF LookUpOwner
<1>3. CASE OwnershipExpires
  BY <1>3, <1>r, <1>s DEF OwnershipExpires
<1>4. ASSUME NEW p \in {"worker", "api"}, Publish(p)
      PROVE  FeedTruthful'
  <2>1. \A q \in {"worker", "api"} : TruthfulEvent(sending'[q], row)
    BY <1>4, <1>t, <1>n DEF Publish
  <2>2. \A i \in 1..Len(channel') : TruthfulEvent(channel'[i], row)
    <3>1. sending[p] \in Events /\ TruthfulEvent(sending[p], row)
      BY <1>4, <1>t DEF Publish
    <3>2. QED
      BY <1>4, <1>t, <3>1 DEF Publish
  <2>3. QED
    BY <1>4, <1>r, <2>1, <2>2 DEF Publish
<1>5. ASSUME NEW p \in {"worker", "api"}, PublishFails(p)
      PROVE  FeedTruthful'
  <2>1. \A q \in {"worker", "api"} : TruthfulEvent(sending'[q], row)
    BY <1>5, <1>t, <1>n DEF PublishFails
  <2>2. QED
    BY <1>5, <1>r, <2>1 DEF PublishFails
<1>6. QED
  BY <1>1, <1>2, <1>3, <1>4, <1>5, <1>s

\* Users and administrators.
LEMMA StoredControl ==
  ASSUME StoredInv, ControlStep
  PROVE  FeedTruthful' /\ ViewTruthful'
<1>t. TypeOK /\ row \in Rows
  BY DEF StoredInv, TypeOK, ServerTyped
<1>1. CASE AbortScan
  <2>1. Set([status |-> "ABORTED_SAFETY"]) \in Parts
    BY <1>t, SetStatus DEF Words, ScanStatuses, TerminalStatuses
  <2>2. StatusNow \notin TerminalStatuses
    BY <1>1 DEF AbortScan, OccupyingStatuses, TerminalStatuses
  <2>3. /\ Follows(row, row')
        /\ Truthful(aborted', row')
    BY <1>1, <2>1, <2>2, WrittenTruthful DEF AbortScan
  <2>4. Truthful(pipeline'.knows, row') /\ pipeline'.unsent \subseteq row'.found
    BY <1>1, <2>3, StaysTruthful DEF AbortScan, StoredInv, FeedTruthful, Follows
  <2>5. QED
    BY <1>1, <2>3, <2>4, FeedKept, ViewKept DEF AbortScan, ControlStep
<1>2. ASSUME NEW action \in DOMAIN Becomes, ControlScan(action)
      PROVE  FeedTruthful' /\ ViewTruthful'
  <2>. DEFINE changes == [status |-> Becomes[action]]
  <2>1. action \in {"pause", "resume", "cancel"}
    BY DEF Becomes
  <2>2. StatusNow \notin TerminalStatuses
    BY <1>2, <2>1 DEF ControlScan, Allowed, CanPause, CanResume, CanCancel,
       TerminalStatuses
  <2>3. Becomes[action] \in Words
    BY <2>1 DEF Becomes, Words, ScanStatuses, TerminalStatuses, OccupyingStatuses
  <2>4. Set(changes) \in Parts
    BY <1>t, <2>3, SetStatus
  <2>5. \E now \in Now : row' = Updated(changes, {}, now)
    BY <1>2 DEF ControlScan
  <2>. HIDE DEF changes
  <2>6. Follows(row, row')
    BY <2>2, <2>4, <2>5, WrittenTruthful
  <2>7. Truthful(pipeline'.knows, row') /\ pipeline'.unsent \subseteq row'.found
    BY <1>2, <2>6, StaysTruthful DEF ControlScan, StoredInv, FeedTruthful, Follows
  <2>8. UNCHANGED <<sending, channel, lookups>> /\ aborted' = aborted
        /\ (reply' = reply \/ reply' = Asked(reply))
    BY <1>2 DEF ControlScan
  <2>9. QED
    BY <2>6, <2>7, <2>8, FeedKept, ViewKept DEF ControlStep
<1>3. QED
  BY <1>1, <1>2 DEF ControlStep

\* The subscriber takes what is true into the patch and the list.
LEMMA StoredReceive ==
  ASSUME StoredInv, NEW e \in Events, TruthfulEvent(e, row), Receive(e),
         row' = row, UNCHANGED reply, e # Nothing
  PROVE  ViewTruthful'
<1>1. e.found \subseteq row.found /\ Truthful(e.fields, row)
  BY DEF TruthfulEvent
<1>2. Truthful(Applied(e).fields, row)
  <2>1. patch # Nothing => /\ Truthful(Over(e.fields, patch.fields), row)
                           /\ Truthful(Over(patch.fields, e.fields), row)
    BY <1>1, OverTruthful DEF StoredInv, ViewTruthful
  <2>2. QED
    BY <1>1, <2>1 DEF Applied
<1>3. patch' # Nothing => Truthful(patch'.fields, row)
  BY <1>2 DEF Receive, StoredInv, ViewTruthful
<1>4. \A f \in Finding : list'[f] # "absent" => f \in row.found
  BY <1>1 DEF Receive, Upserted, Supersedes, StoredInv, ViewTruthful
<1>5. /\ scanQuery'.data = scanQuery.data /\ scanQuery'.answer = scanQuery.answer
      /\ findingsQuery'.answer = findingsQuery.answer
  BY DEF Receive, Invalidate, Restarted, Asked, StoredInv, TypeOK, BrowserTyped
<1>6. QED
  BY <1>3, <1>4, <1>5 DEF StoredInv, ViewTruthful

\* fanOut.
LEMMA StoredForward ==
  ASSUME StoredInv, ForwardNow \/ ForwardLater
  PROVE  FeedTruthful' /\ ViewTruthful'
<1>t. /\ channel \in Seq(Events) /\ lookups \subseteq Events
  BY DEF StoredInv, TypeOK, BusTyped
<1>1. CASE ForwardNow
  <2>1. Head(channel) \in Events /\ TruthfulEvent(Head(channel), row)
    BY <1>1, <1>t DEF ForwardNow, StoredInv, FeedTruthful
  <2>2. \A i \in 1..Len(channel') : TruthfulEvent(channel'[i], row)
    BY <1>1, <1>t DEF ForwardNow, StoredInv, FeedTruthful
  <2>3. ViewTruthful'
    BY <1>1, <2>1, StoredReceive, NothingAssumption DEF ForwardNow, serverVars
  <2>4. QED
    BY <1>1, <2>2, <2>3 DEF ForwardNow, serverVars, StoredInv, FeedTruthful
<1>2. CASE ForwardLater
  <2>1. PICK e \in lookups : /\ Receive(e) /\ lookups' = lookups \ {e}
                             /\ UNCHANGED <<serverVars, sending, channel, reply>>
    BY <1>2 DEF ForwardLater
  <2>2. e \in Events /\ TruthfulEvent(e, row)
    BY <1>t DEF StoredInv, FeedTruthful
  <2>3. ViewTruthful'
    BY <2>1, <2>2, StoredReceive, NothingAssumption DEF serverVars
  <2>4. QED
    BY <2>1, <2>3 DEF serverVars, StoredInv, FeedTruthful
<1>3. QED
  BY <1>1, <1>2

\* The browser's own steps.
LEMMA StoredView ==
  ASSUME StoredInv, ViewStep \/ ViewChange
  PROVE  FeedTruthful' /\ ViewTruthful'
<1>. USE DEF StoredInv
<1>t. /\ row' = row /\ UNCHANGED <<serverVars, busVars>>
  BY DEF ViewStep, ViewChange, PollScan, ReadScan, ScanArrives, ReadFindings,
     FindingsArrive, AnswerControl, SettleControl, WatchdogCloses, Reconnect, RefetchOnFocus,
     Refresh, SocketOpens, SocketCloses, SocketGoesSilent, SocketOnly, NothingElse,
     BrowserRest, serverVars
<1>f. FeedTruthful'
  BY <1>t DEF FeedTruthful, serverVars, busVars
<1>n. TruthfulRow(Nothing, row) /\ TruthfulRow(row, row)
  BY DEF TruthfulRow, Truthful
<1>q. /\ scanQuery \in [state : QueryStates, answer : Rows \cup {Nothing},
                        data : Rows \cup {Nothing}]
      /\ findingsQuery \in [state : QueryStates, answer : SUBSET Finding,
                        loaded : BOOLEAN]
  BY DEF TypeOK, BrowserTyped
<1>. USE DEF ViewTruthful
<1>1. CASE ReadScan
  <2>1. scanQuery'.data = scanQuery.data /\ scanQuery'.answer = row
    BY <1>1, <1>q DEF ReadScan
  <2>2. QED
    BY <1>1, <1>t, <1>f, <1>n, <2>1 DEF ReadScan
<1>2. CASE ScanArrives
  BY <1>2, <1>t, <1>f, <1>n, <1>q DEF ScanArrives
<1>3. CASE ReadFindings
  BY <1>3, <1>t, <1>f DEF ReadFindings
<1>4. CASE FindingsArrive
  <2>1. \A f \in Finding : list'[f] # "absent" => f \in row.found
    BY <1>4 DEF FindingsArrive, Upserted, Supersedes
  <2>2. findingsQuery'.answer = {}
    BY <1>4 DEF FindingsArrive
  <2>3. QED
    BY <1>4, <1>t, <1>f, <2>1, <2>2 DEF FindingsArrive
<1>5. CASE SettleControl
  <2>1. /\ scanQuery'.data = reply.answer /\ scanQuery'.answer = scanQuery.answer
        /\ reply'.answer = Nothing
    BY <1>5, <1>q DEF SettleControl
  <2>2. QED
    BY <1>5, <1>t, <1>f, <1>n, <2>1 DEF SettleControl
<1>6. CASE AnswerControl
  <2>1. reply'.answer = row
    BY <1>6 DEF AnswerControl
  <2>2. QED
    BY <1>6, <1>t, <1>f, <1>n, <2>1 DEF AnswerControl
<1>7. CASE PollScan \/ RefetchOnFocus \/ Refresh
  <2>1. /\ scanQuery'.data = scanQuery.data /\ scanQuery'.answer = scanQuery.answer
        /\ findingsQuery'.answer = findingsQuery.answer
    BY <1>7, <1>q DEF PollScan, RefetchOnFocus, Refresh, Asked
  <2>2. UNCHANGED <<reply, list>> /\ (patch' = patch \/ patch' = Nothing)
    BY <1>7 DEF PollScan, RefetchOnFocus, Refresh
  <2>3. QED
    BY <1>t, <1>f, <2>1, <2>2
<1>8. CASE UNCHANGED <<queryVars, patch, list>>
  BY <1>8, <1>t, <1>f DEF queryVars
<1>9. QED
  BY <1>1, <1>2, <1>3, <1>4, <1>5, <1>6, <1>7, <1>8
  DEF ViewStep, ViewChange, WatchdogCloses, Reconnect, SocketOpens,
      SocketCloses, SocketGoesSilent, SocketOnly, NothingElse

\* What shows is true: the merge of two truthful parts.
LEMMA StoredImpliesShown == StoredInv => ShownIsStored
<1>. SUFFICES ASSUME StoredInv, Loaded, Shown["status"].is \in TerminalStatuses
              PROVE  StatusNow = Shown["status"].is
  BY DEF ShownIsStored, StoredInv, ViewTruthful
<1>1. Snapshot \in Rows /\ Truthful(Snapshot.fields, row)
  BY DEF Snapshot, Loaded, StoredInv, ViewTruthful, TruthfulRow, TypeOK, BrowserTyped
<1>2. Snapshot.fields["status"] \in Values
  BY <1>1 DEF Rows, Field
<1>3. CASE PatchIsFresh
  <2>1. Truthful(patch.fields, row)
    BY <1>3 DEF PatchIsFresh, StoredInv, ViewTruthful
  <2>2. Shown["status"] = IF patch.fields["status"] = Nothing
                          THEN Snapshot.fields["status"] ELSE patch.fields["status"]
    BY <1>3 DEF Shown, Over, Field
  <2>3. QED
    BY <1>1, <1>2, <2>1, <2>2, NothingAssumption DEF Truthful, StatusNow
<1>4. CASE ~PatchIsFresh
  BY <1>1, <1>2, <1>4, NothingAssumption DEF Shown, Truthful, StatusNow
<1>5. QED
  BY <1>3, <1>4

\* Nothing is shown that is not so: an ending on the screen is the stored one, a
\* finding on the screen is stored, through any loss, delay or reordering.
THEOREM ShownIsStoredAlways == Spec => []ShownIsStored
<1>1. ASSUME StoredInv, [Next]_vars
      PROVE  StoredInv'
  <2>1. TypeOK'
    BY <1>1, LiveTypesStep DEF StoredInv
  <2>2. CASE ServerStep \/ ServerFault
    <3>1. Follows(row, row') /\ FeedTruthful'
      BY <1>1, <2>2, StoredPipeline, StoredChannel
      DEF ServerStep, ServerFault, FeedStep, FeedFault
    <3>2. ViewTruthful'
      BY <1>1, <2>2, <3>1, ViewKept DEF ServerStep, ServerFault
    <3>3. QED
      BY <2>1, <3>1, <3>2 DEF StoredInv
  <2>3. CASE ControlStep
    BY <1>1, <2>1, <2>3, StoredControl DEF StoredInv
  <2>4. CASE ForwardNow \/ ForwardLater
    BY <1>1, <2>1, <2>4, StoredForward DEF StoredInv
  <2>5. CASE ViewStep \/ ViewChange
    BY <1>1, <2>1, <2>5, StoredView DEF StoredInv
  <2>6. CASE UNCHANGED vars
    BY <1>1, <2>1, <2>6 DEF vars, StoredInv, FeedTruthful, ViewTruthful
  <2>7. QED
    BY <1>1, <2>2, <2>3, <2>4, <2>5, <2>6 DEF Next
<1>2. QED
  BY StoredInit, <1>1, StoredImpliesShown, PTL DEF Spec

(***************************************************************************)
(* The status only moves forward                                            *)
(***************************************************************************)
\* Nobody controls the scan, no event is lost, delayed by an ownership query or
\* missed by a socket that comes back, and no two moments have one stamp.  TLC
\* refutes StatusForward without any of these.
InOrder ==
  /\ Disturbances \subseteq {"disconnect", "refresh"}
  /\ MaxReconnects = 0
  /\ 0 \notin Elapsed

\* The worker's events on their way to the page, oldest first.
Pipe == IF Idle THEN channel ELSE Append(channel, sending["worker"])

\* The copies of the row on the page and on their way to it, and the row.
Copies == {row} \cup ({scanQuery.data, scanQuery.answer} \ {Nothing})

\* An event or the patch tells of a status, and of which write.
Tells(e)     == e.fields["status"] # Nothing
StatusOf(e)  == e.fields["status"].since

PatchTells == patch # Nothing /\ Tells(patch)

\* Up to the i-th event under way a status is told, one from write s on.
Told(i)     == PatchTells \/ \E j \in 1..i : Tells(Pipe[j])
ToldFrom(s, i) == \/ PatchTells /\ s <= StatusOf(patch)
                  \/ \E j \in 1..i : Tells(Pipe[j]) /\ s <= StatusOf(Pipe[j])

\* Stamps grow from the patch over the events under way to the clock.
StampsGrow ==
  /\ row.updatedAt <= clock
  /\ \A S \in Copies : S.updatedAt <= row.updatedAt
  /\ \A i \in 1..Len(Pipe) :
       /\ Pipe[i].at <= clock
       /\ patch # Nothing => patch.at <= Pipe[i].at
       /\ \A j \in 1..i : Pipe[j].at <= Pipe[i].at
  /\ patch # Nothing => patch.at <= clock

\* So do the statuses, up to the row's.
StatusesGrow ==
  /\ \A S \in Copies : StatusOf(S) <= StatusOf(row)
  /\ scanQuery.data # Nothing /\ scanQuery.answer # Nothing
       => /\ StatusOf(scanQuery.data) <= StatusOf(scanQuery.answer)
          /\ scanQuery.data.updatedAt <= scanQuery.answer.updatedAt
  /\ PatchTells => StatusOf(patch) <= StatusOf(row)
  /\ \A i \in 1..Len(Pipe) : Tells(Pipe[i]) =>
       /\ StatusOf(Pipe[i]) <= StatusOf(row)
       /\ PatchTells => StatusOf(patch) <= StatusOf(Pipe[i])
       /\ \A j \in 1..i : Tells(Pipe[j]) => StatusOf(Pipe[j]) <= StatusOf(Pipe[i])

\* A copy written after a stamp has what the stamp tells.
CopiesHaveOlder ==
  \A S \in Copies :
    /\ PatchTells /\ patch.at < S.updatedAt => StatusOf(patch) <= StatusOf(S)
    /\ \A i \in 1..Len(Pipe) :
         Tells(Pipe[i]) /\ Pipe[i].at < S.updatedAt => StatusOf(Pipe[i]) <= StatusOf(S)

Listens == socket \in {"connecting", "connected"}

Announced == {"begun", "crawling", "checked", "detecting", "counted"}

\* On a page that has heard all there was, the status told with or before an
\* event is not older than that of any copy written before the stamp.
EventsHaveOlder ==
  Listens =>
    /\ \A S \in Copies, i \in 1..Len(Pipe) :
         Carried(Pipe[i].fields) # {} /\ S.updatedAt <= Pipe[i].at /\ Told(i)
           => ToldFrom(StatusOf(S), i)
    /\ pipeline.pc \in Announced /\ Told(Len(Pipe))
         => ToldFrom(StatusOf(row), Len(Pipe))

\* What the quiet makes impossible.
Quiet ==
  /\ sending["api"] = Nothing /\ aborted = Nothing
  /\ owner = "known" /\ lookups = {}
  /\ reply.state = "idle"
  /\ socket # "disconnected"
  /\ socket = "connecting" => patch = Nothing
  /\ pipeline.knows = row.fields

OrderFacts ==
  /\ StampsGrow /\ StatusesGrow
  /\ CopiesHaveOlder /\ EventsHaveOlder

\* A status is of a write the row has had.
OrderInv ==
  TypeOK /\ Quiet /\ OrderFacts /\ StatusOf(row) <= row.version

(***************************************************************************)
(* Types of what the invariant speaks of                                    *)
(***************************************************************************)
LEMMA RowStamped ==
  ASSUME NEW S \in Rows
  PROVE  S.updatedAt \in Nat /\ S.fields["status"] \in Values /\ StatusOf(S) \in Nat
BY DEF Rows, Field, Values, StatusOf

LEMMA EventStamped ==
  ASSUME NEW e, e \in Patches \/ e \in Events
  PROVE  e.at \in Nat /\ (Tells(e) => StatusOf(e) \in Nat)
BY DEF Events, Parts, Field, Values, Tells, StatusOf, Patches

LEMMA PipeTyped ==
  ASSUME TypeOK
  PROVE  /\ Pipe \in Seq(Events)
         /\ \A i \in 1..Len(Pipe) :
              Pipe[i].at \in Nat /\ (Tells(Pipe[i]) => StatusOf(Pipe[i]) \in Nat)
<1>1. Pipe \in Seq(Events)
  BY DEF Pipe, Idle, TypeOK, BusTyped
<1>2. \A i \in 1..Len(Pipe) : Pipe[i] \in Events
  BY <1>1
<1>3. QED
  BY <1>1, <1>2, EventStamped

LEMMA CopiesTyped ==
  ASSUME TypeOK
  PROVE  \A S \in Copies : S.updatedAt \in Nat /\ StatusOf(S) \in Nat
<1>1. Copies \subseteq Rows
  BY DEF Copies, TypeOK, ServerTyped, BrowserTyped
<1>2. QED
  BY <1>1, RowStamped

LEMMA PatchTyped ==
  ASSUME TypeOK, patch # Nothing
  PROVE  patch.at \in Nat /\ (Tells(patch) => StatusOf(patch) \in Nat)
<1>1. patch \in Patches
  BY DEF TypeOK, BrowserTyped
<1>2. QED
  BY <1>1, EventStamped

(***************************************************************************)
(* What the steps do to the order                                           *)
(***************************************************************************)
\* The page reads the row, an answer comes in, a socket closes.
LEMMA CopiesMove ==
  ASSUME TypeOK, OrderFacts,
         UNCHANGED <<row, clock, pipeline, patch>>, Pipe' = Pipe,
         Copies' \subseteq Copies, Listens' => Listens,
         scanQuery'.data # Nothing /\ scanQuery'.answer # Nothing
           => /\ StatusOf(scanQuery'.data) <= StatusOf(scanQuery'.answer)
              /\ scanQuery'.data.updatedAt <= scanQuery'.answer.updatedAt
  PROVE  OrderFacts'
<1>. USE DEF OrderFacts, PatchTells, Told, ToldFrom, Tells, StatusOf
<1>1. StampsGrow'
  BY DEF StampsGrow
<1>2. StatusesGrow'
  BY DEF StatusesGrow
<1>3. CopiesHaveOlder'
  BY DEF CopiesHaveOlder
<1>4. EventsHaveOlder'
  BY DEF EventsHaveOlder
<1>5. QED
  BY <1>1, <1>2, <1>3, <1>4

\* The worker writes the row, at a later moment than any stamped before.
LEMMA RowMoves ==
  ASSUME TypeOK, TypeOK', OrderFacts, UNCHANGED <<patch, scanQuery, socket>>, Pipe' = Pipe,
         clock < clock', row'.updatedAt = clock', StatusOf(row) <= StatusOf(row'),
         pipeline'.pc \in Announced
           => pipeline.pc \in Announced /\ StatusOf(row') = StatusOf(row)
  PROVE  OrderFacts'
<1>t. clock \in Nat /\ clock' \in Nat /\ row \in Rows /\ row' \in Rows
  BY DEF TypeOK, ServerTyped
<1>r. /\ row.updatedAt \in Nat /\ StatusOf(row) \in Nat
      /\ row'.updatedAt \in Nat /\ StatusOf(row') \in Nat
  BY <1>t, RowStamped
<1>c. \A S \in Copies' : S = row' \/ S \in Copies
  BY DEF Copies
<1>p. /\ PatchTells' = PatchTells /\ Len(Pipe)' = Len(Pipe)
      /\ \A i : Told(i)' = Told(i)
      /\ \A s, i : ToldFrom(s, i)' = ToldFrom(s, i)
  BY DEF PatchTells, Told, ToldFrom
<1>. USE DEF OrderFacts
<1>1. StampsGrow'
  BY <1>t, <1>r, <1>c, PipeTyped, PatchTyped, CopiesTyped DEF StampsGrow
<1>2. StatusesGrow'
  BY <1>r, <1>c, <1>p, PipeTyped, PatchTyped, CopiesTyped DEF StatusesGrow, PatchTells
<1>3. CopiesHaveOlder'
  BY <1>r, <1>c, <1>p, <1>2, PipeTyped, PatchTyped, CopiesTyped
  DEF CopiesHaveOlder, StatusesGrow, PatchTells
<1>4. EventsHaveOlder'
  <2>1. ASSUME Listens', NEW S \in Copies', NEW i \in 1..Len(Pipe),
               Carried(Pipe[i].fields) # {}, S.updatedAt <= Pipe[i].at, Told(i)
        PROVE  ToldFrom(StatusOf(S), i)
    <3>1. S # row'
      BY <1>t, <1>r, <2>1, PipeTyped DEF StampsGrow
    <3>2. QED
      BY <1>c, <2>1, <3>1 DEF EventsHaveOlder, Listens
  <2>2. QED
    BY <1>p, <2>1 DEF EventsHaveOlder, Listens
<1>5. QED
  BY <1>1, <1>2, <1>3, <1>4

\* The worker stamps an event.
LEMMA PipeGrows ==
  ASSUME TypeOK, TypeOK', OrderFacts, UNCHANGED <<row, patch, scanQuery, socket>>,
         NEW e \in Events, Pipe' = Append(Pipe, e),
         clock < clock', e.at = clock',
         Tells(e) => StatusOf(e) = StatusOf(row),
         Carried(e.fields) # {} => Tells(e) \/ pipeline.pc \in Announced,
         pipeline'.pc \in Announced => Tells(e) \/ pipeline.pc \in Announced
  PROVE  OrderFacts'
<1>t. clock \in Nat /\ clock' \in Nat /\ row \in Rows /\ Pipe \in Seq(Events)
  BY PipeTyped DEF TypeOK, ServerTyped
<1>r. /\ row.updatedAt \in Nat /\ StatusOf(row) \in Nat
  BY <1>t, RowStamped
<1>c. Copies' = Copies
  BY DEF Copies
<1>n. PICK n : n = Len(Pipe) + 1
  OBVIOUS
<1>l. /\ Len(Pipe)' = n /\ Len(Pipe) = n - 1 /\ n \in Nat
      /\ \A i \in 1..Len(Pipe) : Pipe'[i] = Pipe[i]
      /\ Pipe'[n] = e
  BY <1>t, <1>n
<1>e. e.at \in Nat
  BY EventStamped
<1>p. PatchTells' = PatchTells
  BY DEF PatchTells
<1>i. \A i \in 1..n : i = n \/ i \in 1..Len(Pipe)
  BY <1>l
<1>j. \A i \in 1..Len(Pipe) : \A j \in 1..i : j \in 1..Len(Pipe)
  BY <1>l
<1>q. /\ \A i \in 1..Len(Pipe) : Told(i)' = Told(i)
      /\ \A i \in 1..Len(Pipe) : \A s : ToldFrom(s, i)' = ToldFrom(s, i)
  BY <1>l, <1>j, <1>p DEF Told, ToldFrom
<1>. USE DEF OrderFacts
<1>1. StampsGrow'
  BY <1>t, <1>r, <1>c, <1>l, <1>e, <1>i, <1>j, PipeTyped, PatchTyped, CopiesTyped
  DEF StampsGrow
<1>2. StatusesGrow'
  <2>1. \A i \in 1..Len(Pipe) : Tells(Pipe[i]) =>
          /\ StatusOf(Pipe[i]) <= StatusOf(row)
          /\ PatchTells => StatusOf(patch) <= StatusOf(Pipe[i])
          /\ \A j \in 1..i : Tells(Pipe[j]) => StatusOf(Pipe[j]) <= StatusOf(Pipe[i])
    BY DEF StatusesGrow
  <2>2. Tells(e) =>
          /\ StatusOf(e) <= StatusOf(row)
          /\ PatchTells => StatusOf(patch) <= StatusOf(e)
          /\ \A j \in 1..n : Tells(Pipe'[j]) => StatusOf(Pipe'[j]) <= StatusOf(e)
    BY <1>r, <1>l, <1>i DEF StatusesGrow
  <2>3. \A i \in 1..n : Tells(Pipe'[i]) =>
          /\ StatusOf(Pipe'[i]) <= StatusOf(row)
          /\ PatchTells => StatusOf(patch) <= StatusOf(Pipe'[i])
          /\ \A j \in 1..i : Tells(Pipe'[j]) => StatusOf(Pipe'[j]) <= StatusOf(Pipe'[i])
    BY <1>l, <1>i, <1>j, <2>1, <2>2
  <2>4. QED
    BY <1>c, <1>l, <1>p, <2>3 DEF StatusesGrow
<1>3. CopiesHaveOlder'
  <2>1. \A S \in Copies : ~(e.at < S.updatedAt)
    BY <1>t, <1>r, <1>e, CopiesTyped DEF StampsGrow
  <2>2. QED
    BY <1>c, <1>l, <1>i, <1>p, <2>1 DEF CopiesHaveOlder, StampsGrow
<1>4. EventsHaveOlder'
  <2>1. ASSUME Listens, Tells(e) \/ pipeline.pc \in Announced,
               Told(n)', NEW S \in Copies
        PROVE  ToldFrom(StatusOf(S), n)'
    <3>1. StatusOf(S) <= StatusOf(row) /\ StatusOf(S) \in Nat
      BY CopiesTyped DEF StatusesGrow
    <3>2. CASE Tells(e)
      BY <1>l, <2>1, <3>1, <3>2 DEF ToldFrom
    <3>3. CASE ~Tells(e)
      <4>1. Told(Len(Pipe))
        BY <1>l, <1>i, <1>p, <2>1, <3>3 DEF Told
      <4>2. ToldFrom(StatusOf(row), Len(Pipe))
        BY <2>1, <3>3, <4>1 DEF EventsHaveOlder
      <4>3. ToldFrom(StatusOf(S), Len(Pipe))
        BY <1>r, <3>1, <4>2, PipeTyped, PatchTyped DEF ToldFrom, PatchTells
      <4>4. QED
        BY <1>l, <1>p, <4>3 DEF ToldFrom
    <3>4. QED
      BY <3>2, <3>3
  <2>2. Listens' = Listens
    BY DEF Listens
  <2>3. row \in Copies
    BY DEF Copies
  <2>4. ASSUME Listens, NEW S \in Copies, NEW i \in 1..n,
               Carried(Pipe'[i].fields) # {}, S.updatedAt <= Pipe'[i].at, Told(i)'
        PROVE  ToldFrom(StatusOf(S), i)'
    <3>1. CASE i = n
      BY <1>l, <2>1, <2>4, <3>1
    <3>2. CASE i \in 1..Len(Pipe)
      BY <1>l, <1>q, <2>4, <3>2 DEF EventsHaveOlder
    <3>3. QED
      BY <1>i, <3>1, <3>2
  <2>5. ASSUME Listens, pipeline'.pc \in Announced, Told(n)'
        PROVE  ToldFrom(StatusOf(row), n)'
    BY <2>1, <2>3, <2>5
  <2>6. QED
    BY <1>c, <1>l, <2>2, <2>4, <2>5 DEF EventsHaveOlder
<1>5. QED
  BY <1>1, <1>2, <1>3, <1>4

\* The patch is dropped.
LEMMA PatchDropped ==
  ASSUME TypeOK, OrderFacts, UNCHANGED <<row, clock, pipeline, socket>>, Pipe' = Pipe,
         patch' = Nothing, Copies' = Copies,
         UNCHANGED <<scanQuery.data, scanQuery.answer>>
  PROVE  OrderFacts'
<1>. USE DEF OrderFacts
<1>p. ~PatchTells'
  BY DEF PatchTells
<1>1. StampsGrow'
  BY DEF StampsGrow
<1>2. StatusesGrow'
  BY <1>p DEF StatusesGrow
<1>3. CopiesHaveOlder'
  BY <1>p DEF CopiesHaveOlder
<1>4. EventsHaveOlder'
  <2>1. ASSUME NEW s \in Nat, NEW i \in 0..Len(Pipe), Told(i)', Told(i) => ToldFrom(s, i)
        PROVE  ToldFrom(s, i)'
    <3>1. PICK j \in 1..i : Tells(Pipe[j])
      BY <1>p, <2>1 DEF Told
    <3>2. j \in 1..Len(Pipe) /\ StatusOf(Pipe[j]) \in Nat
      BY <2>1, <3>1, PipeTyped
    <3>3. ToldFrom(s, i)
      BY <2>1, <3>1 DEF Told
    <3>4. CASE PatchTells /\ s <= StatusOf(patch)
      <4>1. StatusOf(patch) \in Nat /\ StatusOf(patch) <= StatusOf(Pipe[j])
        BY <3>1, <3>2, <3>4, PatchTyped DEF StatusesGrow, PatchTells
      <4>2. s <= StatusOf(Pipe[j])
        BY <3>2, <3>4, <4>1
      <4>3. QED
        BY <3>1, <4>2 DEF ToldFrom
    <3>5. CASE ~(PatchTells /\ s <= StatusOf(patch))
      BY <3>3, <3>5 DEF ToldFrom
    <3>6. QED
      BY <3>4, <3>5
  <2>2. \A S \in Copies : StatusOf(S) \in Nat
    BY CopiesTyped
  <2>3. row \in Copies /\ Listens' = Listens
    BY DEF Copies, Listens
  <2>4. Len(Pipe) \in 0..Len(Pipe) /\ 1..Len(Pipe) \subseteq 0..Len(Pipe)
    BY PipeTyped
  <2>5. ASSUME Listens, NEW S \in Copies, NEW i \in 1..Len(Pipe),
               Carried(Pipe[i].fields) # {}, S.updatedAt <= Pipe[i].at, Told(i)'
        PROVE  ToldFrom(StatusOf(S), i)'
    BY <2>1, <2>2, <2>4, <2>5 DEF EventsHaveOlder
  <2>6. ASSUME Listens, pipeline.pc \in Announced, Told(Len(Pipe))'
        PROVE  ToldFrom(StatusOf(row), Len(Pipe))'
    BY <2>1, <2>2, <2>3, <2>4, <2>6 DEF EventsHaveOlder
  <2>7. QED
    BY <2>3, <2>5, <2>6 DEF EventsHaveOlder
<1>5. QED
  BY <1>1, <1>2, <1>3, <1>4

\* Up to where a status was told, after the oldest event has left: the patch has
\* it, or a page that still connects has heard of none.
LEMMA ToldStays ==
  ASSUME TypeOK, TypeOK', OrderFacts, Pipe # <<>>, Pipe' = Tail(Pipe),
         \/ patch' = patch /\ (Tells(Head(Pipe)) => patch = Nothing)
         \/ /\ patch' # Nothing
            /\ Tells(patch') = (Tells(Head(Pipe)) \/ PatchTells)
            /\ Tells(Head(Pipe)) => StatusOf(patch') = StatusOf(Head(Pipe))
            /\ ~Tells(Head(Pipe)) /\ PatchTells => StatusOf(patch') = StatusOf(patch),
         NEW s \in Nat, NEW i \in 0..(Len(Pipe) - 1), Told(i)',
         Told(i + 1) => ToldFrom(s, i + 1)
  PROVE  ToldFrom(s, i)'
<1>. USE DEF OrderFacts
<1>p. /\ Pipe \in Seq(Events) /\ Len(Pipe) \in Nat /\ Len(Pipe) >= 1
      /\ Head(Pipe) = Pipe[1] /\ Head(Pipe) \in Events
      /\ \A j \in 1..i : Pipe'[j] = Pipe[j + 1] /\ j + 1 \in 1..(i + 1) /\ j + 1 \in 1..Len(Pipe)
      /\ 1 \in 1..(i + 1) /\ 1 \in 1..Len(Pipe)
      /\ \A j \in 1..(i + 1) : j = 1 \/ (j - 1 \in 1..i /\ Pipe'[j - 1] = Pipe[j])
      /\ \A j \in 1..(i + 1) : j \in 1..Len(Pipe)
  BY PipeTyped
<1>1. Told(i + 1)
  <2>1. CASE \E j \in 1..i : Tells(Pipe'[j])
    BY <1>p, <2>1 DEF Told
  <2>2. CASE PatchTells'
    BY <1>p, <2>2 DEF Told, PatchTells
  <2>3. QED
    BY <2>1, <2>2 DEF Told
<1>2. ToldFrom(s, i + 1)
  BY <1>1
<1>3. CASE \E j \in 1..(i + 1) : j # 1 /\ Tells(Pipe[j]) /\ s <= StatusOf(Pipe[j])
  BY <1>p, <1>3 DEF ToldFrom
<1>4. CASE Tells(Pipe[1]) /\ s <= StatusOf(Pipe[1])
  <2>1. CASE PatchTells' /\ StatusOf(patch') = StatusOf(Pipe[1])
    BY <1>4, <2>1 DEF ToldFrom
  <2>2. CASE ~PatchTells'
    <3>1. PICK j \in 1..i : Tells(Pipe'[j])
      BY <2>2 DEF Told
    <3>2. /\ Tells(Pipe[j + 1]) /\ StatusOf(Pipe[j + 1]) \in Nat
          /\ StatusOf(Pipe[1]) \in Nat
      BY <1>p, <1>4, <3>1, PipeTyped
    <3>3. 1 \in 1..(j + 1)
      BY <1>p
    <3>4. StatusOf(Pipe[1]) <= StatusOf(Pipe[j + 1])
      BY <1>p, <1>4, <3>2, <3>3 DEF StatusesGrow
    <3>5. s <= StatusOf(Pipe'[j])
      BY <1>4, <1>p, <3>2, <3>4
    <3>6. QED
      BY <3>1, <3>5 DEF ToldFrom
  <2>3. QED
    BY <1>p, <1>4, <2>1, <2>2 DEF PatchTells
<1>5. CASE PatchTells /\ s <= StatusOf(patch)
  <2>0. StatusOf(patch) \in Nat
    BY <1>5, PatchTyped DEF PatchTells
  <2>1. CASE Tells(Pipe[1])
    <3>1. StatusOf(patch) <= StatusOf(Pipe[1]) /\ StatusOf(Pipe[1]) \in Nat
      BY <1>p, <1>5, <2>1, PipeTyped DEF StatusesGrow
    <3>2. s <= StatusOf(Pipe[1])
      BY <1>5, <2>0, <3>1
    <3>3. QED
      BY <1>4, <2>1, <3>2
  <2>2. CASE ~Tells(Pipe[1])
    <3>1. PatchTells' /\ StatusOf(patch)' = StatusOf(patch)
      BY <1>p, <1>5, <2>2 DEF PatchTells, StatusOf
    <3>2. QED
      BY <1>5, <3>1 DEF ToldFrom
  <2>3. QED
    BY <2>1, <2>2
<1>6. QED
  BY <1>2, <1>3, <1>4, <1>5 DEF ToldFrom

\* An event leaves the channel: a page that is connected takes it in.
LEMMA PipeShrinks ==
  ASSUME TypeOK, TypeOK', OrderFacts, UNCHANGED <<row, clock, pipeline, socket>>,
         Pipe # <<>>, Pipe' = Tail(Pipe), Copies' = Copies,
         UNCHANGED <<scanQuery.data, scanQuery.answer>>,
         \/ patch' = patch /\ (Listens /\ Tells(Head(Pipe)) => patch = Nothing)
         \/ /\ patch' # Nothing /\ patch'.at = Head(Pipe).at
            /\ Tells(patch') = (Tells(Head(Pipe)) \/ PatchTells)
            /\ Tells(Head(Pipe)) => StatusOf(patch') = StatusOf(Head(Pipe))
            /\ ~Tells(Head(Pipe)) /\ PatchTells => StatusOf(patch') = StatusOf(patch)
  PROVE  OrderFacts'
<1>. USE DEF OrderFacts
<1>p. /\ Pipe \in Seq(Events) /\ Len(Pipe) \in Nat /\ Len(Pipe) >= 1
      /\ Head(Pipe) = Pipe[1] /\ 1 \in 1..Len(Pipe)
      /\ Len(Pipe') = Len(Pipe) - 1
      /\ \A i \in 1..Len(Pipe') : /\ Pipe'[i] = Pipe[i + 1] /\ i + 1 \in 1..Len(Pipe)
                                  /\ 1 \in 1..(i + 1)
                                  /\ \A j \in 1..i : j \in 1..Len(Pipe') /\ j + 1 \in 1..(i + 1)
  BY PipeTyped
<1>t. clock \in Nat
  BY DEF TypeOK, ServerTyped
<1>1. StampsGrow'
  BY <1>p DEF StampsGrow
<1>2. StatusesGrow'
  <2>1. PatchTells' => StatusOf(patch') <= StatusOf(row)
    BY <1>p DEF StatusesGrow, PatchTells
  <2>2. \A i \in 1..Len(Pipe') : Tells(Pipe'[i]) =>
           /\ StatusOf(Pipe'[i]) <= StatusOf(row)
           /\ PatchTells' => StatusOf(patch') <= StatusOf(Pipe'[i])
    BY <1>p DEF StatusesGrow, PatchTells
  <2>3. \A i \in 1..Len(Pipe') : Tells(Pipe'[i]) =>
           \A j \in 1..i : Tells(Pipe'[j]) => StatusOf(Pipe'[j]) <= StatusOf(Pipe'[i])
    BY <1>p DEF StatusesGrow
  <2>4. StatusOf(patch)' = StatusOf(patch')
    BY DEF StatusOf
  <2>5. QED
    BY <2>1, <2>2, <2>3, <2>4 DEF StatusesGrow
<1>3. CopiesHaveOlder'
  <2>1. \A S \in Copies : \A i \in 1..Len(Pipe') :
          Tells(Pipe'[i]) /\ Pipe'[i].at < S.updatedAt => StatusOf(Pipe'[i]) <= StatusOf(S)
    BY <1>p DEF CopiesHaveOlder
  <2>2. ASSUME NEW S \in Copies, PatchTells', patch'.at < S.updatedAt
        PROVE  StatusOf(patch') <= StatusOf(S)
    <3>1. CASE patch' = patch
      BY <2>2, <3>1 DEF CopiesHaveOlder, PatchTells
    <3>2. CASE patch' # patch
      <4>1. patch'.at = Pipe[1].at
        BY <1>p, <3>2
      <4>2. CASE Tells(Pipe[1])
        BY <1>p, <2>2, <3>2, <4>1, <4>2 DEF CopiesHaveOlder
      <4>3. CASE ~Tells(Pipe[1])
        <5>1. PatchTells /\ StatusOf(patch') = StatusOf(patch)
          BY <1>p, <2>2, <3>2, <4>3 DEF PatchTells
        <5>2. patch.at <= Pipe[1].at /\ patch.at \in Nat /\ Pipe[1].at \in Nat
          BY <1>p, <5>1, PipeTyped, PatchTyped DEF StampsGrow, PatchTells
        <5>3. S.updatedAt \in Nat
          BY CopiesTyped
        <5>4. patch.at < S.updatedAt
          BY <2>2, <4>1, <5>2, <5>3
        <5>5. QED
          BY <5>1, <5>4 DEF CopiesHaveOlder
      <4>4. QED
        BY <4>2, <4>3
    <3>3. QED
      BY <3>1, <3>2
  <2>3. StatusOf(patch)' = StatusOf(patch')
    BY DEF StatusOf
  <2>4. QED
    BY <2>1, <2>2, <2>3 DEF CopiesHaveOlder
<1>4. EventsHaveOlder'
  <2>1. \A S \in Copies : StatusOf(S) \in Nat
    BY CopiesTyped
  <2>2. row \in Copies /\ Listens' = Listens
    BY DEF Copies, Listens
  <2>3. ASSUME Listens, NEW S \in Copies, NEW i \in 1..Len(Pipe'),
               Carried(Pipe'[i].fields) # {}, S.updatedAt <= Pipe'[i].at, Told(i)'
        PROVE  ToldFrom(StatusOf(S), i)'
    <3>1. i \in 0..(Len(Pipe) - 1) /\ i + 1 \in 1..Len(Pipe) /\ Pipe'[i] = Pipe[i + 1]
      BY <1>p
    <3>2. Told(i + 1) => ToldFrom(StatusOf(S), i + 1)
      BY <2>3, <3>1 DEF EventsHaveOlder
    <3>3. QED
      BY <2>1, <2>3, <3>1, <3>2, ToldStays
  <2>4. PICK n : n = Len(Pipe')
    OBVIOUS
  <2>5. ASSUME Listens, pipeline.pc \in Announced, Told(n)'
        PROVE  ToldFrom(StatusOf(row), n)'
    <3>1. n \in 0..(Len(Pipe) - 1) /\ n + 1 = Len(Pipe)
      BY <1>p, <2>4
    <3>2. Told(n + 1) => ToldFrom(StatusOf(row), n + 1)
      BY <2>5, <3>1 DEF EventsHaveOlder
    <3>3. QED
      BY <2>1, <2>2, <2>5, <3>1, <3>2, ToldStays
  <2>6. QED
    BY <2>2, <2>3, <2>4, <2>5 DEF EventsHaveOlder
<1>5. QED
  BY <1>1, <1>2, <1>3, <1>4

(***************************************************************************)
(* The steps of an undisturbed scan                                         *)
(***************************************************************************)
LEMMA NowLater ==
  ASSUME InOrder, TypeOK, NEW now \in Now
  PROVE  now \in Nat /\ clock < now
<1>1. PICK e \in Elapsed : now = clock + e
  BY DEF Now
<1>2. e \in Nat /\ e # 0 /\ clock \in Nat
  BY ChannelAssumption DEF ChannelAssumption, InOrder, TypeOK, ServerTyped
<1>3. QED
  BY <1>1, <1>2

\* What a write leaves in the row and in the worker's picture of it.
LEMMA WriteKnown ==
  ASSUME TypeOK, pipeline.knows = row.fields, NEW changes, Set(changes) \in Parts,
         NEW found, NEW now, NEW pc, NEW unsent,
         row' = Updated(changes, found, now),
         pipeline' = PipelineAt(pc, Knows(changes), unsent)
  PROVE  /\ row'.updatedAt = now /\ pipeline'.knows = row'.fields
         /\ pipeline'.pc = pc
         /\ StatusOf(row) = StatusOf(row') \/ Set(changes)["status"] # Nothing
         /\ Set(changes)["status"] # Nothing
              => row'.fields["status"] = Set(changes)["status"]
BY DEF Updated, Knows, PipelineAt, StatusOf, Over, Field

\* A write keeps the order when its later statuses are not announced yet.
LEMMA WriteOrders ==
  ASSUME InOrder, TypeOK, TypeOK', OrderFacts, pipeline.knows = row.fields,
         NEW changes, Set(changes) \in Parts,
         Set(changes)["status"] # Nothing
           => Set(changes)["status"].since = row.version + 1,
         StatusOf(row) <= row.version + 1,
         NEW found, NEW now \in Now, NEW pc, NEW unsent,
         row' = Updated(changes, found, now), clock' = now,
         pipeline' = PipelineAt(pc, Knows(changes), unsent),
         pc \in Announced => pipeline.pc \in Announced /\ Set(changes)["status"] = Nothing,
         UNCHANGED <<patch, scanQuery, socket>>, Pipe' = Pipe
  PROVE  OrderFacts' /\ pipeline'.knows = row'.fields
<1>1. now \in Nat /\ clock < clock'
  BY NowLater
<1>2. row \in Rows /\ StatusOf(row) \in Nat
  BY RowStamped DEF TypeOK, ServerTyped
<1>3. /\ row'.updatedAt = clock' /\ pipeline'.knows = row'.fields
      /\ pipeline'.pc = pc
      /\ StatusOf(row) = StatusOf(row') \/ Set(changes)["status"] # Nothing
      /\ Set(changes)["status"] # Nothing
           => row'.fields["status"] = Set(changes)["status"]
  BY WriteKnown
<1>4. StatusOf(row) <= StatusOf(row')
  BY <1>2, <1>3 DEF StatusOf
<1>5. pipeline'.pc \in Announced
        => pipeline.pc \in Announced /\ StatusOf(row') = StatusOf(row)
  BY <1>3
<1>6. OrderFacts'
  BY <1>1, <1>3, <1>4, <1>5, RowMoves
<1>7. QED
  BY <1>3, <1>6

LEMMA WriteStep ==
  ASSUME InOrder, OrderInv, TypeOK',
         NEW changes, Set(changes) \in Parts,
         Set(changes)["status"] # Nothing
           => Set(changes)["status"].since = row.version + 1,
         NEW found, NEW pc, NEW unsent,
         WriteWhileRunning(changes, found, pc, unsent),
         pc \in Announced => pipeline.pc \in Announced /\ Set(changes)["status"] = Nothing,
         UNCHANGED <<patch, scanQuery, socket, sending, channel>>
  PROVE  /\ OrderFacts' /\ pipeline'.knows = row'.fields
         /\ StatusOf(row)' <= row'.version
<1>t. /\ row \in Rows /\ row' \in Rows /\ pipeline \in Pipelines
      /\ row.version \in Nat /\ StatusOf(row) \in Nat
  BY RowStamped DEF OrderInv, TypeOK, ServerTyped, Rows
<1>p. Pipe' = Pipe
  BY DEF Pipe, Idle
<1>1. CASE StatusNow = "RUNNING"
  <2>1. PICK now \in Now : /\ row' = Updated(changes, found, now) /\ clock' = now
                           /\ pipeline' = PipelineAt(pc, Knows(changes), unsent)
    BY <1>1 DEF WriteWhileRunning
  <2>2. StatusOf(row) <= row.version + 1 /\ pipeline.knows = row.fields
    BY <1>t DEF OrderInv, Quiet
  <2>3. OrderFacts' /\ pipeline'.knows = row'.fields
    BY <1>p, <2>1, <2>2, WriteOrders DEF OrderInv
  <2>4. row'.version = row.version + 1
    BY <2>1 DEF Updated
  <2>5. StatusOf(row)' <= row'.version
    BY <1>t, <2>1, <2>2, <2>4, WriteKnown DEF StatusOf, OrderInv
  <2>6. QED
    BY <2>3, <2>5
<1>2. CASE StatusNow # "RUNNING"
  <2>1. /\ row' = row /\ clock' = clock
        /\ pipeline'.knows = pipeline.knows /\ pipeline'.pc = "idle"
    BY <1>t, <1>2 DEF WriteWhileRunning, Pipelines
  <2>2. Copies' = Copies /\ Listens' = Listens
    BY <2>1 DEF Copies, Listens
  <2>3. /\ PatchTells' = PatchTells /\ \A i : Told(i)' = Told(i)
        /\ \A s, i : ToldFrom(s, i)' = ToldFrom(s, i)
    BY <1>p DEF PatchTells, Told, ToldFrom
  <2>4. OrderFacts'
    <3>1. StampsGrow'
      BY <1>p, <2>1, <2>2 DEF OrderInv, OrderFacts, StampsGrow
    <3>2. StatusesGrow'
      BY <1>p, <2>1, <2>2, <2>3 DEF OrderInv, OrderFacts, StatusesGrow
    <3>3. CopiesHaveOlder'
      BY <1>p, <2>1, <2>2, <2>3 DEF OrderInv, OrderFacts, CopiesHaveOlder
    <3>4. EventsHaveOlder'
      BY <1>p, <2>1, <2>2, <2>3 DEF OrderInv, OrderFacts, EventsHaveOlder, Announced
    <3>5. QED
      BY <3>1, <3>2, <3>3, <3>4 DEF OrderFacts
  <2>5. QED
    BY <2>1, <2>4 DEF OrderInv, Quiet
<1>3. QED
  BY <1>1, <1>2

\* The worker's steps.
LEMMA OrderPipeline ==
  ASSUME InOrder, OrderInv, TypeOK', PipelineStep \/ PipelineFails,
         BrowserKeeps, UNCHANGED reply
  PROVE  OrderInv'
<1>t. /\ TypeOK /\ row \in Rows /\ pipeline \in Pipelines /\ row.version \in Nat
      /\ StatusOf(row) \in Nat
  BY RowStamped DEF OrderInv, TypeOK, ServerTyped, Rows
<1>w. {"RUNNING", "FAILED", "COMPLETED", "DISCOVERY", "DETECTION"} \subseteq Words
  BY DEF Words, ScanStatuses, TerminalStatuses, OccupyingStatuses
<1>k. UNCHANGED <<patch, scanQuery, socket>>
  BY DEF BrowserKeeps, socketVars
<1>o. /\ sending'["api"] = sending["api"]
      /\ UNCHANGED <<aborted, channel, owner, lookups>>
  <2>1. UNCHANGED <<aborted, channel, owner, lookups>>
    BY DEF PipelineStep, Claim, Checkpoint, Persist, PipelineFails, Announce,
           AnnounceFinding, WorkerOnly
  <2>2. sending'["api"] = sending["api"]
    BY DEF PipelineStep, Claim, Checkpoint, Persist, PipelineFails, Announce,
           AnnounceFinding, OrderInv, TypeOK, BusTyped
  <2>3. QED
    BY <2>1, <2>2
<1>q. ASSUME pipeline'.knows = row'.fields
      PROVE  Quiet'
  BY <1>q, <1>k, <1>o DEF OrderInv, Quiet
<1>1. CASE Claim
  <2>. DEFINE changes == [status |-> "RUNNING", phase |-> "DISCOVERY",
                          progress |-> "DISCOVERY"]
  <2>p. Pipe' = Pipe
    BY <1>1, <1>o DEF Claim, Pipe, Idle
  <2>1. Set(changes) \in Parts /\ Set(changes)["status"] = Value("RUNNING", row.version + 1)
    BY <1>t, <1>w, SetAll
  <2>2. CASE StatusNow \in {"QUEUED", "RUNNING"}
    <3>1. PICK now \in Now :
            /\ row' = Updated(changes, {}, now) /\ clock' = now
            /\ pipeline' = PipelineAt("claimed", Knows(changes), {})
      BY <1>1, <2>2 DEF Claim
    <3>. HIDE DEF changes
    <3>2. /\ StatusOf(row) <= row.version + 1 /\ pipeline.knows = row.fields
          /\ Set(changes)["status"] # Nothing
               => Set(changes)["status"].since = row.version + 1
      BY <1>t, <2>1 DEF OrderInv, Quiet, Value
    <3>3. OrderFacts' /\ pipeline'.knows = row'.fields
      BY <1>k, <2>p, <2>1, <3>1, <3>2, WriteOrders DEF OrderInv, Announced
    <3>4. row'.version = row.version + 1
      BY <3>1 DEF Updated
    <3>5. StatusOf(row)' <= row'.version
      BY <1>t, <2>1, <3>1, <3>2, <3>4, WriteKnown DEF StatusOf
    <3>6. QED
      BY <1>q, <3>3, <3>5 DEF OrderInv
  <2>3. CASE StatusNow \notin {"QUEUED", "RUNNING"}
    <3>1. UNCHANGED <<row, clock, pipeline>>
      BY <1>1, <2>3 DEF Claim
    <3>2. Copies' = Copies /\ Listens' = Listens
      BY <1>k, <3>1 DEF Copies, Listens
    <3>3. OrderFacts'
      BY <1>k, <1>t, <2>p, <3>1, <3>2, CopiesMove DEF OrderInv, OrderFacts, StatusesGrow
    <3>4. QED
      BY <1>q, <3>1, <3>3 DEF OrderInv, Quiet
  <2>4. QED
    BY <2>2, <2>3
<1>2. CASE Checkpoint
  <2>1. /\ Set([phase |-> "DETECTION", progress |-> "DETECTION"]) \in Parts
        /\ Set([phase |-> "DETECTION", progress |-> "DETECTION"])["status"] = Nothing
    BY <1>t, <1>w, SetProgress
  <2>2. pipeline.pc \in Announced
    BY <1>2 DEF Checkpoint, Announced
  <2>3. /\ OrderFacts' /\ pipeline'.knows = row'.fields
        /\ StatusOf(row)' <= row'.version
    BY <1>2, <1>k, <2>1, <2>2, WriteStep DEF Checkpoint, WorkerOnly
  <2>4. QED
    BY <1>q, <2>3 DEF OrderInv
<1>3. CASE Persist
  <2>. DEFINE changes == [status |-> "COMPLETED", phase |-> "COMPLETED",
                          progress |-> "COMPLETED"]
  <2>1. /\ Set(changes) \in Parts
        /\ Set(changes)["status"] = Value("COMPLETED", row.version + 1)
    BY <1>t, <1>w, SetAll
  <2>2. WriteWhileRunning(changes, Finding, "saved", Finding) /\ UNCHANGED <<sending, channel>>
    BY <1>3 DEF Persist, WorkerOnly
  <2>. HIDE DEF changes
  <2>3. "saved" \notin Announced
    BY DEF Announced
  <2>4. /\ OrderFacts' /\ pipeline'.knows = row'.fields
        /\ StatusOf(row)' <= row'.version
    BY <1>k, <2>1, <2>2, <2>3, WriteStep DEF Value
  <2>5. QED
    BY <1>q, <2>4 DEF OrderInv
<1>4. CASE PipelineFails
  <2>. DEFINE changes == [status |-> "FAILED"]
  <2>1. /\ Set(changes) \in Parts
        /\ Set(changes)["status"] = Value("FAILED", row.version + 1)
    BY <1>t, <1>w, SetStatus
  <2>2. WriteWhileRunning(changes, {}, "failed", {}) /\ UNCHANGED <<sending, channel>>
    BY <1>4 DEF PipelineFails, WorkerOnly
  <2>. HIDE DEF changes
  <2>3. "failed" \notin Announced
    BY DEF Announced
  <2>4. /\ OrderFacts' /\ pipeline'.knows = row'.fields
        /\ StatusOf(row)' <= row'.version
    BY <1>k, <2>1, <2>2, <2>3, WriteStep DEF Value
  <2>5. QED
    BY <1>q, <2>4 DEF OrderInv
<1>5. CASE Announce
  <2>1. PICK now \in Now :
          /\ sending' = [sending EXCEPT !["worker"] =
               Event(now, Part(pipeline.knows, Announces[pipeline.pc]), {})]
          /\ clock' = now
    BY <1>5 DEF Announce
  <2>2. PICK e : e = Event(now, Part(pipeline.knows, Announces[pipeline.pc]), {})
    OBVIOUS
  <2>3. /\ e \in Events /\ e # Nothing /\ now \in Nat /\ clock < clock'
    BY <1>t, <2>1, <2>2, NowLater, PartTyped, EventTyped, NothingAssumption DEF Pipelines
  <2>4. Pipe' = Append(Pipe, e)
    BY <1>5, <1>o, <1>t, <2>1, <2>2, <2>3 DEF Announce, Pipe, Idle, TypeOK, BusTyped
  <2>5. /\ row' = row /\ pipeline'.knows = pipeline.knows
        /\ pipeline'.pc = After[pipeline.pc] /\ pipeline.pc \in DOMAIN Announces
    BY <1>5, <1>t DEF Announce, Pipelines
  <2>6. e.at = clock' /\ e.fields = Part(pipeline.knows, Announces[pipeline.pc])
    BY <2>1, <2>2 DEF Event
  <2>7. Tells(e) => StatusOf(e) = StatusOf(row)
    BY <2>6 DEF Tells, StatusOf, Part, Field, OrderInv, Quiet
  <2>8. "status" \in Announces[pipeline.pc] => Tells(e)
    <3>1. row.fields["status"] \in Values
      BY <1>t, RowStamped
    <3>2. QED
      BY <2>6, <3>1, NothingAssumption DEF Tells, Part, Field, OrderInv, Quiet
  <2>9. "status" \in Announces[pipeline.pc] \/ pipeline.pc \in Announced
    BY <2>5 DEF Announces, Announced
  <2>10. OrderFacts'
    BY <1>k, <1>t, <2>3, <2>4, <2>5, <2>6, <2>7, <2>8, <2>9, PipeGrows DEF OrderInv
  <2>11. QED
    BY <1>q, <2>5, <2>10 DEF OrderInv, Quiet
<1>6. CASE AnnounceFinding
  <2>1. CASE pipeline.unsent = {}
    <3>1. /\ UNCHANGED <<row, clock, sending>> /\ pipeline'.knows = pipeline.knows
          /\ pipeline'.pc = "completed"
      BY <1>6, <1>t, <2>1 DEF AnnounceFinding, Pipelines
    <3>2. Pipe' = Pipe /\ Copies' = Copies /\ Listens' = Listens
      BY <1>k, <1>o, <3>1 DEF Pipe, Idle, Copies, Listens
    <3>3. /\ PatchTells' = PatchTells /\ \A i : Told(i)' = Told(i)
          /\ \A s, i : ToldFrom(s, i)' = ToldFrom(s, i)
      BY <1>k, <3>2 DEF PatchTells, Told, ToldFrom
    <3>4. OrderFacts'
      <4>1. StampsGrow'
        BY <1>k, <3>1, <3>2 DEF OrderInv, OrderFacts, StampsGrow
      <4>2. StatusesGrow'
        BY <1>k, <3>1, <3>2, <3>3 DEF OrderInv, OrderFacts, StatusesGrow
      <4>3. CopiesHaveOlder'
        BY <1>k, <3>1, <3>2, <3>3 DEF OrderInv, OrderFacts, CopiesHaveOlder
      <4>4. EventsHaveOlder'
        BY <3>1, <3>2, <3>3 DEF OrderInv, OrderFacts, EventsHaveOlder, Announced
      <4>5. QED
        BY <4>1, <4>2, <4>3, <4>4 DEF OrderFacts
    <3>5. QED
      BY <1>q, <3>1, <3>4 DEF OrderInv, Quiet
  <2>2. CASE pipeline.unsent # {}
    <3>1. PICK f \in pipeline.unsent, now \in Now :
            /\ sending' = [sending EXCEPT !["worker"] = Event(now, NoFields, {f})]
            /\ clock' = now
            /\ pipeline' = [pipeline EXCEPT !.unsent = @ \ {f}]
      BY <1>6, <2>2 DEF AnnounceFinding
    <3>2. PICK e : e = Event(now, NoFields, {f})
      OBVIOUS
    <3>3. /\ e \in Events /\ e # Nothing /\ now \in Nat /\ clock < clock'
      <4>1. NoFields \in Parts /\ f \in Finding
        BY <1>t DEF NoFields, Parts, Pipelines
      <4>2. QED
        BY <1>t, <3>1, <3>2, <4>1, NowLater, EventTyped, NothingAssumption
    <3>4. Pipe' = Append(Pipe, e)
      BY <1>6, <1>o, <1>t, <3>1, <3>2, <3>3
      DEF AnnounceFinding, Pipe, Idle, TypeOK, BusTyped
    <3>5. /\ row' = row /\ pipeline'.knows = pipeline.knows
          /\ pipeline'.pc = pipeline.pc
      BY <1>6, <1>t, <3>1 DEF AnnounceFinding, Pipelines
    <3>6. e.at = clock' /\ ~Tells(e) /\ Carried(e.fields) = {}
      BY <3>1, <3>2 DEF Event, Tells, Carried, NoFields, Field
    <3>7. OrderFacts'
      BY <1>k, <1>t, <3>3, <3>4, <3>5, <3>6, PipeGrows DEF OrderInv
    <3>8. QED
      BY <1>q, <3>5, <3>7 DEF OrderInv, Quiet
  <2>3. QED
    BY <2>1, <2>2
<1>7. QED
  BY <1>1, <1>2, <1>3, <1>4, <1>5, <1>6 DEF PipelineStep

\* The channel: nothing but the worker's publications happens on it.
LEMMA OrderChannel ==
  ASSUME InOrder, OrderInv, TypeOK',
         \/ AnnounceAbort \/ LookUpOwner \/ OwnershipExpires
         \/ \E p \in {"worker", "api"} : Publish(p) \/ PublishFails(p),
         BrowserKeeps, UNCHANGED reply
  PROVE  OrderInv'
<1>q. /\ sending["api"] = Nothing /\ aborted = Nothing /\ owner = "known"
  BY DEF OrderInv, Quiet
<1>1. ~AnnounceAbort /\ ~LookUpOwner /\ ~OwnershipExpires
  BY <1>q DEF AnnounceAbort, LookUpOwner, OwnershipExpires, Disturbs, InOrder
<1>2. \A p \in {"worker", "api"} : ~PublishFails(p)
  BY DEF PublishFails, Disturbs, InOrder
<1>3. Publish("worker")
  BY <1>1, <1>2, <1>q DEF Publish
<1>t. /\ sending \in [{"worker", "api"} -> Events \cup {Nothing}]
  BY DEF OrderInv, TypeOK, BusTyped
<1>4. /\ channel' = Append(channel, sending["worker"])
      /\ sending'["worker"] = Nothing /\ sending'["api"] = sending["api"]
      /\ UNCHANGED <<row, clock, pipeline, aborted, owner, lookups>>
      /\ UNCHANGED <<patch, scanQuery, socket>> /\ ~Idle
  BY <1>3, <1>t DEF Publish, serverVars, BrowserKeeps, socketVars, Idle
<1>5. Pipe' = Pipe
  BY <1>4 DEF Pipe, Idle
<1>6. Copies' = Copies /\ Listens' = Listens
  BY <1>4 DEF Copies, Listens
<1>7. OrderFacts'
  BY <1>4, <1>5, <1>6, CopiesMove DEF OrderInv, OrderFacts, StatusesGrow
<1>8. QED
  BY <1>4, <1>7 DEF OrderInv, Quiet

\* What the patch becomes by an event no older than itself.
LEMMA AppliedNewer ==
  ASSUME TypeOK, NEW e \in Events, patch # Nothing => patch.at <= e.at
  PROVE  /\ Applied(e).at = e.at
         /\ Tells(Applied(e)) = (Tells(e) \/ PatchTells)
         /\ Tells(e) => Applied(e).fields["status"] = e.fields["status"]
         /\ ~Tells(e) /\ PatchTells
              => Applied(e).fields["status"] = patch.fields["status"]
         /\ Applied(e) # Nothing
<1>n. Applied(e) # Nothing
  BY AppliedTyped, NothingAssumption
<1>1. CASE patch = Nothing
  <2>1. Applied(e) = [at |-> e.at, fields |-> e.fields]
    BY <1>1 DEF Applied
  <2>2. QED
    BY <1>1, <1>n, <2>1 DEF Tells, PatchTells
<1>2. CASE patch # Nothing
  <2>1. patch.at \in Nat /\ e.at \in Nat
    BY <1>2, PatchTyped, EventStamped
  <2>2. Applied(e) = [at |-> e.at, fields |-> Over(patch.fields, e.fields)]
    BY <1>2, <2>1 DEF Applied
  <2>3. QED
    BY <1>2, <1>n, <2>2 DEF Tells, PatchTells, Over, Field
<1>3. QED
  BY <1>1, <1>2

\* fanOut: what the page takes in, or does not hear.
LEMMA OrderForward ==
  ASSUME InOrder, OrderInv, TypeOK', ForwardNow \/ ForwardLater
  PROVE  OrderInv'
<1>1. ForwardNow
  BY DEF OrderInv, Quiet, ForwardLater
<1>t. channel \in Seq(Events) /\ channel # <<>> /\ TypeOK /\ OrderFacts
  BY <1>1 DEF OrderInv, TypeOK, BusTyped, ForwardNow
<1>2. PICK e : e = Head(channel)
  OBVIOUS
<1>3. /\ Receive(e) /\ channel' = Tail(channel)
      /\ UNCHANGED <<row, clock, pipeline, aborted, sending, owner, lookups, socket, reply>>
  BY <1>1, <1>2 DEF ForwardNow, serverVars, socketVars
<1>4. /\ Pipe # <<>> /\ Pipe' = Tail(Pipe) /\ e = Head(Pipe) /\ e \in Events
      /\ e = Pipe[1] /\ 1 \in 1..Len(Pipe)
  <2>1. CASE Idle
    BY <1>t, <1>2, <1>3, <2>1 DEF Pipe, Idle
  <2>2. CASE ~Idle
    <3>1. sending["worker"] \in Events
      BY <2>2 DEF Idle, OrderInv, TypeOK, BusTyped
    <3>2. /\ Pipe = Append(channel, sending["worker"])
          /\ Pipe' = Append(Tail(channel), sending["worker"])
      BY <1>3, <2>2 DEF Pipe, Idle
    <3>3. Pipe' = Tail(Pipe)
      BY <1>t, <3>1, <3>2
    <3>4. QED
      BY <1>t, <1>2, <3>1, <3>2, <3>3
  <2>3. QED
    BY <2>1, <2>2
<1>5. scanQuery'.data = scanQuery.data /\ scanQuery'.answer = scanQuery.answer
  BY <1>3 DEF Receive, Invalidate, Restarted, Asked, OrderInv, TypeOK, BrowserTyped
<1>6. Copies' = Copies
  BY <1>3, <1>5 DEF Copies
<1>7. \/ patch' = patch /\ (Listens /\ Tells(Head(Pipe)) => patch = Nothing)
      \/ /\ patch' # Nothing /\ patch'.at = Head(Pipe).at
         /\ Tells(patch') = (Tells(Head(Pipe)) \/ PatchTells)
         /\ Tells(Head(Pipe)) => StatusOf(patch') = StatusOf(Head(Pipe))
         /\ ~Tells(Head(Pipe)) /\ PatchTells => StatusOf(patch') = StatusOf(patch)
  <2>1. CASE socket # "connected"
    <3>1. patch' = patch
      BY <1>3, <2>1 DEF Receive
    <3>2. Listens => patch = Nothing
      BY <2>1 DEF Listens, OrderInv, Quiet
    <3>3. QED
      BY <3>1, <3>2
  <2>2. CASE socket = "connected" /\ Carried(e.fields) = {}
    <3>1. patch' = patch
      BY <1>3, <2>2 DEF Receive
    <3>2. ~Tells(e)
      BY <2>2 DEF Carried, Tells, Field
    <3>3. QED
      BY <1>4, <3>1, <3>2
  <2>3. CASE socket = "connected" /\ Carried(e.fields) # {}
    <3>1. patch' = Applied(e)
      BY <1>3, <2>3 DEF Receive
    <3>2. patch # Nothing => patch.at <= e.at
      BY <1>t, <1>4 DEF OrderFacts, StampsGrow
    <3>3. QED
      BY <1>t, <1>4, <3>1, <3>2, AppliedNewer DEF StatusOf
  <2>4. QED
    BY <2>1, <2>2, <2>3
<1>8. OrderFacts'
  BY <1>t, <1>3, <1>4, <1>5, <1>6, <1>7, PipeShrinks
<1>9. Quiet'
  <2>1. socket = "connecting" => patch' = Nothing
    BY <1>3 DEF Receive, OrderInv, Quiet
  <2>2. QED
    BY <1>3, <2>1 DEF OrderInv, Quiet
<1>10. QED
  BY <1>3, <1>8, <1>9 DEF OrderInv

\* The page's own steps.
LEMMA OrderView ==
  ASSUME InOrder, OrderInv, TypeOK', ViewStep \/ ViewChange
  PROVE  OrderInv'
<1>t. /\ TypeOK /\ OrderFacts
      /\ scanQuery \in [state : QueryStates, answer : Rows \cup {Nothing},
                        data : Rows \cup {Nothing}]
      /\ row \in Rows /\ attempts \in Nat
  BY DEF OrderInv, TypeOK, ServerTyped, BrowserTyped
<1>u. UNCHANGED <<serverVars, busVars>>
  BY DEF ViewStep, ViewChange, PollScan, ReadScan, ScanArrives, ReadFindings,
     FindingsArrive, AnswerControl, SettleControl, WatchdogCloses, Reconnect, RefetchOnFocus,
     Refresh, SocketOpens, SocketCloses, SocketGoesSilent, SocketOnly, NothingElse,
     BrowserRest, serverVars
<1>v. UNCHANGED <<row, clock, pipeline, aborted, sending, owner, lookups>> /\ Pipe' = Pipe
  BY <1>u DEF serverVars, busVars, Pipe, Idle
<1>r. reply' = reply /\ ~SettleControl /\ ~AnswerControl /\ ~Reconnect
  BY DEF OrderInv, Quiet, AnswerControl, SettleControl, Reconnect, ViewStep, ViewChange,
     PollScan, ReadScan, ScanArrives, ReadFindings,
     FindingsArrive, WatchdogCloses, RefetchOnFocus,
     Refresh, SocketOpens, SocketCloses, SocketGoesSilent, SocketOnly, NothingElse,
     BrowserRest, queryVars
<1>s. /\ socket' = socket \/ WatchdogCloses \/ SocketOpens \/ SocketCloses \/ SocketGoesSilent
      /\ Refresh => socket' = socket
  BY <1>r DEF ViewStep, ViewChange, PollScan, ReadScan, ScanArrives, ReadFindings,
     FindingsArrive, RefetchOnFocus, Refresh, socketVars
<1>k. /\ socket' # "disconnected" /\ (Listens' => Listens)
      /\ socket' = "connecting" => socket = "connecting"
  <2>1. CASE socket' = socket
    BY <2>1 DEF OrderInv, Quiet, Listens
  <2>2. CASE Closed
    <3>1. attempts + 1 > MaxReconnects
      BY <1>t DEF InOrder
    <3>2. socket' = "error"
      BY <2>2, <3>1 DEF Closed
    <3>3. QED
      BY <3>2 DEF Listens
  <2>3. CASE SocketOpens
    BY <2>3 DEF SocketOpens, Listens
  <2>4. CASE SocketGoesSilent
    BY <2>4 DEF SocketGoesSilent, Listens
  <2>5. QED
    BY <1>s, <2>1, <2>2, <2>3, <2>4 DEF WatchdogCloses, SocketCloses
<1>p. patch' = patch \/ Refresh
  BY <1>r DEF ViewStep, ViewChange, PollScan, ReadScan, ScanArrives, ReadFindings,
     FindingsArrive, WatchdogCloses, RefetchOnFocus,
     SocketOpens, SocketCloses, SocketGoesSilent, SocketOnly, NothingElse
<1>q. Quiet'
  BY <1>v, <1>r, <1>k, <1>p DEF OrderInv, Quiet, Refresh
<1>1. CASE ReadScan
  <2>1. scanQuery'.data = scanQuery.data /\ scanQuery'.answer = row
    BY <1>1, <1>t DEF ReadScan
  <2>2. Copies' \subseteq Copies
    BY <1>v, <2>1 DEF Copies
  <2>3. scanQuery.data # Nothing => scanQuery.data \in Copies
    BY DEF Copies
  <2>4. patch' = patch
    BY <1>1 DEF ReadScan
  <2>5. OrderFacts'
    BY <1>t, <1>v, <1>k, <2>1, <2>2, <2>3, <2>4, CopiesMove
    DEF OrderFacts, StampsGrow, StatusesGrow
  <2>6. QED
    BY <1>q, <1>v, <2>5 DEF OrderInv
<1>2. CASE ScanArrives
  <2>1. scanQuery'.data = scanQuery.answer /\ scanQuery'.answer = Nothing
    BY <1>2, <1>t DEF ScanArrives
  <2>2. Copies' \subseteq Copies
    BY <1>v, <2>1 DEF Copies
  <2>3. patch' = patch
    BY <1>2 DEF ScanArrives
  <2>4. OrderFacts'
    BY <1>t, <1>v, <1>k, <2>1, <2>2, <2>3, CopiesMove
  <2>5. QED
    BY <1>q, <1>v, <2>4 DEF OrderInv
<1>3. CASE ~ReadScan /\ ~ScanArrives
  <2>1. scanQuery'.data = scanQuery.data /\ scanQuery'.answer = scanQuery.answer
    BY <1>3, <1>r, <1>t DEF Asked, ViewStep, ViewChange, PollScan, ReadFindings,
     FindingsArrive, WatchdogCloses, RefetchOnFocus, Refresh,
     SocketOpens, SocketCloses, SocketGoesSilent, SocketOnly, NothingElse, queryVars
  <2>2. Copies' = Copies
    BY <1>v, <2>1 DEF Copies
  <2>3. CASE patch' = patch
    <3>1. OrderFacts'
      BY <1>t, <1>v, <1>k, <2>1, <2>2, <2>3, CopiesMove DEF OrderFacts, StatusesGrow
    <3>2. QED
      BY <1>q, <1>v, <3>1 DEF OrderInv
  <2>4. CASE Refresh
    <3>1. patch' = Nothing
      BY <2>4 DEF Refresh
    <3>2. OrderFacts'
      BY <1>t, <1>v, <1>s, <2>1, <2>2, <2>4, <3>1, PatchDropped
    <3>3. QED
      BY <1>q, <1>v, <3>2 DEF OrderInv
  <2>5. QED
    BY <1>p, <2>3, <2>4
<1>4. QED
  BY <1>1, <1>2, <1>3

LEMMA OrderInit == InOrder /\ Init => OrderInv
<1>. SUFFICES ASSUME InOrder, Init PROVE OrderInv
  OBVIOUS
<1>1. TypeOK
  BY TypeInit
<1>2. Pipe = <<>> /\ ~PatchTells /\ Copies = {row}
  BY DEF Init, Pipe, Idle, PatchTells, Copies, QueryIdle, Asked
<1>3. row.updatedAt = 0 /\ StatusOf(row) = 0 /\ row.version = 0 /\ clock = 0
  BY DEF Init, StatusOf, Value, Field
<1>4. StampsGrow
  BY <1>2, <1>3 DEF StampsGrow, Init
<1>5. StatusesGrow /\ CopiesHaveOlder
  BY <1>2, <1>3 DEF StatusesGrow, CopiesHaveOlder, Init, QueryIdle, Asked
<1>6. EventsHaveOlder
  BY <1>2 DEF EventsHaveOlder, Init, PipelineAt, Announced
<1>7. Quiet
  BY ChannelAssumption DEF Init, Quiet, PipelineAt, ChannelAssumption
<1>8. QED
  BY <1>1, <1>3, <1>4, <1>5, <1>6, <1>7 DEF OrderInv, OrderFacts

LEMMA OrderStep ==
  ASSUME InOrder, OrderInv, [Next]_vars
  PROVE  OrderInv'
<1>t. TypeOK'
  BY LiveTypesStep DEF OrderInv
<1>1. CASE ServerStep \/ ServerFault
  BY <1>t, <1>1, OrderPipeline, OrderChannel DEF ServerStep, ServerFault, FeedStep, FeedFault
<1>2. CASE ControlStep
  <2>1. ~AbortScan /\ \A action \in DOMAIN Becomes : ~ControlScan(action)
    BY DEF AbortScan, ControlScan, Disturbs, InOrder, Becomes
  <2>2. QED
    BY <1>2, <2>1 DEF ControlStep
<1>3. CASE ForwardNow \/ ForwardLater
  BY <1>t, <1>3, OrderForward
<1>4. CASE ViewStep \/ ViewChange
  BY <1>t, <1>4, OrderView
<1>5. CASE UNCHANGED vars
  <2>1. Pipe' = Pipe /\ Copies' = Copies /\ Listens' = Listens
    BY <1>5 DEF vars, Pipe, Idle, Copies, Listens
  <2>2. OrderFacts'
    BY <1>5, <2>1, CopiesMove DEF vars, OrderInv, OrderFacts, StatusesGrow
  <2>3. QED
    BY <1>t, <1>5, <2>2 DEF vars, OrderInv, Quiet
<1>6. QED
  BY <1>1, <1>2, <1>3, <1>4, <1>5 DEF Next

\* The steps that may change what is shown.
LEMMA ShownMoves ==
  ASSUME OrderInv, [Next]_vars
  PROVE  \/ patch' = patch /\ scanQuery'.data = scanQuery.data
         \/ patch' = patch /\ ScanArrives
         \/ patch' = Nothing /\ scanQuery'.data = scanQuery.data
         \/ \E e \in Events :
              /\ channel # <<>> /\ e = Head(channel) /\ socket = "connected"
              /\ Carried(e.fields) # {}
              /\ patch' = Applied(e) /\ scanQuery'.data = scanQuery.data
<1>q. scanQuery \in [state : QueryStates, answer : Rows \cup {Nothing},
                   data : Rows \cup {Nothing}]
  BY DEF OrderInv, TypeOK, BrowserTyped
<1>1. CASE ServerStep \/ ServerFault \/ ControlStep
  BY <1>1 DEF ServerStep, ServerFault, ControlStep, BrowserKeeps
<1>2. CASE ForwardNow \/ ForwardLater
  <2>1. ForwardNow /\ Receive(Head(channel)) /\ Head(channel) \in Events /\ channel # <<>>
    BY <1>2 DEF OrderInv, Quiet, ForwardLater, ForwardNow, TypeOK, BusTyped
  <2>2. scanQuery'.data = scanQuery.data
    BY <1>q, <2>1 DEF Receive, Invalidate, Restarted, Asked
  <2>3. QED
    BY <2>1, <2>2 DEF Receive
<1>3. CASE ViewStep \/ ViewChange
  <2>1. CASE ScanArrives
    BY <2>1 DEF ScanArrives
  <2>2. CASE Refresh
    BY <1>q, <2>2 DEF Refresh, Asked
  <2>3. CASE ~ScanArrives /\ ~Refresh
    <3>1. ~SettleControl
      BY DEF OrderInv, Quiet, SettleControl
    <3>2. QED
      BY <1>3, <1>q, <2>3, <3>1 DEF Asked, ViewStep, ViewChange, PollScan, ReadScan, ReadFindings,
        FindingsArrive, AnswerControl, WatchdogCloses, Reconnect, RefetchOnFocus,
        SocketOpens, SocketCloses, SocketGoesSilent, SocketOnly, NothingElse, queryVars
  <2>4. QED
    BY <2>1, <2>2, <2>3
<1>4. CASE UNCHANGED vars
  BY <1>4 DEF vars
<1>5. QED
  BY <1>1, <1>2, <1>3, <1>4 DEF Next

LEMMA ShownGrows ==
  ASSUME InOrder, OrderInv, OrderInv', [Next]_vars, Loaded, (Loaded)',
         ~(patch # Nothing /\ patch' = Nothing)
  PROVE  Shown'["status"].since >= Shown["status"].since
<1>1. Shown["status"].since = IF PatchIsFresh /\ PatchTells THEN StatusOf(patch)
                              ELSE StatusOf(Snapshot)
  BY DEF Shown, Over, Field, PatchTells, Tells, StatusOf, PatchIsFresh
<1>2. Shown'["status"].since = IF PatchIsFresh' /\ PatchTells' THEN StatusOf(patch')
                               ELSE StatusOf(Snapshot')
  BY DEF Shown, Over, Field, PatchTells, Tells, StatusOf, PatchIsFresh
<1>t. /\ TypeOK /\ OrderFacts /\ TypeOK' /\ OrderFacts'
      /\ Snapshot \in Copies /\ Snapshot = scanQuery.data
      /\ Snapshot' = scanQuery'.data
      /\ scanQuery \in [state : QueryStates, answer : Rows \cup {Nothing},
                      data : Rows \cup {Nothing}]
  BY DEF OrderInv, Loaded, Snapshot, Copies, TypeOK, BrowserTyped
<1>n. /\ Snapshot.updatedAt \in Nat /\ StatusOf(Snapshot) \in Nat
      /\ patch # Nothing => patch.at \in Nat
      /\ PatchTells => StatusOf(patch) \in Nat
  BY <1>t, CopiesTyped, PatchTyped DEF PatchTells
<1>3. CASE patch' = patch /\ scanQuery'.data = scanQuery.data
  <2>1. /\ PatchIsFresh' = PatchIsFresh /\ PatchTells' = PatchTells
        /\ StatusOf(patch') = StatusOf(patch) /\ StatusOf(Snapshot') = StatusOf(Snapshot)
    BY <1>t, <1>3 DEF PatchIsFresh, PatchTells, StatusOf, Snapshot
  <2>2. QED
    BY <1>1, <1>2, <1>n, <2>1
<1>4. CASE patch' = patch /\ ScanArrives
  <2>1. Snapshot' = scanQuery.answer /\ scanQuery.answer \in Copies
    BY <1>t, <1>4 DEF ScanArrives, Loaded, Snapshot, Copies
  <2>2. /\ StatusOf(Snapshot) <= StatusOf(Snapshot')
        /\ Snapshot.updatedAt <= Snapshot'.updatedAt
    BY <1>t, <2>1 DEF OrderFacts, StatusesGrow, Loaded
  <2>3. Snapshot'.updatedAt \in Nat /\ StatusOf(Snapshot') \in Nat
    BY <1>t, <2>1, CopiesTyped
  <2>4. PatchTells' = PatchTells /\ (PatchIsFresh' => PatchIsFresh)
    BY <1>4, <1>n, <2>2, <2>3 DEF PatchTells, PatchIsFresh
  <2>5. CASE PatchIsFresh'
    BY <1>1, <1>2, <1>4, <1>n, <2>2, <2>3, <2>4, <2>5
  <2>6. CASE ~PatchIsFresh' /\ PatchIsFresh /\ PatchTells
    <3>1. patch.at < Snapshot'.updatedAt
      BY <1>4, <1>n, <2>3, <2>6 DEF PatchIsFresh, PatchTells
    <3>2. StatusOf(patch) <= StatusOf(Snapshot')
      BY <1>t, <2>1, <2>6, <3>1 DEF OrderFacts, CopiesHaveOlder
    <3>3. QED
      BY <1>1, <1>2, <1>n, <2>3, <2>6, <3>2
  <2>7. CASE ~PatchIsFresh' /\ ~(PatchIsFresh /\ PatchTells)
    BY <1>1, <1>2, <1>n, <2>2, <2>3, <2>7
  <2>8. QED
    BY <2>5, <2>6, <2>7
<1>5. ASSUME NEW e \in Events, channel # <<>>, e = Head(channel), socket = "connected",
             Carried(e.fields) # {},
             patch' = Applied(e), scanQuery'.data = scanQuery.data
      PROVE  Shown'["status"].since >= Shown["status"].since
  <2>1. /\ e = Pipe[1] /\ 1 \in 1..Len(Pipe)
    <3>1. channel \in Seq(Events) /\ (~Idle => sending["worker"] \in Events)
      BY <1>t DEF TypeOK, BusTyped, Idle
    <3>2. QED
      BY <1>5, <3>1 DEF Pipe
  <2>2. patch # Nothing => patch.at <= e.at
    BY <1>t, <2>1 DEF OrderFacts, StampsGrow
  <2>3. /\ patch'.at = e.at /\ patch' # Nothing
        /\ PatchTells' <=> (Tells(e) \/ PatchTells)
        /\ Tells(e) => StatusOf(patch') = StatusOf(e)
        /\ ~Tells(e) /\ PatchTells => StatusOf(patch') = StatusOf(patch)
    BY <1>t, <1>5, <2>2, AppliedNewer DEF StatusOf, PatchTells, Tells
  <2>4. e.at \in Nat /\ (Tells(e) => StatusOf(e) \in Nat)
    BY EventStamped
  <2>5. Snapshot' = Snapshot
    BY <1>5 DEF Snapshot
  <2>6. PatchIsFresh => PatchIsFresh'
    BY <1>n, <2>2, <2>3, <2>4, <2>5 DEF PatchIsFresh
  <2>7. PatchTells /\ Tells(e) => StatusOf(patch) <= StatusOf(e)
    BY <1>t, <2>1 DEF OrderFacts, StatusesGrow
  <2>8. CASE ~PatchIsFresh' \/ ~PatchTells'
    BY <1>1, <1>2, <1>n, <2>3, <2>5, <2>6, <2>8
  <2>9. CASE PatchIsFresh' /\ PatchTells'
    <3>1. Snapshot.updatedAt <= Pipe[1].at
      BY <1>n, <2>1, <2>3, <2>4, <2>5, <2>9 DEF PatchIsFresh
    <3>2. Told(1)
      BY <2>1, <2>3, <2>9 DEF Told
    <3>3. ToldFrom(StatusOf(Snapshot), 1)
      BY <1>t, <1>5, <2>1, <3>1, <3>2 DEF OrderFacts, EventsHaveOlder, Listens
    <3>4. \/ PatchTells /\ StatusOf(Snapshot) <= StatusOf(patch)
          \/ Tells(e) /\ StatusOf(Snapshot) <= StatusOf(e)
      BY <2>1, <3>3 DEF ToldFrom
    <3>5. /\ StatusOf(Snapshot) <= StatusOf(patch')
          /\ PatchTells => StatusOf(patch) <= StatusOf(patch')
      BY <1>n, <2>3, <2>4, <2>7, <2>9, <3>4
    <3>6. QED
      BY <1>1, <1>2, <2>9, <1>n, <2>3, <2>4, <3>5
  <2>10. QED
    BY <2>8, <2>9
<1>6. CASE patch' = Nothing /\ scanQuery'.data = scanQuery.data
  BY <1>3, <1>6
<1>7. QED
  BY <1>3, <1>4, <1>5, <1>6, ShownMoves

\* On a page whose scan nobody controls, and whose events are neither lost nor
\* missed by a closed socket, the status shown is never replaced by an older one:
\* snapshots and events may come in any order, one stamp stands for all the fields
\* of the patch, and the view still does not go backwards.
THEOREM StatusMovesForward ==
  ASSUME InOrder
  PROVE  Spec => StatusForward
<1>1. InOrder
  OBVIOUS
<1>2. Init => OrderInv
  BY <1>1, OrderInit
<1>3. OrderInv /\ [Next]_vars => OrderInv'
  BY <1>1, OrderStep
<1>4. OrderInv /\ OrderInv' /\ [Next]_vars
        => [Loaded /\ (Loaded)' /\ ~(patch # Nothing /\ patch' = Nothing)
              => Shown'["status"].since >= Shown["status"].since]_vars
  BY <1>1, ShownGrows
<1>5. QED
  BY <1>2, <1>3, <1>4, PTL DEF Spec, StatusForward
=============================================================================
