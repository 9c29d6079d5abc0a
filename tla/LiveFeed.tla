------------------------------- MODULE LiveFeed -------------------------------
(***************************************************************************)
(* The publishers of a scan's events: the worker's pipeline, which writes    *)
(* the row and then tells, and the API, which writes the row on a control    *)
(* and tells of the kill switch only.  Stamping an event and publishing it   *)
(* are separate moments of separate processes.                               *)
(***************************************************************************)
EXTENDS LiveChannel

PipelineAt(pc, knows, unsent) == [pc |-> pc, knows |-> knows, unsent |-> unsent]

\* The worker's local picture of the row: what it wrote itself.
Knows(changes) == Over(pipeline.knows, Set(changes))

Idle == sending["worker"] = Nothing

WorkerOnly == UNCHANGED <<aborted, channel, owner, lookups, spent>>

\* The update where status = RUNNING; a scan that left RUNNING ends the run.
WriteWhileRunning(changes, found, pc, unsent) ==
  IF StatusNow = "RUNNING"
  THEN \E now \in Now :
         /\ row' = Updated(changes, found, now)
         /\ clock' = now
         /\ pipeline' = PipelineAt(pc, Knows(changes), unsent)
  ELSE /\ pipeline' = [pipeline EXCEPT !.pc = "idle"]
       /\ UNCHANGED <<row, clock>>

(***************************************************************************)
(* The worker                                                              *)
(***************************************************************************)
\* processScanJob takes the job and claims the row; a row that may not start
\* is skipped.
Claim ==
  /\ pipeline.pc = "idle" /\ Idle /\ handed
  /\ handed' = FALSE
  /\ LET changes == [status |-> "RUNNING", phase |-> "DISCOVERY",
                     progress |-> "DISCOVERY"]
     IN IF StatusNow \in {"QUEUED", "RUNNING"}
        THEN \E now \in Now :
               /\ row' = Updated(changes, {}, now)
               /\ clock' = now
               /\ pipeline' = PipelineAt("claimed", Knows(changes), {})
        ELSE UNCHANGED <<row, clock, pipeline>>
  /\ WorkerOnly /\ UNCHANGED sending

\* Discovery is over: the checkpoint of runPipeline.
Checkpoint ==
  /\ pipeline.pc = "crawling" /\ Idle
  /\ WriteWhileRunning([phase |-> "DETECTION", progress |-> "DETECTION"], {},
                       "checked", {})
  /\ WorkerOnly /\ UNCHANGED <<handed, sending>>

\* persistResults, had its null not stopped the pipeline.
Persist_Regardless ==
  /\ pipeline.pc = "detecting" /\ Idle
  /\ IF StatusNow = "RUNNING"
     THEN WriteWhileRunning([status |-> "COMPLETED", phase |-> "COMPLETED",
                             progress |-> "COMPLETED"], Finding, "saved", Finding)
     ELSE /\ pipeline' = PipelineAt("saved", pipeline.knows, Finding)
          /\ UNCHANGED <<row, clock>>
  /\ WorkerOnly /\ UNCHANGED <<handed, sending>>

\* persistResults: findings and completion in one transaction.
Persist ==
  /\ pipeline.pc = "detecting" /\ Idle
  /\ WriteWhileRunning([status |-> "COMPLETED", phase |-> "COMPLETED",
                        progress |-> "COMPLETED"], Finding, "saved", Finding)
  /\ WorkerOnly /\ UNCHANGED <<handed, sending>>

\* Anything in the pipeline throws, and markFailed.
PipelineFails ==
  /\ pipeline.pc \in {"claimed", "begun", "crawling", "checked", "detecting"}
  /\ Idle
  /\ WriteWhileRunning([status |-> "FAILED"], {}, "failed", {})
  /\ WorkerOnly /\ UNCHANGED <<handed, sending>>

\* Which fields the pipeline announces where, and how it goes on.
Announces ==
  [claimed |-> {"status", "phase"}, begun |-> {"phase", "progress"},
   checked |-> {"phase", "progress"}, completed |-> {"status", "phase"},
   counted |-> {"phase", "progress"}, failed |-> {"status"}]

\* The pipeline, had it a REPORTING phase to go through.
After_Reporting ==
  [claimed |-> "begun", begun |-> "crawling", checked |-> "detecting",
   completed |-> "reporting", counted |-> "idle", failed |-> "idle"]

After ==
  [claimed |-> "begun", begun |-> "crawling", checked |-> "detecting",
   completed |-> "counted", counted |-> "idle", failed |-> "idle"]

Part(fields, some) ==
  [f \in Field |-> IF f \in some THEN fields[f] ELSE Nothing]

\* emitEvent and emitProgress take the time and hand the event to Redis.
Announce ==
  /\ pipeline.pc \in DOMAIN Announces /\ Idle
  /\ \E now \in Now :
       /\ sending' = [sending EXCEPT !["worker"] =
            Event(now, Part(pipeline.knows, Announces[pipeline.pc]), {})]
       /\ clock' = now
  /\ pipeline' = [pipeline EXCEPT !.pc = After[pipeline.pc]]
  /\ WorkerOnly /\ UNCHANGED <<row, handed>>

\* One scan.finding for each stored finding, then on to the completion.
AnnounceFinding ==
  /\ pipeline.pc = "saved" /\ Idle
  /\ IF pipeline.unsent = {}
     THEN /\ pipeline' = [pipeline EXCEPT !.pc = "completed"]
          /\ UNCHANGED <<sending, clock>>
     ELSE \E f \in pipeline.unsent, now \in Now :
            /\ sending' = [sending EXCEPT !["worker"] = Event(now, NoFields, {f})]
            /\ clock' = now
            /\ pipeline' = [pipeline EXCEPT !.unsent = @ \ {f}]
  /\ WorkerOnly /\ UNCHANGED <<row, handed>>

(***************************************************************************)
(* The API                                                                 *)
(***************************************************************************)
Becomes == [pause |-> "PAUSED", resume |-> "RUNNING", cancel |-> "CANCELLED"]

\* controlScan: the row moves, no event is published, the requesting page will
\* be answered.  A resume hands the scan to a worker again; that the
\* old job may absorb it is the subject of ScanSystem.
ControlScan(action) ==
  /\ Allowed(action, StatusNow)
  /\ action = "resume" => pipeline.pc = "idle"
  /\ Disturbs(action)
  /\ \E now \in Now :
       /\ row' = Updated([status |-> Becomes[action]], {}, now)
       /\ clock' = now
  /\ handed' = (handed \/ action = "resume")
  /\ \/ reply' = reply          \* somebody else's control
     \/ /\ scanQuery.data # Nothing /\ reply.state = "idle"  \* this page's
        /\ reply' = Asked(reply)
  /\ UNCHANGED <<pipeline, aborted, sending, channel, owner, lookups>>

\* engageKillSwitch aborts the scan; the announcement comes after the commit.
AbortScan ==
  /\ StatusNow \in OccupyingStatuses
  /\ Disturbs("engage")
  /\ \E now \in Now :
       /\ row' = Updated([status |-> "ABORTED_SAFETY"], {}, now)
       /\ clock' = now
  /\ aborted' = Set([status |-> "ABORTED_SAFETY"])
  /\ UNCHANGED <<pipeline, handed, reply, sending, channel, owner, lookups>>

AnnounceAbort ==
  /\ aborted # Nothing /\ sending["api"] = Nothing
  /\ \E now \in Now :
       /\ sending' = [sending EXCEPT !["api"] = Event(now, aborted, {})]
       /\ clock' = now
  /\ aborted' = Nothing
  /\ UNCHANGED <<row, pipeline, handed, channel, owner, lookups, spent>>

(***************************************************************************)
(* The channel                                                             *)
(***************************************************************************)
Publish(p) ==
  /\ sending[p] # Nothing
  /\ channel' = Append(channel, sending[p])
  /\ sending' = [sending EXCEPT ![p] = Nothing]
  /\ UNCHANGED <<serverVars, owner, lookups, spent>>

\* Both publishers log the error and go on.
PublishFails(p) ==
  /\ sending[p] # Nothing
  /\ Disturbs("loss")
  /\ sending' = [sending EXCEPT ![p] = Nothing]
  /\ UNCHANGED <<serverVars, channel, owner, lookups>>

\* The multiplexed path asks who owns the scan; a fresh answer is cached, and
\* every event without one starts a query of its own.
LookUpOwner ==
  /\ channel # <<>> /\ owner = "unknown"
  /\ lookups' = lookups \cup {Head(channel)}
  /\ channel' = Tail(channel)
  /\ UNCHANGED <<serverVars, sending, owner, spent>>

OwnershipExpires ==
  /\ owner = "known"
  /\ Disturbs("expiry")
  /\ owner' = "unknown"
  /\ UNCHANGED <<serverVars, sending, channel, lookups>>

PipelineStep ==
  \/ Claim \/ Checkpoint \/ Persist \/ Announce \/ AnnounceFinding
FeedStep ==
  \/ PipelineStep \/ AnnounceAbort
  \/ \E p \in {"worker", "api"} : Publish(p)
  \/ LookUpOwner
FeedFault ==
  \/ PipelineFails \/ OwnershipExpires
  \/ \E p \in {"worker", "api"} : PublishFails(p)

=============================================================================
