-------------------------------- MODULE Reports --------------------------------
(* Report requests, their generation off the request path, and the ways a      *)
(* finished file leaves the system: a download, or a share link.               *)
(*                                                                             *)
(* A row of scan_report is created by a request, claimed by the worker BullMQ  *)
(* hands its job to, and ended by whoever writes READY or FAILED. Between the  *)
(* row, the queue and the file on disk nothing is transactional, so each       *)
(* statement, each Redis call and each file operation is a step of its own.    *)
EXTENDS Integers, FiniteSets, FiniteSetsExt, Sequences

CONSTANTS
  Report,        \* report ids, one request each
  Generator,     \* concurrent slots of report workers, over all processes
  Downloader,    \* requests that read a file
  Evidence,      \* evidence rows of the scan reported on
  ExpiresAt,     \* [Evidence -> instants], finding_evidence.expiresAt
  MaxTime,       \* bound of the clock, in days
  ShareDays,     \* lifetimes a share link may be given
  MaxLinks,      \* bound on the share links created
  ReportFaults,  \* the kinds of fault that may happen
  MaxReportFaults,
  NoReport

Attempts == 2
MaxStalledReports == 1
Pending == {"QUEUED", "GENERATING"}
Ended == {"READY", "FAILED"}
\* A null expiresAt, later than any instant the clock or a link can reach.
Never == MaxTime + Max(ShareDays) + 1

ASSUME ReportsAssumption ==
  /\ IsFiniteSet(Evidence) /\ IsFiniteSet(ShareDays)
  /\ ShareDays \subseteq Nat \ {0} /\ ShareDays # {}
  /\ MaxTime \in Nat /\ MaxLinks \in Nat /\ MaxReportFaults \in Nat
  /\ ExpiresAt \in [Evidence -> 1..MaxTime]
  /\ NoReport \notin Report

VARIABLES
  reportRow,     \* scan_report
  reportFile,    \* the evidence held by the stored file, NoFile if none
  reportJob,     \* the BullMQ job whose id is the report's
  generator,     \* what each worker slot is doing
  requester,     \* where requestReport of each report has got to
  downloader,    \* the row a download has read, and what it served
  evidencePurged,
  authorMayRead, \* whether the author's role may read raw evidence
  today,
  linksMade,
  told,          \* mails to the author
  pageSeen,      \* statuses the reports page last fetched
  toasts,
  reportFaults

reportVars == <<reportRow, reportFile, reportJob, generator, requester,
  downloader, evidencePurged, authorMayRead, today, linksMade, told, pageSeen,
  toasts, reportFaults>>

NoFile == [stored |-> FALSE, holds |-> {}]
Idle == [pc |-> "idle", report |-> NoReport, holds |-> {}]
NoJob == [state |-> "none", made |-> 0, stalled |-> 0, by |-> {}]
NoRow == [status |-> "NONE", evidence |-> FALSE, expiresAt |-> Never,
          token |-> 0, shareUntil |-> 0]
NoRead == [pc |-> "idle", report |-> NoReport, viewer |-> FALSE, at |-> 0,
           served |-> {}, token |-> 0, until |-> 0]

ReportsInit ==
  /\ reportRow = [r \in Report |-> NoRow]
  /\ reportFile = [r \in Report |-> NoFile]
  /\ reportJob = [r \in Report |-> NoJob]
  /\ generator = [g \in Generator |-> Idle]
  /\ requester = [r \in Report |-> "idle"]
  /\ downloader = [d \in Downloader |-> NoRead]
  /\ evidencePurged = {} /\ authorMayRead = TRUE
  /\ today = 0 /\ linksMade = 0 /\ reportFaults = 0
  /\ told = [r \in Report |-> <<>>]
  /\ pageSeen = [r \in Report |-> "NONE"]
  /\ toasts = [r \in Report |-> 0]

Fault(kind) ==
  /\ kind \in ReportFaults /\ reportFaults < MaxReportFaults
  /\ reportFaults' = reportFaults + 1

----------------------------------------------------------------------------
(* requestReport: the row, then the job, then the row again if that failed. *)

RequestReport(r) ==
  /\ requester[r] = "idle"
  /\ requester' = [requester EXCEPT ![r] = "created"]
  /\ reportRow' = [reportRow EXCEPT ![r].status = "QUEUED"]
  /\ UNCHANGED <<reportFile, reportJob, generator, downloader, evidencePurged,
       authorMayRead, today, linksMade, told, pageSeen, toasts, reportFaults>>

\* Queue.add with the report's id as the job's: nothing if the job exists.
AddReportJob(r) == reportJob' =
  IF reportJob[r].state = "none"
  THEN [reportJob EXCEPT ![r] = [NoJob EXCEPT !.state = "waiting"]]
  ELSE reportJob

EnqueueReport(r) ==
  /\ requester[r] = "created"
  /\ \/ /\ AddReportJob(r)
        /\ requester' = [requester EXCEPT ![r] = "answered"]
        /\ UNCHANGED reportFaults
     \/ /\ Fault("refused") /\ UNCHANGED reportJob
        /\ requester' = [requester EXCEPT ![r] = "refused"]
     \/ /\ Fault("reply_lost") /\ AddReportJob(r)
        /\ requester' = [requester EXCEPT ![r] = "refused"]
     \/ /\ Fault("api_dies") /\ UNCHANGED reportJob
        /\ requester' = [requester EXCEPT ![r] = "dead"]
  /\ UNCHANGED <<reportRow, reportFile, generator, downloader, evidencePurged,
       authorMayRead, today, linksMade, told, pageSeen, toasts>>

\* The update names the row only: whatever status it has by now is replaced.
EndRefused(row) == [row EXCEPT !.status = "FAILED"]

EndRefusedReport(r) ==
  /\ requester[r] = "refused"
  /\ requester' = [requester EXCEPT ![r] = "answered"]
  /\ reportRow' = [reportRow EXCEPT ![r] = EndRefused(@)]
  /\ UNCHANGED <<reportFile, reportJob, generator, downloader, evidencePurged,
       authorMayRead, today, linksMade, told, pageSeen, toasts, reportFaults>>

----------------------------------------------------------------------------
(* The report worker. *)

Moved(g, pc) == [generator EXCEPT ![g].pc = pc]

\* BullMQ lets only the holder of a job's lock end the delivery.
HoldsLock(g) == LET job == reportJob[generator[g].report] IN
  job.state = "active" /\ job.by = {g}

\* A job that stalled too often is failed by the worker that picks it up next,
\* without running the processor (its error is an UnrecoverableError).
TakeJob(g, r) ==
  /\ generator[g].pc = "idle" /\ reportJob[r].state = "waiting"
  /\ IF reportJob[r].stalled > MaxStalledReports
     THEN /\ reportJob' = [reportJob EXCEPT ![r].state = "failed"]
          /\ generator' = [generator EXCEPT ![g] =
               [pc |-> "mark", report |-> r, holds |-> {}]]
     ELSE /\ reportJob' = [reportJob EXCEPT ![r].state = "active", ![r].by = {g}]
          /\ generator' = [generator EXCEPT ![g] =
               [pc |-> "claim", report |-> r, holds |-> {}]]
  /\ UNCHANGED <<reportRow, reportFile, requester, downloader, evidencePurged,
       authorMayRead, today, linksMade, told, pageSeen, toasts, reportFaults>>

\* Mutant: every row may be claimed.
MayGenerate_AnyStatus(row) == row.status # "NONE"

\* QUEUED and GENERATING rows may be claimed; READY and FAILED are skipped.
MayGenerate(row) == row.status \in Pending

ClaimReport(g) == LET r == generator[g].report IN
  /\ generator[g].pc = "claim"
  /\ IF MayGenerate(reportRow[r])
     THEN /\ reportRow' = [reportRow EXCEPT ![r].status = "GENERATING"]
          /\ generator' = Moved(g, "build")
     ELSE generator' = Moved(g, "ack") /\ UNCHANGED reportRow
  /\ UNCHANGED <<reportFile, reportJob, requester, downloader, evidencePurged,
       authorMayRead, today, linksMade, told, pageSeen, toasts, reportFaults>>

\* presentEvidence: purged evidence and evidence the author may not read stay out.
Available == IF authorMayRead THEN Evidence \ evidencePurged ELSE {}

BuildReport(g) ==
  /\ generator[g].pc = "build"
  /\ generator' = [generator EXCEPT ![g].pc = "store", ![g].holds = Available]
  /\ UNCHANGED <<reportRow, reportFile, reportJob, requester, downloader,
       evidencePurged, authorMayRead, today, linksMade, told, pageSeen, toasts,
       reportFaults>>

\* One path per report: a second generation overwrites the file of the first.
StoreFile(g) ==
  /\ generator[g].pc = "store"
  /\ reportFile' = [reportFile EXCEPT ![generator[g].report] =
       [stored |-> TRUE, holds |-> generator[g].holds]]
  /\ generator' = Moved(g, "ready")
  /\ UNCHANGED <<reportRow, reportJob, requester, downloader, evidencePurged,
       authorMayRead, today, linksMade, told, pageSeen, toasts, reportFaults>>

EarliestExpiry(held) ==
  IF held = {} THEN Never ELSE Min({ExpiresAt[e] : e \in held})

\* The final update names the row only, as EndRefused does.
ReadyRow(row, held) ==
  [row EXCEPT !.status = "READY", !.evidence = held # {},
              !.expiresAt = EarliestExpiry(held)]

WriteReady(g) == LET r == generator[g].report IN
  /\ generator[g].pc = "ready"
  /\ reportRow' = [reportRow EXCEPT ![r] = ReadyRow(@, generator[g].holds)]
  /\ generator' = Moved(g, "notify")
  /\ UNCHANGED <<reportFile, reportJob, requester, downloader, evidencePurged,
       authorMayRead, today, linksMade, told, pageSeen, toasts, reportFaults>>

\* notifyAuthor reads the status again and mails accordingly.
NotifyAuthor(g) == LET r == generator[g].report IN
  /\ generator[g].pc \in {"notify", "tell"}
  /\ told' = [told EXCEPT ![r] = Append(@, reportRow[r].status)]
  /\ generator' = IF generator[g].pc = "notify" THEN Moved(g, "ack")
                  ELSE [generator EXCEPT ![g] = Idle]
  /\ UNCHANGED <<reportRow, reportFile, reportJob, requester, downloader,
       evidencePurged, authorMayRead, today, linksMade, pageSeen, toasts,
       reportFaults>>

\* removeOnComplete; without the lock BullMQ refuses and nothing changes.
AckReport(g) == LET r == generator[g].report IN
  /\ generator[g].pc = "ack"
  /\ reportJob' = IF HoldsLock(g) THEN [reportJob EXCEPT ![r] = NoJob] ELSE reportJob
  /\ generator' = [generator EXCEPT ![g] = Idle]
  /\ UNCHANGED <<reportRow, reportFile, requester, downloader, evidencePurged,
       authorMayRead, today, linksMade, told, pageSeen, toasts, reportFaults>>

\* generateReport throws: BullMQ counts the attempt and delays the job or gives
\* up; the failed event follows either way and acts on the last attempt only.
FinalFailure(job) == job.made + 1 >= Attempts

GenerationThrows(g) == LET r == generator[g].report IN
  /\ generator[g].pc \in {"claim", "build", "store", "ready", "notify"}
  /\ Fault("throws")
  /\ IF ~HoldsLock(g)
     THEN /\ generator' = [generator EXCEPT ![g] = Idle]
          /\ UNCHANGED reportJob
     ELSE IF FinalFailure(reportJob[r])
     THEN /\ reportJob' = [reportJob EXCEPT ![r].state = "failed", ![r].made = @ + 1]
          /\ generator' = Moved(g, "mark")
     ELSE /\ reportJob' = [reportJob EXCEPT ![r].state = "delayed", ![r].made = @ + 1]
          /\ generator' = [generator EXCEPT ![g] = Idle]
  /\ UNCHANGED <<reportRow, reportFile, requester, downloader, evidencePurged,
       authorMayRead, today, linksMade, told, pageSeen, toasts>>

\* markReportFailed, which is guarded, unlike the READY it races with.
MarkReportFailed(g) == LET r == generator[g].report IN
  /\ generator[g].pc = "mark"
  /\ \/ /\ MayGenerate(reportRow[r])
        /\ reportRow' = [reportRow EXCEPT ![r].status = "FAILED"]
        /\ generator' = Moved(g, "tell")
        /\ UNCHANGED reportFaults
     \/ /\ ~MayGenerate(reportRow[r])
        /\ generator' = [generator EXCEPT ![g] = Idle]
        /\ UNCHANGED <<reportRow, reportFaults>>
     \/ /\ Fault("mark_fails")
        /\ generator' = [generator EXCEPT ![g] = Idle]
        /\ UNCHANGED reportRow
  /\ UNCHANGED <<reportFile, reportJob, requester, downloader, evidencePurged,
       authorMayRead, today, linksMade, told, pageSeen, toasts>>

\* The process dies mid-generation and is restarted. Its job stays active until
\* the stalled check of another worker.
GeneratorDies(g) ==
  /\ generator[g].pc \in {"claim", "build", "store", "ready", "notify", "ack"}
  /\ Fault("dies")
  /\ generator' = [generator EXCEPT ![g] = Idle]
  /\ UNCHANGED <<reportRow, reportFile, reportJob, requester, downloader,
       evidencePurged, authorMayRead, today, linksMade, told, pageSeen, toasts>>

BackToWaiting(r) ==
  reportJob' = [reportJob EXCEPT ![r].state = "waiting", ![r].stalled = @ + 1]

\* BullMQ (external): the lock of a dead worker's job has expired.
JobStalls(r) ==
  /\ reportJob[r].state = "active"
  /\ \A g \in reportJob[r].by : generator[g].report # r
  /\ BackToWaiting(r)
  /\ UNCHANGED <<reportRow, reportFile, generator, requester, downloader,
       evidencePurged, authorMayRead, today, linksMade, told, pageSeen, toasts,
       reportFaults>>

\* A live worker that could not renew its lock in time goes on all the same.
LockLost(g) ==
  /\ generator[g].pc \in {"claim", "build", "store", "ready", "notify"}
  /\ HoldsLock(g) /\ Fault("lock_lost")
  /\ BackToWaiting(generator[g].report)
  /\ UNCHANGED <<reportRow, reportFile, generator, requester, downloader,
       evidencePurged, authorMayRead, today, linksMade, told, pageSeen, toasts>>

\* BullMQ (external): the backoff of a failed attempt has passed.
BackoffPasses(r) ==
  /\ reportJob[r].state = "delayed"
  /\ reportJob' = [reportJob EXCEPT ![r].state = "waiting"]
  /\ UNCHANGED <<reportRow, reportFile, generator, requester, downloader,
       evidencePurged, authorMayRead, today, linksMade, told, pageSeen, toasts,
       reportFaults>>

----------------------------------------------------------------------------
(* Downloads and share links. A download reads the row, then the file. *)

IsExpired(row) == row.expiresAt <= today
ShareActive(row) == row.token # 0 /\ row.shareUntil > today

\* A member's download withholds evidence from a VIEWER; a shared one checks the
\* link. Both then ask for a READY row that has not expired.
MayDownload(row, viewer) ==
  row.status = "READY" /\ ~(row.evidence /\ viewer) /\ ~IsExpired(row)
MayDownloadShared(row) ==
  ShareActive(row) /\ row.status = "READY" /\ ~IsExpired(row)

CheckDownload(d, r) ==
  /\ downloader[d].pc = "idle"
  /\ \E viewer \in BOOLEAN :
       /\ MayDownload(reportRow[r], viewer) \/ (~viewer /\ MayDownloadShared(reportRow[r]))
       /\ downloader' = [downloader EXCEPT ![d] = [NoRead EXCEPT !.pc = "reading",
            !.report = r, !.viewer = viewer, !.at = today]]
  /\ UNCHANGED <<reportRow, reportFile, reportJob, generator, requester,
       evidencePurged, authorMayRead, today, linksMade, told, pageSeen, toasts,
       reportFaults>>

ReadFile(d) ==
  /\ downloader[d].pc = "reading"
  /\ LET file == reportFile[downloader[d].report] IN
     downloader' = [downloader EXCEPT ![d].pc = IF file.stored THEN "served" ELSE "gone",
                                     ![d].served = file.holds]
  /\ UNCHANGED <<reportRow, reportFile, reportJob, generator, requester,
       evidencePurged, authorMayRead, today, linksMade, told, pageSeen, toasts,
       reportFaults>>

DownloadDone(d) ==
  /\ downloader[d].pc \in {"served", "gone"}
  /\ downloader' = [downloader EXCEPT ![d] = NoRead]
  /\ UNCHANGED <<reportRow, reportFile, reportJob, generator, requester,
       evidencePurged, authorMayRead, today, linksMade, told, pageSeen, toasts,
       reportFaults>>

\* Mutant: the days that were asked for, whatever the file holds.
LinkUntil_Full(row, days) == today + days

\* The link never outlives the evidence in the file.
LinkUntil(row, days) == Min({row.expiresAt, today + days})

\* shareReport and revokeShare read the row in one statement and write it in the
\* next; the write names the row only.
CheckShare(d, r) ==
  /\ downloader[d].pc = "idle" /\ linksMade < MaxLinks
  /\ reportRow[r].status = "READY" /\ ~IsExpired(reportRow[r])
  /\ linksMade' = linksMade + 1
  /\ \E days \in ShareDays : downloader' = [downloader EXCEPT ![d] =
       [NoRead EXCEPT !.pc = "sharing", !.report = r, !.token = linksMade + 1,
                      !.until = LinkUntil(reportRow[r], days)]]
  /\ UNCHANGED <<reportRow, reportFile, reportJob, generator, requester,
       evidencePurged, authorMayRead, today, told, pageSeen, toasts, reportFaults>>

CheckRevoke(d, r) ==
  /\ downloader[d].pc = "idle" /\ reportRow[r].token # 0
  /\ downloader' = [downloader EXCEPT ![d] =
       [NoRead EXCEPT !.pc = "sharing", !.report = r]]
  /\ UNCHANGED <<reportRow, reportFile, reportJob, generator, requester,
       evidencePurged, authorMayRead, today, linksMade, told, pageSeen, toasts,
       reportFaults>>

WriteLink(d) ==
  /\ downloader[d].pc = "sharing"
  /\ reportRow' = [reportRow EXCEPT ![downloader[d].report].token = downloader[d].token,
                     ![downloader[d].report].shareUntil = downloader[d].until]
  /\ downloader' = [downloader EXCEPT ![d] = NoRead]
  /\ UNCHANGED <<reportFile, reportJob, generator, requester, evidencePurged,
       authorMayRead, today, linksMade, told, pageSeen, toasts, reportFaults>>

----------------------------------------------------------------------------
(* The reports page: polled while anything it shows is pending, and refetched  *)
(* when its own request is answered.                                           *)

PageWaits == \E r \in Report : pageSeen[r] \in Pending
PageInvalidated == \E r \in Report :
  requester[r] = "answered" /\ pageSeen[r] = "NONE" /\ reportRow[r].status # "NONE"

\* Mutant: only a report that is ready has finished.
FinishedSince_ReadyOnly(r, now) == pageSeen[r] \in Pending /\ now = "READY"

\* finishedSince: what this answer shows ended and the page had seen pending.
FinishedSince(r, now) == pageSeen[r] \in Pending /\ now \notin Pending

FetchReports ==
  /\ PageWaits \/ PageInvalidated
  /\ pageSeen' = [r \in Report |-> reportRow[r].status]
  /\ toasts' = [r \in Report |-> toasts[r] +
       IF FinishedSince(r, reportRow[r].status) THEN 1 ELSE 0]
  /\ UNCHANGED <<reportRow, reportFile, reportJob, generator, requester,
       downloader, evidencePurged, authorMayRead, today, linksMade, told,
       reportFaults>>

----------------------------------------------------------------------------
(* What goes on around a report. *)

DayPasses ==
  /\ today < MaxTime /\ today' = today + 1
  /\ UNCHANGED <<reportRow, reportFile, reportJob, generator, requester,
       downloader, evidencePurged, authorMayRead, linksMade, told, pageSeen,
       toasts, reportFaults>>

\* purge-retention: evidence past its expiry by the retention window, taken as
\* no time at all here, the earliest the script could redact it.
PurgeEvidence ==
  /\ evidencePurged' = {e \in Evidence : ExpiresAt[e] < today}
  /\ evidencePurged' # evidencePurged
  /\ UNCHANGED <<reportRow, reportFile, reportJob, generator, requester,
       downloader, authorMayRead, today, linksMade, told, pageSeen, toasts,
       reportFaults>>

\* An administrator makes the author a VIEWER, or back.
AuthorChangesRole ==
  /\ authorMayRead' = ~authorMayRead
  /\ UNCHANGED <<reportRow, reportFile, reportJob, generator, requester,
       downloader, evidencePurged, today, linksMade, told, pageSeen, toasts,
       reportFaults>>

RequestStep(r) == RequestReport(r) \/ EnqueueReport(r) \/ EndRefusedReport(r)
GeneratorStep(g) ==
  \/ \E r \in Report : TakeJob(g, r)
  \/ ClaimReport(g) \/ BuildReport(g) \/ StoreFile(g) \/ WriteReady(g)
  \/ NotifyAuthor(g) \/ AckReport(g) \/ MarkReportFailed(g)
QueueStep(r) == JobStalls(r) \/ BackoffPasses(r)
ReaderStep(d) ==
  \/ \E r \in Report : CheckDownload(d, r) \/ CheckShare(d, r) \/ CheckRevoke(d, r)
  \/ ReadFile(d) \/ DownloadDone(d) \/ WriteLink(d)

ReportsNext ==
  \/ \E r \in Report : RequestStep(r) \/ QueueStep(r)
  \/ \E g \in Generator : GeneratorStep(g) \/ GenerationThrows(g)
                            \/ GeneratorDies(g) \/ LockLost(g)
  \/ \E d \in Downloader : ReaderStep(d)
  \/ FetchReports \/ DayPasses \/ PurgeEvidence \/ AuthorChangesRole

----------------------------------------------------------------------------
(* Properties. *)

ReportsTypeOK ==
  /\ \A r \in Report : LET row == reportRow[r] IN
       /\ row.status \in Pending \cup Ended \cup {"NONE"}
       /\ row.evidence \in BOOLEAN /\ row.expiresAt \in 0..Never
       /\ row.token \in 0..MaxLinks /\ row.shareUntil \in 0..Never
  /\ reportFile \in [Report -> [stored : BOOLEAN, holds : SUBSET Evidence]]
  /\ \A r \in Report : reportJob[r].state \in
       {"none", "waiting", "active", "delayed", "failed"}
  /\ \A g \in Generator : generator[g].pc \in {"idle", "claim", "build", "store",
       "ready", "notify", "ack", "mark", "tell"}
  /\ \A g \in Generator : (generator[g].pc = "idle") = (generator[g].report = NoReport)
  /\ pageSeen \in [Report -> Pending \cup Ended \cup {"NONE"}]

\* The bytes that leave the system hold no evidence that had expired when the
\* request was checked, and none at all for a VIEWER, although the row is read
\* before the file and any delivery may rewrite both.
ServedAsChecked == \A d \in Downloader : downloader[d].pc = "served" =>
  /\ \A e \in downloader[d].served : ExpiresAt[e] > downloader[d].at
  /\ downloader[d].viewer => downloader[d].served = {}

\* A link that can still be used ends no later than the evidence in the file it
\* serves (the promise of shareReport).
LinkWithinRetention == \A r \in Report :
  ShareActive(reportRow[r]) =>
    \A e \in reportFile[r].holds : reportRow[r].shareUntil <= ExpiresAt[e]

\* What leaves the system, over the wire or by a link, respects both retentions.
RetentionKept == ServedAsChecked /\ LinkWithinRetention

\* READY and FAILED are final (generateReport, markReportFailed).
ReportFinal == [][\A r \in Report : reportRow[r].status \in Ended =>
                    reportRow'[r].status = reportRow[r].status]_reportVars

\* The author is mailed about the ending the row has, once, and the page raises
\* one toast, over every redelivery of the job.
ToldOnce == \A r \in Report :
  /\ Len(told[r]) <= 1 /\ toasts[r] <= 1
  /\ Len(told[r]) = 1 => told[r][1] = reportRow[r].status

\* A report that was requested ends, and a page that saw it pending says so.
ReportEnds == \A r \in Report :
  /\ (reportRow[r].status = "QUEUED") ~> (reportRow[r].status \in Ended)
  /\ (pageSeen[r] = "QUEUED") ~> (toasts[r] > 0)
=============================================================================
