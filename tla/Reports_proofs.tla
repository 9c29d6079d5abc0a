---------------------------- MODULE Reports_proofs ----------------------------
(* Reports: what leaves the system respects the retention of the evidence in   *)
(* it, and the author is told once, for any number of reports, worker slots    *)
(* and evidence rows. Both rest on one worker generating a report at a time,    *)
(* which is BullMQ's lock: where a lost lock is among the faults they fail.     *)
EXTENDS Reports, FiniteSetTheorems, SequenceTheorems, TLAPS

ReportsSpec == ReportsInit /\ [][ReportsNext]_reportVars

Statuses == Pending \cup Ended \cup {"NONE"}
ReportRows == [status : Statuses, evidence : BOOLEAN, expiresAt : 0..Never,
         token : 0..MaxLinks, shareUntil : 0..Never]
Files == [stored : BOOLEAN, holds : SUBSET Evidence]
Jobs == [state : {"none", "waiting", "active", "delayed", "failed"},
         made : Nat, stalled : Nat, by : SUBSET Generator]
Slots == [pc : {"idle", "claim", "build", "store", "ready", "notify", "ack", "mark", "tell"},
          report : Report \cup {NoReport}, holds : SUBSET Evidence]
Reads == [pc : {"idle", "reading", "served", "gone", "sharing"},
          report : Report \cup {NoReport}, viewer : BOOLEAN, at : Int,
          served : SUBSET Evidence, token : 0..MaxLinks, until : 0..Never]

ReportsTyped ==
  /\ reportRow \in [Report -> ReportRows] /\ reportFile \in [Report -> Files]
  /\ reportJob \in [Report -> Jobs] /\ generator \in [Generator -> Slots]
  /\ requester \in [Report -> {"idle", "created", "refused", "answered", "dead"}]
  /\ downloader \in [Downloader -> Reads]
  /\ evidencePurged \subseteq Evidence /\ today \in 0..MaxTime /\ linksMade \in 0..MaxLinks
  /\ told \in [Report -> Seq(Statuses)] /\ pageSeen \in [Report -> Statuses]
  /\ toasts \in [Report -> Nat]
  /\ \A g \in Generator : generator[g].pc = "idle" <=> generator[g].report = NoReport
  /\ \A d \in Downloader : downloader[d].pc # "idle" => downloader[d].report \in Report

\* A worker that has a report holds the lock of its job, until it has failed it.
Locked(g) == LET job == reportJob[generator[g].report] IN
  /\ generator[g].pc \notin {"idle", "mark", "tell"} => job.state = "active" /\ job.by = {g}
  /\ generator[g].pc \in {"mark", "tell"} => job.state = "failed"

OneGenerator == \A g, h \in Generator :
  generator[g].report = generator[h].report /\ generator[g].report # NoReport => g = h

Building == {"build", "store", "ready"}

\* Nothing will write the file or its row's retention any more.
Quiet(r) ==
  /\ reportRow[r].status \in Ended
  /\ \A g \in Generator : generator[g].report = r => generator[g].pc \notin Building

\* The row says of the file what a check relies on.
Described(r) == reportRow[r].status = "READY" =>
  /\ Quiet(r)
  /\ reportRow[r].evidence = (reportFile[r].holds # {})
  /\ \A e \in reportFile[r].holds : reportRow[r].expiresAt <= ExpiresAt[e]

Until(instant, r) == \A e \in reportFile[r].holds : instant <= ExpiresAt[e]

Linked(r) == reportRow[r].token # 0 => Quiet(r) /\ Until(reportRow[r].shareUntil, r)

\* What a reader has checked is still so when it reads the file or writes the link.
Checked(d) == LET r == downloader[d].report IN
  /\ downloader[d].pc = "reading" =>
       /\ Quiet(r) /\ \A e \in reportFile[r].holds : ExpiresAt[e] > downloader[d].at
       /\ downloader[d].viewer => reportFile[r].holds = {}
  /\ downloader[d].pc = "sharing" /\ downloader[d].token # 0 =>
       Quiet(r) /\ Until(downloader[d].until, r)
  /\ downloader[d].pc = "served" =>
       /\ \A e \in downloader[d].served : ExpiresAt[e] > downloader[d].at
       /\ downloader[d].viewer => downloader[d].served = {}

\* A report is claimed once it has been asked for, and stored as it was built.
Asked(r) == requester[r] = "idle" =>
  /\ reportRow[r].status = "NONE"
  /\ \A g \in Generator : generator[g].report = r => generator[g].pc \notin Building

Stored(g) == generator[g].pc = "ready" =>
  reportFile[generator[g].report].holds = generator[g].holds

WellKept ==
  /\ OneGenerator /\ \A g \in Generator : Locked(g) /\ Stored(g)
  /\ \A r \in Report : Described(r) /\ Linked(r) /\ Asked(r)
  /\ \A d \in Downloader : Checked(d)

\* While neither a lock nor a reply is lost: the status of the row follows the
\* worker, and nothing has been told before it ended.
Reported(g) == LET r == generator[g].report IN
  /\ generator[g].pc \in Building => reportRow[r].status = "GENERATING"
  /\ generator[g].pc = "notify" => told[r] = <<>> /\ reportRow[r].status = "READY"
  /\ generator[g].pc = "tell" => told[r] = <<>> /\ reportRow[r].status = "FAILED"

Unqueued(r) == requester[r] \in {"idle", "created", "refused"} =>
  /\ reportJob[r].state = "none"
  /\ reportRow[r].status = IF requester[r] = "idle" THEN "NONE" ELSE "QUEUED"

ToldEnded(r) ==
  /\ reportRow[r].status \notin Ended => told[r] = <<>>
  /\ Len(told[r]) <= 1 /\ (Len(told[r]) = 1 => told[r][1] = reportRow[r].status)

Toasted(r) ==
  /\ pageSeen[r] \in Pending \cup {"NONE"} => toasts[r] = 0
  /\ pageSeen[r] \in Ended => reportRow[r].status \in Ended /\ toasts[r] <= 1
  /\ pageSeen[r] # "NONE" => reportRow[r].status # "NONE"

Told ==
  /\ \A g \in Generator : Reported(g)
  /\ \A r \in Report : Unqueued(r) /\ ToldEnded(r) /\ Toasted(r)

-----------------------------------------------------------------------------
(* The first and the last of some instants, and the expiry of what a file holds. *)

LEMMA MinIs ==
  ASSUME NEW S, S \subseteq Nat, S # {}
  PROVE  Min(S) \in S /\ \A y \in S : Min(S) <= y
<1> DEFINE Less == {ss \in Nat \X Nat : ss[1] < ss[2]}
<1>1. IsWellFoundedOn(Less, Nat)
  BY NatLessThanWellFounded DEF OpToRel
<1>2. \A x, y \in Nat : y < x => <<y, x>> \in Less
  OBVIOUS
<1> HIDE DEF Less
<1>3. PICK x \in S : \A y \in S : ~ (<<y, x>> \in Less)
  BY <1>1, WFMin
<1>4. x \in Nat /\ \A y \in S : y \in Nat
  OBVIOUS
<1>5. \A y \in S : ~ (y < x)
  BY <1>2, <1>3, <1>4, Zenon
<1>6. \A y \in S : x <= y
  BY <1>4, <1>5
<1> QED
  BY <1>6 DEF Min

\* By the smallest set that has none.
LEMMA MaxIs ==
  ASSUME NEW S, S \subseteq Nat, S # {}, IsFiniteSet(S)
  PROVE  Max(S) \in S /\ \A y \in S : Max(S) >= y
<1> DEFINE Last(T) == \E x \in T : \A y \in T : x >= y
           Without == {T \in FiniteSubsetsOf(S) : T # {} /\ ~Last(T)}
<1>1. Without = {}
  <2> SUFFICES ASSUME Without # {} PROVE FALSE
    OBVIOUS
  <2>1. PICK T \in Without : \A U \in Without : ~ (<<U, T>> \in StrictSubsetOrdering(S))
    <3>1. Without \subseteq FiniteSubsetsOf(S)
      OBVIOUS
    <3> HIDE DEF Without
    <3> QED
      BY <3>1, FS_StrictSubsetOrderingWellFounded, WFMin
  <2>2. T \subseteq S /\ IsFiniteSet(T) /\ T # {} /\ ~Last(T)
    BY <2>1 DEF FiniteSubsetsOf
  <2>3. PICK x \in T : TRUE
    BY <2>2
  <2>4. PICK U : U = T \ {x}
    OBVIOUS
  <2>5. U \subseteq S /\ IsFiniteSet(U) /\ U # T
    BY <2>2, <2>3, <2>4, FS_RemoveElement
  <2>6. U # {}
    BY <2>2, <2>3, <2>4
  <2>7. <<U, T>> \in StrictSubsetOrdering(S)
    BY <2>2, <2>4, <2>5 DEF StrictSubsetOrdering
  <2>8. Last(U)
    BY <2>1, <2>5, <2>6, <2>7 DEF FiniteSubsetsOf
  <2>9. PICK m \in U : \A y \in U : m >= y
    BY <2>8
  <2> QED
    BY <2>2, <2>3, <2>4, <2>9
<1>2. S \in FiniteSubsetsOf(S)
  BY DEF FiniteSubsetsOf
<1>3. Last(S)
  BY <1>1, <1>2
<1> QED
  BY <1>3 DEF Max

LEMMA NeverIs == Never \in Nat /\ Never > MaxTime /\ MaxTime \in Nat
<1>1. Max(ShareDays) \in Nat
  BY MaxIs, ReportsAssumption
<1> QED
  BY <1>1, ReportsAssumption DEF Never

LEMMA ExpiryIs ==
  ASSUME NEW held, held \subseteq Evidence
  PROVE  /\ EarliestExpiry(held) \in 0..Never
         /\ \A e \in held : EarliestExpiry(held) <= ExpiresAt[e]
<1>1. CASE held = {}
  BY <1>1, NeverIs DEF EarliestExpiry
<1>2. CASE held # {}
  <2> DEFINE instants == {ExpiresAt[e] : e \in held}
  <2>1. instants \subseteq 1..MaxTime /\ instants # {} /\ instants \subseteq Nat
    BY <1>2, ReportsAssumption
  <2>2. Min(instants) \in instants /\ \A y \in instants : Min(instants) <= y
    BY <2>1, MinIs
  <2>3. EarliestExpiry(held) = Min(instants)
    BY <1>2 DEF EarliestExpiry
  <2> QED
    BY <2>1, <2>2, <2>3, NeverIs
<1> QED
  BY <1>1, <1>2

LEMMA LinkUntilIs ==
  ASSUME NEW row \in ReportRows, today \in 0..MaxTime, NEW days \in ShareDays
  PROVE  LinkUntil(row, days) \in 0..Never /\ LinkUntil(row, days) <= row.expiresAt
<1> DEFINE ends == {row.expiresAt, today + days}
<1>1. row.expiresAt \in 0..Never /\ days \in Nat
  BY ReportsAssumption DEF ReportRows
<1>2. ends \subseteq Nat /\ ends # {}
  BY <1>1, NeverIs
<1>3. Min(ends) \in ends /\ \A y \in ends : Min(ends) <= y
  BY <1>2, MinIs
<1> QED
  BY <1>1, <1>2, <1>3, NeverIs DEF LinkUntil

-----------------------------------------------------------------------------
(* What an assignment makes of a record. *)

LEMMA StatusFields ==
  ASSUME NEW row \in ReportRows, NEW x \in Statuses, NEW new, new = [row EXCEPT !.status = x]
  PROVE  /\ new \in ReportRows /\ new.status = x /\ new.evidence = row.evidence
         /\ new.expiresAt = row.expiresAt
         /\ new.token = row.token /\ new.shareUntil = row.shareUntil
BY DEF ReportRows

LEMMA ReadyFields ==
  ASSUME NEW row \in ReportRows, NEW held \in SUBSET Evidence, NEW new, new = ReadyRow(row, held)
  PROVE  /\ new \in ReportRows /\ new.status = "READY" /\ new.evidence = (held # {})
         /\ \A e \in held : new.expiresAt <= ExpiresAt[e]
         /\ new.token = row.token /\ new.shareUntil = row.shareUntil
<1> DEFINE due == EarliestExpiry(held)
           made == [status |-> "READY", evidence |-> held # {}, expiresAt |-> due,
                    token |-> row.token, shareUntil |-> row.shareUntil]
<1>1. due \in 0..Never /\ \A e \in held : due <= ExpiresAt[e]
  BY ExpiryIs
<1> HIDE DEF due
<1>2. ReadyRow(row, held) = [[[row EXCEPT !.status = "READY"] EXCEPT !.evidence = held # {}]
                               EXCEPT !.expiresAt = due]
  BY DEF ReadyRow, due
<1>3. [row EXCEPT !.status = "READY"]
        = [status |-> "READY", evidence |-> row.evidence, expiresAt |-> row.expiresAt,
           token |-> row.token, shareUntil |-> row.shareUntil]
  BY DEF ReportRows
<1>4. new = made
  BY <1>2, <1>3
<1>5. "READY" \in Statuses /\ (held # {}) \in BOOLEAN
  BY DEF Statuses, Ended
<1>6. made \in ReportRows
  BY <1>1, <1>5 DEF ReportRows
<1> QED
  BY <1>1, <1>4, <1>6

LinkRow(row, t, u) == [row EXCEPT !.token = t, !.shareUntil = u]

LEMMA LinkFields ==
  ASSUME NEW row \in ReportRows, NEW t \in 0..MaxLinks, NEW u \in 0..Never,
         NEW new, new = LinkRow(row, t, u)
  PROVE  /\ new \in ReportRows /\ new.status = row.status /\ new.evidence = row.evidence
         /\ new.expiresAt = row.expiresAt /\ new.token = t /\ new.shareUntil = u
<1> DEFINE made == [status |-> row.status, evidence |-> row.evidence,
                    expiresAt |-> row.expiresAt, token |-> t, shareUntil |-> u]
<1>1. [row EXCEPT !.token = t]
        = [status |-> row.status, evidence |-> row.evidence, expiresAt |-> row.expiresAt,
           token |-> t, shareUntil |-> row.shareUntil]
  BY DEF ReportRows
<1>2. new = made
  BY <1>1 DEF LinkRow
<1> QED
  BY <1>2 DEF ReportRows

LEMMA SlotFields ==
  ASSUME NEW slot \in Slots, NEW x, NEW held
  PROVE  /\ [slot EXCEPT !.pc = x] = [pc |-> x, report |-> slot.report, holds |-> slot.holds]
         /\ [slot EXCEPT !.pc = x, !.holds = held]
              = [pc |-> x, report |-> slot.report, holds |-> held]
<1>1. [slot EXCEPT !.pc = x] = [pc |-> x, report |-> slot.report, holds |-> slot.holds]
  BY DEF Slots
<1>2. [[pc |-> x, report |-> slot.report, holds |-> slot.holds] EXCEPT !.holds = held]
        = [pc |-> x, report |-> slot.report, holds |-> held]
  OBVIOUS
<1> QED
  BY <1>1, <1>2

JobAt(state, made, stalled, by) ==
  [state |-> state, made |-> made, stalled |-> stalled, by |-> by]

LEMMA TakenJob ==
  ASSUME NEW job \in Jobs, NEW g
  PROVE  [job EXCEPT !.state = "active", !.by = {g}] = JobAt("active", job.made, job.stalled, {g})
<1>1. [job EXCEPT !.state = "active"] = JobAt("active", job.made, job.stalled, job.by)
  BY DEF Jobs, JobAt
<1>2. [JobAt("active", job.made, job.stalled, job.by) EXCEPT !.by = {g}]
        = JobAt("active", job.made, job.stalled, {g})
  BY DEF JobAt
<1> QED
  BY <1>1, <1>2

LEMMA JobFields ==
  ASSUME NEW job \in Jobs, NEW x, NEW n
  PROVE  /\ [job EXCEPT !.state = x] = JobAt(x, job.made, job.stalled, job.by)
         /\ [job EXCEPT !.state = x, !.made = n] = JobAt(x, n, job.stalled, job.by)
         /\ [job EXCEPT !.state = x, !.stalled = n] = JobAt(x, job.made, n, job.by)
<1> DEFINE made == JobAt(x, job.made, job.stalled, job.by)
<1>1. [job EXCEPT !.state = x] = made
  BY DEF Jobs, JobAt
<1>3. [made EXCEPT !.made = n] = JobAt(x, n, job.stalled, job.by)
  BY DEF JobAt
<1>4. [made EXCEPT !.stalled = n] = JobAt(x, job.made, n, job.by)
  BY DEF JobAt
<1> HIDE DEF made
<1>6. [job EXCEPT !.state = x, !.made = n] = JobAt(x, n, job.stalled, job.by)
  BY <1>1, <1>3
<1>7. [job EXCEPT !.state = x, !.stalled = n] = JobAt(x, job.made, n, job.by)
  BY <1>1, <1>4
<1> QED
  BY <1>1, <1>6, <1>7 DEF made

-----------------------------------------------------------------------------
(* Who writes what. *)

LEMMA RowWriters ==
  ASSUME ReportsNext, reportRow' # reportRow
  PROVE  \/ \E r \in Report : RequestReport(r) \/ EndRefusedReport(r)
         \/ \E g \in Generator : ClaimReport(g) \/ WriteReady(g) \/ MarkReportFailed(g)
         \/ \E d \in Downloader : WriteLink(d)
BY DEF ReportsNext, RequestStep, QueueStep, GeneratorStep, ReaderStep, EnqueueReport, TakeJob,
       BuildReport, StoreFile, NotifyAuthor, AckReport, GenerationThrows, GeneratorDies,
       JobStalls, LockLost, BackoffPasses, CheckDownload, ReadFile, DownloadDone, CheckShare,
       CheckRevoke, FetchReports, DayPasses, PurgeEvidence, AuthorChangesRole

LEMMA FileWriters ==
  ASSUME ReportsNext, reportFile' # reportFile
  PROVE  \E g \in Generator : StoreFile(g)
BY DEF ReportsNext, RequestStep, QueueStep, GeneratorStep, ReaderStep, RequestReport,
       EnqueueReport, EndRefusedReport, TakeJob, ClaimReport, BuildReport, WriteReady,
       NotifyAuthor, AckReport, MarkReportFailed, GenerationThrows, GeneratorDies, JobStalls,
       LockLost, BackoffPasses, CheckDownload, ReadFile, DownloadDone, CheckShare, CheckRevoke,
       WriteLink, FetchReports, DayPasses, PurgeEvidence, AuthorChangesRole

LEMMA JobWriters ==
  ASSUME ReportsNext, reportJob' # reportJob
  PROVE  \/ \E r \in Report : EnqueueReport(r) \/ JobStalls(r) \/ BackoffPasses(r)
         \/ \E g \in Generator : \/ \E r \in Report : TakeJob(g, r)
                               \/ AckReport(g) \/ GenerationThrows(g) \/ LockLost(g)
BY DEF ReportsNext, RequestStep, QueueStep, GeneratorStep, ReaderStep, RequestReport,
       EndRefusedReport, ClaimReport, BuildReport, StoreFile, WriteReady, NotifyAuthor,
       MarkReportFailed, GeneratorDies, CheckDownload, ReadFile, DownloadDone,
       CheckShare, CheckRevoke, WriteLink, FetchReports, DayPasses, PurgeEvidence,
       AuthorChangesRole

LEMMA SlotWriters ==
  ASSUME ReportsNext, generator' # generator
  PROVE  \E g \in Generator :
           GeneratorStep(g) \/ GenerationThrows(g) \/ GeneratorDies(g)
BY DEF ReportsNext, RequestStep, QueueStep, ReaderStep, RequestReport, EnqueueReport,
       EndRefusedReport, JobStalls, LockLost, BackoffPasses, CheckDownload, ReadFile,
       DownloadDone, CheckShare, CheckRevoke, WriteLink, FetchReports, DayPasses,
       PurgeEvidence, AuthorChangesRole

LEMMA RequesterWriters ==
  ASSUME ReportsNext, requester' # requester
  PROVE  \E r \in Report : RequestStep(r)
BY DEF ReportsNext, QueueStep, GeneratorStep, ReaderStep, TakeJob, ClaimReport, BuildReport,
       StoreFile, WriteReady, NotifyAuthor, AckReport, MarkReportFailed, GenerationThrows,
       GeneratorDies, JobStalls, LockLost, BackoffPasses, CheckDownload, ReadFile,
       DownloadDone, CheckShare, CheckRevoke, WriteLink, FetchReports, DayPasses,
       PurgeEvidence, AuthorChangesRole

LEMMA ReaderWriters ==
  ASSUME ReportsNext, <<downloader, linksMade>>' # <<downloader, linksMade>>
  PROVE  \E d \in Downloader : ReaderStep(d)
BY DEF ReportsNext, RequestStep, QueueStep, GeneratorStep, RequestReport, EnqueueReport,
       EndRefusedReport, TakeJob, ClaimReport, BuildReport, StoreFile, WriteReady,
       NotifyAuthor, AckReport, MarkReportFailed, GenerationThrows, GeneratorDies, JobStalls,
       LockLost, BackoffPasses, FetchReports, DayPasses, PurgeEvidence, AuthorChangesRole

LEMMA ToldWriters ==
  ASSUME ReportsNext
  PROVE  /\ told' # told => \E g \in Generator : NotifyAuthor(g)
         /\ <<pageSeen, toasts>>' # <<pageSeen, toasts>> => FetchReports
BY DEF ReportsNext, RequestStep, QueueStep, GeneratorStep, ReaderStep, RequestReport,
       EnqueueReport, EndRefusedReport, TakeJob, ClaimReport, BuildReport, StoreFile,
       WriteReady, NotifyAuthor, AckReport, MarkReportFailed, GenerationThrows, GeneratorDies,
       JobStalls, LockLost, BackoffPasses, CheckDownload, ReadFile, DownloadDone, CheckShare,
       CheckRevoke, WriteLink, FetchReports, DayPasses, PurgeEvidence, AuthorChangesRole

-----------------------------------------------------------------------------
(* What a step makes of one row, one file, one worker. *)

LEMMA Reporting ==
  ASSUME ReportsTyped, NEW g \in Generator, generator[g].pc # "idle"
  PROVE  generator[g].report \in Report
BY DEF ReportsTyped, Slots

Same(r) ==
  /\ reportRow'[r].evidence = reportRow[r].evidence
  /\ reportRow'[r].expiresAt = reportRow[r].expiresAt
  /\ reportRow'[r].token = reportRow[r].token
  /\ reportRow'[r].shareUntil = reportRow[r].shareUntil

RowMoves(r) ==
  \/ reportRow'[r] = reportRow[r]
  \/ /\ Same(r)
     /\ \/ RequestReport(r) /\ reportRow'[r].status = "QUEUED"
        \/ EndRefusedReport(r) /\ reportRow'[r].status = "FAILED"
        \/ \E g \in Generator :
             /\ generator[g].report = r /\ ClaimReport(g)
             /\ reportRow[r].status \in Pending /\ reportRow'[r].status = "GENERATING"
        \/ \E g \in Generator :
             /\ generator[g].report = r /\ MarkReportFailed(g)
             /\ reportRow[r].status \in Pending /\ reportRow'[r].status = "FAILED"
  \/ \E g \in Generator :
       /\ generator[g].report = r /\ WriteReady(g) /\ reportRow'[r].status = "READY"
       /\ reportRow'[r].evidence = (generator[g].holds # {})
       /\ \A e \in generator[g].holds : reportRow'[r].expiresAt <= ExpiresAt[e]
       /\ reportRow'[r].token = reportRow[r].token
       /\ reportRow'[r].shareUntil = reportRow[r].shareUntil
  \/ \E d \in Downloader :
       /\ downloader[d].report = r /\ WriteLink(d)
       /\ reportRow'[r].status = reportRow[r].status
       /\ reportRow'[r].evidence = reportRow[r].evidence
       /\ reportRow'[r].expiresAt = reportRow[r].expiresAt
       /\ reportRow'[r].token = downloader[d].token
       /\ reportRow'[r].shareUntil = downloader[d].until

RowTo(r, new) == reportRow' = [reportRow EXCEPT ![r] = new]

LEMMA RowToFields ==
  ASSUME ReportsTyped, NEW r \in Report, NEW new \in ReportRows, RowTo(r, new)
  PROVE  /\ reportRow' \in [Report -> ReportRows] /\ reportRow'[r] = new
         /\ \A k \in Report \ {r} : reportRow'[k] = reportRow[k]
BY DEF ReportsTyped, RowTo

LEMMA RowStatus ==
  ASSUME ReportsTyped, NEW r \in Report, NEW x \in Statuses,
         reportRow' = [reportRow EXCEPT ![r].status = x]
  PROVE  /\ reportRow' \in [Report -> ReportRows] /\ Same(r) /\ reportRow'[r].status = x
         /\ \A k \in Report \ {r} : reportRow'[k] = reportRow[k]
<1>1. PICK new : new = [reportRow[r] EXCEPT !.status = x]
  OBVIOUS
<1>2. reportRow[r] \in ReportRows
  BY DEF ReportsTyped
<1>3. /\ new \in ReportRows /\ new.status = x /\ new.evidence = reportRow[r].evidence
      /\ new.expiresAt = reportRow[r].expiresAt
      /\ new.token = reportRow[r].token /\ new.shareUntil = reportRow[r].shareUntil
  BY <1>1, <1>2, StatusFields
<1>4. RowTo(r, new)
  BY <1>1 DEF RowTo
<1> QED
  BY <1>3, <1>4, RowToFields DEF Same

LEMMA RowSteps ==
  ASSUME ReportsTyped, ReportsNext
  PROVE  reportRow' \in [Report -> ReportRows] /\ \A r \in Report : RowMoves(r)
<1>0. "QUEUED" \in Statuses /\ "GENERATING" \in Statuses /\ "FAILED" \in Statuses
  BY DEF Statuses, Pending, Ended
<1>1. CASE reportRow' = reportRow
  BY <1>1 DEF RowMoves, ReportsTyped
<1>2. ASSUME NEW r \in Report, RequestReport(r) \/ EndRefusedReport(r)
      PROVE  reportRow' \in [Report -> ReportRows] /\ \A k \in Report : RowMoves(k)
  <2>1. \/ RequestReport(r) /\ reportRow' = [reportRow EXCEPT ![r].status = "QUEUED"]
        \/ EndRefusedReport(r) /\ reportRow' = [reportRow EXCEPT ![r].status = "FAILED"]
    BY <1>2 DEF RequestReport, EndRefusedReport, EndRefused
  <2> QED
    BY <1>0, <2>1, RowStatus DEF RowMoves
<1>3. ASSUME NEW g \in Generator, ClaimReport(g) \/ MarkReportFailed(g), reportRow' # reportRow
      PROVE  reportRow' \in [Report -> ReportRows] /\ \A k \in Report : RowMoves(k)
  <2>1. PICK r : r = generator[g].report
    OBVIOUS
  <2>2. r \in Report
    BY <1>3, <2>1, Reporting DEF ClaimReport, MarkReportFailed
  <2>3. reportRow[r].status \in Pending
    BY <1>3, <2>1 DEF ClaimReport, MarkReportFailed, MayGenerate
  <2>4. \/ ClaimReport(g) /\ reportRow' = [reportRow EXCEPT ![r].status = "GENERATING"]
        \/ MarkReportFailed(g) /\ reportRow' = [reportRow EXCEPT ![r].status = "FAILED"]
    BY <1>3, <2>1 DEF ClaimReport, MarkReportFailed
  <2>5. CASE ClaimReport(g) /\ reportRow' = [reportRow EXCEPT ![r].status = "GENERATING"]
    BY <1>0, <2>1, <2>2, <2>3, <2>5, RowStatus DEF RowMoves
  <2>6. CASE MarkReportFailed(g) /\ reportRow' = [reportRow EXCEPT ![r].status = "FAILED"]
    BY <1>0, <2>1, <2>2, <2>3, <2>6, RowStatus DEF RowMoves
  <2> QED
    BY <2>4, <2>5, <2>6
<1>4. ASSUME NEW g \in Generator, WriteReady(g)
      PROVE  reportRow' \in [Report -> ReportRows] /\ \A k \in Report : RowMoves(k)
  <2>1. PICK r, held : r = generator[g].report /\ held = generator[g].holds
    OBVIOUS
  <2>2. r \in Report /\ held \in SUBSET Evidence /\ reportRow[r] \in ReportRows
    BY <1>4, <2>1, Reporting DEF WriteReady, ReportsTyped, Slots
  <2>3. PICK new : new = ReadyRow(reportRow[r], held)
    OBVIOUS
  <2>4. /\ new \in ReportRows /\ new.status = "READY" /\ new.evidence = (held # {})
        /\ \A e \in held : new.expiresAt <= ExpiresAt[e]
        /\ new.token = reportRow[r].token /\ new.shareUntil = reportRow[r].shareUntil
    BY <2>2, <2>3, ReadyFields
  <2>5. RowTo(r, new)
    BY <1>4, <2>1, <2>3 DEF RowTo, WriteReady
  <2>6. /\ reportRow' \in [Report -> ReportRows] /\ reportRow'[r] = new
        /\ \A k \in Report \ {r} : reportRow'[k] = reportRow[k]
    BY <2>2, <2>4, <2>5, RowToFields
  <2> QED
    BY <1>4, <2>1, <2>2, <2>4, <2>6 DEF RowMoves
<1>5. ASSUME NEW d \in Downloader, WriteLink(d)
      PROVE  reportRow' \in [Report -> ReportRows] /\ \A k \in Report : RowMoves(k)
  <2>1. PICK r, t, u : r = downloader[d].report /\ t = downloader[d].token
                       /\ u = downloader[d].until
    OBVIOUS
  <2>2. r \in Report /\ t \in 0..MaxLinks /\ u \in 0..Never /\ reportRow[r] \in ReportRows
    BY <1>5, <2>1 DEF WriteLink, ReportsTyped, Reads
  <2>3. PICK new : new = LinkRow(reportRow[r], t, u)
    OBVIOUS
  <2>4. /\ new \in ReportRows /\ new.status = reportRow[r].status
        /\ new.evidence = reportRow[r].evidence /\ new.expiresAt = reportRow[r].expiresAt
        /\ new.token = t /\ new.shareUntil = u
    BY <2>2, <2>3, LinkFields
  <2>5. RowTo(r, new)
    BY <1>5, <2>1, <2>3 DEF RowTo, WriteLink, LinkRow
  <2>6. /\ reportRow' \in [Report -> ReportRows] /\ reportRow'[r] = new
        /\ \A k \in Report \ {r} : reportRow'[k] = reportRow[k]
    BY <2>2, <2>4, <2>5, RowToFields
  <2> QED
    BY <1>5, <2>1, <2>2, <2>4, <2>6 DEF RowMoves
<1> QED
  BY <1>1, <1>2, <1>3, <1>4, <1>5, RowWriters

LEMMA FileSteps ==
  ASSUME ReportsTyped, ReportsNext
  PROVE  /\ reportFile' \in [Report -> Files]
         /\ \A r \in Report :
              \/ reportFile'[r] = reportFile[r]
              \/ \E g \in Generator : /\ generator[g].report = r /\ StoreFile(g)
                                    /\ reportFile'[r].holds = generator[g].holds
<1>1. CASE reportFile' = reportFile
  BY <1>1 DEF ReportsTyped
<1>2. ASSUME NEW g \in Generator, StoreFile(g)
      PROVE  /\ reportFile' \in [Report -> Files]
             /\ \A r \in Report :
                  \/ reportFile'[r] = reportFile[r]
                  \/ generator[g].report = r /\ reportFile'[r].holds = generator[g].holds
  <2>1. generator[g].report \in Report /\ generator[g].holds \in SUBSET Evidence
    BY <1>2, Reporting DEF StoreFile, ReportsTyped, Slots
  <2>2. PICK new : new = [stored |-> TRUE, holds |-> generator[g].holds]
    OBVIOUS
  <2>3. new \in Files /\ new.holds = generator[g].holds
    BY <2>1, <2>2 DEF Files
  <2>4. reportFile' = [reportFile EXCEPT ![generator[g].report] = new]
    BY <1>2, <2>2 DEF StoreFile
  <2> QED
    BY <2>1, <2>3, <2>4 DEF ReportsTyped
<1> QED
  BY <1>1, <1>2, FileWriters

SlotAt(pc, report, holds) == [pc |-> pc, report |-> report, holds |-> holds]
SlotTo(g, new) == generator' = [generator EXCEPT ![g] = new]

LEMMA SlotToFields ==
  ASSUME ReportsTyped, NEW g \in Generator, NEW x, NEW r, NEW held, SlotTo(g, SlotAt(x, r, held))
  PROVE  /\ generator'[g] = SlotAt(x, r, held) /\ generator'[g].pc = x
         /\ generator'[g].report = r /\ generator'[g].holds = held
         /\ \A h \in Generator \ {g} : generator'[h] = generator[h]
<1>1. /\ generator'[g] = SlotAt(x, r, held)
      /\ \A h \in Generator \ {g} : generator'[h] = generator[h]
  BY DEF ReportsTyped, SlotTo
<1> QED
  BY <1>1 DEF SlotAt

\* Where each step takes its worker.
LEMMA SlotActions ==
  ASSUME ReportsTyped, NEW g \in Generator
  PROVE  LET r == generator[g].report
             held == generator[g].holds
         IN
         /\ \A k \in Report : TakeJob(g, k) =>
              \/ SlotTo(g, SlotAt("mark", k, {})) /\ reportJob' = [reportJob EXCEPT ![k].state = "failed"]
              \/ /\ SlotTo(g, SlotAt("claim", k, {}))
                 /\ reportJob' = [reportJob EXCEPT ![k].state = "active", ![k].by = {g}]
         /\ ClaimReport(g) =>
              \/ SlotTo(g, SlotAt("build", r, held)) /\ reportRow[r].status \in Pending
              \/ SlotTo(g, SlotAt("ack", r, held))
         /\ BuildReport(g) => SlotTo(g, SlotAt("store", r, Available))
         /\ StoreFile(g) => SlotTo(g, SlotAt("ready", r, held))
         /\ WriteReady(g) => SlotTo(g, SlotAt("notify", r, held))
         /\ NotifyAuthor(g) => \/ SlotTo(g, SlotAt("ack", r, held)) /\ generator[g].pc = "notify"
                               \/ SlotTo(g, Idle)
         /\ AckReport(g) => SlotTo(g, Idle)
         /\ MarkReportFailed(g) => \/ /\ SlotTo(g, SlotAt("tell", r, held))
                                      /\ reportRow' = [reportRow EXCEPT ![r].status = "FAILED"]
                                   \/ SlotTo(g, Idle)
         /\ GenerationThrows(g) =>
              \/ /\ SlotTo(g, SlotAt("mark", r, held)) /\ HoldsLock(g)
                 /\ reportJob' = [reportJob EXCEPT ![r].state = "failed", ![r].made = @ + 1]
              \/ SlotTo(g, Idle)
         /\ GeneratorDies(g) => SlotTo(g, Idle)
<1>1. generator[g] \in Slots /\ generator \in [Generator -> Slots]
  BY DEF ReportsTyped
<1>2. ASSUME NEW x
      PROVE  [generator EXCEPT ![g].pc = x]
               = [generator EXCEPT ![g] = SlotAt(x, generator[g].report, generator[g].holds)]
  BY <1>1, SlotFields DEF SlotAt
<1>3. ASSUME NEW k \in Report, TakeJob(g, k)
      PROVE  \/ SlotTo(g, SlotAt("mark", k, {})) /\ reportJob' = [reportJob EXCEPT ![k].state = "failed"]
             \/ /\ SlotTo(g, SlotAt("claim", k, {}))
                /\ reportJob' = [reportJob EXCEPT ![k].state = "active", ![k].by = {g}]
  BY <1>3 DEF TakeJob, SlotTo, SlotAt
<1>4. ClaimReport(g) =>
        \/ SlotTo(g, SlotAt("build", generator[g].report, generator[g].holds))
           /\ reportRow[generator[g].report].status \in Pending
        \/ SlotTo(g, SlotAt("ack", generator[g].report, generator[g].holds))
  BY <1>2 DEF ClaimReport, Moved, SlotTo, MayGenerate
<1>5. BuildReport(g) => SlotTo(g, SlotAt("store", generator[g].report, Available))
  <2> SUFFICES ASSUME BuildReport(g) PROVE SlotTo(g, SlotAt("store", generator[g].report, Available))
    OBVIOUS
  <2>1. PICK held : held = Available
    OBVIOUS
  <2>2. generator' = [generator EXCEPT ![g] = [generator[g] EXCEPT !.pc = "store", !.holds = held]]
    BY <1>1, <2>1 DEF BuildReport
  <2>3. [generator[g] EXCEPT !.pc = "store", !.holds = held] = SlotAt("store", generator[g].report, held)
    BY <1>1, SlotFields DEF SlotAt
  <2> QED
    BY <2>1, <2>2, <2>3 DEF SlotTo
<1>6. StoreFile(g) => SlotTo(g, SlotAt("ready", generator[g].report, generator[g].holds))
  BY <1>2 DEF StoreFile, Moved, SlotTo
<1>7. WriteReady(g) => SlotTo(g, SlotAt("notify", generator[g].report, generator[g].holds))
  BY <1>2 DEF WriteReady, Moved, SlotTo
<1>8. NotifyAuthor(g) =>
        \/ SlotTo(g, SlotAt("ack", generator[g].report, generator[g].holds))
           /\ generator[g].pc = "notify"
        \/ SlotTo(g, Idle)
  BY <1>2 DEF NotifyAuthor, Moved, SlotTo
<1>9. AckReport(g) => SlotTo(g, Idle)
  BY DEF AckReport, SlotTo
<1>10. MarkReportFailed(g) =>
        \/ /\ SlotTo(g, SlotAt("tell", generator[g].report, generator[g].holds))
           /\ reportRow' = [reportRow EXCEPT ![generator[g].report].status = "FAILED"]
        \/ SlotTo(g, Idle)
  BY <1>2 DEF MarkReportFailed, Moved, SlotTo
<1>11. GenerationThrows(g) =>
        \/ /\ SlotTo(g, SlotAt("mark", generator[g].report, generator[g].holds)) /\ HoldsLock(g)
           /\ reportJob' = [reportJob EXCEPT ![generator[g].report].state = "failed",
                                             ![generator[g].report].made = @ + 1]
        \/ SlotTo(g, Idle)
  BY <1>2 DEF GenerationThrows, Moved, SlotTo
<1>12. GeneratorDies(g) => SlotTo(g, Idle)
  BY DEF GeneratorDies, SlotTo
<1> QED
  BY <1>3, <1>4, <1>5, <1>6, <1>7, <1>8, <1>9, <1>10, <1>11, <1>12

Goes(g, from, to) == generator[g].pc = from /\ generator'[g].pc = to

SlotMoves(g) ==
  \/ generator'[g] = generator[g]
  \/ generator'[g] = Idle
  \/ \E r \in Report :
       /\ TakeJob(g, r) /\ generator'[g].report = r /\ generator'[g].pc \in {"claim", "mark"}
  \/ /\ generator'[g].report = generator[g].report
     /\ \/ /\ ClaimReport(g) /\ Goes(g, "claim", "build")
           /\ reportRow[generator[g].report].status \in Pending
        \/ ClaimReport(g) /\ Goes(g, "claim", "ack")
        \/ BuildReport(g) /\ Goes(g, "build", "store")
        \/ StoreFile(g) /\ Goes(g, "store", "ready") /\ generator'[g].holds = generator[g].holds
        \/ WriteReady(g) /\ Goes(g, "ready", "notify")
        \/ NotifyAuthor(g) /\ Goes(g, "notify", "ack")
        \/ /\ GenerationThrows(g) /\ generator'[g].pc = "mark"
           /\ generator[g].pc \in {"claim", "build", "store", "ready", "notify"}
        \/ MarkReportFailed(g) /\ Goes(g, "mark", "tell")

LEMMA SlotSteps ==
  ASSUME ReportsTyped, ReportsNext
  PROVE  /\ \A g \in Generator : SlotMoves(g)
         /\ \A g, h \in Generator :
              generator'[g] # generator[g] /\ generator'[h] # generator[h] => g = h
<1>0. Idle = SlotAt("idle", NoReport, {})
  BY DEF Idle, SlotAt
<1>1. CASE generator' = generator
  BY <1>1 DEF SlotMoves
<1>2. ASSUME NEW g \in Generator, GeneratorStep(g) \/ GenerationThrows(g) \/ GeneratorDies(g)
      PROVE  SlotMoves(g) /\ \A h \in Generator \ {g} : generator'[h] = generator[h]
  <2>1. ASSUME SlotTo(g, Idle)
        PROVE  SlotMoves(g) /\ \A h \in Generator \ {g} : generator'[h] = generator[h]
    BY <1>0, <2>1, SlotToFields DEF SlotMoves
  <2>2. CASE \E r \in Report : TakeJob(g, r)
    <3>1. PICK r \in Report : TakeJob(g, r)
      BY <2>2
    <3>2. PICK x \in {"claim", "mark"} : SlotTo(g, SlotAt(x, r, {}))
      BY <3>1, SlotActions
    <3>3. generator'[g].pc = x /\ generator'[g].report = r
          /\ \A h \in Generator \ {g} : generator'[h] = generator[h]
      BY <3>2, SlotToFields
    <3> QED
      BY <3>1, <3>3 DEF SlotMoves
  <2>3. ASSUME NEW x, NEW held, SlotTo(g, SlotAt(x, generator[g].report, held))
        PROVE  /\ generator'[g].pc = x /\ generator'[g].report = generator[g].report
               /\ generator'[g].holds = held
               /\ \A h \in Generator \ {g} : generator'[h] = generator[h]
    BY <2>3, SlotToFields
  <2>4. CASE ClaimReport(g)
    BY <2>3, <2>4, SlotActions DEF SlotMoves, Goes, ClaimReport
  <2>5. CASE BuildReport(g)
    BY <2>3, <2>5, SlotActions DEF SlotMoves, Goes, BuildReport
  <2>6. CASE StoreFile(g)
    BY <2>3, <2>6, SlotActions DEF SlotMoves, Goes, StoreFile
  <2>7. CASE WriteReady(g)
    BY <2>3, <2>7, SlotActions DEF SlotMoves, Goes, WriteReady
  <2>8. CASE NotifyAuthor(g)
    BY <2>1, <2>3, <2>8, SlotActions DEF SlotMoves, Goes
  <2>9. CASE AckReport(g) \/ GeneratorDies(g)
    BY <2>1, <2>9, SlotActions
  <2>10. CASE MarkReportFailed(g)
    <3>1. generator[g].pc = "mark"
      BY <2>10 DEF MarkReportFailed
    <3> QED
      BY <2>1, <2>3, <2>10, <3>1, SlotActions DEF SlotMoves, Goes
  <2>11. CASE GenerationThrows(g)
    <3>1. generator[g].pc \in {"claim", "build", "store", "ready", "notify"}
      BY <2>11 DEF GenerationThrows
    <3> QED
      BY <2>1, <2>3, <2>11, <3>1, SlotActions DEF SlotMoves
  <2> QED
    BY <1>2, <2>2, <2>4, <2>5, <2>6, <2>7, <2>8, <2>9, <2>10, <2>11 DEF GeneratorStep
<1>3. CASE generator' # generator
  <2>1. PICK g \in Generator :
          SlotMoves(g) /\ \A h \in Generator \ {g} : generator'[h] = generator[h]
    BY <1>2, <1>3, SlotWriters
  <2> QED
    BY <2>1 DEF SlotMoves
<1> QED
  BY <1>1, <1>3

\* A step of one worker's leaves the others where they were.
LEMMA OneMoves ==
  ASSUME ReportsTyped, NEW g \in Generator, GeneratorStep(g) \/ GenerationThrows(g) \/ GeneratorDies(g)
  PROVE  \A h \in Generator \ {g} : generator'[h] = generator[h]
<1>0. Idle = SlotAt("idle", NoReport, {})
  BY DEF Idle, SlotAt
<1>1. \E x, r, held : SlotTo(g, SlotAt(x, r, held))
  <2>1. CASE \E r \in Report : TakeJob(g, r)
    BY <2>1, SlotActions
  <2>2. CASE ClaimReport(g) \/ BuildReport(g) \/ StoreFile(g) \/ WriteReady(g)
    BY <2>2, SlotActions
  <2>3. CASE NotifyAuthor(g) \/ MarkReportFailed(g) \/ GenerationThrows(g)
    BY <1>0, <2>3, SlotActions
  <2>4. CASE AckReport(g) \/ GeneratorDies(g)
    BY <1>0, <2>4, SlotActions
  <2> QED
    BY <2>1, <2>2, <2>3, <2>4 DEF GeneratorStep
<1> QED
  BY <1>1, SlotToFields

-----------------------------------------------------------------------------
(* The queue, and the lock of a job. *)

JobMoves(r) ==
  \/ reportJob'[r] = reportJob[r]
  \/ EnqueueReport(r) /\ reportJob[r].state = "none"
  \/ JobStalls(r) \/ BackoffPasses(r)
  \/ \E g \in Generator :
       /\ TakeJob(g, r)
       /\ \/ reportJob'[r].state = "failed" /\ generator'[g].pc = "mark"
          \/ /\ reportJob'[r].state = "active" /\ reportJob'[r].by = {g}
             /\ generator'[g].pc = "claim"
  \/ \E g \in Generator :
       /\ generator[g].report = r /\ HoldsLock(g)
       /\ \/ AckReport(g) /\ generator'[g] = Idle
          \/ GenerationThrows(g) /\ generator'[g] = Idle
          \/ /\ GenerationThrows(g) /\ generator'[g].pc = "mark"
             /\ reportJob'[r].state = "failed"
          \/ LockLost(g)

JobTo(r, new) == reportJob' = [reportJob EXCEPT ![r] = new]

LEMMA JobToFields ==
  ASSUME ReportsTyped, NEW r \in Report,
         NEW x \in {"none", "waiting", "active", "delayed", "failed"}, NEW m \in Nat,
         NEW n \in Nat, NEW by \in SUBSET Generator, JobTo(r, JobAt(x, m, n, by))
  PROVE  /\ reportJob' \in [Report -> Jobs] /\ reportJob'[r].state = x
         /\ reportJob'[r].by = by
         /\ \A k \in Report \ {r} : reportJob'[k] = reportJob[k]
<1>1. JobAt(x, m, n, by) \in Jobs /\ JobAt(x, m, n, by).state = x /\ JobAt(x, m, n, by).by = by
  BY DEF JobAt, Jobs
<1>2. /\ reportJob' \in [Report -> Jobs] /\ reportJob'[r] = JobAt(x, m, n, by)
      /\ \A k \in Report \ {r} : reportJob'[k] = reportJob[k]
  BY <1>1 DEF JobTo, ReportsTyped
<1> QED
  BY <1>1, <1>2

LEMMA JobSteps ==
  ASSUME ReportsTyped, ReportsNext
  PROVE  reportJob' \in [Report -> Jobs] /\ \A r \in Report : JobMoves(r)
<1>0. 0 \in Nat /\ {} \in SUBSET Generator /\ NoJob = JobAt("none", 0, 0, {})
  BY DEF NoJob, JobAt
<1> DEFINE Good == reportJob' \in [Report -> Jobs] /\ \A r \in Report : JobMoves(r)
<1>1. CASE reportJob' = reportJob
  BY <1>1 DEF JobMoves, ReportsTyped
<1>2. ASSUME NEW r \in Report, EnqueueReport(r) \/ JobStalls(r) \/ BackoffPasses(r),
             reportJob' # reportJob
      PROVE  Good
  <2>1. PICK job \in Jobs : job = reportJob[r]
    BY DEF ReportsTyped
  <2>2. /\ job.made \in Nat /\ job.stalled \in Nat /\ job.stalled + 1 \in Nat
        /\ job.by \in SUBSET Generator
    BY DEF Jobs
  <2>3. CASE EnqueueReport(r)
    <3>1. [NoJob EXCEPT !.state = "waiting"] = JobAt("waiting", 0, 0, {})
      BY DEF NoJob, JobAt
    <3>2. reportJob[r].state = "none" /\ JobTo(r, JobAt("waiting", 0, 0, {}))
      BY <1>2, <2>3, <3>1 DEF EnqueueReport, AddReportJob, JobTo
    <3> QED
      BY <1>0, <2>3, <3>2, JobToFields DEF JobMoves
  <2>4. CASE JobStalls(r)
    <3>1. PICK n \in Nat : n = job.stalled + 1
      BY <2>2
    <3>2. reportJob' = [reportJob EXCEPT ![r] = [job EXCEPT !.state = "waiting", !.stalled = n]]
      BY <2>1, <2>4, <3>1 DEF JobStalls, BackToWaiting
    <3>3. JobTo(r, JobAt("waiting", job.made, n, job.by))
      BY <3>2, JobFields DEF JobTo
    <3> QED
      BY <2>2, <2>4, <3>3, JobToFields DEF JobMoves
  <2>5. CASE BackoffPasses(r)
    <3>1. JobTo(r, JobAt("waiting", job.made, job.stalled, job.by))
      BY <2>1, <2>5, JobFields DEF BackoffPasses, JobTo
    <3> QED
      BY <2>2, <2>5, <3>1, JobToFields DEF JobMoves
  <2> QED
    BY <1>2, <2>3, <2>4, <2>5
<1>3. ASSUME NEW g \in Generator, NEW r \in Report, TakeJob(g, r)
      PROVE  Good
  <2>1. PICK job \in Jobs : job = reportJob[r]
    BY DEF ReportsTyped
  <2>2. /\ job.made \in Nat /\ job.stalled \in Nat /\ job.by \in SUBSET Generator
        /\ {g} \in SUBSET Generator
    BY DEF Jobs
  <2>3. CASE SlotTo(g, SlotAt("mark", r, {})) /\ reportJob' = [reportJob EXCEPT ![r].state = "failed"]
    <3>1. JobTo(r, JobAt("failed", job.made, job.stalled, job.by))
      BY <2>1, <2>3, JobFields DEF JobTo
    <3>2. generator'[g].pc = "mark"
      BY <2>3, SlotToFields
    <3> QED
      BY <1>3, <2>2, <3>1, <3>2, JobToFields DEF JobMoves
  <2>4. CASE /\ SlotTo(g, SlotAt("claim", r, {}))
             /\ reportJob' = [reportJob EXCEPT ![r].state = "active", ![r].by = {g}]
    <3>1. reportJob' = [reportJob EXCEPT ![r] = [job EXCEPT !.state = "active", !.by = {g}]]
      BY <2>1, <2>4
    <3>2. JobTo(r, JobAt("active", job.made, job.stalled, {g}))
      BY <3>1, TakenJob DEF JobTo
    <3>3. generator'[g].pc = "claim"
      BY <2>4, SlotToFields
    <3> QED
      BY <1>3, <2>2, <3>2, <3>3, JobToFields DEF JobMoves
  <2> QED
    BY <1>3, <2>3, <2>4, SlotActions
<1>4. ASSUME NEW g \in Generator, AckReport(g), reportJob' # reportJob
      PROVE  Good
  <2>1. PICK r \in Report : r = generator[g].report
    BY <1>4, Reporting DEF AckReport
  <2>2. HoldsLock(g) /\ JobTo(r, JobAt("none", 0, 0, {}))
    BY <1>0, <1>4, <2>1 DEF AckReport, JobTo
  <2>3. generator'[g] = Idle
    BY <1>4 DEF AckReport, ReportsTyped
  <2> QED
    BY <1>0, <1>4, <2>1, <2>2, <2>3, JobToFields DEF JobMoves
<1>5. ASSUME NEW g \in Generator, GenerationThrows(g), reportJob' # reportJob
      PROVE  Good
  <2>1. PICK r \in Report : r = generator[g].report
    BY <1>5, Reporting DEF GenerationThrows
  <2>2. PICK job \in Jobs : job = reportJob[r]
    BY DEF ReportsTyped
  <2>3. PICK n \in Nat : n = job.made + 1
    BY DEF Jobs
  <2>4. job.stalled \in Nat /\ job.by \in SUBSET Generator
    BY DEF Jobs
  <2>5. HoldsLock(g)
    BY <1>5 DEF GenerationThrows
  <2>6. \/ /\ reportJob' = [reportJob EXCEPT ![r].state = "failed", ![r].made = @ + 1]
           /\ generator' = Moved(g, "mark")
        \/ /\ reportJob' = [reportJob EXCEPT ![r].state = "delayed", ![r].made = @ + 1]
           /\ generator' = [generator EXCEPT ![g] = Idle]
    BY <1>5, <2>1, <2>5 DEF GenerationThrows
  <2>7. CASE /\ reportJob' = [reportJob EXCEPT ![r].state = "failed", ![r].made = @ + 1]
             /\ generator' = Moved(g, "mark")
    <3>1. reportJob' = [reportJob EXCEPT ![r] = [job EXCEPT !.state = "failed", !.made = n]]
      BY <2>2, <2>3, <2>7
    <3>2. JobTo(r, JobAt("failed", n, job.stalled, job.by))
      <4>1. [job EXCEPT !.state = "failed", !.made = n] = JobAt("failed", n, job.stalled, job.by)
        BY JobFields
      <4> QED
        BY <3>1, <4>1 DEF JobTo
    <3>3. generator'[g].pc = "mark"
      BY <2>7 DEF Moved, ReportsTyped, Slots
    <3> QED
      BY <1>5, <2>1, <2>4, <2>5, <3>2, <3>3, JobToFields DEF JobMoves
  <2>8. CASE /\ reportJob' = [reportJob EXCEPT ![r].state = "delayed", ![r].made = @ + 1]
             /\ generator' = [generator EXCEPT ![g] = Idle]
    <3>1. reportJob' = [reportJob EXCEPT ![r] = [job EXCEPT !.state = "delayed", !.made = n]]
      BY <2>2, <2>3, <2>8
    <3>2. JobTo(r, JobAt("delayed", n, job.stalled, job.by))
      BY <3>1, JobFields DEF JobTo
    <3>3. generator'[g] = Idle
      BY <2>8 DEF ReportsTyped
    <3> QED
      BY <1>5, <2>1, <2>4, <2>5, <3>2, <3>3, JobToFields DEF JobMoves
  <2> QED
    BY <2>6, <2>7, <2>8
<1>6. ASSUME NEW g \in Generator, LockLost(g)
      PROVE  Good
  <2>1. PICK r \in Report : r = generator[g].report
    BY <1>6, Reporting DEF LockLost
  <2>2. PICK job \in Jobs : job = reportJob[r]
    BY DEF ReportsTyped
  <2>3. PICK n \in Nat : n = job.stalled + 1
    BY DEF Jobs
  <2>4. job.made \in Nat /\ job.by \in SUBSET Generator
    BY DEF Jobs
  <2>5. HoldsLock(g)
    BY <1>6 DEF LockLost
  <2>6. reportJob' = [reportJob EXCEPT ![r] = [job EXCEPT !.state = "waiting", !.stalled = n]]
    BY <1>6, <2>1, <2>2, <2>3 DEF LockLost, BackToWaiting
  <2>7. JobTo(r, JobAt("waiting", job.made, n, job.by))
    BY <2>6, JobFields DEF JobTo
  <2> QED
    BY <1>6, <2>1, <2>4, <2>5, <2>7, JobToFields DEF JobMoves
<1> QED
  BY <1>1, <1>2, <1>3, <1>4, <1>5, <1>6, JobWriters

Workers == OneGenerator /\ \A g \in Generator : Locked(g)

LEMMA WorkersStep ==
  ASSUME ReportsTyped, Workers, ReportsNext, "lock_lost" \notin ReportFaults
  PROVE  Workers'
<1>0. Idle.pc = "idle" /\ Idle.report = NoReport /\ NoReport \notin Report
  BY ReportsAssumption DEF Idle
<1>1. ASSUME NEW g \in Generator, generator'[g].report = generator[g].report,
             generator[g].pc # "idle", UNCHANGED reportJob,
             generator'[g].pc \in {"mark", "tell"} => generator[g].pc \in {"mark", "tell"},
             generator[g].pc \in {"mark", "tell"} => generator'[g].pc \in {"idle", "mark", "tell"}
      PROVE  Locked(g)'
  BY <1>1 DEF Locked, Workers
<1>2. ASSUME NEW g \in Generator PROVE Locked(g)'
  <2> DEFINE r == generator[g].report
  <2>1. CASE generator'[g] = Idle
    BY <1>0, <2>1 DEF Locked
  <2>2. CASE generator'[g] = generator[g]
    <3>1. CASE generator[g].pc = "idle"
      BY <2>2, <3>1 DEF Locked
    <3>2. CASE generator[g].pc # "idle"
      <4>1. r \in Report /\ JobMoves(r)
        BY <3>2, Reporting, JobSteps
      <4>2. generator'[g] # Idle /\ generator[g].report = r /\ ~ \E h \in Generator : LockLost(h)
        BY <1>0, <2>2, <3>2 DEF LockLost, Fault
      <4>3. reportJob'[r] = reportJob[r]
        <5>1. reportJob[r].state \notin {"none", "waiting", "delayed"}
          BY <3>2 DEF Locked, Workers
        <5>2. ~EnqueueReport(r) \/ reportJob[r].state # "none"
          BY <5>1
        <5>3. ~JobStalls(r)
          BY <3>2, <4>2 DEF JobStalls, Locked, Workers
        <5>4. ~BackoffPasses(r) /\ \A h \in Generator : ~TakeJob(h, r)
          BY <5>1 DEF BackoffPasses, TakeJob
        <5>5. ASSUME NEW h \in Generator, generator[h].report = r, HoldsLock(h)
              PROVE  h = g
          BY <4>1, <4>2, <5>5, <1>0 DEF Workers, OneGenerator
        <5>6. GenerationThrows(g) => generator'[g] # generator[g] \/ generator'[g].pc # "mark"
          BY DEF GenerationThrows
        <5> QED
          BY <2>2, <4>1, <4>2, <5>2, <5>3, <5>4, <5>5, <5>6 DEF JobMoves
      <4> QED
        BY <2>2, <4>3 DEF Locked, Workers
    <3> QED
      BY <3>1, <3>2
  <2>3. CASE \E k \in Report :
               /\ TakeJob(g, k) /\ generator'[g].report = k
               /\ generator'[g].pc \in {"claim", "mark"}
    <3>1. PICK k \in Report : TakeJob(g, k) /\ generator'[g].report = k
      BY <2>3
    <3>2. CASE SlotTo(g, SlotAt("mark", k, {})) /\ reportJob' = [reportJob EXCEPT ![k].state = "failed"]
      <4>1. generator'[g].pc = "mark" /\ reportJob'[k].state = "failed"
        BY <3>2, SlotToFields DEF ReportsTyped, Jobs
      <4> QED
        BY <3>1, <4>1 DEF Locked
    <3>3. CASE /\ SlotTo(g, SlotAt("claim", k, {}))
               /\ reportJob' = [reportJob EXCEPT ![k].state = "active", ![k].by = {g}]
      <4>1. PICK job \in Jobs : job = reportJob[k]
        BY DEF ReportsTyped
      <4>2. reportJob'[k] = [job EXCEPT !.state = "active", !.by = {g}]
        BY <3>3, <4>1 DEF ReportsTyped
      <4>3. reportJob'[k] = JobAt("active", job.made, job.stalled, {g})
        BY <4>2, TakenJob
      <4>4. generator'[g].pc = "claim"
        BY <3>3, SlotToFields
      <4> QED
        BY <3>1, <4>3, <4>4 DEF Locked, JobAt
    <3> QED
      BY <3>1, <3>2, <3>3, SlotActions
  <2>4. CASE /\ generator'[g].report = r
             /\ \/ ClaimReport(g) /\ Goes(g, "claim", "build")
                \/ ClaimReport(g) /\ Goes(g, "claim", "ack")
                \/ BuildReport(g) /\ Goes(g, "build", "store")
                \/ StoreFile(g) /\ Goes(g, "store", "ready")
                \/ WriteReady(g) /\ Goes(g, "ready", "notify")
                \/ NotifyAuthor(g) /\ Goes(g, "notify", "ack")
                \/ MarkReportFailed(g) /\ Goes(g, "mark", "tell")
    <3>1. UNCHANGED reportJob
      BY <2>4 DEF ClaimReport, BuildReport, StoreFile, WriteReady, NotifyAuthor, MarkReportFailed
    <3> QED
      BY <1>1, <2>4, <3>1 DEF Goes
  <2>5. CASE GenerationThrows(g) /\ generator'[g].pc = "mark" /\ generator'[g].report = r
    <3>1. r \in Report /\ generator'[g] # Idle
      BY <1>0, <2>5, Reporting DEF GenerationThrows
    <3>2. reportJob' = [reportJob EXCEPT ![r].state = "failed", ![r].made = @ + 1]
      <4>1. ~SlotTo(g, Idle)
        BY <3>1 DEF SlotTo, ReportsTyped
      <4> QED
        BY <2>5, <4>1, SlotActions
    <3>3. PICK job \in Jobs : job = reportJob[r]
      BY <3>1 DEF ReportsTyped
    <3>4. PICK n : n = job.made + 1
      OBVIOUS
    <3>5. reportJob'[r] = [job EXCEPT !.state = "failed", !.made = n]
      BY <3>1, <3>2, <3>3, <3>4 DEF ReportsTyped
    <3>6. reportJob'[r] = JobAt("failed", n, job.stalled, job.by)
      BY <3>5, JobFields
    <3> QED
      BY <2>5, <3>6 DEF Locked, JobAt
  <2> QED
    BY <2>1, <2>2, <2>3, <2>4, <2>5, SlotSteps DEF SlotMoves
<1>3. OneGenerator'
  <2>1. ASSUME NEW g \in Generator, NEW h \in Generator, NEW r \in Report, TakeJob(g, r)
        PROVE  generator[h].report # r
    <3>1. reportJob[r].state = "waiting"
      BY <2>1 DEF TakeJob
    <3>2. generator[h].report = r => generator[h].pc # "idle"
      BY <1>0 DEF ReportsTyped
    <3> QED
      BY <3>1, <3>2 DEF Workers, Locked
  <2>2. ASSUME NEW g \in Generator
        PROVE  \/ generator'[g].report = NoReport
               \/ generator'[g].report = generator[g].report
               \/ \E r \in Report : TakeJob(g, r) /\ generator'[g].report = r
                                  /\ generator'[g] # generator[g]
    BY <1>0, SlotSteps DEF SlotMoves, TakeJob
  <2>3. ASSUME NEW g \in Generator, NEW h \in Generator, g # h,
               generator'[g].report = generator'[h].report, generator'[g].report # NoReport
        PROVE  FALSE
    <3>1. generator'[g] = generator[g] \/ generator'[h] = generator[h]
      BY <2>3, SlotSteps
    <3>2. generator[g].report = generator[h].report => generator[g].report = NoReport
      BY <2>3 DEF Workers, OneGenerator
    <3> QED
      BY <2>1, <2>2, <2>3, <3>1, <3>2
  <2> QED
    BY <2>3 DEF OneGenerator
<1> QED
  BY <1>2, <1>3 DEF Workers

-----------------------------------------------------------------------------
(* The readers. *)

ReadAt(pc, report, viewer, at, served, token, until) ==
  [pc |-> pc, report |-> report, viewer |-> viewer, at |-> at, served |-> served,
   token |-> token, until |-> until]

\* What a step makes of one reader.
ReaderMoves(d) ==
  \/ downloader'[d] = downloader[d]
  \/ downloader'[d].pc = "idle"
  \/ \E r \in Report, viewer \in BOOLEAN :
       /\ downloader'[d] = ReadAt("reading", r, viewer, today, {}, 0, 0)
       /\ reportRow[r].status = "READY" /\ reportRow[r].expiresAt > today
       /\ viewer => ~reportRow[r].evidence
       /\ UNCHANGED <<reportRow, reportFile, generator, requester>>
  \/ \E pc \in {"served", "gone"} :
       /\ downloader[d].pc = "reading"
       /\ downloader'[d] = ReadAt(pc, downloader[d].report, downloader[d].viewer,
            downloader[d].at, reportFile[downloader[d].report].holds,
            downloader[d].token, downloader[d].until)
  \/ \E r \in Report, until \in 0..Never :
       /\ downloader'[d] = ReadAt("sharing", r, FALSE, 0, {}, linksMade + 1, until)
       /\ linksMade' = linksMade + 1 /\ linksMade < MaxLinks
       /\ reportRow[r].status = "READY" /\ until <= reportRow[r].expiresAt
       /\ UNCHANGED <<reportRow, reportFile, generator, requester>>
  \/ \E r \in Report : downloader'[d] = ReadAt("sharing", r, FALSE, 0, {}, 0, 0)

ReadTo(d, new) == downloader' = [downloader EXCEPT ![d] = new]

LEMMA ReadFields ==
  ASSUME NEW a, NEW r, NEW v, NEW t, NEW s, NEW n, NEW u
  PROVE  LET read == ReadAt(a, r, v, t, s, n, u) IN
         /\ read.pc = a /\ read.report = r /\ read.viewer = v /\ read.at = t
         /\ read.served = s /\ read.token = n /\ read.until = u
         /\ (/\ a \in {"idle", "reading", "served", "gone", "sharing"} /\ r \in Report \cup {NoReport}
             /\ v \in BOOLEAN /\ t \in Int /\ s \in SUBSET Evidence /\ n \in 0..MaxLinks
             /\ u \in 0..Never) => read \in Reads
BY DEF ReadAt, Reads

\* The readers a check and a read make, field by field.
LEMMA ReadChecked ==
  ASSUME NEW r, NEW v, NEW t
  PROVE  [NoRead EXCEPT !.pc = "reading", !.report = r, !.viewer = v, !.at = t]
           = ReadAt("reading", r, v, t, {}, 0, 0)
<1>0. PICK no, zero, none : no = FALSE /\ zero = 0 /\ none = {}
  OBVIOUS
<1>1. NoRead = ReadAt("idle", NoReport, no, zero, none, zero, zero)
  BY <1>0 DEF NoRead, ReadAt
<1>2. [NoRead EXCEPT !.pc = "reading", !.report = r, !.viewer = v, !.at = t]
        = ReadAt("reading", r, v, t, none, zero, zero)
  <2>1. [NoRead EXCEPT !.pc = "reading"] = ReadAt("reading", NoReport, no, zero, none, zero, zero)
    BY <1>1 DEF ReadAt
  <2>2. [ReadAt("reading", NoReport, no, zero, none, zero, zero) EXCEPT !.report = r] = ReadAt("reading", r, no, zero, none, zero, zero)
    BY <1>1 DEF ReadAt
  <2>3. [ReadAt("reading", r, no, zero, none, zero, zero) EXCEPT !.viewer = v] = ReadAt("reading", r, v, zero, none, zero, zero)
    BY <1>1 DEF ReadAt
  <2>4. [ReadAt("reading", r, v, zero, none, zero, zero) EXCEPT !.at = t] = ReadAt("reading", r, v, t, none, zero, zero)
    BY <1>1 DEF ReadAt
  <2> QED
    BY <2>1, <2>2, <2>3, <2>4
<1> QED
  BY <1>0, <1>2

LEMMA ReadShared ==
  ASSUME NEW r, NEW n, NEW u
  PROVE  [NoRead EXCEPT !.pc = "sharing", !.report = r, !.token = n, !.until = u]
           = ReadAt("sharing", r, FALSE, 0, {}, n, u)
<1>0. PICK no, zero, none : no = FALSE /\ zero = 0 /\ none = {}
  OBVIOUS
<1>1. NoRead = ReadAt("idle", NoReport, no, zero, none, zero, zero)
  BY <1>0 DEF NoRead, ReadAt
<1>2. [NoRead EXCEPT !.pc = "sharing", !.report = r, !.token = n, !.until = u]
        = ReadAt("sharing", r, no, zero, none, n, u)
  <2>1. [NoRead EXCEPT !.pc = "sharing"] = ReadAt("sharing", NoReport, no, zero, none, zero, zero)
    BY <1>1 DEF ReadAt
  <2>2. [ReadAt("sharing", NoReport, no, zero, none, zero, zero) EXCEPT !.report = r] = ReadAt("sharing", r, no, zero, none, zero, zero)
    BY <1>1 DEF ReadAt
  <2>3. [ReadAt("sharing", r, no, zero, none, zero, zero) EXCEPT !.token = n] = ReadAt("sharing", r, no, zero, none, n, zero)
    BY <1>1 DEF ReadAt
  <2>4. [ReadAt("sharing", r, no, zero, none, n, zero) EXCEPT !.until = u] = ReadAt("sharing", r, no, zero, none, n, u)
    BY <1>1 DEF ReadAt
  <2> QED
    BY <2>1, <2>2, <2>3, <2>4
<1> QED
  BY <1>0, <1>2

LEMMA ReadRevoked ==
  ASSUME NEW r
  PROVE  [NoRead EXCEPT !.pc = "sharing", !.report = r] = ReadAt("sharing", r, FALSE, 0, {}, 0, 0)
<1>0. PICK no, zero, none : no = FALSE /\ zero = 0 /\ none = {}
  OBVIOUS
<1>1. NoRead = ReadAt("idle", NoReport, no, zero, none, zero, zero)
  BY <1>0 DEF NoRead, ReadAt
<1>2. [NoRead EXCEPT !.pc = "sharing", !.report = r]
        = ReadAt("sharing", r, no, zero, none, zero, zero)
  <2>1. [NoRead EXCEPT !.pc = "sharing"] = ReadAt("sharing", NoReport, no, zero, none, zero, zero)
    BY <1>1 DEF ReadAt
  <2>2. [ReadAt("sharing", NoReport, no, zero, none, zero, zero) EXCEPT !.report = r] = ReadAt("sharing", r, no, zero, none, zero, zero)
    BY <1>1 DEF ReadAt
  <2> QED
    BY <2>1, <2>2
<1> QED
  BY <1>0, <1>2

LEMMA ReadServed ==
  ASSUME NEW x, NEW s, NEW read \in Reads
  PROVE  [read EXCEPT !.pc = x, !.served = s]
           = ReadAt(x, read.report, read.viewer, read.at, s, read.token, read.until)
<1>1. [read EXCEPT !.pc = x]
        = ReadAt(x, read.report, read.viewer, read.at, read.served, read.token, read.until)
  BY DEF ReadAt, Reads
<1>2. [ReadAt(x, read.report, read.viewer, read.at, read.served, read.token, read.until)
        EXCEPT !.served = s]
        = ReadAt(x, read.report, read.viewer, read.at, s, read.token, read.until)
  BY DEF ReadAt
<1> QED
  BY <1>1, <1>2

LEMMA ReadToFields ==
  ASSUME ReportsTyped, NEW d \in Downloader, NEW new \in Reads, ReadTo(d, new),
         new.pc # "idle" => new.report \in Report
  PROVE  /\ downloader' \in [Downloader -> Reads] /\ downloader'[d] = new
         /\ \A k \in Downloader \ {d} : downloader'[k] = downloader[k]
         /\ \A k \in Downloader : downloader'[k].pc # "idle" => downloader'[k].report \in Report
BY DEF ReportsTyped, ReadTo

Readers ==
  /\ downloader \in [Downloader -> Reads]
  /\ \A d \in Downloader : downloader[d].pc # "idle" => downloader[d].report \in Report

LEMMA ReaderSteps ==
  ASSUME ReportsTyped, ReportsNext
  PROVE  Readers' /\ linksMade' \in 0..MaxLinks /\ \A d \in Downloader : ReaderMoves(d)
<1> DEFINE Good == Readers' /\ \A d \in Downloader : ReaderMoves(d)
<1>0. PICK no, zero, none : no = FALSE /\ zero = 0 /\ none = {}
  OBVIOUS
<1>1. /\ zero \in 0..MaxLinks /\ zero \in 0..Never /\ zero \in Int /\ no \in BOOLEAN
      /\ none \in SUBSET Evidence /\ today \in Int /\ MaxLinks \in Nat
  <2>1. MaxLinks \in Nat
    BY ReportsAssumption
  <2>2. today \in Int
    BY DEF ReportsTyped
  <2>3. zero \in 0..MaxLinks /\ zero \in 0..Never /\ zero \in Int
    BY <1>0, <2>1, NeverIs
  <2> QED
    BY <1>0, <2>1, <2>2, <2>3
<1>2. ASSUME NEW d \in Downloader, NEW new \in Reads, ReadTo(d, new),
             new.pc # "idle" => new.report \in Report, downloader'[d] = new => ReaderMoves(d)
      PROVE  Good
  BY <1>2, ReadToFields DEF ReaderMoves, Readers
<1>3. CASE downloader' = downloader /\ linksMade' = linksMade
  BY <1>3 DEF ReaderMoves, Readers, ReportsTyped
<1>4. ASSUME NEW d \in Downloader, DownloadDone(d) \/ WriteLink(d)
      PROVE  Good
  <2>1. NoRead \in Reads /\ NoRead.pc = "idle"
    <3>1. NoRead = ReadAt("idle", NoReport, no, zero, none, zero, zero)
      BY <1>0 DEF NoRead, ReadAt
    <3> QED
      BY <1>1, <3>1, ReadFields
  <2>2. ReadTo(d, NoRead)
    BY <1>4 DEF DownloadDone, WriteLink, ReadTo
  <2> QED
    BY <1>2, <2>1, <2>2 DEF ReaderMoves
<1>5. ASSUME NEW d \in Downloader, NEW r \in Report, CheckDownload(d, r)
      PROVE  Good
  <2>1. PICK viewer \in BOOLEAN :
          /\ \/ MayDownload(reportRow[r], viewer)
             \/ ~viewer /\ MayDownloadShared(reportRow[r])
          /\ downloader' = [downloader EXCEPT ![d] = [NoRead EXCEPT !.pc = "reading",
               !.report = r, !.viewer = viewer, !.at = today]]
    BY <1>5 DEF CheckDownload
  <2>2. PICK at : at = today
    OBVIOUS
  <2>3. PICK new : new = ReadAt("reading", r, viewer, at, none, zero, zero)
    OBVIOUS
  <2>4. ReadTo(d, new)
    <3>1. [NoRead EXCEPT !.pc = "reading", !.report = r, !.viewer = viewer, !.at = at] = new
      BY <1>0, <2>3, ReadChecked
    <3> QED
      BY <2>1, <2>2, <3>1 DEF ReadTo
  <2>5. new \in Reads /\ new.report = r
    BY <1>1, <2>2, <2>3, ReadFields
  <2>6. /\ reportRow[r].status = "READY" /\ reportRow[r].expiresAt > today
        /\ viewer => ~reportRow[r].evidence
    BY <2>1, NeverIs DEF MayDownload, MayDownloadShared, IsExpired, ReportsTyped, ReportRows
  <2>7. UNCHANGED <<reportRow, reportFile, generator, requester>>
    BY <1>5 DEF CheckDownload
  <2>8. downloader'[d] = new => ReaderMoves(d)
    BY <1>0, <2>2, <2>3, <2>6, <2>7 DEF ReaderMoves
  <2> QED
    BY <1>2, <2>4, <2>5, <2>8
<1>6. ASSUME NEW d \in Downloader, ReadFile(d)
      PROVE  Good
  <2>1. PICK read \in Reads, s \in SUBSET Evidence, pc \in {"served", "gone"} :
          /\ read = downloader[d] /\ s = reportFile[read.report].holds
          /\ pc = IF reportFile[read.report].stored THEN "served" ELSE "gone"
    BY <1>6 DEF ReadFile, ReportsTyped, Files
  <2>2. PICK new : new = ReadAt(pc, read.report, read.viewer, read.at, s, read.token, read.until)
    OBVIOUS
  <2>3. [read EXCEPT !.pc = pc, !.served = s] = new
    BY <2>2, ReadServed
  <2>4. ReadTo(d, new)
    <3>1. downloader' = [downloader EXCEPT ![d] = [read EXCEPT !.pc = pc, !.served = s]]
      BY <1>6, <2>1 DEF ReadFile, ReportsTyped
    <3> QED
      BY <2>3, <3>1 DEF ReadTo
  <2>5. read.pc = "reading" /\ read.report \in Report
    BY <1>6, <2>1 DEF ReadFile, ReportsTyped
  <2>6. /\ read.viewer \in BOOLEAN /\ read.at \in Int /\ read.token \in 0..MaxLinks
        /\ read.until \in 0..Never
    BY DEF Reads
  <2>7. new \in Reads /\ new.report = read.report
    BY <2>2, <2>5, <2>6, ReadFields
  <2>8. downloader'[d] = new => ReaderMoves(d)
    BY <2>1, <2>2, <2>5 DEF ReaderMoves
  <2> QED
    BY <1>2, <2>4, <2>5, <2>7, <2>8
<1>7. ASSUME NEW d \in Downloader, NEW r \in Report, CheckShare(d, r)
      PROVE  Good /\ linksMade' \in 0..MaxLinks
  <2>1. PICK days \in ShareDays : downloader' = [downloader EXCEPT ![d] =
          [NoRead EXCEPT !.pc = "sharing", !.report = r, !.token = linksMade + 1,
                         !.until = LinkUntil(reportRow[r], days)]]
    BY <1>7 DEF CheckShare
  <2>2. PICK n, until : n = linksMade + 1 /\ until = LinkUntil(reportRow[r], days)
    OBVIOUS
  <2>3. until \in 0..Never /\ until <= reportRow[r].expiresAt
    BY <2>2, LinkUntilIs DEF ReportsTyped
  <2>4. /\ linksMade < MaxLinks /\ linksMade' = linksMade + 1 /\ reportRow[r].status = "READY"
        /\ UNCHANGED <<reportRow, reportFile, generator, requester>>
    BY <1>7 DEF CheckShare
  <2>5. n \in 0..MaxLinks
    BY <1>1, <2>2, <2>4 DEF ReportsTyped
  <2>6. PICK new : new = ReadAt("sharing", r, no, zero, none, n, until)
    OBVIOUS
  <2>7. ReadTo(d, new)
    <3>1. [NoRead EXCEPT !.pc = "sharing", !.report = r, !.token = n, !.until = until] = new
      BY <1>0, <2>6, ReadShared
    <3> QED
      BY <2>1, <2>2, <3>1 DEF ReadTo
  <2>8. new \in Reads /\ new.report = r
    BY <1>1, <2>3, <2>5, <2>6, ReadFields
  <2>9. downloader'[d] = new => ReaderMoves(d)
    BY <1>0, <2>2, <2>3, <2>4, <2>6 DEF ReaderMoves
  <2> QED
    BY <1>2, <2>2, <2>4, <2>5, <2>7, <2>8, <2>9
<1>8. ASSUME NEW d \in Downloader, NEW r \in Report, CheckRevoke(d, r)
      PROVE  Good
  <2>1. PICK new : new = ReadAt("sharing", r, no, zero, none, zero, zero)
    OBVIOUS
  <2>2. ReadTo(d, new)
    <3>1. [NoRead EXCEPT !.pc = "sharing", !.report = r] = new
      BY <1>0, <2>1, ReadRevoked
    <3> QED
      BY <1>8, <3>1 DEF ReadTo, CheckRevoke
  <2>3. new \in Reads /\ new.report = r
    BY <1>1, <2>1, ReadFields
  <2>4. downloader'[d] = new => ReaderMoves(d)
    BY <1>0, <2>1 DEF ReaderMoves
  <2> QED
    BY <1>2, <2>2, <2>3, <2>4
<1>9. linksMade' = linksMade => linksMade' \in 0..MaxLinks
  BY DEF ReportsTyped
<1>10. CASE <<downloader, linksMade>>' # <<downloader, linksMade>>
  <2>1. PICK d \in Downloader : ReaderStep(d)
    BY <1>10, ReaderWriters
  <2>2. CASE \E r \in Report : CheckShare(d, r)
    BY <1>7, <2>2
  <2>3. CASE DownloadDone(d) \/ WriteLink(d) \/ ReadFile(d)
             \/ \E r \in Report : CheckDownload(d, r) \/ CheckRevoke(d, r)
    <3>1. linksMade' = linksMade
      BY <2>3 DEF DownloadDone, WriteLink, ReadFile, CheckDownload, CheckRevoke
    <3>2. Good
      BY <1>4, <1>5, <1>6, <1>8, <2>3
    <3> QED
      BY <1>9, <3>1, <3>2
  <2> QED
    BY <2>1, <2>2, <2>3 DEF ReaderStep
<1> QED
  BY <1>3, <1>10

-----------------------------------------------------------------------------
(* Types. *)

LEMMA SlotsTyped ==
  ASSUME ReportsTyped, ReportsNext
  PROVE  /\ generator' \in [Generator -> Slots]
         /\ \A g \in Generator : generator'[g].pc = "idle" <=> generator'[g].report = NoReport
<1> DEFINE Good ==
      /\ generator' \in [Generator -> Slots]
      /\ \A g \in Generator : generator'[g].pc = "idle" <=> generator'[g].report = NoReport
<1>0. Idle = SlotAt("idle", NoReport, {}) /\ NoReport \notin Report
  BY ReportsAssumption DEF Idle, SlotAt
<1>1. ASSUME NEW g \in Generator, NEW x, NEW r, NEW held \in SUBSET Evidence,
             SlotTo(g, SlotAt(x, r, held)),
             \/ x = "idle" /\ r = NoReport
             \/ /\ r \in Report
                /\ x \in {"claim", "build", "store", "ready", "notify", "ack", "mark", "tell"}
      PROVE  Good
  <2>1. SlotAt(x, r, held) \in Slots
    BY <1>1 DEF SlotAt, Slots
  <2>2. SlotAt(x, r, held).pc = x /\ SlotAt(x, r, held).report = r
    BY DEF SlotAt
  <2> QED
    BY <1>0, <1>1, <2>1, <2>2 DEF SlotTo, ReportsTyped
<1>2. CASE generator' = generator
  BY <1>2 DEF ReportsTyped
<1>3. ASSUME NEW g \in Generator, GeneratorStep(g) \/ GenerationThrows(g) \/ GeneratorDies(g)
      PROVE  Good
  <2> PICK r : r = generator[g].report
    OBVIOUS
  <2> PICK held \in SUBSET Evidence : held = generator[g].holds
    BY DEF ReportsTyped, Slots
  <2>0. PICK nothing \in SUBSET Evidence : nothing = {}
    OBVIOUS
  <2> HIDE DEF Good
  <2>1. SlotTo(g, Idle) => Good
    BY <1>0, <1>1, <2>0
  <2>3. ASSUME NEW x \in {"build", "store", "ready", "notify", "ack", "mark", "tell"},
               SlotTo(g, SlotAt(x, r, held)), generator[g].pc # "idle"
        PROVE  Good
    <3>1. r \in Report
      BY <2>3, Reporting
    <3>2. x \in {"claim", "build", "store", "ready", "notify", "ack", "mark", "tell"}
      OBVIOUS
    <3> QED
      BY <1>1, <2>3, <3>1, <3>2
  <2>2. CASE \E k \in Report : TakeJob(g, k)
    <3>1. PICK k \in Report, x \in {"claim", "mark"} : SlotTo(g, SlotAt(x, k, {}))
      BY <2>2, SlotActions
    <3>3. SlotTo(g, SlotAt(x, k, nothing))
      BY <2>0, <3>1
    <3>4. x \in {"claim", "build", "store", "ready", "notify", "ack", "mark", "tell"}
      OBVIOUS
    <3> QED
      BY <1>1, <3>3, <3>4
  <2>4. CASE ClaimReport(g)
    BY <2>3, <2>4, SlotActions DEF ClaimReport
  <2>5. CASE BuildReport(g)
    <3>1. Available \in SUBSET Evidence
      BY DEF Available
    <3>2. PICK all \in SUBSET Evidence : all = Available
      BY <3>1
    <3>3. SlotTo(g, SlotAt("store", r, all)) /\ r \in Report
      BY <2>5, <3>2, SlotActions, Reporting DEF BuildReport
    <3> QED
      BY <1>1, <3>3
  <2>6. CASE StoreFile(g)
    BY <2>3, <2>6, SlotActions DEF StoreFile
  <2>7. CASE WriteReady(g)
    BY <2>3, <2>7, SlotActions DEF WriteReady
  <2>8. CASE NotifyAuthor(g)
    BY <2>1, <2>3, <2>8, SlotActions DEF NotifyAuthor
  <2>9. CASE AckReport(g) \/ GeneratorDies(g)
    BY <2>1, <2>9, SlotActions
  <2>10. CASE MarkReportFailed(g)
    BY <2>1, <2>3, <2>10, SlotActions DEF MarkReportFailed
  <2>11. CASE GenerationThrows(g)
    BY <2>1, <2>3, <2>11, SlotActions DEF GenerationThrows
  <2> QED
    BY <1>3, <2>2, <2>4, <2>5, <2>6, <2>7, <2>8, <2>9, <2>10, <2>11 DEF GeneratorStep
<1> QED
  BY <1>2, <1>3, SlotWriters

LEMMA ReportsTypedStep == ReportsTyped /\ [ReportsNext]_reportVars => ReportsTyped'
<1> SUFFICES ASSUME ReportsTyped, [ReportsNext]_reportVars PROVE ReportsTyped'
  OBVIOUS
<1>1. CASE UNCHANGED reportVars
  BY <1>1 DEF reportVars, ReportsTyped
<1>2. CASE ReportsNext
  <2>1. requester' \in [Report -> {"idle", "created", "refused", "answered", "dead"}]
    <3>1. CASE requester' = requester
      BY <3>1 DEF ReportsTyped
    <3>2. CASE \E r \in Report : RequestStep(r)
      BY <3>2 DEF RequestStep, RequestReport, EnqueueReport, EndRefusedReport, ReportsTyped
    <3> QED
      BY <1>2, <3>1, <3>2, RequesterWriters
  <2>2. told' \in [Report -> Seq(Statuses)]
    <3>1. CASE told' = told
      BY <3>1 DEF ReportsTyped
    <3>2. ASSUME NEW g \in Generator, NotifyAuthor(g)
          PROVE  told' \in [Report -> Seq(Statuses)]
      <4>1. generator[g].report \in Report
        BY <3>2, Reporting DEF NotifyAuthor
      <4>2. PICK r \in Report, x \in Statuses :
              r = generator[g].report /\ x = reportRow[r].status
        BY <4>1 DEF ReportsTyped, ReportRows
      <4>3. told' = [told EXCEPT ![r] = Append(@, x)]
        BY <3>2, <4>2 DEF NotifyAuthor
      <4>4. Append(told[r], x) \in Seq(Statuses)
        BY DEF ReportsTyped
      <4> QED
        BY <4>3, <4>4 DEF ReportsTyped
    <3> QED
      BY <1>2, <3>1, <3>2, ToldWriters
  <2>3. pageSeen' \in [Report -> Statuses] /\ toasts' \in [Report -> Nat]
    <3>1. CASE <<pageSeen, toasts>>' = <<pageSeen, toasts>>
      BY <3>1 DEF ReportsTyped
    <3>2. CASE FetchReports
      <4>1. pageSeen' \in [Report -> Statuses]
        BY <3>2 DEF FetchReports, ReportsTyped, ReportRows
      <4>2. toasts' \in [Report -> Nat]
        BY <3>2 DEF FetchReports, ReportsTyped
      <4> QED
        BY <4>1, <4>2
    <3> QED
      BY <1>2, <3>1, <3>2, ToldWriters
  <2>4. evidencePurged' \subseteq Evidence /\ today' \in 0..MaxTime
    <3>1. CASE UNCHANGED <<evidencePurged, today>>
      BY <3>1 DEF ReportsTyped
    <3>2. CASE DayPasses \/ PurgeEvidence
      BY <3>2, NeverIs DEF DayPasses, PurgeEvidence, ReportsTyped
    <3> QED
      BY <1>2, <3>1, <3>2 DEF ReportsNext, RequestStep, QueueStep, GeneratorStep, ReaderStep,
         RequestReport, EnqueueReport, EndRefusedReport, TakeJob, ClaimReport, BuildReport,
         StoreFile, WriteReady, NotifyAuthor, AckReport, MarkReportFailed, GenerationThrows,
         GeneratorDies, JobStalls, LockLost, BackoffPasses, CheckDownload, ReadFile,
         DownloadDone, CheckShare, CheckRevoke, WriteLink, FetchReports, AuthorChangesRole
  <2> QED
    BY <1>2, <2>1, <2>2, <2>3, <2>4, RowSteps, FileSteps, JobSteps, SlotsTyped, ReaderSteps
       DEF ReportsTyped, Readers
<1> QED
  BY <1>1, <1>2

LEMMA ReportsInitTyped == ReportsInit => ReportsTyped
<1> SUFFICES ASSUME ReportsInit PROVE ReportsTyped
  OBVIOUS
<1>1. 0 \in 0..Never /\ 0 \in 0..MaxLinks /\ 0 \in 0..MaxTime /\ Never \in 0..Never /\ 0 \in Int
  BY NeverIs, ReportsAssumption
<1>2. NoRow \in ReportRows
  BY <1>1 DEF NoRow, ReportRows, Statuses
<1>3. NoFile \in Files
  BY DEF NoFile, Files
<1>4. NoJob \in Jobs
  BY DEF NoJob, Jobs
<1>5. Idle \in Slots /\ Idle.pc = "idle" /\ Idle.report = NoReport
  BY DEF Idle, Slots
<1>6. NoRead \in Reads /\ NoRead.pc = "idle"
  BY <1>1 DEF NoRead, Reads
<1>7. "NONE" \in Statuses /\ <<>> \in Seq(Statuses) /\ 0 \in Nat
  BY DEF Statuses
<1> QED
  BY <1>1, <1>2, <1>3, <1>4, <1>5, <1>6, <1>7 DEF ReportsInit, ReportsTyped

\* The states of the rows, files, jobs, workers and pages of reports are what
\* schema.prisma and the BullMQ queue allow.
THEOREM ReportsTypeHolds == ReportsSpec => []ReportsTypeOK
<1>1. ReportsTyped => ReportsTypeOK
  BY DEF ReportsTyped, ReportsTypeOK, ReportRows, Files, Jobs, Slots, Statuses
<1> QED
  BY <1>1, ReportsInitTyped, ReportsTypedStep, PTL DEF ReportsSpec

-----------------------------------------------------------------------------
(* Retention. *)

\* Once quiet, a report stays so, and its file as it is.
LEMMA QuietStays ==
  ASSUME ReportsTyped, ReportsNext, NEW r \in Report, Asked(r), Quiet(r)
  PROVE  Quiet(r)' /\ reportFile'[r] = reportFile[r]
<1>1. reportRow[r].status \in Ended /\ reportRow[r].status \notin Pending
      /\ reportRow[r].status # "NONE"
  BY DEF Quiet, Ended, Pending
<1>2. reportRow'[r].status \in Ended
  <2>1. ~RequestReport(r)
    BY <1>1 DEF RequestReport, Asked
  <2>2. "FAILED" \in Ended /\ "READY" \in Ended
    BY DEF Ended
  <2> QED
    BY <1>1, <2>1, <2>2, RowSteps DEF RowMoves
<1>3. ASSUME NEW g \in Generator, generator'[g].report = r, generator'[g].pc \in Building
      PROVE  FALSE
  <2>1. generator[g].report = r => generator[g].pc \notin {"build", "store", "ready"}
    BY DEF Quiet, Building
  <2>2. Idle.pc \notin Building /\ "claim" \notin Building /\ "mark" \notin Building
        /\ "ack" \notin Building /\ "notify" \notin Building /\ "tell" \notin Building
    BY DEF Idle, Building
  <2> QED
    BY <1>1, <1>3, <2>1, <2>2, SlotSteps DEF SlotMoves, Goes, Building
<1>4. ASSUME NEW g \in Generator, generator[g].report = r
      PROVE  ~StoreFile(g)
  BY <1>4 DEF StoreFile, Quiet, Building
<1> QED
  BY <1>2, <1>3, <1>4, FileSteps DEF Quiet

LEMMA DescribedStep ==
  ASSUME ReportsTyped, WellKept, ReportsNext, NEW r \in Report
  PROVE  Described(r)'
<1>1. SUFFICES ASSUME reportRow'[r].status = "READY"
               PROVE  /\ Quiet(r)' /\ reportRow'[r].evidence = (reportFile'[r].holds # {})
                      /\ \A e \in reportFile'[r].holds : reportRow'[r].expiresAt <= ExpiresAt[e]
  BY DEF Described
<1>2. CASE /\ reportRow[r].status = "READY" /\ reportRow'[r].evidence = reportRow[r].evidence
           /\ reportRow'[r].expiresAt = reportRow[r].expiresAt
  BY <1>2, QuietStays DEF WellKept, Described
<1>3. ASSUME NEW g \in Generator, generator[g].report = r, WriteReady(g),
             reportRow'[r].evidence = (generator[g].holds # {}),
             \A e \in generator[g].holds : reportRow'[r].expiresAt <= ExpiresAt[e]
      PROVE  /\ Quiet(r)' /\ reportRow'[r].evidence = (reportFile'[r].holds # {})
             /\ \A e \in reportFile'[r].holds : reportRow'[r].expiresAt <= ExpiresAt[e]
  <2>1. generator[g].pc = "ready" /\ reportFile' = reportFile
    BY <1>3 DEF WriteReady
  <2>2. reportFile'[r].holds = generator[g].holds
    BY <1>3, <2>1 DEF WellKept, Stored
  <2>3. SlotTo(g, SlotAt("notify", r, generator[g].holds))
    BY <1>3, SlotActions
  <2>4. generator'[g].pc = "notify" /\ \A h \in Generator \ {g} : generator'[h] = generator[h]
    BY <2>3, SlotToFields
  <2>5. ASSUME NEW h \in Generator, generator'[h].report = r
        PROVE  generator'[h].pc \notin Building
    <3>1. CASE h = g
      BY <2>4, <3>1 DEF Building
    <3>2. CASE h # g
      <4>1. generator[h].report = generator[g].report /\ r # NoReport
        BY <1>3, <2>4, <2>5, <3>2, ReportsAssumption
      <4> QED
        BY <1>3, <3>2, <4>1 DEF WellKept, OneGenerator
    <3> QED
      BY <3>1, <3>2
  <2>6. "READY" \in Ended
    BY DEF Ended
  <2> QED
    BY <1>1, <1>3, <2>2, <2>5, <2>6 DEF Quiet
<1> QED
  BY <1>1, <1>2, <1>3, RowSteps DEF RowMoves

LEMMA LinkedStep ==
  ASSUME ReportsTyped, WellKept, ReportsNext, NEW r \in Report
  PROVE  Linked(r)'
<1>1. SUFFICES ASSUME reportRow'[r].token # 0
               PROVE  Quiet(r)' /\ Until(reportRow[r].shareUntil, r)'
  BY DEF Linked
<1>2. ASSUME NEW until, Quiet(r), Until(until, r), reportRow'[r].shareUntil = until
      PROVE  Quiet(r)' /\ Until(reportRow[r].shareUntil, r)'
  BY <1>2, QuietStays DEF WellKept, Until
<1>3. CASE /\ reportRow'[r].token = reportRow[r].token
           /\ reportRow'[r].shareUntil = reportRow[r].shareUntil
  BY <1>1, <1>2, <1>3 DEF WellKept, Linked
<1>4. ASSUME NEW d \in Downloader, downloader[d].report = r, WriteLink(d),
             reportRow'[r].token = downloader[d].token,
             reportRow'[r].shareUntil = downloader[d].until
      PROVE  Quiet(r)' /\ Until(reportRow[r].shareUntil, r)'
  <2>1. downloader[d].pc = "sharing"
    BY <1>4 DEF WriteLink
  <2> QED
    BY <1>1, <1>2, <1>4, <2>1 DEF WellKept, Checked
<1> QED
  BY <1>3, <1>4, RowSteps DEF RowMoves, Same

LEMMA CheckedStep ==
  ASSUME ReportsTyped, WellKept, ReportsNext, NEW d \in Downloader
  PROVE  Checked(d)'
<1>1. CASE downloader'[d] = downloader[d]
  <2>1. CASE downloader[d].pc \notin {"reading", "sharing"}
    BY <1>1, <2>1 DEF WellKept, Checked
  <2>2. CASE downloader[d].pc \in {"reading", "sharing"}
    <3>1. PICK r \in Report : r = downloader[d].report
      BY <2>2 DEF ReportsTyped
    <3>2. Quiet(r) => Quiet(r)' /\ reportFile'[r] = reportFile[r]
      BY QuietStays DEF WellKept
    <3> QED
      BY <1>1, <2>2, <3>1, <3>2 DEF WellKept, Checked, Until
  <2> QED
    BY <2>1, <2>2
<1>2. CASE downloader'[d].pc = "idle"
  BY <1>2 DEF Checked
<1>3. ASSUME NEW r \in Report, NEW viewer \in BOOLEAN,
             downloader'[d] = ReadAt("reading", r, viewer, today, {}, 0, 0),
             reportRow[r].status = "READY", reportRow[r].expiresAt > today,
             viewer => ~reportRow[r].evidence,
             UNCHANGED <<reportRow, reportFile, generator, requester>>
      PROVE  Checked(d)'
  <2>1. Quiet(r) /\ reportRow[r].evidence = (reportFile[r].holds # {})
        /\ \A e \in reportFile[r].holds : reportRow[r].expiresAt <= ExpiresAt[e]
    BY <1>3 DEF WellKept, Described
  <2>2. /\ downloader'[d].pc = "reading" /\ downloader'[d].report = r
        /\ downloader'[d].viewer = viewer /\ downloader'[d].at = today
    BY <1>3, ReadFields
  <2>3. Quiet(r)'
    BY <1>3, <2>1 DEF Quiet
  <2>4. \A e \in reportFile[r].holds : ExpiresAt[e] > today
    <3>1. /\ today \in Int /\ reportRow[r].expiresAt \in Int
          /\ \A e \in reportFile[r].holds : ExpiresAt[e] \in Int
      BY ReportsAssumption, NeverIs DEF ReportsTyped, ReportRows, Files
    <3> QED
      BY <1>3, <2>1, <3>1
  <2> QED
    BY <1>3, <2>1, <2>2, <2>3, <2>4 DEF Checked
<1>4. ASSUME NEW pc \in {"served", "gone"}, downloader[d].pc = "reading",
             downloader'[d] = ReadAt(pc, downloader[d].report, downloader[d].viewer,
               downloader[d].at, reportFile[downloader[d].report].holds,
               downloader[d].token, downloader[d].until)
      PROVE  Checked(d)'
  <2>1. /\ downloader'[d].pc = pc /\ downloader'[d].viewer = downloader[d].viewer
        /\ downloader'[d].at = downloader[d].at
        /\ downloader'[d].served = reportFile[downloader[d].report].holds
    BY <1>4, ReadFields
  <2> QED
    BY <1>4, <2>1 DEF WellKept, Checked
<1>5. ASSUME NEW r \in Report, NEW until \in 0..Never,
             downloader'[d] = ReadAt("sharing", r, FALSE, 0, {}, linksMade + 1, until),
             reportRow[r].status = "READY", until <= reportRow[r].expiresAt,
             UNCHANGED <<reportRow, reportFile, generator, requester>>
      PROVE  Checked(d)'
  <2>1. Quiet(r) /\ \A e \in reportFile[r].holds : reportRow[r].expiresAt <= ExpiresAt[e]
    BY <1>5 DEF WellKept, Described
  <2>2. /\ downloader'[d].pc = "sharing" /\ downloader'[d].report = r
        /\ downloader'[d].until = until
    BY <1>5 DEF ReadAt
  <2>3. Quiet(r)'
    BY <1>5, <2>1 DEF Quiet
  <2>4. \A e \in reportFile[r].holds : until <= ExpiresAt[e]
    <3>1. /\ until \in Int /\ reportRow[r].expiresAt \in Int
          /\ \A e \in reportFile[r].holds : ExpiresAt[e] \in Int
      BY ReportsAssumption, NeverIs DEF ReportsTyped, ReportRows, Files
    <3> QED
      BY <1>5, <2>1, <3>1
  <2> QED
    BY <1>5, <2>2, <2>3, <2>4 DEF Checked, Until
<1>6. ASSUME NEW r \in Report, downloader'[d] = ReadAt("sharing", r, FALSE, 0, {}, 0, 0)
      PROVE  Checked(d)'
  <2>1. downloader'[d].pc = "sharing" /\ downloader'[d].token = 0
    BY <1>6 DEF ReadAt
  <2> QED
    BY <2>1 DEF Checked
<1> QED
  BY <1>1, <1>2, <1>3, <1>4, <1>5, <1>6, ReaderSteps DEF ReaderMoves

LEMMA AskedStep ==
  ASSUME ReportsTyped, WellKept, ReportsNext, NEW r \in Report
  PROVE  Asked(r)'
<1>1. SUFFICES ASSUME requester'[r] = "idle"
               PROVE  /\ reportRow'[r].status = "NONE"
                      /\ \A g \in Generator :
                           generator'[g].report = r => generator'[g].pc \notin Building
  BY DEF Asked
<1>2. requester[r] = "idle" /\ ~RequestReport(r)
  <2>1. ASSUME NEW k \in Report, RequestStep(k)
        PROVE  requester[r] = "idle" /\ ~RequestReport(r)
    BY <1>1, <2>1 DEF RequestStep, RequestReport, EnqueueReport, EndRefusedReport, ReportsTyped
  <2>2. CASE requester' = requester
    BY <1>1, <2>2 DEF RequestReport, ReportsTyped
  <2> QED
    BY <2>1, <2>2, RequesterWriters
<1>3. /\ reportRow[r].status = "NONE" /\ reportRow[r].status \notin Pending
      /\ \A g \in Generator :
           generator[g].report = r => generator[g].pc \notin {"build", "store", "ready"}
  BY <1>2 DEF WellKept, Asked, Building, Pending
<1>4. ~EndRefusedReport(r) /\ \A g \in Generator : generator[g].report = r => ~WriteReady(g)
  BY <1>2, <1>3 DEF EndRefusedReport, WriteReady
<1>5. reportRow'[r].status = "NONE"
  BY <1>2, <1>3, <1>4, RowSteps DEF RowMoves
<1>6. ASSUME NEW g \in Generator, generator'[g].report = r, generator'[g].pc \in Building
      PROVE  FALSE
  <2>1. Idle.pc \notin Building /\ "claim" \notin Building /\ "mark" \notin Building
        /\ "ack" \notin Building /\ "notify" \notin Building /\ "tell" \notin Building
    BY DEF Idle, Building
  <2> QED
    BY <1>3, <1>6, <2>1, SlotSteps DEF SlotMoves, Goes, Building
<1> QED
  BY <1>5, <1>6

LEMMA StoredStep ==
  ASSUME ReportsTyped, WellKept, ReportsNext, NEW g \in Generator
  PROVE  Stored(g)'
<1>1. SUFFICES ASSUME generator'[g].pc = "ready"
               PROVE  reportFile'[generator'[g].report].holds = generator'[g].holds
  BY DEF Stored
<1>2. CASE generator'[g] = generator[g]
  <2>1. PICK r \in Report : r = generator[g].report
    BY <1>1, <1>2, Reporting
  <2>2. ASSUME NEW h \in Generator, generator[h].report = r, StoreFile(h)
        PROVE  FALSE
    <3>1. h = g
      BY <2>1, <2>2, ReportsAssumption DEF WellKept, OneGenerator
    <3> QED
      BY <1>1, <1>2, <2>2, <3>1 DEF StoreFile
  <2> QED
    BY <1>1, <1>2, <2>1, <2>2, FileSteps DEF WellKept, Stored
<1>3. CASE /\ StoreFile(g) /\ generator'[g].report = generator[g].report
           /\ generator'[g].holds = generator[g].holds
  <2>1. generator[g].report \in Report
    BY <1>3, Reporting DEF StoreFile
  <2> QED
    BY <1>3, <2>1 DEF StoreFile, ReportsTyped
<1>4. Idle.pc # "ready"
  BY DEF Idle
<1> QED
  BY <1>1, <1>2, <1>3, <1>4, SlotSteps DEF SlotMoves, Goes

LEMMA KeptStep ==
  ASSUME "lock_lost" \notin ReportFaults
  PROVE  ReportsTyped /\ WellKept /\ [ReportsNext]_reportVars => WellKept'
<1> SUFFICES ASSUME ReportsTyped, WellKept, [ReportsNext]_reportVars PROVE WellKept'
  OBVIOUS
<1>1. CASE UNCHANGED reportVars
  BY <1>1 DEF reportVars, WellKept, OneGenerator, Locked, Stored, Described, Linked, Asked, Checked,
     Quiet, Until
<1>2. CASE ReportsNext
  <2>1. Workers'
    BY <1>2, WorkersStep DEF WellKept, Workers
  <2>2. \A g \in Generator : Stored(g)'
    BY <1>2, StoredStep
  <2>3. \A r \in Report : Described(r)' /\ Linked(r)' /\ Asked(r)'
    BY <1>2, DescribedStep, LinkedStep, AskedStep
  <2>4. \A d \in Downloader : Checked(d)'
    BY <1>2, CheckedStep
  <2> QED
    BY <2>1, <2>2, <2>3, <2>4 DEF WellKept, Workers
<1> QED
  BY <1>1, <1>2

LEMMA KeptInit == ReportsInit => WellKept
<1> SUFFICES ASSUME ReportsInit PROVE WellKept
  OBVIOUS
<1>1. \A g \in Generator : generator[g].pc = "idle" /\ generator[g].report = NoReport
  BY DEF ReportsInit, Idle
<1>2. \A r \in Report : reportRow[r].status = "NONE" /\ reportRow[r].token = 0
  BY DEF ReportsInit, NoRow
<1>3. \A d \in Downloader : downloader[d].pc = "idle"
  BY DEF ReportsInit, NoRead
<1> QED
  BY <1>1, <1>2, <1>3 DEF WellKept, OneGenerator, Locked, Stored, Described, Linked, Asked, Checked,
     Building

LEMMA KeptPromises == ReportsTyped /\ WellKept => RetentionKept
<1> SUFFICES ASSUME ReportsTyped, WellKept PROVE RetentionKept
  OBVIOUS
<1>1. ServedAsChecked
  BY DEF WellKept, Checked, ServedAsChecked
<1>2. LinkWithinRetention
  BY DEF WellKept, Linked, Until, LinkWithinRetention, ShareActive
<1> QED
  BY <1>1, <1>2 DEF RetentionKept

\* What leaves the system, as a download or by a link, respects the retention of
\* the evidence in the file, whoever else generates, shares or reads the report,
\* as long as no worker loses the lock of its job while it runs.
THEOREM RetentionHolds ==
  ASSUME "lock_lost" \notin ReportFaults
  PROVE  ReportsSpec => []RetentionKept
<1>1. ReportsInit => ReportsTyped /\ WellKept
  BY ReportsInitTyped, KeptInit
<1>2. ReportsTyped /\ WellKept /\ [ReportsNext]_reportVars => ReportsTyped' /\ WellKept'
  BY ReportsTypedStep, KeptStep
<1>3. ReportsTyped /\ WellKept => RetentionKept
  BY KeptPromises
<1> QED
  BY <1>1, <1>2, <1>3, PTL DEF ReportsSpec

-----------------------------------------------------------------------------
(* What the author is told. *)

LEMMA Lists ==
  /\ \A x : x \in Pending <=> x \in {"QUEUED", "GENERATING"}
  /\ \A x : x \in Ended <=> x \in {"READY", "FAILED"}
  /\ \A x : x \in Building <=> x \in {"build", "store", "ready"}
BY DEF Pending, Ended, Building

\* A worker that has a report was given it by the queue.
LEMMA QueuedWork ==
  ASSUME ReportsTyped, WellKept, Told, NEW g \in Generator, generator[g].pc # "idle"
  PROVE  requester[generator[g].report] \in {"answered", "dead"}
<1>1. PICK r \in Report : r = generator[g].report
  BY Reporting
<1>2. reportJob[r].state # "none"
  BY <1>1 DEF WellKept, Locked
<1> QED
  BY <1>1, <1>2 DEF Told, Unqueued, ReportsTyped

\* A status is written over one that has not ended.
LEMMA StatusMoves ==
  ASSUME ReportsTyped, WellKept, Told, ReportsNext, NEW r \in Report,
         reportRow'[r].status # reportRow[r].status
  PROVE  /\ reportRow[r].status \notin Ended /\ reportRow'[r].status # "NONE"
         /\ \/ RequestReport(r) /\ reportRow'[r].status = "QUEUED"
            \/ EndRefusedReport(r)
            \/ \E g \in Generator :
                 /\ generator[g].report = r
                 /\ ClaimReport(g) \/ MarkReportFailed(g) \/ WriteReady(g)
<1>1. CASE RequestReport(r) /\ reportRow'[r].status = "QUEUED"
  BY <1>1, Lists DEF RequestReport, Told, Unqueued
<1>2. CASE EndRefusedReport(r) /\ reportRow'[r].status = "FAILED"
  BY <1>2, Lists DEF EndRefusedReport, Told, Unqueued
<1>3. CASE /\ reportRow[r].status \in Pending
           /\ reportRow'[r].status \in {"GENERATING", "FAILED"}
           /\ \E g \in Generator : /\ generator[g].report = r
                                   /\ ClaimReport(g) \/ MarkReportFailed(g)
  BY <1>3, Lists
<1>4. ASSUME NEW g \in Generator, generator[g].report = r, WriteReady(g),
             reportRow'[r].status = "READY"
      PROVE  reportRow[r].status \notin Ended
  <2>1. generator[g].pc \in Building
    BY <1>4, Lists DEF WriteReady
  <2> QED
    BY <1>4, <2>1, Lists DEF Told, Reported
<1> QED
  BY <1>1, <1>2, <1>3, <1>4, RowSteps DEF RowMoves

LEMMA ToldMoves ==
  ASSUME ReportsTyped, ReportsNext, NEW r \in Report, told'[r] # told[r]
  PROVE  \E g \in Generator :
           /\ NotifyAuthor(g) /\ generator[g].report = r
           /\ told'[r] = Append(told[r], reportRow[r].status)
<1>1. PICK g \in Generator : NotifyAuthor(g)
  BY ToldWriters
<1>2. PICK k \in Report : k = generator[g].report
  BY <1>1, Reporting DEF NotifyAuthor
<1>3. told' = [told EXCEPT ![k] = Append(@, reportRow[k].status)]
  BY <1>1, <1>2 DEF NotifyAuthor
<1>4. k = r
  BY <1>3 DEF ReportsTyped
<1>5. told'[r] = Append(told[r], reportRow[r].status)
  BY <1>3, <1>4 DEF ReportsTyped
<1> QED
  BY <1>1, <1>2, <1>4, <1>5

LEMMA AnsweredStep ==
  ASSUME ReportsTyped, WellKept, Told, ReportsNext, NEW g \in Generator
  PROVE  Reported(g)'
<1>1. CASE generator'[g] = generator[g]
  <2>1. CASE generator[g].pc = "idle"
    BY <1>1, <2>1, Lists DEF Reported
  <2>2. CASE generator[g].pc # "idle"
    <3>1. PICK r \in Report : r = generator[g].report
      BY <2>2, Reporting
    <3>2. requester[r] \notin {"idle", "refused"}
      BY <2>2, <3>1, QueuedWork
    <3>3. ASSUME NEW h \in Generator, generator[h].report = r
          PROVE  h = g
      BY <3>1, <3>3, ReportsAssumption DEF WellKept, OneGenerator
    <3>4. ~ClaimReport(g) /\ ~WriteReady(g)
      <4>1. SlotTo(g, SlotAt("build", generator[g].report, generator[g].holds))
            => generator'[g].pc = "build"
        BY SlotToFields
      <4>2. SlotTo(g, SlotAt("ack", generator[g].report, generator[g].holds))
            => generator'[g].pc = "ack"
        BY SlotToFields
      <4>3. SlotTo(g, SlotAt("notify", generator[g].report, generator[g].holds))
            => generator'[g].pc = "notify"
        BY SlotToFields
      <4> QED
        BY <1>1, <4>1, <4>2, <4>3, SlotActions DEF ClaimReport, WriteReady
    <3>5. ~MarkReportFailed(g) \/ reportRow' = reportRow
      <4>1. SlotTo(g, SlotAt("tell", generator[g].report, generator[g].holds))
            => generator'[g].pc = "tell"
        BY SlotToFields
      <4>2. SlotTo(g, Idle) => generator'[g].pc = "idle"
        BY DEF SlotTo, Idle, ReportsTyped
      <4> QED
        BY <1>1, <4>1, <4>2, SlotActions DEF MarkReportFailed
    <3>6. ~NotifyAuthor(g)
      <4>1. SlotTo(g, SlotAt("ack", generator[g].report, generator[g].holds))
            => generator'[g].pc = "ack"
        BY SlotToFields
      <4>2. SlotTo(g, Idle) => generator'[g].pc = "idle"
        BY DEF SlotTo, Idle, ReportsTyped
      <4> QED
        BY <1>1, <4>1, <4>2, SlotActions DEF NotifyAuthor
    <3>7. reportRow'[r].status = reportRow[r].status
      BY <3>2, <3>3, <3>4, <3>5, StatusMoves DEF RequestReport, EndRefusedReport
    <3>8. told'[r] = told[r]
      BY <3>3, <3>6, ToldMoves
    <3> QED
      BY <1>1, <3>1, <3>7, <3>8 DEF Told, Reported
  <2> QED
    BY <2>1, <2>2
<1>2. CASE generator'[g].pc \notin {"build", "store", "ready", "notify", "tell"}
  BY <1>2, Lists DEF Reported
<1>3. CASE ClaimReport(g) /\ Goes(g, "claim", "build") /\ generator'[g].report = generator[g].report
           /\ reportRow[generator[g].report].status \in Pending
  <2>1. PICK r \in Report : r = generator[g].report
    BY <1>3, Reporting DEF Goes
  <2>2. reportRow' = [reportRow EXCEPT ![r].status = "GENERATING"]
    BY <1>3, <2>1 DEF ClaimReport, MayGenerate
  <2>3. reportRow'[r].status = "GENERATING"
    BY <2>1, <2>2 DEF ReportsTyped, ReportRows
  <2> QED
    BY <1>3, <2>1, <2>3 DEF Goes, Reported
<1>4. CASE /\ generator'[g].report = generator[g].report
           /\ \/ BuildReport(g) /\ Goes(g, "build", "store")
              \/ StoreFile(g) /\ Goes(g, "store", "ready")
  <2>1. reportRow' = reportRow
    BY <1>4 DEF BuildReport, StoreFile
  <2>2. generator[g].pc \in Building
    BY <1>4, Lists DEF Goes
  <2> QED
    BY <1>4, <2>1, <2>2 DEF Goes, Told, Reported
<1>5. CASE /\ generator'[g].report = generator[g].report
           /\ \/ WriteReady(g) /\ Goes(g, "ready", "notify")
              \/ MarkReportFailed(g) /\ Goes(g, "mark", "tell")
  <2>1. PICK r \in Report : r = generator[g].report
    BY <1>5, Reporting DEF Goes
  <2>2. reportRow[r].status \in Pending /\ told' = told
    <3>1. CASE WriteReady(g) /\ Goes(g, "ready", "notify")
      <4>1. generator[g].pc \in Building
        BY <3>1, Lists DEF Goes
      <4> QED
        BY <2>1, <3>1, <4>1, Lists DEF WriteReady, Told, Reported
    <3>2. CASE MarkReportFailed(g) /\ Goes(g, "mark", "tell")
      <4>1. ~SlotTo(g, Idle)
        BY <3>2 DEF Goes, SlotTo, Idle, ReportsTyped
      <4> QED
        BY <2>1, <3>2, <4>1 DEF MarkReportFailed, MayGenerate, SlotTo
    <3> QED
      BY <1>5, <3>1, <3>2
  <2>3. told'[r] = <<>>
    BY <2>2, Lists DEF Told, ToldEnded
  <2>4. WriteReady(g) => reportRow'[r].status = "READY"
    BY <2>1, RowSteps DEF WriteReady, ReadyRow, ReportsTyped, ReportRows
  <2>5. MarkReportFailed(g) /\ Goes(g, "mark", "tell") => reportRow'[r].status = "FAILED"
    <3>1. SUFFICES ASSUME MarkReportFailed(g), Goes(g, "mark", "tell")
                   PROVE  reportRow'[r].status = "FAILED"
      OBVIOUS
    <3>2. ~SlotTo(g, Idle)
      BY <3>1 DEF Goes, SlotTo, Idle, ReportsTyped
    <3>3. reportRow' = [reportRow EXCEPT ![r].status = "FAILED"]
      BY <2>1, <3>1, <3>2, SlotActions
    <3> QED
      BY <2>1, <3>3 DEF ReportsTyped, ReportRows
  <2> QED
    BY <1>5, <2>1, <2>3, <2>4, <2>5, Lists DEF Goes, Reported
<1>6. Idle.pc = "idle"
  BY DEF Idle
<1> QED
  BY <1>1, <1>2, <1>3, <1>4, <1>5, <1>6, SlotSteps DEF SlotMoves, Goes

LEMMA UnqueuedStep ==
  ASSUME ReportsTyped, WellKept, Told, ReportsNext, "reply_lost" \notin ReportFaults,
         NEW r \in Report
  PROVE  Unqueued(r)'
<1>1. SUFFICES ASSUME requester'[r] \in {"idle", "created", "refused"}
               PROVE  /\ reportJob'[r].state = "none"
                      /\ reportRow'[r].status = IF requester'[r] = "idle" THEN "NONE" ELSE "QUEUED"
  BY DEF Unqueued
<1>2. requester[r] \in {"idle", "created", "refused"}
      /\ (requester[r] = "idle" => RequestReport(r) \/ requester'[r] = "idle")
      /\ (RequestReport(r) => requester[r] = "idle" /\ requester'[r] = "created")
      /\ (requester[r] # "idle" => requester'[r] # "idle")
      /\ ~EndRefusedReport(r)
  <2>1. ASSUME NEW k \in Report, RequestStep(k), requester'[r] # requester[r]
        PROVE  k = r
    BY <2>1 DEF RequestStep, RequestReport, EnqueueReport, EndRefusedReport, ReportsTyped
  <2>2. RequestReport(r) => requester[r] = "idle" /\ requester'[r] = "created"
    BY DEF RequestReport, ReportsTyped
  <2>3. ~EndRefusedReport(r)
    BY <1>1 DEF EndRefusedReport, ReportsTyped
  <2>4. EnqueueReport(r) => requester[r] = "created" /\ requester'[r] # "idle"
    BY DEF EnqueueReport, ReportsTyped
  <2>5. CASE requester'[r] = requester[r]
    BY <1>1, <2>2, <2>3, <2>5
  <2>6. CASE requester'[r] # requester[r]
    <3>1. PICK k \in Report : RequestStep(k)
      BY <2>6, RequesterWriters
    <3>2. RequestReport(r) \/ EnqueueReport(r)
      BY <2>1, <2>3, <2>6, <3>1 DEF RequestStep
    <3> QED
      BY <2>2, <2>3, <2>4, <3>2
  <2> QED
    BY <2>5, <2>6
<1>3. reportJob[r].state = "none"
      /\ reportRow[r].status = IF requester[r] = "idle" THEN "NONE" ELSE "QUEUED"
  BY <1>2 DEF Told, Unqueued
<1>4. \A g \in Generator : generator[g].report # r
  <2> SUFFICES ASSUME NEW g \in Generator, generator[g].report = r PROVE FALSE
    OBVIOUS
  <2>1. generator[g].pc # "idle"
    BY ReportsAssumption DEF ReportsTyped
  <2> QED
    BY <1>2, <2>1, QueuedWork
<1>5. reportJob'[r] = reportJob[r]
  <2>1. EnqueueReport(r) => reportJob' = reportJob
    BY <1>1 DEF EnqueueReport, Fault, ReportsTyped
  <2> QED
    BY <1>3, <1>4, <2>1, JobSteps DEF JobMoves, JobStalls, BackoffPasses, TakeJob
<1>6. \/ reportRow'[r].status = reportRow[r].status
      \/ RequestReport(r) /\ reportRow'[r].status = "QUEUED"
  BY <1>2, <1>4, StatusMoves
<1>7. RequestReport(r) => reportRow'[r].status = "QUEUED"
  BY DEF RequestReport, ReportsTyped, ReportRows
<1> QED
  BY <1>1, <1>2, <1>3, <1>5, <1>6, <1>7

LEMMA ToldEndedStep ==
  ASSUME ReportsTyped, WellKept, Told, ReportsNext, NEW r \in Report
  PROVE  ToldEnded(r)'
<1>1. CASE told'[r] = told[r]
  <2>1. CASE reportRow'[r].status = reportRow[r].status
    BY <1>1, <2>1 DEF Told, ToldEnded
  <2>2. CASE reportRow'[r].status # reportRow[r].status
    <3>1. told[r] = <<>>
      BY <2>2, StatusMoves DEF Told, ToldEnded
    <3> QED
      BY <1>1, <3>1 DEF ToldEnded
  <2> QED
    BY <2>1, <2>2
<1>2. CASE told'[r] # told[r]
  <2>1. PICK g \in Generator : /\ NotifyAuthor(g) /\ generator[g].report = r
                               /\ told'[r] = Append(told[r], reportRow[r].status)
    BY <1>2, ToldMoves
  <2>2. generator[g].pc \in {"notify", "tell"} /\ reportRow' = reportRow
    BY <2>1 DEF NotifyAuthor
  <2>3. told[r] = <<>> /\ reportRow[r].status \in Ended
    BY <2>1, <2>2, Lists DEF Told, Reported
  <2>4. PICK x \in Statuses : x = reportRow[r].status
    BY DEF ReportsTyped, ReportRows
  <2>5. told'[r] = <<x>>
    BY <2>1, <2>3, <2>4
  <2> QED
    BY <2>2, <2>3, <2>4, <2>5 DEF ToldEnded
<1> QED
  BY <1>1, <1>2

LEMMA ToastedStep ==
  ASSUME ReportsTyped, WellKept, Told, ReportsNext, NEW r \in Report
  PROVE  Toasted(r)'
<1>1. /\ reportRow[r].status \in Ended => reportRow'[r].status \in Ended
      /\ reportRow[r].status # "NONE" => reportRow'[r].status # "NONE"
  BY StatusMoves
<1>2. CASE pageSeen' = pageSeen /\ toasts' = toasts
  BY <1>1, <1>2 DEF Told, Toasted
<1>3. CASE FetchReports
  <2>1. reportRow' = reportRow /\ pageSeen'[r] = reportRow[r].status
    BY <1>3 DEF FetchReports
  <2>2. toasts'[r] = toasts[r] + IF FinishedSince(r, reportRow[r].status) THEN 1 ELSE 0
    BY <1>3 DEF FetchReports
  <2>3. toasts[r] \in Nat /\ pageSeen[r] \in Statuses /\ reportRow[r].status \in Statuses
    BY DEF ReportsTyped, ReportRows
  <2>4. CASE FinishedSince(r, reportRow[r].status)
    <3>1. pageSeen[r] \in Pending /\ reportRow[r].status \notin Pending
      BY <2>4 DEF FinishedSince
    <3>2. toasts'[r] = 1
      BY <2>2, <2>4, <3>1 DEF Told, Toasted
    <3>3. reportRow[r].status # "NONE"
      BY <3>1, Lists DEF Told, Toasted
    <3> QED
      BY <2>1, <3>1, <3>2, <3>3, <2>3, Lists DEF Toasted, Statuses
  <2>5. CASE ~FinishedSince(r, reportRow[r].status)
    <3>1. toasts'[r] = toasts[r]
      BY <2>2, <2>3, <2>5
    <3>2. ~ (pageSeen[r] \in Pending /\ reportRow[r].status \notin Pending)
      BY <2>5 DEF FinishedSince
    <3>3. pageSeen[r] \in Pending \cup {"NONE"} => toasts[r] = 0
      BY DEF Told, Toasted
    <3>4. pageSeen[r] \in Ended => reportRow[r].status \in Ended /\ toasts[r] <= 1
      BY DEF Told, Toasted
    <3>5. pageSeen[r] # "NONE" => reportRow[r].status # "NONE"
      BY DEF Told, Toasted
    <3> QED
      BY <2>1, <2>3, <3>1, <3>2, <3>3, <3>4, <3>5, Lists DEF Toasted, Statuses
  <2> QED
    BY <2>4, <2>5
<1> QED
  BY <1>2, <1>3, ToldWriters

LEMMA ToldInit == ReportsInit => Told
<1> SUFFICES ASSUME ReportsInit PROVE Told
  OBVIOUS
<1>1. \A g \in Generator : generator[g].pc = "idle"
  BY DEF ReportsInit, Idle
<1>2. \A r \in Report : /\ reportRow[r].status = "NONE" /\ reportJob[r].state = "none"
                        /\ requester[r] = "idle" /\ told[r] = <<>> /\ pageSeen[r] = "NONE"
                        /\ toasts[r] = 0
  BY DEF ReportsInit, NoRow, NoJob
<1> QED
  BY <1>1, <1>2, Lists DEF Told, Reported, Unqueued, ToldEnded, Toasted

LEMMA ToldStep ==
  ASSUME "reply_lost" \notin ReportFaults
  PROVE  ReportsTyped /\ WellKept /\ Told /\ [ReportsNext]_reportVars => Told'
<1> SUFFICES ASSUME ReportsTyped, WellKept, Told, [ReportsNext]_reportVars PROVE Told'
  OBVIOUS
<1>1. CASE UNCHANGED reportVars
  BY <1>1 DEF reportVars, Told, Reported, Unqueued, ToldEnded, Toasted
<1>2. CASE ReportsNext
  BY <1>2, AnsweredStep, UnqueuedStep, ToldEndedStep, ToastedStep DEF Told
<1> QED
  BY <1>1, <1>2

LEMMA TrueReports ==
  ASSUME ReportFaults \cap {"lock_lost", "reply_lost"} = {}
  PROVE  ReportsSpec => [](ReportsTyped /\ WellKept /\ Told)
<1>1. ReportsInit => ReportsTyped /\ WellKept /\ Told
  BY ReportsInitTyped, KeptInit, ToldInit
<1>2. ReportsTyped /\ WellKept /\ Told /\ [ReportsNext]_reportVars => (ReportsTyped /\ WellKept /\ Told)'
  BY ReportsTypedStep, KeptStep, ToldStep
<1> QED
  BY <1>1, <1>2, PTL DEF ReportsSpec

\* The author is mailed once, about the ending the report has, and its page
\* raises one toast, over every redelivery of the job, as long as no worker loses
\* its lock and no answer of the queue is lost.
THEOREM ToldOnceHolds ==
  ASSUME ReportFaults \cap {"lock_lost", "reply_lost"} = {}
  PROVE  ReportsSpec => []ToldOnce
<1>1. ReportsTyped /\ Told => ToldOnce
  <2> SUFFICES ASSUME ReportsTyped, Told, NEW r \in Report
               PROVE  Len(told[r]) <= 1 /\ toasts[r] <= 1
                      /\ (Len(told[r]) = 1 => told[r][1] = reportRow[r].status)
    BY DEF ToldOnce
  <2>1. pageSeen[r] \in Pending \cup Ended \cup {"NONE"}
    BY DEF ReportsTyped, Statuses
  <2>2. toasts[r] <= 1
    BY <2>1 DEF Told, Toasted
  <2> QED
    BY <2>2 DEF Told, ToldEnded
<1> QED
  BY <1>1, TrueReports, PTL

\* READY and FAILED are final, as generateReport and markReportFailed assume, as
\* long as no worker loses its lock and no answer of the queue is lost: the two
\* faults are the only ways a finished report changes its ending.
THEOREM ReportFinalHolds ==
  ASSUME ReportFaults \cap {"lock_lost", "reply_lost"} = {}
  PROVE  ReportsSpec => ReportFinal
<1>1. ReportsTyped /\ WellKept /\ Told /\ [ReportsNext]_reportVars =>
        [\A r \in Report : reportRow[r].status \in Ended =>
           reportRow'[r].status = reportRow[r].status]_reportVars
  BY StatusMoves
<1> QED
  BY <1>1, TrueReports, PTL DEF ReportsSpec, ReportFinal

=============================================================================
