-------------------------------- MODULE Services --------------------------------
(* What works behind the API: the generation of reports, the outbox of mails that *)
(* could not be sent, the triage of findings, the engine of a scan and what scans  *)
(* store. They share no state, so a behaviour follows one of them and a run        *)
(* explores the sum of their states.                                             *)
EXTENDS Reports, EmailOutbox, Triage, Engine, ScanResults

CONSTANT Followed   \* the parts a run follows

ASSUME ServicesAssumption == Followed \subseteq {"reports", "mail", "triage", "engine", "results"}

VARIABLE service   \* the part a behaviour follows

servicesVars == <<service, reportVars, mailVars, triageVars, engineVars, resultsVars>>

ServicesInit ==
  /\ service \in Followed
  /\ ReportsInit /\ MailInit /\ TriageInit /\ EngineInit /\ ResultsInit
  /\ service # "engine" => site = CHOOSE s \in Sites : TRUE

ServicesNext ==
  /\ UNCHANGED service
  /\ \/ service = "reports" /\ ReportsNext /\ UNCHANGED <<mailVars, triageVars, engineVars, resultsVars>>
     \/ service = "mail" /\ MailNext /\ UNCHANGED <<reportVars, triageVars, engineVars, resultsVars>>
     \/ service = "triage" /\ TriageNext /\ UNCHANGED <<reportVars, mailVars, engineVars, resultsVars>>
     \/ service = "engine" /\ EngineNext /\ UNCHANGED <<reportVars, mailVars, triageVars, resultsVars>>
     \/ service = "results" /\ ResultsNext /\ UNCHANGED <<reportVars, mailVars, triageVars, engineVars>>

ServicesSpec == ServicesInit /\ [][ServicesNext]_servicesVars

\* Handlers, workers, queues and transactions that began go on, the page polls, and
\* the scheduler starts the drain for ever; nobody has to make a request, download,
\* share, start a drain by hand or let a day pass.
ServicesFairness ==
  /\ \A r \in Report : WF_reportVars(service = "reports" /\ (EnqueueReport(r) \/ EndRefusedReport(r)))
                         /\ WF_reportVars(service = "reports" /\ QueueStep(r))
  /\ \A g \in Generator : WF_reportVars(service = "reports" /\ GeneratorStep(g))
  /\ WF_reportVars(service = "reports" /\ FetchReports)
  /\ \A m \in Mail : WF_mailVars(service = "mail" /\ RecordFailed(m))
  /\ WF_mailVars(service = "mail" /\ StartDrain(Scheduled))
  /\ \A d \in Drain : WF_mailVars(service = "mail" /\ DrainStep(d))
  /\ WF_mailVars(service = "mail" /\ MinutePasses)

FairServicesSpec == ServicesSpec /\ ServicesFairness

\* Type invariant of the five parts.
ServicesTypeOK == ReportsTypeOK /\ MailTypeOK /\ TriageTypeOK /\ EngineTypeOK /\ ResultsTypeOK

\* Whatever fails, what is begun behind the API comes to an end: a report's request
\* and its page, a failed mail and its record.
AllSettle == ReportEnds /\ MailSettles
=============================================================================
