------------------------------ MODULE PageOffers ------------------------------
(* What the pages of the web application offer, and what the API makes of it.     *)
(* "Hiding a control is a courtesy; the API is what enforces it": the controls    *)
(* are decided on a snapshot of the facts, the requests on the facts of the       *)
(* moment. One operator per page for the controls that can be used, one for the   *)
(* reasons it states for those that cannot, one per router for the answer.        *)
EXTENDS Integers, FiniteSets, Sequences, FiniteSetsExt

CONSTANTS
  MaxRate,         \* the rate no scan may pass, requests a second
  Presets          \* the rates of the profiles

ASSUME PageOffersAssumption == MaxRate \in Nat \ {0} /\ Presets \subseteq 1..MaxRate

VARIABLES
  page,            \* the page that is open
  now,             \* the facts on the server
  seen,            \* the facts the page was built from
  knows,           \* whether /api/me has answered: the role and the quota
  late,            \* the facts have changed since the page was built
  clicked          \* the last request: what was asked, how, and the answer

offerVars == <<page, now, seen, knows, late, clicked>>

Roles == {"ADMIN", "DEVELOPER", "ANALYST", "VIEWER"}
Writers == {"ADMIN", "DEVELOPER", "ANALYST"}

\* What is typed into a form: a reason or the text of an entry, the phrase of a
\* dialog (or a triage state that takes a reason), and a number in halves (Blank:
\* an empty field).
Blank == -100
Nothing == [text |-> FALSE, phrase |-> FALSE, number |-> 2]
Typed == [text : BOOLEAN, phrase : BOOLEAN, number : {2}] \cup
         [text : {TRUE}, phrase : {FALSE}, number : {Blank} \cup -2..2 * MaxRate + 2]
Inputs(p) == IF p \in {"admin", "finding"} THEN Typed ELSE {Nothing}
NoClick == [asks |-> "nothing", off |-> 0, answer |-> "ok", late |-> FALSE, unknown |-> FALSE]

\* The first guard of a handler that refuses, or "ok".
FirstRefusal(guards) ==
  LET refusing == {i \in DOMAIN guards : guards[i][1]} IN
  IF refusing = {} THEN "ok" ELSE guards[Min(refusing)][2]

When(shown, controls) == IF shown THEN controls ELSE {}

----------------------------------------------------------------------------
(* The facts each page is about. *)

TargetFacts ==
  [role : Roles, archived : BOOLEAN, proof : {"none", "failed", "valid", "expired"}, blocked : BOOLEAN, halted : BOOLEAN]
StartFacts == [role : {"ANALYST"}, cap : 1..MaxRate]
ScanFacts ==
  [role : Roles, halted : BOOLEAN, scannable : BOOLEAN,
   status : {"QUEUED", "RUNNING", "PAUSED", "COMPLETED", "CANCELLED"}]
ReportFacts ==
  {f \in [role : Roles, status : {"QUEUED", "READY", "FAILED"}, evidence : BOOLEAN, expired : BOOLEAN, shared : BOOLEAN] :
     (f.evidence \/ f.expired \/ f.shared => f.status = "READY") /\ (f.expired => f.evidence)}
FindingFacts == [role : Roles]
\* The page of the reports, for a scan its address names or for one to be chosen.
ReportsFacts == [role : Roles, status : {"RUNNING", "COMPLETED"}, named : BOOLEAN]
AdminFacts ==
  [role : {"ADMIN", "VIEWER"}, secondFactor : BOOLEAN, self : BOOLEAN, rowRole : {"ADMIN", "VIEWER"},
   suspended : BOOLEAN, engaged : BOOLEAN]

Pages == {"target", "start", "scan", "finding", "reports", "report", "admin"}
Facts(p) ==
  CASE p = "target" -> TargetFacts [] p = "start" -> StartFacts [] p = "scan" -> ScanFacts
    [] p = "report" -> ReportFacts [] p = "admin" -> AdminFacts
    [] p = "finding" -> FindingFacts [] p = "reports" -> ReportsFacts

\* What can follow on the server: an archived target and a finished scan stay so,
\* and so does a report whose evidence has expired.
MayBecome(p, f, g) ==
  /\ p = "target" => (f.archived => g.archived)
  /\ p \in {"scan", "reports"} => (f.status \in {"COMPLETED", "CANCELLED"} => g.status = f.status)
  /\ p = "reports" => g.named = f.named
  /\ p = "report" => /\ f.status # "QUEUED" => g.status = f.status /\ g.evidence = f.evidence
                     /\ f.expired => g.expired
  /\ p = "admin" => g.self = f.self

----------------------------------------------------------------------------
(* What is on the page: the controls that can be used, those of a dialog once its  *)
(* form may be sent. Layout, wording and badges are left out.                     *)

CanWrite(s) == knows /\ s.role \in Writers

NotScannable(f) ==
  FirstRefusal(<< <<f.archived, "ARCHIVED">>, <<f.proof = "failed", "VERIFICATION_FAILED">>,
                  <<f.proof = "none", "NOT_VERIFIED">>, <<f.proof = "expired", "VERIFICATION_EXPIRED">>,
                  <<f.blocked, "BLOCKLISTED">> >>)

\* Mutant: the dialog does not look at the kill switch.
StartDisabledReason_Halted(s) == NotScannable(s)

StartDisabledReason(s) == IF s.halted THEN "KILL_SWITCH_ENGAGED" ELSE NotScannable(s)

\* The instructions of a target that is proven are behind "Re-verify".
VerificationCard(s) == {"verify"}
ScopeEditor(s) == When(~s.archived, {"scope"})
RegisterTargetDialog(s) == {"register"}
TargetHeader(s) ==
  {"delete"} \cup When(~s.archived, {"archive"})
    \cup When(CanWrite(s) /\ StartDisabledReason(s) = "ok", {"start"})
TargetDetailPage(s) == TargetHeader(s) \cup VerificationCard(s) \cup ScopeEditor(s)

\* A row of the list links to the page of the instructions.
TargetVerifyPage(s) == VerificationCard(s)
TargetsPage(s) ==
  RegisterTargetDialog(s) \cup When(s.proof \in {"none", "failed"} /\ ~s.archived, TargetVerifyPage(s))
TargetOffers(s) == TargetsPage(s) \cup TargetDetailPage(s)

ControlButtons(s) ==
  When(CanWrite(s),
    When(s.status = "RUNNING", {"pause"})
      \cup When(s.status = "PAUSED" /\ ~s.halted, {"resume"})
      \cup When(s.status \in {"QUEUED", "RUNNING", "PAUSED"}, {"cancel"}))

\* Mutant: the reports of a scan are offered while it runs.
ScanSections_Always(s) == {"generate"}

\* The list with triage, what was resolved and the reports come with completion.
ScanSections(s) == When(s.status = "COMPLETED", {"generate"})

\* One finding, and the selection of a list.
TriagePanel(s, i) == When(CanWrite(s) /\ (i.phrase => i.text), {"triage"})
BulkSelection(s, i) == When(CanWrite(s) /\ (i.phrase => i.text), {"bulk triage"})

\* Completed scans are listed to choose from; one the address names is taken as is.
CompletedScanSelect(s) == When(s.status = "COMPLETED", {"generate"})
GenerateReportDialog(s) == IF s.named THEN {"generate for the named scan"} ELSE CompletedScanSelect(s)

\* Mutant: a report is downloaded whatever it holds.
DownloadBlockedReason_AnyRole(s) ==
  FirstRefusal(<< <<s.status # "READY", "REPORT_NOT_READY">>, <<s.expired, "REPORT_EXPIRED">> >>)

DownloadBlockedReason(s) ==
  FirstRefusal(<< <<s.status # "READY", "REPORT_NOT_READY">>, <<s.expired, "REPORT_EXPIRED">>,
                  <<s.evidence /\ knows /\ s.role = "VIEWER", "EVIDENCE_WITHHELD">> >>)

ShareDialog(s) == {"share"} \cup When(s.shared, {"revoke"})
ReportActions(s) ==
  When(DownloadBlockedReason(s) = "ok", {"download"})
    \cup When(CanWrite(s) /\ s.status = "READY" /\ ~s.expired, ShareDialog(s))

\* What changing the role of a row to another is called.
RoleChange == [ADMIN |-> "role to ADMIN", VIEWER |-> "role to VIEWER"]

\* The row of one's own account has no controls, once it is known to be one's own.
UserRow(s) ==
  When(~(knows /\ s.self),
    {RoleChange[r] : r \in {"ADMIN", "VIEWER"} \ {s.rowRole}}
      \cup {IF s.suspended THEN "unsuspend" ELSE "suspend"})

\* Mutant: the dialog can be confirmed without a reason.
ReasonReady_NoReason(needsPhrase, i) == needsPhrase => i.phrase

ReasonReady(needsPhrase, i) == i.text /\ (needsPhrase => i.phrase)

UsersTab(s, i) == {c \in UserRow(s) : c \in {"suspend", "unsuspend"} => ReasonReady(FALSE, i)}

\* A number field is sent when it is filled, whole and within its bounds.
FieldValid(n, min, max) == n # Blank /\ n % 2 = 0 /\ n \div 2 \in min..max
QuotaDialog(s, i) == When(FieldValid(i.number, 1, MaxRate), {"quota"})
AddEntryCard(s, i) == When(i.text, {"add entry"})
BlocklistTab(s, i) == AddEntryCard(s, i) \cup {"toggle entry", "delete entry"}

\* Engaging takes a phrase, releasing does not.
KillSwitchCard(s, i) ==
  When(ReasonReady(~s.engaged, i), {IF s.engaged THEN "release" ELSE "engage"})

MainNav(s) == When(knows /\ s.role = "ADMIN", {"administration"})

\* The sections load only where the API lets them: a role that has two factors.
AdminOffers(s, i) ==
  MainNav(s) \cup When(knows /\ s.role = "ADMIN" /\ s.secondFactor,
    UsersTab(s, i) \cup QuotaDialog(s, i) \cup BlocklistTab(s, i) \cup KillSwitchCard(s, i))

\* The rate the dialog says the scan will run at, for a preset and a chosen rate
\* (0: the field is blank, or the limits are not customised).
RateCap(s) == IF knows THEN s.cap ELSE MaxRate

\* Mutant: the quota is not looked at.
ShownRate_Uncapped(s, preset, chosen) == IF chosen = 0 THEN preset ELSE chosen

ShownRate(s, preset, chosen) == IF chosen = 0 THEN Min({preset, RateCap(s)}) ELSE chosen

StartRequests(s) ==
  {[profile |-> p, chosen |-> c, customised |-> k] : p \in Presets, c \in 0..RateCap(s), k \in BOOLEAN}

Offers(p, s, i) ==
  CASE p = "target" -> TargetOffers(s) [] p = "scan" -> ControlButtons(s) \cup ScanSections(s)
    [] p = "report" -> ReportActions(s) [] p = "admin" -> AdminOffers(s, i) [] p = "start" -> {}
    [] p = "finding" -> TriagePanel(s, i) \cup BulkSelection(s, i) [] p = "reports" -> GenerateReportDialog(s)

\* The reason the page gives for a control it shows and does not let be used.
StatedReason(p, do, s) ==
  CASE p = "target" /\ do = "start" /\ CanWrite(s) -> StartDisabledReason(s)
    [] p = "report" /\ do = "download" -> DownloadBlockedReason(s)
    [] p = "scan" /\ do = "resume" /\ CanWrite(s) /\ s.status = "PAUSED" /\ s.halted -> "KILL_SWITCH_ENGAGED"
    [] OTHER -> "ok"

----------------------------------------------------------------------------
(* What the API answers, its guards in their order. *)

NotAWriter(f) == <<f.role \notin Writers, "FORBIDDEN">>

TargetsAnswer(do, f) ==
  FirstRefusal(<<NotAWriter(f), <<do = "verify" /\ f.archived, "ARCHIVED_TARGET">> >>)

\* The scannable verdict is taken before the transaction, the kill switch in it.
StartAnswer(f) ==
  FirstRefusal(<<NotAWriter(f), <<NotScannable(f) # "ok", NotScannable(f)>>,
                 <<f.halted, "KILL_SWITCH_ENGAGED">> >>)

ControlAnswer(do, f) ==
  FirstRefusal(<<NotAWriter(f),
    <<do = "pause" /\ f.status # "RUNNING", "ILLEGAL_TRANSITION">>,
    <<do = "resume" /\ f.status # "PAUSED", "ILLEGAL_TRANSITION">>,
    <<do = "cancel" /\ f.status \in {"COMPLETED", "CANCELLED"}, "ILLEGAL_TRANSITION">>,
    <<do = "resume" /\ f.halted, "KILL_SWITCH_ENGAGED">>,
    <<do = "resume" /\ ~f.scannable, "TARGET_NOT_SCANNABLE">> >>)

TriageAnswer(f, i) == FirstRefusal(<<NotAWriter(f), <<i.phrase /\ ~i.text, "INVALID">> >>)

RequestAnswer(f) == FirstRefusal(<< <<f.status # "COMPLETED", "SCAN_NOT_COMPLETED">> >>)

ReportsAnswer(do, f) ==
  FirstRefusal(<<
    <<do \in {"share", "revoke"} /\ f.role \notin Writers, "FORBIDDEN">>,
    <<do = "download" /\ f.evidence /\ f.role = "VIEWER", "EVIDENCE_WITHHELD">>,
    <<do \in {"download", "share"} /\ f.status # "READY", "REPORT_NOT_READY">>,
    <<do \in {"download", "share"} /\ f.expired, "REPORT_EXPIRED">> >>)

UsersAnswer(do, f, i) ==
  FirstRefusal(<< <<do \in {"suspend", "unsuspend"} /\ ~i.text, "INVALID">>, <<f.self, "CANNOT_CHANGE_SELF">>,
    <<do \in {IF f.suspended THEN "suspend" ELSE "unsuspend", RoleChange[f.rowRole]}, "NO_CHANGE">> >>)

\* A pattern that cannot be read is refused too; what a pattern is, is left out.
BlocklistAnswer(do, i) == FirstRefusal(<< <<do = "add entry" /\ ~i.text, "INVALID">> >>)
QuotaAnswer(i) ==
  FirstRefusal(<< <<i.number # Blank /\ i.number % 2 # 0, "INVALID">>,
                  <<(IF i.number = Blank THEN 0 ELSE i.number \div 2) \notin 1..MaxRate, "INVALID">> >>)
KillSwitchAnswer(i) == FirstRefusal(<< <<~i.text, "INVALID">> >>)

AdminAnswer(do, f, i) ==
  LET section == CASE do = "quota" -> QuotaAnswer(i)
                   [] do \in {"add entry", "toggle entry", "delete entry"} -> BlocklistAnswer(do, i)
                   [] do \in {"engage", "release"} -> KillSwitchAnswer(i)
                   [] do = "administration" -> "ok"
                   [] OTHER -> UsersAnswer(do, f, i) IN
  FirstRefusal(<< <<f.role # "ADMIN", "FORBIDDEN">>, <<~f.secondFactor, "TWO_FACTOR_REQUIRED">>,
                  <<section # "ok", section>> >>)

Answer(p, do, f, i) ==
  CASE p = "target" -> IF do = "start" THEN StartAnswer(f) ELSE TargetsAnswer(do, f)
    [] p = "scan" -> IF do = "generate" THEN RequestAnswer(f) ELSE ControlAnswer(do, f)
    [] p = "finding" -> TriageAnswer(f, i) [] p = "reports" -> RequestAnswer(f)
    [] p = "report" -> ReportsAnswer(do, f)
    [] p = "admin" -> AdminAnswer(do, f, i)

\* A rate that is sent is refused above the cap, a preset's is lowered to it. A
\* customised request sends every limit, the ones left blank as they are shown.
RateAnswer(f, sent) ==
  IF sent > MaxRate THEN "INVALID" ELSE IF sent > f.cap THEN "RATE_LIMIT_ABOVE_QUOTA" ELSE "ok"
RateRun(f, asked) == Min({asked, f.cap})

----------------------------------------------------------------------------
(* A visitor, and everybody else. *)

OffersInit ==
  /\ page \in Pages /\ now \in Facts(page) /\ seen = now
  /\ knows = FALSE /\ late = FALSE /\ clicked = NoClick

\* /api/me is asked once a session.
MeAnswers ==
  /\ ~knows /\ knows' = TRUE
  /\ UNCHANGED <<page, now, seen, late, clicked>>

\* Others change one of the facts. A view is changed once: nothing counts them.
FactsChange ==
  /\ ~late /\ late' = TRUE
  /\ \E k \in DOMAIN now : \E f \in Facts(page) :
       /\ MayBecome(page, now, f) /\ now' = f /\ f[k] # now[k]
       /\ \A other \in DOMAIN now \ {k} : f[other] = now[other]
  /\ UNCHANGED <<page, seen, knows, clicked>>

\* The page is loaded anew, and with it the role and the quota.
Reload ==
  /\ late /\ seen' = now /\ late' = FALSE /\ knows' = FALSE /\ clicked' = NoClick
  /\ UNCHANGED <<page, now>>

Click(do, i) ==
  /\ clicked = NoClick
  /\ clicked' = [asks |-> do, off |-> 0, answer |-> Answer(page, do, now, i), late |-> late, unknown |-> ~knows]
  /\ UNCHANGED <<page, now, seen, knows, late>>

StartAtRate(r) ==
  LET shown == ShownRate(seen, r.profile, IF r.customised THEN r.chosen ELSE 0) IN
  /\ clicked = NoClick
  /\ clicked' = [asks |-> "start at a rate", off |-> shown - RateRun(now, IF r.customised THEN shown ELSE r.profile),
                 answer |-> RateAnswer(now, IF r.customised THEN shown ELSE 0), late |-> late, unknown |-> ~knows]
  /\ UNCHANGED <<page, now, seen, knows, late>>

OffersNext ==
  \/ MeAnswers \/ FactsChange \/ Reload
  \/ \E i \in Inputs(page) : \E do \in Offers(page, seen, i) : Click(do, i)
  \/ page = "start" /\ \E r \in StartRequests(seen) : StartAtRate(r)

----------------------------------------------------------------------------
(* Properties. *)

OffersTypeOK ==
  /\ page \in Pages /\ now \in Facts(page) /\ seen \in Facts(page) /\ (~late => seen = now)

\* What the API refuses although nothing has changed since the page was built:
\* the target's page has no eye for the role, the verification card none for the
\* archive, the scan's page none for the target; and what is not known is offered.
KnownRefusals ==
  ({"register", "archive", "delete", "verify", "scope"} \X {"FORBIDDEN"}) \cup
  {<<"verify", "ARCHIVED_TARGET">>, <<"resume", "TARGET_NOT_SCANNABLE">>,
   <<"generate for the named scan", "SCAN_NOT_COMPLETED">>, <<"administration", "TWO_FACTOR_REQUIRED">>}
UnknownRefusals ==
  {<<"download", "EVIDENCE_WITHHELD">>, <<"start at a rate", "RATE_LIMIT_ABOVE_QUOTA">>}

\* A control that is offered works: the API refuses it only when the facts have
\* changed since the page was built, or where the page is known not to look.
OfferedIsAccepted ==
  \/ clicked.answer = "ok" \/ clicked.late
  \/ <<clicked.asks, clicked.answer>> \in KnownRefusals
  \/ clicked.unknown /\ <<clicked.asks, clicked.answer>> \in UnknownRefusals

Asked ==
  [target |-> {"register", "archive", "delete", "verify", "scope", "start"}, start |-> {},
   scan |-> {"pause", "resume", "cancel", "generate"}, finding |-> {"triage", "bulk triage"},
   reports |-> {"generate"}, report |-> {"download", "share"},
   admin |-> {"suspend", "unsuspend", "role to ADMIN", "role to VIEWER", "quota", "add entry"}]

\* What the API would do is offered on the page (but
\* for an archived target, whose archiving and scope the API still takes); and the
\* reason a page states is the API's own, but for the order of two of them.
NothingWithheld ==
  knows => \A do \in Asked[page], i \in Inputs(page) :
    LET told == StatedReason(page, do, seen)  answer == Answer(page, do, seen, i) IN
    /\ answer = "ok" => \/ do \in Offers(page, seen, i)
                        \/ page = "target" /\ seen.archived /\ do \in {"archive", "scope"}
                        \/ page = "reports" /\ seen.named
    /\ told # "ok" => \/ answer = told
                      \/ answer = "EVIDENCE_WITHHELD" /\ told = "REPORT_EXPIRED"
                      \/ answer = NotScannable(seen) /\ told = "KILL_SWITCH_ENGAGED"

\* "The dialog does the same arithmetic to show the rate the scan will really run
\* at": so it does, while the quota is the one it knows.
ShownRateIsRun ==
  clicked.answer = "ok" /\ ~clicked.late /\ ~clicked.unknown => clicked.off = 0

\* A page and the API agree on what may be done.
PageAgrees == OfferedIsAccepted /\ NothingWithheld /\ ShownRateIsRun
=============================================================================
