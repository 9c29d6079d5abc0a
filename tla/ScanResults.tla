------------------------------ MODULE ScanResults ------------------------------
(* What a completed scan stores of what its detectors reported, and what is made *)
(* of it later: the findings list, the posture counted on the dashboard, the     *)
(* findings resolved since the scan before, a finding's history and the summary  *)
(* and trend of a report. Each has a query of its own.                           *)
EXTENDS Integers, FiniteSets, Sequences, FiniteSetsExt, Functions

CONSTANTS
  Host,           \* targets of one organisation
  RawFinding,     \* what a detector can report: [at, parameter, severity]
  MaxScans,       \* bound on the scans that complete
  MaxDecisions,   \* bound on the triage decisions
  TrendScans      \* TREND_SCANS, the scans a trend shows

Severities == 0..4                        \* INFO to CRITICAL
TriageStates == {"OPEN", "CONFIRMED", "FALSE_POSITIVE", "ACCEPTED_RISK", "RESOLVED"}
Actionable == {"OPEN", "CONFIRMED"}

ASSUME ResultsAssumption ==
  /\ IsFiniteSet(Host) /\ IsFiniteSet(RawFinding)
  /\ \A f \in RawFinding : f.severity \in Severities
  /\ MaxScans \in Nat /\ MaxDecisions \in Nat /\ TrendScans \in Nat \ {0}

VARIABLES
  scans,          \* the COMPLETED scans with their rows, in the order they completed
  decision,       \* target_finding_triage of each host and fingerprint
  archived,       \* targets that are archived
  decided         \* how many decisions were made

resultsVars == <<scans, decision, archived, decided>>

\* generateFingerprint: no parameter is fingerprinted like one called "global".
FingerprintOf(f) == <<f.at, IF f.parameter = "none" THEN "global" ELSE f.parameter>>
Prints == {FingerprintOf(f) : f \in RawFinding}

ResultsInit ==
  /\ scans = <<>> /\ archived = {} /\ decided = 0
  /\ decision = [h \in Host |-> [p \in Prints |-> "no row"]]

----------------------------------------------------------------------------
(* The worker: deduplicate, compare, persist. *)

\* One row per fingerprint: the most severe of its group, and how many there were.
Deduplicated(raw) ==
  [p \in {FingerprintOf(f) : f \in raw} |->
     LET group == {f \in raw : FingerprintOf(f) = p}
     IN [severity |-> Max({f.severity : f \in group}), occurrences |-> Cardinality(group)]]

ScansOf(h) == {n \in DOMAIN scans : scans[n].host = h}
Found(n) == DOMAIN scans[n].rows

\* Mutant: the scan before, of whatever target.
PreviousPrints_AnyTarget(h) == IF scans = <<>> THEN {} ELSE Found(Len(scans))

\* previousScanFingerprints: of the newest completed scan of the target.
PreviousPrints(h) == IF ScansOf(h) = {} THEN {} ELSE Found(Max(ScansOf(h)))

\* processScanTriage: diff records of what was found and of what no longer is.
Compared(now, before) ==
  [p \in now \cup before |->
     CASE p \in now /\ p \in before -> "PERSISTING"
       [] p \in now \ before -> "NEW"
       [] p \in before \ now -> "RESOLVED"]

\* Steps 4 to 7 of runPipeline. No other scan of the target completes meanwhile.
StoreResults(h) ==
  /\ Len(scans) < MaxScans
  /\ \E raw \in SUBSET RawFinding :
       LET rows == Deduplicated(raw)
       IN scans' = Append(scans, [host |-> h, reported |-> raw, rows |-> rows,
                                  diff |-> Compared(DOMAIN rows, PreviousPrints(h))])
  /\ UNCHANGED <<decision, archived, decided>>

\* Triage is held per target and fingerprint, of findings that were stored.
Decide(h, p, state) ==
  /\ decided < MaxDecisions /\ decided' = decided + 1
  /\ \E n \in ScansOf(h) : p \in Found(n)
  /\ decision' = [decision EXCEPT ![h][p] = state]
  /\ UNCHANGED <<scans, archived>>

ArchiveHost(h) ==
  /\ h \notin archived /\ archived' = archived \cup {h}
  /\ UNCHANGED <<scans, decision, decided>>

\* The scans of other targets, and the i-th of a set of numbers.
Staying(h) == {n \in DOMAIN scans : scans[n].host # h}
Nth(S, i) == CHOOSE n \in S : Cardinality({m \in S : m < n}) = i - 1

\* Deleting a target takes its scans, their rows and diffs and its triage along; a
\* target registered in its place starts with none.
DeleteHost(h) ==
  /\ scans' = [i \in 1..Cardinality(Staying(h)) |-> scans[Nth(Staying(h), i)]]
  /\ decision' = [decision EXCEPT ![h] = [p \in Prints |-> "no row"]]
  /\ archived' = archived \ {h}
  /\ UNCHANGED decided

ResultsNext ==
  \E h \in Host :
    \/ StoreResults(h) \/ ArchiveHost(h) \/ DeleteHost(h)
    \/ \E p \in Prints, state \in TriageStates : Decide(h, p, state)

ResultsSpec == ResultsInit /\ [][ResultsNext]_resultsVars

----------------------------------------------------------------------------
(* The findings list and the posture. *)

\* The posture: the newest completed scan of each target that is not archived.
Posture == {Max(ScansOf(h)) : h \in {g \in Host \ archived : ScansOf(g) # {}}}

\* triageFilter: through the projection, where an untriaged finding has no row. A
\* filter with OPEN excludes the rows of other states.
PassesTriage(h, p, states) ==
  IF "OPEN" \in states THEN decision[h][p] \notin TriageStates \ states
  ELSE decision[h][p] \in states

\* listFindings without a cursor, over all its pages.
Listed(scope, severities, states, diffs) ==
  UNION {{n} \X {p \in Found(n) :
            /\ scans[n].rows[p].severity \in severities
            /\ PassesTriage(scans[n].host, p, states)
            /\ scans[n].diff[p] \in diffs} : n \in scope}

AnyDiff == {"NEW", "PERSISTING", "RESOLVED"}

\* countPostureBySeverity
PostureCount(severity) == Cardinality(Listed(Posture, {severity}, Actionable, AnyDiff))

\* listResolvedSince: the newest earlier row of what a scan's diff calls RESOLVED.
ResolvedSince(n) ==
  LET earlier(p) == {m \in ScansOf(scans[n].host) : m < n /\ p \in Found(m)}
      resolved == {p \in DOMAIN scans[n].diff : scans[n].diff[p] = "RESOLVED"}
  IN {<<Max(earlier(p)), p>> : p \in {q \in resolved : earlier(q) # {}}}

\* getFindingDetail: in how many scans of its target a fingerprint was written.
SeenIn(h, p) == {n \in ScansOf(h) : p \in Found(n)}

----------------------------------------------------------------------------
(* The document of a report. *)

\* loadTriage: untriaged is OPEN.
TriageOf(h, p) == IF decision[h][p] = "no row" THEN "OPEN" ELSE decision[h][p]

\* buildReportDocument: rows by severity in the query, by triage state afterwards.
ReportFindings(n, minimum, states) ==
  {p \in Found(n) : /\ scans[n].rows[p].severity >= minimum
                    /\ states = {} \/ TriageOf(scans[n].host, p) \in states}

\* summarise
Summary(n, findings) ==
  LET needed == {p \in findings : TriageOf(scans[n].host, p) \in Actionable}
      severity(p) == scans[n].rows[p].severity
  IN [total |-> Cardinality(findings),
      bySeverity |-> [s \in Severities |-> Cardinality({p \in findings : severity(p) = s})],
      actionable |-> Cardinality(needed),
      highest |-> IF needed = {} THEN -1 ELSE Max({severity(p) : p \in needed}),
      diff |-> [d \in AnyDiff |->
                  Cardinality({p \in DOMAIN scans[n].diff : scans[n].diff[p] = d})]]

\* loadTrend: the scan and those of its target that completed before it.
Trend(n) ==
  LET upTo == {m \in ScansOf(scans[n].host) : m <= n}
  IN {m \in upTo : Cardinality({k \in upTo : k > m}) < TrendScans}

TrendTotal(m, minimum) == Cardinality({p \in Found(m) : scans[m].rows[p].severity >= minimum})

----------------------------------------------------------------------------
(* Properties. *)

ResultsTypeOK ==
  /\ \A n \in DOMAIN scans : /\ scans[n].host \in Host
                             /\ Found(n) \subseteq Prints
                             /\ Found(n) \subseteq DOMAIN scans[n].diff
  /\ decision \in [Host -> [Prints -> TriageStates \cup {"no row"}]]
  /\ archived \subseteq Host /\ decided \in 0..MaxDecisions

\* Every report of a detector is counted in one row, no milder than it.
NothingLost ==
  \A n \in DOMAIN scans :
    /\ SumFunction([p \in Found(n) |-> scans[n].rows[p].occurrences]) = Cardinality(scans[n].reported)
    /\ \A f \in scans[n].reported : scans[n].rows[FingerprintOf(f)].severity >= f.severity

\* Whose diff is next to whose: no scan of the target completed in between.
Adjacent(m, n) ==
  /\ m < n /\ scans[m].host = scans[n].host
  /\ \A k \in ScansOf(scans[n].host) : k <= m \/ k >= n

DiffAs(n, status) == {p \in DOMAIN scans[n].diff : scans[n].diff[p] = status}

\* The diffs of a target, applied one after the other, give what each of its scans
\* found; what reappears after a gap is NEW again.
DiffsChain ==
  \A m, n \in DOMAIN scans : Adjacent(m, n) =>
    /\ Found(n) = (Found(m) \ DiffAs(n, "RESOLVED")) \cup DiffAs(n, "NEW")
    /\ DiffAs(n, "PERSISTING") \subseteq Found(m) /\ DiffAs(n, "RESOLVED") \subseteq Found(m)

\* What a scan calls resolved is shown as the row of the scan just before it.
ResolvedAreShown ==
  \A n \in DOMAIN scans :
    /\ {r[2] : r \in ResolvedSince(n)} = DiffAs(n, "RESOLVED")
    /\ \A r \in ResolvedSince(n) : Adjacent(r[1], n)

\* "so a number here never disagrees with the list one click away": the dashboard,
\* the unfiltered Findings page and the reports on the newest scans count alike.
PostureAgrees ==
  /\ SumFunction([s \in Severities |-> PostureCount(s)]) =
       SumFunction([n \in Posture |-> Summary(n, ReportFindings(n, 0, {})).actionable])
  /\ \A n \in Posture :
       LET highest == Summary(n, ReportFindings(n, 0, {})).highest
       IN highest >= 0 => PostureCount(highest) > 0

\* A report lists what the Findings page lists of its scan under the same filters,
\* and ends its trend with it unless findings were filtered by their triage.
ReportsAgree ==
  \A n \in DOMAIN scans, minimum \in {f.severity : f \in RawFinding},
     states \in (SUBSET Actionable) \cup {{"FALSE_POSITIVE"}} :
    LET findings == ReportFindings(n, minimum, states)
        listed == Listed({n}, minimum..4, IF states = {} THEN TriageStates ELSE states, AnyDiff)
    IN /\ listed = {n} \X findings
       /\ states = {} => TrendTotal(Max(Trend(n)), minimum) = Summary(n, findings).total
       /\ \A p \in findings : Cardinality(SeenIn(scans[n].host, p)) >= 1

\* What the worker stores and what every later reader says of it fit together.
ResultsAgree == NothingLost /\ DiffsChain /\ ResolvedAreShown /\ PostureAgrees /\ ReportsAgree
=============================================================================
