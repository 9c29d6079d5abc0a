----------------------------- MODULE Browser_proofs -----------------------------
(* Theorems about the web application: the query cache, for any number of changes *)
(* of this tab and of others, the findings pages and their listing, for any       *)
(* findings, page sizes and numbers of requests, what the pages offer, for any     *)
(* facts, and the sign-in pages, for any cooldown.                                *)
EXTENDS Browser, FiniteSetTheorems, TLAPS

-----------------------------------------------------------------------------
(* The query cache. *)

LEMMA Prefixes1 == ASSUME NEW a PROVE IsPrefix(<<a>>, <<a>>)
BY DEF IsPrefix

LEMMA Prefixes2 ==
  ASSUME NEW a, NEW b
  PROVE  IsPrefix(<<a>>, <<a, b>>) /\ IsPrefix(<<a, b>>, <<a, b>>)
BY DEF IsPrefix

Refreshes(c) == \A q \in Queries : Concerns(c, q) =>
  <<c.name, q.key>> \in KnownGaps \/ Invalidates(c, q) \/ Seeds(c, q)

\* The tables, as the provers see them.
LEMMA KeysAre ==
  /\ MeQuery.key = <<"me">> /\ SystemStatusQuery.key = <<"system-status">>
  /\ BlocklistQuery.key = <<"admin", "blocklist">>
  /\ AuditQuery.key = <<"admin", "audit">> /\ UsersQuery.key = <<"admin", "users">>
  /\ SwitchQuery.key = <<"admin", "kill-switch">>
  /\ OrganizationsQuery.key = <<"admin", "organizations">>
  /\ HealthQuery.key = <<"admin", "health">> /\ TargetsQuery.key = <<"targets">>
  /\ TargetQuery.key = <<"target">> /\ ScansQuery.key = <<"scans">>
  /\ RecentScansQuery.key = <<"scans", "recent">> /\ ScanQuery.key = <<"scan">>
  /\ ScanFindingsQuery.key = <<"scan-findings">>
  /\ ResolvedQuery.key = <<"findings", "resolved">>
  /\ FindingsQuery.key = <<"findings">> /\ FindingQuery.key = <<"finding">>
  /\ ReportsQuery.key = <<"reports">> /\ DashboardQuery.key = <<"dashboard">>
<1>1. ASSUME NEW key, NEW reads
      PROVE  LET q == Query(key, reads)
                 once == [q EXCEPT !.once = TRUE] IN
             /\ q.key = key /\ Polled(q).key = key /\ once.key = key
  BY DEF Query, Polled
<1> QED
  BY <1>1 DEF MeQuery, SystemStatusQuery, BlocklistQuery, AuditQuery, UsersQuery, SwitchQuery,
       OrganizationsQuery, HealthQuery, TargetsQuery, TargetQuery, ScansQuery,
       RecentScansQuery, ScanQuery, ScanFindingsQuery, ResolvedQuery, FindingsQuery,
       FindingQuery, ReportsQuery, DashboardQuery

LEMMA ReadsAre ==
  /\ MeQuery.reads = {"users", "organizations"}
  /\ SystemStatusQuery.reads = {"halt"}
  /\ BlocklistQuery.reads = {"blocklist"}
  /\ AuditQuery.reads = {"audit"}
  /\ UsersQuery.reads = {"users"}
  /\ SwitchQuery.reads = {"halt"}
  /\ OrganizationsQuery.reads = {"organizations", "scans", "scan"}
  /\ HealthQuery.reads = {"scans", "scan"}
  /\ TargetsQuery.reads = {"targets", "target"}
  /\ TargetQuery.reads = {"target"}
  /\ ScansQuery.reads = {"scans", "scan"}
  /\ RecentScansQuery.reads = {"scans", "scan"}
  /\ ScanQuery.reads = {"scan"}
  /\ ScanFindingsQuery.reads = {"findings", "triage"}
  /\ ResolvedQuery.reads = {"findings", "triage"}
  /\ FindingsQuery.reads = {"findings", "triage", "posture"}
  /\ FindingQuery.reads = {"triage"}
  /\ ReportsQuery.reads = {"reports"}
  /\ DashboardQuery.reads =
       {"findings", "triage", "posture", "targets", "target", "blocklist", "scans", "scan"}
<1>1. ASSUME NEW key, NEW reads
      PROVE  LET q == Query(key, reads)
                 once == [q EXCEPT !.once = TRUE] IN
             /\ q.reads = reads /\ Polled(q).reads = reads /\ once.reads = reads
  BY DEF Query, Polled
<1> QED
  BY <1>1 DEF MeQuery, SystemStatusQuery, BlocklistQuery, AuditQuery, UsersQuery, SwitchQuery,
       OrganizationsQuery, HealthQuery, TargetsQuery, TargetQuery, ScansQuery,
       RecentScansQuery, ScanQuery, ScanFindingsQuery, ResolvedQuery, FindingsQuery,
       FindingQuery, ReportsQuery, DashboardQuery

\* Who reads what.
LEMMA AccountReaders ==
  ASSUME NEW q \in Queries
  PROVE  /\ "users" \in q.reads => q \in {MeQuery, UsersQuery}
         /\ "organizations" \in q.reads => q \in {MeQuery, OrganizationsQuery}
         /\ "halt" \in q.reads => q \in {SystemStatusQuery, SwitchQuery}
         /\ "blocklist" \in q.reads => q \in {BlocklistQuery, DashboardQuery}
         /\ "audit" \in q.reads => q \in {AuditQuery}
BY ReadsAre DEF Queries

LEMMA ScanReaders ==
  ASSUME NEW q \in Queries
  PROVE  /\ "scans" \in q.reads =>
              q \in {OrganizationsQuery, HealthQuery, ScansQuery, RecentScansQuery,
              DashboardQuery}
         /\ "scan" \in q.reads =>
              q \in {OrganizationsQuery, HealthQuery, ScansQuery, RecentScansQuery,
              ScanQuery, DashboardQuery}
         /\ "targets" \in q.reads => q \in {TargetsQuery, DashboardQuery}
         /\ "target" \in q.reads => q \in {TargetsQuery, TargetQuery, DashboardQuery}
BY ReadsAre DEF Queries

LEMMA FindingReaders ==
  ASSUME NEW q \in Queries
  PROVE  /\ "findings" \in q.reads =>
              q \in {ScanFindingsQuery, ResolvedQuery, FindingsQuery, DashboardQuery}
         /\ "triage" \in q.reads =>
              q \in {ScanFindingsQuery, ResolvedQuery, FindingsQuery, FindingQuery,
              DashboardQuery}
         /\ "posture" \in q.reads => q \in {FindingsQuery, DashboardQuery}
         /\ "reports" \in q.reads => q \in {ReportsQuery}
BY ReadsAre DEF Queries

\* What a change does not refresh, by the page that goes on showing it.
LEMMA GapsAre ==
  /\ <<"role, suspension", <<"me">>>> \in KnownGaps /\ <<"quota", <<"me">>>> \in KnownGaps
  /\ <<"kill switch", <<"scan">>>> \in KnownGaps
  /\ \A n \in {"role, suspension", "quota", "blocklist"} : <<n, <<"admin", "audit">>>> \in KnownGaps
  /\ \A n \in {"register", "verify", "scope", "archive", "delete", "blocklist", "kill switch",
               "control", "start", "triage", "bulk triage"} : <<n, <<"dashboard">>>> \in KnownGaps
  /\ \A n \in {"archive", "delete"} : <<n, <<"findings">>>> \in KnownGaps
  /\ \A k \in {<<"target">>, <<"scan">>, <<"scans">>, <<"scans", "recent">>, <<"scan-findings">>,
               <<"findings", "resolved">>} : <<"delete", k>> \in KnownGaps
  /\ \A n \in {"delete", "control", "start"}, k \in {<<"admin", "health">>, <<"admin", "organizations">>} :
        <<n, k>> \in KnownGaps
  /\ \A n \in {"triage", "bulk triage"} : <<n, <<"scan-findings">>>> \in KnownGaps
BY Zenon DEF KnownGaps

\* The keys under which a page is refreshed.
LEMMA PrefixesAre ==
  /\ IsPrefix(<<"system-status">>, SystemStatusQuery.key)
  /\ IsPrefix(<<"admin", "blocklist">>, BlocklistQuery.key)
  /\ IsPrefix(<<"admin">>, AuditQuery.key)
  /\ IsPrefix(<<"admin", "users">>, UsersQuery.key)
  /\ IsPrefix(<<"admin">>, SwitchQuery.key)
  /\ IsPrefix(<<"admin">>, OrganizationsQuery.key)
  /\ IsPrefix(<<"admin", "organizations">>, OrganizationsQuery.key)
  /\ IsPrefix(<<"admin">>, HealthQuery.key)
  /\ IsPrefix(<<"targets">>, TargetsQuery.key)
  /\ IsPrefix(<<"target">>, TargetQuery.key)
  /\ IsPrefix(<<"scans">>, ScansQuery.key)
  /\ IsPrefix(<<"scans">>, RecentScansQuery.key)
  /\ IsPrefix(<<"findings">>, ResolvedQuery.key)
  /\ IsPrefix(<<"findings">>, FindingsQuery.key)
  /\ IsPrefix(<<"finding">>, FindingQuery.key)
  /\ IsPrefix(<<"reports">>, ReportsQuery.key)
<1>1. IsPrefix(<<"system-status">>, <<"system-status">>)
  BY Prefixes1
<1>2. IsPrefix(<<"admin", "blocklist">>, <<"admin", "blocklist">>)
  BY Prefixes2
<1>3. IsPrefix(<<"admin">>, <<"admin", "audit">>)
  BY Prefixes2
<1>4. IsPrefix(<<"admin", "users">>, <<"admin", "users">>)
  BY Prefixes2
<1>5. IsPrefix(<<"admin">>, <<"admin", "kill-switch">>)
  BY Prefixes2
<1>6. IsPrefix(<<"admin">>, <<"admin", "organizations">>)
  BY Prefixes2
<1>7. IsPrefix(<<"admin", "organizations">>, <<"admin", "organizations">>)
  BY Prefixes2
<1>8. IsPrefix(<<"admin">>, <<"admin", "health">>)
  BY Prefixes2
<1>9. IsPrefix(<<"targets">>, <<"targets">>)
  BY Prefixes1
<1>10. IsPrefix(<<"target">>, <<"target">>)
  BY Prefixes1
<1>11. IsPrefix(<<"scans">>, <<"scans">>)
  BY Prefixes1
<1>12. IsPrefix(<<"scans">>, <<"scans", "recent">>)
  BY Prefixes2
<1>13. IsPrefix(<<"findings">>, <<"findings", "resolved">>)
  BY Prefixes2
<1>14. IsPrefix(<<"findings">>, <<"findings">>)
  BY Prefixes1
<1>15. IsPrefix(<<"finding">>, <<"finding">>)
  BY Prefixes1
<1>16. IsPrefix(<<"reports">>, <<"reports">>)
  BY Prefixes1
<1> QED
  BY KeysAre, <1>1, <1>2, <1>3, <1>4, <1>5, <1>6, <1>7, <1>8, <1>9, <1>10, <1>11, <1>12, <1>13,
     <1>14, <1>15, <1>16

LEMMA RefreshedBy ==
  ASSUME NEW c, NEW q, NEW k \in c.invalidates, IsPrefix(k, q.key)
  PROVE  Invalidates(c, q)
BY DEF Invalidates

\* No page is forgotten by a change: it is refreshed, written, or a listed gap.
LEMMA EachRefreshes ==
  ASSUME NEW c \in Changes
  PROVE  Refreshes(c)
<1>1. Refreshes(UserChange)
  <2>1. /\ UserChange.name = "role, suspension" /\ UserChange.changes = {"users", "audit"}
        /\ UserChange.invalidates = {<<"admin", "users">>}
    BY DEF UserChange, Made
  <2>2. /\ Invalidates(UserChange, UsersQuery)
    BY <2>1, PrefixesAre, RefreshedBy, Zenon
  <2>3. /\ <<UserChange.name, MeQuery.key>> \in KnownGaps
        /\ <<UserChange.name, AuditQuery.key>> \in KnownGaps
    BY <2>1, KeysAre, GapsAre
  <2>4. \A q \in Queries : Concerns(UserChange, q) => "users" \in q.reads \/ "audit" \in q.reads
    BY <2>1 DEF Concerns
  <2> QED
    BY <2>2, <2>3, <2>4, AccountReaders DEF Refreshes
<1>2. Refreshes(QuotaChange)
  <2>1. /\ QuotaChange.name = "quota" /\ QuotaChange.changes = {"organizations", "audit"}
        /\ QuotaChange.invalidates = {<<"admin", "organizations">>}
    BY DEF QuotaChange, Made
  <2>2. /\ Invalidates(QuotaChange, OrganizationsQuery)
    BY <2>1, PrefixesAre, RefreshedBy, Zenon
  <2>3. /\ <<QuotaChange.name, MeQuery.key>> \in KnownGaps
        /\ <<QuotaChange.name, AuditQuery.key>> \in KnownGaps
    BY <2>1, KeysAre, GapsAre
  <2>4. \A q \in Queries : Concerns(QuotaChange, q) => "organizations" \in q.reads \/ "audit" \in q.reads
    BY <2>1 DEF Concerns
  <2> QED
    BY <2>2, <2>3, <2>4, AccountReaders DEF Refreshes
<1>3. Refreshes(BlocklistChange)
  <2>1. /\ BlocklistChange.name = "blocklist"
        /\ BlocklistChange.changes = {"blocklist", "audit"}
        /\ BlocklistChange.invalidates = {<<"admin", "blocklist">>}
    BY DEF BlocklistChange, Made
  <2>2. /\ Invalidates(BlocklistChange, BlocklistQuery)
    BY <2>1, PrefixesAre, RefreshedBy, Zenon
  <2>3. /\ <<BlocklistChange.name, AuditQuery.key>> \in KnownGaps
        /\ <<BlocklistChange.name, DashboardQuery.key>> \in KnownGaps
    BY <2>1, KeysAre, GapsAre
  <2>4. \A q \in Queries : Concerns(BlocklistChange, q) => "blocklist" \in q.reads \/ "audit" \in q.reads
    BY <2>1 DEF Concerns
  <2> QED
    BY <2>2, <2>3, <2>4, AccountReaders DEF Refreshes
<1>4. Refreshes(HaltChange)
  <2>1. /\ HaltChange.name = "kill switch" /\ HaltChange.changes = {"halt", "scan", "audit"}
        /\ HaltChange.invalidates = {<<"admin">>, <<"system-status">>, <<"scans">>}
    BY DEF HaltChange, Made
  <2>2. /\ Invalidates(HaltChange, SystemStatusQuery) /\ Invalidates(HaltChange, AuditQuery)
        /\ Invalidates(HaltChange, SwitchQuery)
        /\ Invalidates(HaltChange, OrganizationsQuery)
        /\ Invalidates(HaltChange, HealthQuery) /\ Invalidates(HaltChange, ScansQuery)
        /\ Invalidates(HaltChange, RecentScansQuery)
    BY <2>1, PrefixesAre, RefreshedBy, Zenon
  <2>3. /\ <<HaltChange.name, ScanQuery.key>> \in KnownGaps
        /\ <<HaltChange.name, DashboardQuery.key>> \in KnownGaps
    BY <2>1, KeysAre, GapsAre
  <2>4. \A q \in Queries : Concerns(HaltChange, q) =>
          "halt" \in q.reads \/ "scan" \in q.reads \/ "audit" \in q.reads
    BY <2>1 DEF Concerns
  <2> QED
    BY <2>2, <2>3, <2>4, AccountReaders, ScanReaders DEF Refreshes
<1>5. Refreshes(RegisterTarget)
  <2>1. /\ RegisterTarget.name = "register" /\ RegisterTarget.changes = {"targets"}
        /\ RegisterTarget.invalidates = {<<"targets">>}
    BY DEF RegisterTarget, Made
  <2>2. /\ Invalidates(RegisterTarget, TargetsQuery)
    BY <2>1, PrefixesAre, RefreshedBy, Zenon
  <2>3. /\ <<RegisterTarget.name, DashboardQuery.key>> \in KnownGaps
    BY <2>1, KeysAre, GapsAre
  <2>4. \A q \in Queries : Concerns(RegisterTarget, q) => "targets" \in q.reads
    BY <2>1 DEF Concerns
  <2> QED
    BY <2>2, <2>3, <2>4, ScanReaders DEF Refreshes
<1>6. Refreshes(VerifyOwnTarget)
  <2>1. /\ VerifyOwnTarget.name = "verify" /\ VerifyOwnTarget.changes = {"target"}
        /\ VerifyOwnTarget.invalidates = {<<"targets">>, <<"target">>}
    BY DEF VerifyOwnTarget, Made
  <2>2. /\ Invalidates(VerifyOwnTarget, TargetsQuery)
        /\ Invalidates(VerifyOwnTarget, TargetQuery)
    BY <2>1, PrefixesAre, RefreshedBy, Zenon
  <2>3. /\ <<VerifyOwnTarget.name, DashboardQuery.key>> \in KnownGaps
    BY <2>1, KeysAre, GapsAre
  <2>4. \A q \in Queries : Concerns(VerifyOwnTarget, q) => "target" \in q.reads
    BY <2>1 DEF Concerns
  <2> QED
    BY <2>2, <2>3, <2>4, ScanReaders DEF Refreshes
<1>7. Refreshes(ScopeChange)
  <2>1. /\ ScopeChange.name = "scope" /\ ScopeChange.changes = {"target"}
        /\ ScopeChange.invalidates = {<<"targets">>, <<"target">>}
    BY DEF ScopeChange, Made
  <2>2. /\ Invalidates(ScopeChange, TargetsQuery) /\ Invalidates(ScopeChange, TargetQuery)
    BY <2>1, PrefixesAre, RefreshedBy, Zenon
  <2>3. /\ <<ScopeChange.name, DashboardQuery.key>> \in KnownGaps
    BY <2>1, KeysAre, GapsAre
  <2>4. \A q \in Queries : Concerns(ScopeChange, q) => "target" \in q.reads
    BY <2>1 DEF Concerns
  <2> QED
    BY <2>2, <2>3, <2>4, ScanReaders DEF Refreshes
<1>8. Refreshes(ArchiveOwnTarget)
  <2>1. /\ ArchiveOwnTarget.name = "archive"
        /\ ArchiveOwnTarget.changes = {"target", "posture"}
        /\ ArchiveOwnTarget.invalidates = {<<"targets">>, <<"target">>}
    BY DEF ArchiveOwnTarget, Made
  <2>2. /\ Invalidates(ArchiveOwnTarget, TargetsQuery)
        /\ Invalidates(ArchiveOwnTarget, TargetQuery)
    BY <2>1, PrefixesAre, RefreshedBy, Zenon
  <2>3. /\ <<ArchiveOwnTarget.name, FindingsQuery.key>> \in KnownGaps
        /\ <<ArchiveOwnTarget.name, DashboardQuery.key>> \in KnownGaps
    BY <2>1, KeysAre, GapsAre
  <2>4. \A q \in Queries : Concerns(ArchiveOwnTarget, q) => "target" \in q.reads \/ "posture" \in q.reads
    BY <2>1 DEF Concerns
  <2> QED
    BY <2>2, <2>3, <2>4, ScanReaders, FindingReaders DEF Refreshes
<1>9. Refreshes(TargetDeletion)
  <2>1. /\ TargetDeletion.name = "delete"
        /\ TargetDeletion.changes = {"targets", "target", "posture", "scans", "scan", "findings"}
        /\ TargetDeletion.invalidates = {<<"targets">>}
    BY DEF TargetDeletion, Made
  <2>2. /\ Invalidates(TargetDeletion, TargetsQuery)
    BY <2>1, PrefixesAre, RefreshedBy, Zenon
  <2>3. /\ <<TargetDeletion.name, OrganizationsQuery.key>> \in KnownGaps
        /\ <<TargetDeletion.name, HealthQuery.key>> \in KnownGaps
        /\ <<TargetDeletion.name, TargetQuery.key>> \in KnownGaps
        /\ <<TargetDeletion.name, ScansQuery.key>> \in KnownGaps
        /\ <<TargetDeletion.name, RecentScansQuery.key>> \in KnownGaps
        /\ <<TargetDeletion.name, ScanQuery.key>> \in KnownGaps
        /\ <<TargetDeletion.name, ScanFindingsQuery.key>> \in KnownGaps
        /\ <<TargetDeletion.name, ResolvedQuery.key>> \in KnownGaps
        /\ <<TargetDeletion.name, FindingsQuery.key>> \in KnownGaps
        /\ <<TargetDeletion.name, DashboardQuery.key>> \in KnownGaps
    BY <2>1, KeysAre, GapsAre
  <2>4. \A q \in Queries : Concerns(TargetDeletion, q) =>
          "targets" \in q.reads \/ "target" \in q.reads \/ "posture" \in q.reads
            \/ "scans" \in q.reads \/ "scan" \in q.reads \/ "findings" \in q.reads
    BY <2>1 DEF Concerns
  <2> QED
    BY <2>2, <2>3, <2>4, ScanReaders, FindingReaders DEF Refreshes
<1>10. Refreshes(ScanControl)
  <2>1. /\ ScanControl.name = "control" /\ ScanControl.changes = {"scan"}
        /\ ScanControl.invalidates = {<<"scans">>} /\ ScanControl.seeds = {<<"scan">>}
    BY DEF ScanControl, Made
  <2>2. /\ Invalidates(ScanControl, ScansQuery)
        /\ Invalidates(ScanControl, RecentScansQuery)
    BY <2>1, PrefixesAre, RefreshedBy, Zenon
  <2>3. /\ <<ScanControl.name, OrganizationsQuery.key>> \in KnownGaps
        /\ <<ScanControl.name, HealthQuery.key>> \in KnownGaps
        /\ <<ScanControl.name, DashboardQuery.key>> \in KnownGaps
    BY <2>1, KeysAre, GapsAre
  <2>4. /\ Seeds(ScanControl, ScanQuery)
    BY <2>1, KeysAre DEF Seeds
  <2>5. \A q \in Queries : Concerns(ScanControl, q) => "scan" \in q.reads
    BY <2>1 DEF Concerns
  <2> QED
    BY <2>2, <2>3, <2>4, <2>5, ScanReaders DEF Refreshes
<1>11. Refreshes(ScanStart)
  <2>1. /\ ScanStart.name = "start" /\ ScanStart.changes = {"scans"}
        /\ ScanStart.invalidates = {<<"scans">>}
    BY DEF ScanStart, Made
  <2>2. /\ Invalidates(ScanStart, ScansQuery) /\ Invalidates(ScanStart, RecentScansQuery)
    BY <2>1, PrefixesAre, RefreshedBy, Zenon
  <2>3. /\ <<ScanStart.name, OrganizationsQuery.key>> \in KnownGaps
        /\ <<ScanStart.name, HealthQuery.key>> \in KnownGaps
        /\ <<ScanStart.name, DashboardQuery.key>> \in KnownGaps
    BY <2>1, KeysAre, GapsAre
  <2>4. \A q \in Queries : Concerns(ScanStart, q) => "scans" \in q.reads
    BY <2>1 DEF Concerns
  <2> QED
    BY <2>2, <2>3, <2>4, ScanReaders DEF Refreshes
<1>12. Refreshes(TriageOne)
  <2>1. /\ TriageOne.name = "triage" /\ TriageOne.changes = {"triage"}
        /\ TriageOne.invalidates = {<<"findings">>} /\ TriageOne.seeds = {<<"finding">>}
    BY DEF TriageOne, Made
  <2>2. /\ Invalidates(TriageOne, ResolvedQuery) /\ Invalidates(TriageOne, FindingsQuery)
    BY <2>1, PrefixesAre, RefreshedBy, Zenon
  <2>3. /\ <<TriageOne.name, ScanFindingsQuery.key>> \in KnownGaps
        /\ <<TriageOne.name, DashboardQuery.key>> \in KnownGaps
    BY <2>1, KeysAre, GapsAre
  <2>4. /\ Seeds(TriageOne, FindingQuery)
    BY <2>1, KeysAre DEF Seeds
  <2>5. \A q \in Queries : Concerns(TriageOne, q) => "triage" \in q.reads
    BY <2>1 DEF Concerns
  <2> QED
    BY <2>2, <2>3, <2>4, <2>5, FindingReaders DEF Refreshes
<1>13. Refreshes(TriageMany)
  <2>1. /\ TriageMany.name = "bulk triage" /\ TriageMany.changes = {"triage"}
        /\ TriageMany.invalidates = {<<"findings">>, <<"finding">>}
    BY DEF TriageMany, Made
  <2>2. /\ Invalidates(TriageMany, ResolvedQuery) /\ Invalidates(TriageMany, FindingsQuery)
        /\ Invalidates(TriageMany, FindingQuery)
    BY <2>1, PrefixesAre, RefreshedBy, Zenon
  <2>3. /\ <<TriageMany.name, ScanFindingsQuery.key>> \in KnownGaps
        /\ <<TriageMany.name, DashboardQuery.key>> \in KnownGaps
    BY <2>1, KeysAre, GapsAre
  <2>4. \A q \in Queries : Concerns(TriageMany, q) => "triage" \in q.reads
    BY <2>1 DEF Concerns
  <2> QED
    BY <2>2, <2>3, <2>4, FindingReaders DEF Refreshes
<1>14. Refreshes(ReportRequest)
  <2>1. /\ ReportRequest.name = "report" /\ ReportRequest.changes = {"reports"}
        /\ ReportRequest.invalidates = {<<"reports">>}
    BY DEF ReportRequest, Made
  <2>2. /\ Invalidates(ReportRequest, ReportsQuery)
    BY <2>1, PrefixesAre, RefreshedBy, Zenon
  <2>3. \A q \in Queries : Concerns(ReportRequest, q) => "reports" \in q.reads
    BY <2>1 DEF Concerns
  <2> QED
    BY <2>2, <2>3, FindingReaders DEF Refreshes
<1>15. Refreshes(ReportShare)
  <2>1. /\ ReportShare.name = "share" /\ ReportShare.changes = {"reports"}
        /\ ReportShare.invalidates = {<<"reports">>}
    BY DEF ReportShare, Made
  <2>2. /\ Invalidates(ReportShare, ReportsQuery)
    BY <2>1, PrefixesAre, RefreshedBy, Zenon
  <2>3. \A q \in Queries : Concerns(ReportShare, q) => "reports" \in q.reads
    BY <2>1 DEF Concerns
  <2> QED
    BY <2>2, <2>3, FindingReaders DEF Refreshes
<1> QED
  BY <1>1, <1>2, <1>3, <1>4, <1>5, <1>6, <1>7, <1>8, <1>9, <1>10, <1>11, <1>12, <1>13, <1>14, <1>15 DEF Changes

CacheSpec == CacheInit /\ [][CacheNext]_cacheVars

\* A page that a change is meant to reach.
Reached == <<change.name, query.key>> \notin KnownGaps \/ Seeds(change, query)

CacheTypes ==
  /\ query \in Queries /\ change \in Changes /\ Concerns(change, query)
  /\ entry \in [shows : Int, old : BOOLEAN, invalid : BOOLEAN, raced : BOOLEAN]
  /\ racing \in BOOLEAN

\* Each change of this tab is counted from when it is sent, and is applied once.
CacheCounts ==
  /\ facts \in Nat /\ own \in 0..MaxOwn /\ others \in 0..MaxOthers
  /\ facts <= own + others /\ (mutation = Unread => facts < own + others)
  /\ entry.shows \in NoData..facts /\ fetch \in Unread..facts
  /\ mutation \in Unread..facts /\ told \in 0..facts

\* Data on their way were read after the last change this tab saw accepted, unless
\* the fetch was left alone by it.
FetchIsRecent == Reached /\ fetch >= 0 /\ ~racing => fetch >= told

CacheInv == CacheTypes /\ CacheCounts /\ FetchIsRecent /\ OwnChangesShown

LEMMA ReachedIsRefreshed ==
  ASSUME CacheTypes, Reached
  PROVE  Seeds(change, query) \/ Invalidates(change, query)
BY EachRefreshes DEF CacheTypes, Reached, Refreshes

LEMMA CacheStarts == ASSUME CacheInit PROVE CacheInv
<1>1. CacheTypes
  <2>1. query \in Queries /\ change \in Changes /\ Concerns(change, query) /\ racing \in BOOLEAN
    BY DEF CacheInit
  <2>2. entry \in [shows : Int, old : BOOLEAN, invalid : BOOLEAN, raced : BOOLEAN]
    BY DEF CacheInit, NoData
  <2> QED
    BY <2>1, <2>2 DEF CacheTypes
<1>2. CacheCounts
  BY PageCacheAssumption DEF CacheInit, CacheCounts, NoData, NoFetch, Unread
<1>3. FetchIsRecent /\ OwnChangesShown
  BY DEF CacheInit, FetchIsRecent, OwnChangesShown, NoData, NoFetch
<1> QED
  BY <1>1, <1>2, <1>3 DEF CacheInv

LEMMA CacheSteps == ASSUME CacheInv, [CacheNext]_cacheVars PROVE CacheInv'
<1> USE PageCacheAssumption DEF NoData, NoFetch, Unread
<1>1. CacheTypes /\ CacheCounts /\ FetchIsRecent /\ OwnChangesShown
  BY DEF CacheInv
<1>2. CASE Mount
  <2>1. CacheTypes' /\ UNCHANGED <<query, change, entry, told>>
    BY <1>1, <1>2 DEF Mount, Fetched, CacheTypes
  <2>2. CacheCounts'
    BY <1>1, <1>2 DEF Mount, Fetched, CacheCounts
  <2>3. FetchIsRecent'
    BY <1>1, <1>2 DEF Mount, Fetched, FetchIsRecent, Reached
  <2>4. OwnChangesShown'
    BY <1>1, <2>1 DEF OwnChangesShown
  <2> QED
    BY <2>1, <2>2, <2>3, <2>4 DEF CacheInv
<1>3. CASE Unmount
  <2>1. UNCHANGED <<query, change, facts, entry, fetch, mutation, told, racing, own, others>>
    BY <1>3 DEF Unmount
  <2> QED
    BY <1>1, <2>1 DEF CacheInv, CacheTypes, CacheCounts, FetchIsRecent, Reached, OwnChangesShown
<1>4. CASE Refetch
  <2>1. CacheTypes' /\ UNCHANGED <<query, change, entry, told>>
    BY <1>1, <1>4 DEF Refetch, Fetched, CacheTypes
  <2>2. CacheCounts'
    BY <1>1, <1>4 DEF Refetch, Fetched, CacheCounts
  <2>3. FetchIsRecent'
    BY <1>1, <1>4 DEF Refetch, Fetched, FetchIsRecent, Reached
  <2>4. OwnChangesShown'
    BY <1>1, <2>1 DEF OwnChangesShown
  <2> QED
    BY <2>1, <2>2, <2>3, <2>4 DEF CacheInv
<1>5. CASE ReadFacts
  <2>1. CacheTypes' /\ UNCHANGED <<query, change, entry, told>>
    BY <1>1, <1>5 DEF ReadFacts, CacheTypes
  <2>2. CacheCounts'
    BY <1>1, <1>5 DEF ReadFacts, CacheCounts
  <2>3. FetchIsRecent'
    BY <1>1, <1>5 DEF ReadFacts, CacheCounts, FetchIsRecent
  <2>4. OwnChangesShown'
    BY <1>1, <2>1 DEF OwnChangesShown
  <2> QED
    BY <2>1, <2>2, <2>3, <2>4 DEF CacheInv
<1>6. CASE FetchEnds
  <2>1. CacheTypes' /\ UNCHANGED <<query, change, told>>
    BY <1>1, <1>6 DEF FetchEnds, CacheTypes, CacheCounts
  <2>2. CacheCounts' /\ FetchIsRecent'
    BY <1>1, <1>6 DEF FetchEnds, CacheCounts, FetchIsRecent
  <2>3. entry'.shows = fetch /\ entry'.raced = racing /\ fetch >= 0
    BY <1>6 DEF FetchEnds
  <2>4. OwnChangesShown'
    BY <1>1, <2>1, <2>3 DEF OwnChangesShown, FetchIsRecent, Reached
  <2> QED
    BY <2>1, <2>2, <2>4 DEF CacheInv
<1>7. CASE FetchFails
  <2>1. CacheTypes' /\ UNCHANGED <<query, change, entry, told>>
    BY <1>1, <1>7 DEF FetchFails, CacheTypes
  <2>2. CacheCounts' /\ FetchIsRecent'
    BY <1>1, <1>7 DEF FetchFails, CacheCounts, FetchIsRecent
  <2>3. OwnChangesShown'
    BY <1>1, <2>1 DEF OwnChangesShown
  <2> QED
    BY <2>1, <2>2, <2>3 DEF CacheInv
<1>8. CASE Age
  <2>1. UNCHANGED <<query, change, facts, fetch, mutation, told, racing, own, others>>
    BY <1>8 DEF Age
  <2>2. /\ entry' \in [shows : Int, old : BOOLEAN, invalid : BOOLEAN, raced : BOOLEAN]
        /\ entry'.shows = entry.shows /\ entry'.invalid = entry.invalid /\ entry'.raced = entry.raced
    BY <1>1, <1>8 DEF Age, CacheTypes
  <2>3. CacheTypes' /\ CacheCounts'
    BY <1>1, <2>1, <2>2 DEF CacheTypes, CacheCounts
  <2>4. FetchIsRecent' /\ OwnChangesShown'
    BY <1>1, <2>1, <2>2 DEF FetchIsRecent, Reached, OwnChangesShown
  <2> QED
    BY <2>3, <2>4 DEF CacheInv
<1>9. CASE SendChange
  <2>1. UNCHANGED <<query, change, facts, entry, fetch, told, racing, others>>
    BY <1>9 DEF SendChange
  <2>2. CacheCounts'
    BY <1>1, <1>9 DEF SendChange, CacheCounts
  <2> QED
    BY <1>1, <2>1, <2>2 DEF CacheInv, CacheTypes, FetchIsRecent, Reached, OwnChangesShown
<1>10. CASE ApplyChange
  <2>1. UNCHANGED <<query, change, entry, fetch, told, racing>>
    BY <1>10 DEF ApplyChange
  <2>2. CacheCounts'
    BY <1>1, <1>10 DEF ApplyChange, CacheCounts
  <2> QED
    BY <1>1, <2>1, <2>2 DEF CacheInv, CacheTypes, FetchIsRecent, Reached, OwnChangesShown
<1>11. CASE ChangedByOthers
  <2>1. UNCHANGED <<query, change, entry, fetch, told, racing>>
    BY <1>11 DEF ChangedByOthers
  <2>2. CacheCounts'
    BY <1>1, <1>11 DEF ChangedByOthers, CacheCounts
  <2> QED
    BY <1>1, <2>1, <2>2 DEF CacheInv, CacheTypes, FetchIsRecent, Reached, OwnChangesShown
<1>12. CASE ChangeAnswered
  <2>1. /\ UNCHANGED <<query, change, facts, own, others>>
        /\ mutation > 0 /\ told' = mutation /\ mutation' = NoFetch
    BY <1>12 DEF ChangeAnswered
  <2>2. /\ fetch' \in {fetch, Unread} /\ racing' \in BOOLEAN
        /\ fetch' >= 0 => racing'
    <3> DEFINE again == Invalidates(change, query) /\ mounted
               anew == again /\ (entry.shows # NoData \/ fetch = NoFetch)
    <3>1. CASE anew
      <4>1. fetch' = Unread /\ racing' = FALSE
        BY <1>12, <3>1 DEF ChangeAnswered, Refreshed
      <4>2. fetch' \in {fetch, Unread} /\ ~(fetch' >= 0)
        BY <4>1
      <4>3. racing' \in BOOLEAN
        BY <4>1
      <4> QED
        BY <4>2, <4>3
    <3>2. CASE ~anew
      <4>1. fetch' = fetch /\ racing' = (racing \/ fetch # NoFetch)
        BY <1>12, <3>2 DEF ChangeAnswered, Refreshed
      <4>2. racing \in BOOLEAN
        BY <1>1 DEF CacheTypes
      <4>3. (racing \/ fetch # NoFetch) \in BOOLEAN
        OBVIOUS
      <4>4. fetch' \in {fetch, Unread}
        BY <4>1
      <4>5. fetch' >= 0 => fetch # NoFetch
        BY <4>1
      <4>6. racing' \in BOOLEAN /\ (fetch # NoFetch => racing')
        BY <4>1, <4>2, <4>3, Zenon
      <4> QED
        BY <4>4, <4>5, <4>6
    <3> QED
      BY <3>1, <3>2
  <2>3. /\ entry' \in [shows : Int, old : BOOLEAN, invalid : BOOLEAN, raced : BOOLEAN]
        /\ entry'.shows \in {entry.shows, mutation}
    <3>1. /\ entry \in [shows : Int, old : BOOLEAN, invalid : BOOLEAN, raced : BOOLEAN]
          /\ mutation \in Int
      BY <1>1 DEF CacheTypes, CacheCounts
    <3>2. \/ entry' = [shows |-> mutation, old |-> FALSE, invalid |-> FALSE, raced |-> FALSE]
          \/ entry' = [entry EXCEPT !.invalid = TRUE]
          \/ entry' = entry
      BY <1>12, Zenon DEF ChangeAnswered, Refreshed
    <3>3. CASE entry' = [shows |-> mutation, old |-> FALSE, invalid |-> FALSE, raced |-> FALSE]
      BY <3>1, <3>3
    <3>4. CASE entry' = [entry EXCEPT !.invalid = TRUE]
      BY <3>1, <3>4
    <3>5. CASE entry' = entry
      BY <3>1, <3>5
    <3> QED
      BY <3>2, <3>3, <3>4, <3>5
  <2>4. /\ Seeds(change, query) => entry'.shows = mutation
        /\ ~Seeds(change, query) /\ Invalidates(change, query) /\ entry'.shows # NoData => entry'.invalid
    BY <1>1, <1>12 DEF ChangeAnswered, Refreshed, CacheTypes
  <2>5. CacheTypes' /\ CacheCounts'
    BY <1>1, <2>1, <2>2, <2>3 DEF CacheTypes, CacheCounts
  <2>6. FetchIsRecent'
    BY <2>2 DEF FetchIsRecent
  <2>7. OwnChangesShown'
    <3>1. (Seeds(change, query) <=> Seeds(change, query)') /\ (Reached <=> Reached')
      BY <2>1 DEF Seeds, Reached
    <3>2. Reached => Seeds(change, query) \/ Invalidates(change, query)
      BY <1>1, ReachedIsRefreshed
    <3>3. CASE Seeds(change, query)
      BY <1>1, <2>1, <2>4, <3>3 DEF OwnChangesShown, CacheCounts
    <3>4. CASE ~Seeds(change, query)
      BY <2>4, <3>1, <3>2, <3>4 DEF OwnChangesShown, Reached
    <3> QED
      BY <3>3, <3>4
  <2> QED
    BY <2>5, <2>6, <2>7 DEF CacheInv
<1>13. CASE UNCHANGED cacheVars
  BY <1>1, <1>13 DEF cacheVars, CacheInv, CacheTypes, CacheCounts, FetchIsRecent, Reached, OwnChangesShown
<1> QED
  BY <1>2, <1>3, <1>4, <1>5, <1>6, <1>7, <1>8, <1>9, <1>10, <1>11, <1>12, <1>13 DEF CacheNext

LEMMA CacheHolds == CacheSpec => []CacheInv
<1> QED
  BY CacheStarts, CacheSteps, PTL DEF CacheSpec

\* No page goes back behind a change this tab made and saw accepted: for every query
\* and every change of the tables, and any number of changes of this tab and of others,
\* whichever way they interleave with the fetches (query-client.ts, the mutations).
THEOREM OwnChangesHold == CacheSpec => []OwnChangesShown
<1>1. CacheInv => OwnChangesShown
  BY DEF CacheInv
<1> QED
  BY <1>1, CacheHolds, PTL

LEMMA CacheTypeHolds == CacheSpec => []CacheTypeOK
<1>1. CacheInv => CacheTypeOK
  BY PageCacheAssumption DEF CacheInv, CacheCounts, CacheTypeOK, NoData, NoFetch, Unread
<1> QED
  BY <1>1, CacheHolds, PTL

-----------------------------------------------------------------------------
(* The findings pages. *)

DeskSpec == DeskInit /\ [][DeskNext]_deskVars

\* No text, the one typed here, and the one others record.
Texts == {"", "typed", "recorded"}

Bars == [triage : {"DEFAULT", "all", "FALSE_POSITIVE"}, search : {"", "text"},
         sort : {"severity", "name"}, direction : {"asc", "desc"}]
Forms == [for : SUBSET Desk, initial : States, prefill : Texts, choice : States,
          text : Texts, typed : BOOLEAN]
Requests == [ids : SUBSET Desk, choice : States, text : Texts]

ListTypes == rows \subseteq Desk /\ selected \subseteq Desk /\ sends \in 0..MaxSends
BarTypes == oneScan \in BOOLEAN /\ bar \in Bars /\ settled \in {"", "text"}
ServerTypes == state \in [Desk -> States] /\ reason \in [Desk -> Texts]
FormTypes == form \in Forms /\ sending \in Requests

\* A text nobody typed is the recorded reason or nothing, and is that of the choice.
TextOfItsChoice ==
  ~form.typed => form.text \in {"", form.prefill} /\ (form.text # "" => form.choice = form.initial)

HiddenHasReason == \A f \in Desk : state[f] \in JustifiedStates => reason[f] # ""

DeskInv ==
  ListTypes /\ BarTypes /\ ServerTypes /\ FormTypes /\ TextOfItsChoice /\ HiddenHasReason
  /\ SelectionUnderFilters

\* A parameter read back is the filter it was written from.
LEMMA ParameterIs ==
  ASSUME NEW f, NEW k \in DOMAIN f
  PROVE  /\ Parameter(QueryString(f), k) = f[k]
         /\ f[k] # Absent => QueryString(f)[k] = f[k]
BY DEF Parameter, QueryString, Restrict

\* Whatever the bar holds, the API reads what it says.
LEMMA BarIsRead == ASSUME BarTypes PROVE AskedIsMeant
<1> DEFINE b == [bar EXCEPT !.search = settled]
           f == ToFilters(b, oneScan)
           q == QueryString(f)
<1>1. /\ b.triage = bar.triage /\ b.search = settled /\ b.sort = bar.sort /\ b.direction = bar.direction
      /\ bar.triage \in {"DEFAULT", "all", "FALSE_POSITIVE"} /\ bar.sort \in {"severity", "name"}
      /\ bar.direction \in {"asc", "desc"} /\ oneScan \in BOOLEAN
  BY DEF BarTypes, Bars
<1>2. /\ DOMAIN f = {"scanId", "q", "triage", "sort", "direction"}
      /\ f.scanId = IF oneScan THEN "scan" ELSE Absent
      /\ f.triage = IF bar.triage # "DEFAULT" THEN bar.triage ELSE IF oneScan THEN "all" ELSE Absent
      /\ f.sort = bar.sort /\ f.direction = bar.direction
  BY <1>1 DEF ToFilters
<1> HIDE DEF f, b
<1>3. /\ Parameter(q, "scanId") = f.scanId /\ Parameter(q, "triage") = f.triage
      /\ Parameter(q, "sort") = f.sort /\ Parameter(q, "direction") = f.direction
      /\ f.triage # Absent => q.triage = f.triage
      /\ f.sort # Absent => q.sort = f.sort
  BY <1>2, ParameterIs
<1> HIDE DEF q
<1>4. ParseSort(q) = [sort |-> bar.sort, direction |-> bar.direction]
  BY <1>1, <1>2, <1>3 DEF ParseSort, Absent
<1>5. /\ bar.triage = "all" \/ (bar.triage = "DEFAULT" /\ oneScan) => ParseTriage(q) = States
      /\ bar.triage = "DEFAULT" /\ ~oneScan => ParseTriage(q) = ActionableStates
      /\ bar.triage = "FALSE_POSITIVE" => ParseTriage(q) = {bar.triage}
  <2>1. ASSUME f.triage = "all" PROVE ParseTriage(q) = States
    <3>1. Parameter(q, "triage") = "all" /\ Parameter(q, "triage") \notin States
      BY <1>3, <2>1 DEF States
    <3> QED
      BY <3>1, Zenon DEF ParseTriage
  <2>2. ASSUME f.triage = "FALSE_POSITIVE" PROVE ParseTriage(q) = {"FALSE_POSITIVE"}
    <3>1. q.triage = "FALSE_POSITIVE"
      BY <1>3, <2>2 DEF Absent
    <3>2. Parameter(q, "triage") # "all" /\ Parameter(q, "triage") \in States
      BY <1>3, <2>2 DEF States
    <3>3. ParseTriage(q) = {q.triage}
      BY <3>2, Zenon DEF ParseTriage
    <3> QED
      BY <3>1, <3>3
  <2>3. ASSUME f.triage = Absent, f.scanId = Absent PROVE ParseTriage(q) = ActionableStates
    <3>1. /\ Parameter(q, "triage") # "all" /\ Parameter(q, "triage") \notin States
          /\ ~(Parameter(q, "scanId") # Absent)
      BY <1>3, <2>3 DEF Absent, States
    <3> QED
      BY <3>1, Zenon DEF ParseTriage
  <2> QED
    BY <1>2, <2>1, <2>2, <2>3
<1>6. Parameter(q, "scanId") # Absent <=> oneScan
  BY <1>2, <1>3 DEF Absent
<1>7. /\ Asks.states = ParseTriage(q) /\ Asks.order = ParseSort(q)
      /\ Asks.scan = (Parameter(q, "scanId") # Absent)
  BY DEF Asks, ParseListQuery, q, f, b
<1>8. Asks.scan = oneScan
  BY <1>1, <1>6, <1>7
<1>9. CASE bar.triage = "all" \/ (bar.triage = "DEFAULT" /\ oneScan)
  BY <1>4, <1>5, <1>7, <1>8, <1>9 DEF AskedIsMeant
<1>10. CASE bar.triage = "DEFAULT" /\ ~oneScan
  BY <1>4, <1>5, <1>7, <1>8, <1>10 DEF AskedIsMeant
<1>11. CASE bar.triage = "FALSE_POSITIVE"
  BY <1>4, <1>5, <1>7, <1>8, <1>11 DEF AskedIsMeant
<1> QED
  BY <1>1, <1>9, <1>10, <1>11

LEMMA NoFormIs ==
  /\ NoForm \in Forms /\ NoForm.typed = FALSE /\ NoForm.text = "" /\ NoRequest \in Requests
BY DEF NoForm, Forms, NoRequest, Requests, States, Texts

LEMMA DeskStarts == ASSUME DeskInit PROVE DeskInv
<1>1. ListTypes
  <2>1. rows = {} /\ selected = {} /\ sends = 0
    BY DEF DeskInit
  <2> QED
    BY <2>1, FindingsDeskAssumption DEF ListTypes
<1>2. BarTypes
  BY DEF DeskInit, BarTypes, Bars
<1>3. ServerTypes
  BY DEF DeskInit, ServerTypes, States, Texts
<1>4. HiddenHasReason
  BY DEF DeskInit, HiddenHasReason, JustifiedStates
<1>5. FormTypes /\ TextOfItsChoice
  BY NoFormIs DEF DeskInit, FormTypes, TextOfItsChoice
<1>6. SelectionUnderFilters
  BY DEF DeskInit, SelectionUnderFilters
<1> QED
  BY <1>1, <1>2, <1>3, <1>4, <1>5, <1>6 DEF DeskInv

\* A step that touches neither the form nor what is recorded.
Apart == UNCHANGED <<state, reason, form, sending>>

LEMMA ApartKeeps ==
  ASSUME DeskInv, Apart, ListTypes', BarTypes', SelectionUnderFilters'
  PROVE  DeskInv'
BY DEF DeskInv, Apart, ServerTypes, FormTypes, TextOfItsChoice, HiddenHasReason

\* A step of the form alone.
LEMMA FormKeeps ==
  ASSUME DeskInv, UNCHANGED <<oneScan, bar, settled, state, reason, rows>>,
         ListTypes', FormTypes', TextOfItsChoice', SelectionUnderFilters'
  PROVE  DeskInv'
BY DEF DeskInv, BarTypes, ServerTypes, HiddenHasReason

\* What is recorded has the reason its state calls for.
LEMMA RecordedIsJustified ==
  ASSUME ServerTypes, HiddenHasReason, NEW ids, NEW choice \in States, NEW text \in Texts,
         Accepts(ids, choice, text), Recorded(ids, choice, text)
  PROVE  ServerTypes' /\ HiddenHasReason'
<1>1. ServerTypes'
  BY DEF ServerTypes, Recorded
<1>2. choice \in JustifiedStates => text # ""
  BY DEF Accepts, Missing
<1>3. HiddenHasReason'
  BY <1>2 DEF HiddenHasReason, ServerTypes, Recorded
<1> QED
  BY <1>1, <1>3

LEMMA DeskSteps == ASSUME DeskInv, [DeskNext]_deskVars PROVE DeskInv'
<1> USE FindingsDeskAssumption
<1>1. /\ ListTypes /\ BarTypes /\ ServerTypes /\ FormTypes /\ TextOfItsChoice /\ HiddenHasReason
      /\ SelectionUnderFilters
  BY DEF DeskInv
<1>2. ASSUME NEW v \in {"DEFAULT", "all", "FALSE_POSITIVE"}, ChooseTriageFilter(v)
      PROVE  DeskInv'
  <2>1. Apart /\ ListTypes' /\ SelectionUnderFilters'
    BY <1>1, <1>2 DEF ChooseTriageFilter, FiltersChange, Apart, ListTypes, SelectionUnderFilters
  <2>2. BarTypes'
    BY <1>1, <1>2 DEF ChooseTriageFilter, BarTypes, Bars
  <2> QED
    BY <2>1, <2>2, ApartKeeps
<1>3. ASSUME NEW v \in {"severity", "name"}, ChooseSort(v) PROVE DeskInv'
  <2>1. Apart /\ ListTypes' /\ SelectionUnderFilters'
    BY <1>1, <1>3 DEF ChooseSort, FiltersChange, Apart, ListTypes, SelectionUnderFilters
  <2>2. BarTypes'
    BY <1>1, <1>3 DEF ChooseSort, BarTypes, Bars
  <2> QED
    BY <2>1, <2>2, ApartKeeps
<1>4. ASSUME NEW v \in {"", "text"}, TypeSearch(v) PROVE DeskInv'
  <2>1. Apart /\ ListTypes' /\ SelectionUnderFilters'
    BY <1>1, <1>4 DEF TypeSearch, Apart, ListTypes, SelectionUnderFilters
  <2>2. BarTypes'
    BY <1>1, <1>4 DEF TypeSearch, BarTypes, Bars
  <2> QED
    BY <2>1, <2>2, ApartKeeps
<1>5. CASE SearchSettles
  <2>1. /\ ListTypes' /\ SelectionUnderFilters' /\ UNCHANGED <<oneScan, bar, state, reason, sending>>
    BY <1>1, <1>5 DEF SearchSettles, FiltersChange, ListTypes, SelectionUnderFilters
  <2>2. BarTypes'
    BY <1>1, <1>5 DEF SearchSettles, BarTypes, Bars
  <2>3. form' \in {form, [form EXCEPT !.for = {}]}
    BY <1>5 DEF SearchSettles
  <2>4. /\ form' \in Forms /\ form'.typed = form.typed /\ form'.text = form.text
        /\ form'.prefill = form.prefill /\ form'.choice = form.choice /\ form'.initial = form.initial
    BY <1>1, <2>3 DEF FormTypes, Forms
  <2>5. FormTypes' /\ TextOfItsChoice'
    BY <1>1, <2>1, <2>4 DEF FormTypes, TextOfItsChoice
  <2> QED
    BY <1>1, <2>1, <2>2, <2>5 DEF DeskInv, ServerTypes, HiddenHasReason
<1>6. ASSUME NEW n \in PageSize..Cardinality(Desk), RowsArrive(n) PROVE DeskInv'
  <2>1. Apart /\ UNCHANGED <<oneScan, bar, settled, selected, picked, sends>> /\ rows' \subseteq Desk
    BY <1>6 DEF RowsArrive, FirstOf, Matching, Apart
  <2> QED
    BY <1>1, <2>1, ApartKeeps DEF ListTypes, BarTypes, SelectionUnderFilters
<1>7. CASE LoadMore
  <2>1. Apart /\ UNCHANGED <<oneScan, bar, settled, selected, picked, sends>> /\ rows' \subseteq Desk
    BY <1>1, <1>7 DEF LoadMore, FirstOf, Matching, Apart, ListTypes
  <2> QED
    BY <1>1, <2>1, ApartKeeps DEF ListTypes, BarTypes, SelectionUnderFilters
<1>8. CASE SelectAll
  <2>1. /\ Apart /\ UNCHANGED <<oneScan, bar, settled, rows, sends>>
        /\ picked' = selected' /\ selected' \subseteq rows
    BY <1>8 DEF SelectAll, Apart
  <2> QED
    BY <1>1, <2>1, ApartKeeps DEF ListTypes, BarTypes, SelectionUnderFilters
<1>9. ASSUME NEW f \in Desk, Select(f) PROVE DeskInv'
  <2>1. /\ Apart /\ UNCHANGED <<oneScan, bar, settled, rows, sends>>
        /\ selected' \subseteq selected \cup {f} /\ picked' = selected' \cap (picked \cup {f})
    BY <1>9 DEF Select, Apart
  <2>2. SelectionUnderFilters'
    BY <1>1, <2>1 DEF SelectionUnderFilters
  <2> QED
    BY <1>1, <2>1, <2>2, ApartKeeps DEF ListTypes, BarTypes
<1>10. ASSUME NEW f \in Desk, OpenFinding(f) PROVE DeskInv'
  <2>1. /\ UNCHANGED <<oneScan, bar, settled, state, reason, rows, picked, sending, sends>> /\ selected' = {}
        /\ form' = [for |-> {f}, initial |-> state[f], prefill |-> reason[f], choice |-> state[f],
                    text |-> reason[f], typed |-> FALSE]
    BY <1>10 DEF OpenFinding
  <2>2. state[f] \in States /\ reason[f] \in Texts
    BY <1>1 DEF ServerTypes
  <2>3. FormTypes' /\ TextOfItsChoice'
    BY <1>1, <2>1, <2>2 DEF FormTypes, Forms, TextOfItsChoice
  <2>4. ListTypes' /\ SelectionUnderFilters'
    BY <1>1, <2>1 DEF ListTypes, SelectionUnderFilters
  <2> QED
    BY <2>1, <2>3, <2>4, FormKeeps
<1>11. CASE OpenBulk
  <2>1. /\ UNCHANGED <<oneScan, bar, settled, state, reason, rows, selected, picked, sending, sends>>
        /\ form' = [NoForm EXCEPT !.for = selected]
    BY <1>11 DEF OpenBulk
  <2>2. selected \in SUBSET Desk
    BY <1>1 DEF ListTypes
  <2>3. form' \in Forms /\ form'.text = "" /\ ~form'.typed
    BY <2>1, <2>2, NoFormIs DEF Forms
  <2>4. FormTypes' /\ TextOfItsChoice'
    BY <1>1, <2>1, <2>3 DEF FormTypes, TextOfItsChoice
  <2>5. ListTypes' /\ SelectionUnderFilters'
    BY <1>1, <2>1 DEF ListTypes, SelectionUnderFilters
  <2> QED
    BY <2>1, <2>4, <2>5, FormKeeps
<1>12. CASE LeaveForm
  <2>1. /\ UNCHANGED <<oneScan, bar, settled, state, reason, rows, selected, picked, sending, sends>>
        /\ form' = NoForm
    BY <1>12 DEF LeaveForm
  <2>2. FormTypes' /\ TextOfItsChoice'
    BY <1>1, <2>1, NoFormIs DEF FormTypes, TextOfItsChoice
  <2>3. ListTypes' /\ SelectionUnderFilters'
    BY <1>1, <2>1 DEF ListTypes, SelectionUnderFilters
  <2> QED
    BY <2>1, <2>2, <2>3, FormKeeps
<1>13. CASE SubmitForm
  <2>1. /\ UNCHANGED <<oneScan, bar, settled, state, reason, rows, selected, picked, form>>
        /\ sends < MaxSends /\ sends' = sends + 1
        /\ sending' = [ids |-> form.for, choice |-> form.choice, text |-> form.text]
    BY <1>13 DEF SubmitForm
  <2>2. FormTypes' /\ TextOfItsChoice'
    BY <1>1, <2>1 DEF FormTypes, Forms, Requests, TextOfItsChoice
  <2>3. ListTypes' /\ SelectionUnderFilters'
    BY <1>1, <2>1 DEF ListTypes, SelectionUnderFilters
  <2> QED
    BY <2>1, <2>2, <2>3, FormKeeps
<1>14. CASE TriageAnswered
  <2>1. /\ UNCHANGED <<oneScan, bar, settled, picked, sends>> /\ form' = NoForm /\ sending' = NoRequest
        /\ selected' = {} /\ rows' \subseteq Desk
    BY <1>14 DEF TriageAnswered, FirstOf
  <2>2. /\ Accepts(sending.ids, sending.choice, sending.text)
        /\ Recorded(sending.ids, sending.choice, sending.text)
    BY <1>14 DEF TriageAnswered
  <2>3. sending.choice \in States /\ sending.text \in Texts
    BY <1>1 DEF FormTypes, Requests
  <2>4. ServerTypes' /\ HiddenHasReason'
    BY <1>1, <2>2, <2>3, RecordedIsJustified
  <2>5. FormTypes' /\ TextOfItsChoice'
    BY <2>1, NoFormIs DEF FormTypes, TextOfItsChoice
  <2>6. ListTypes' /\ BarTypes' /\ SelectionUnderFilters'
    BY <1>1, <2>1 DEF ListTypes, BarTypes, SelectionUnderFilters
  <2> QED
    BY <2>4, <2>5, <2>6 DEF DeskInv
<1>15. CASE TriageRefused
  <2>1. /\ UNCHANGED <<oneScan, bar, settled, state, reason, rows, selected, picked, form, sends>>
        /\ sending' = NoRequest
    BY <1>15 DEF TriageRefused
  <2>2. FormTypes' /\ TextOfItsChoice'
    BY <1>1, <2>1, NoFormIs DEF FormTypes, TextOfItsChoice
  <2>3. ListTypes' /\ SelectionUnderFilters'
    BY <1>1, <2>1 DEF ListTypes, SelectionUnderFilters
  <2> QED
    BY <2>1, <2>2, <2>3, FormKeeps
<1>16. ASSUME NEW v \in States, ChooseState(v) PROVE DeskInv'
  <2> DEFINE text == JustificationFor(v, form.text, form.initial, form.prefill)
  <2>1. /\ UNCHANGED <<oneScan, bar, settled, state, reason, rows, selected, picked, sending, sends>>
        /\ form' = [form EXCEPT !.choice = v, !.text = text]
    BY <1>16 DEF ChooseState
  <2>2. form.text \in Texts /\ form.prefill \in Texts
    BY <1>1 DEF FormTypes, Forms
  <2>3. text \in Texts
    BY <2>2 DEF JustificationFor, Texts
  <2>4. ~form.typed => text \in {"", form.prefill} /\ (text # "" => v = form.initial)
    <3> SUFFICES ASSUME ~form.typed
                 PROVE  text \in {"", form.prefill} /\ (text # "" => v = form.initial)
      OBVIOUS
    <3>1. form.text \in {"", form.prefill}
      BY <1>1 DEF TextOfItsChoice
    <3> QED
      BY <3>1 DEF text, JustificationFor
  <2> HIDE DEF text
  <2>5. /\ form' \in Forms /\ form'.typed = form.typed /\ form'.text = text /\ form'.choice = v
        /\ form'.prefill = form.prefill /\ form'.initial = form.initial
    BY <1>1, <2>1, <2>3 DEF FormTypes, Forms
  <2>6. FormTypes' /\ TextOfItsChoice'
    BY <1>1, <2>1, <2>4, <2>5 DEF FormTypes, TextOfItsChoice
  <2>7. ListTypes' /\ SelectionUnderFilters'
    BY <1>1, <2>1 DEF ListTypes, SelectionUnderFilters
  <2> QED
    BY <2>1, <2>6, <2>7, FormKeeps
<1>17. ASSUME NEW t \in {"", "typed"}, TypeReason(t) PROVE DeskInv'
  <2>1. /\ UNCHANGED <<oneScan, bar, settled, state, reason, rows, selected, picked, sending, sends>>
        /\ form' = [form EXCEPT !.text = t, !.typed = TRUE]
    BY <1>17 DEF TypeReason
  <2>2. t \in Texts
    BY DEF Texts
  <2>3. form' \in Forms /\ form'.typed = TRUE
    BY <1>1, <2>1, <2>2 DEF FormTypes, Forms
  <2>4. FormTypes' /\ TextOfItsChoice'
    BY <1>1, <2>1, <2>3 DEF FormTypes, TextOfItsChoice
  <2>5. ListTypes' /\ SelectionUnderFilters'
    BY <1>1, <2>1 DEF ListTypes, SelectionUnderFilters
  <2> QED
    BY <2>1, <2>4, <2>5, FormKeeps
<1>18. ASSUME NEW f \in Desk, NEW v \in States, NEW t \in {"", "recorded"}, TriagedElsewhere(f, v, t)
       PROVE  DeskInv'
  <2>1. /\ UNCHANGED <<oneScan, bar, settled, rows, selected, picked, form, sending, sends>>
        /\ Accepts({f}, v, t) /\ Recorded({f}, v, t)
    BY <1>18 DEF TriagedElsewhere
  <2>2. t \in Texts
    BY DEF Texts
  <2>3. ServerTypes' /\ HiddenHasReason'
    BY <1>1, <2>1, <2>2, RecordedIsJustified
  <2> QED
    BY <1>1, <2>1, <2>3 DEF DeskInv, ListTypes, BarTypes, FormTypes, TextOfItsChoice, SelectionUnderFilters
<1>19. CASE UNCHANGED deskVars
  BY <1>1, <1>19 DEF deskVars, DeskInv, ListTypes, BarTypes, ServerTypes, FormTypes, TextOfItsChoice,
     HiddenHasReason, SelectionUnderFilters
<1> QED
  BY <1>2, <1>3, <1>4, <1>5, <1>6, <1>7, <1>8, <1>9, <1>10, <1>11, <1>12, <1>13, <1>14, <1>15, <1>16,
     <1>17, <1>18, <1>19 DEF DeskNext

LEMMA DeskHolds == DeskSpec => []DeskInv
<1> QED
  BY DeskStarts, DeskSteps, PTL DEF DeskSpec

LEMMA DeskIsMeant == ASSUME DeskInv PROVE TriageAsMeant
<1>1. AskedIsMeant
  BY BarIsRead DEF DeskInv
<1>2. form.typed \in BOOLEAN
  BY DEF DeskInv, FormTypes, Forms
<1>3. ReasonOfItsState
  BY <1>2 DEF DeskInv, TextOfItsChoice, HiddenHasReason, ReasonOfItsState
<1> QED
  BY <1>1, <1>3 DEF DeskInv, TriageAsMeant

\* What is filtered, selected and recorded is what the analyst meant, for any findings,
\* page size, limit and number of requests: the API reads the query the bar stands for
\* (finding-filters.ts, findings.routes.ts), a selection was picked under the filters on
\* screen, no reason is sent with a state it was not given for (triage-form), and a
\* hidden finding has one.
THEOREM TriageHolds == DeskSpec => []TriageAsMeant
<1>1. DeskInv => TriageAsMeant
  BY DeskIsMeant
<1> QED
  BY <1>1, DeskHolds, PTL

LEMMA DeskTypeHolds == DeskSpec => []DeskTypeOK
<1>1. DeskInv => DeskTypeOK
  BY DEF DeskInv, ListTypes, ServerTypes, FormTypes, Forms, DeskTypeOK
<1> QED
  BY <1>1, DeskHolds, PTL

-----------------------------------------------------------------------------
(* The sign-in pages and the second factor. *)

Accounts == [status : {"none", "unverified", "verified"}, factor : {"off", "pending", "on"},
             codes : Nat, token : BOOLEAN]
Jars == [session : BOOLEAN, ticket : BOOLEAN]
Stashes == [address : BOOLEAN, endsAt : Nat]
Tabs == [view : AuthViews \cup {"app"}, dest : Destinations, endsAt : Nat,
         typed : SUBSET (Dialogs \cup {"view"}), dialog : Dialogs \cup {"none"},
         enrolment : [step : {"password", "verify", "backupCodes"}, codes : Nat], shown : Nat]
Kinds == {"signUp", "signIn", "confirm", "factor", "reset", "forgot", "enable", "activate",
          "disable", "regenerate", "resend", "change"}
Calls == [kind : Kinds, from : {"here", "away", "reset", "lost"},
          outcome : {"none", "refused", "ok", "unverified", "secondFactor"},
          dest : Destinations, codes : Nat]

AuthTyped ==
  /\ identity \in Accounts /\ jar \in Jars /\ stash \in Stashes /\ tab \in Tabs
  /\ calls \subseteq Calls /\ tick \in Nat /\ heardAt \in Nat /\ wanted \in Destinations

\* The end of a cooldown that is remembered lies a cooldown after the last code.
EndsLate(end) == end > 0 /\ heardAt > 0 => end >= heardAt + Cooldown

CooldownKept == heardAt <= tick /\ EndsLate(stash.endsAt) /\ EndsLate(tab.endsAt)

\* A request made from the view on screen knows where its visitor is going.
GoingWhereAsked ==
  /\ tab.view # "app" => tab.dest = wanted
  /\ \A c \in calls : c.from = "here" /\ c.kind \in {"signIn", "factor"} =>
       tab.view # "app" /\ c.dest = tab.dest

OnlyAway(cs) == \A c \in cs : c.from \in {"away", "lost"}

\* The tab shows another view, or the same anew.
Shows(view, dest) ==
  /\ \E end \in {0, EndOnMount} : tab' = [Mounted(view, dest) EXCEPT !.endsAt = end]
  /\ stash' \in Stashes /\ stash'.endsAt \in {stash.endsAt, 0, EndOnMount}

Leaves ==
  /\ \E view \in AuthViews \cup {"app"}, dest \in Destinations :
       Shows(view, dest) /\ (wanted' = dest \/ (view = "app" /\ wanted' = wanted))
  /\ calls' \subseteq Calls /\ OnlyAway(calls')
  /\ calls' \in {Away(calls), Lost(calls)} \/ \E c \in calls : calls' = Away(Forget(c))
  /\ jar' \in Jars /\ UNCHANGED <<identity, tick, heardAt>>

\* What a request of before is now.
Same(new, old) ==
  new.kind = old.kind /\ new.dest = old.dest /\ (new.from = "here" => old.from = "here")

\* A form of the view on screen sends a request.
SentHere(c) ==
  /\ c.dest = tab.dest
  /\ c.kind \in {"signIn", "factor"} => tab.view # "app"

\* The view stays, whatever happens in it.
Stays ==
  /\ tab' \in Tabs /\ tab'.view = tab.view /\ tab'.dest = tab.dest /\ tab'.endsAt = tab.endsAt
  /\ calls' \subseteq Calls
  /\ \A c \in calls' : SentHere(c) \/ \E old \in calls : Same(c, old)
  /\ identity' \in Accounts /\ jar' \in Jars
  /\ tick' \in Nat /\ tick' >= tick
  /\ UNCHANGED <<stash, heardAt, wanted>>

\* The tab hears that a code is on its way.
Hears ==
  /\ tab' = [tab EXCEPT !.endsAt = tick + Cooldown]
  /\ stash' = [stash EXCEPT !.endsAt = tick + Cooldown]
  /\ heardAt' = tick /\ calls' \subseteq calls
  /\ UNCHANGED <<identity, jar, tick, wanted>>

LEMMA AwayIs ==
  ASSUME NEW cs, cs \subseteq Calls
  PROVE  /\ Away(cs) \subseteq Calls /\ OnlyAway(Away(cs))
         /\ Lost(cs) \subseteq Calls /\ OnlyAway(Lost(cs))
BY DEF Away, Lost, OnlyAway, Calls

LEMMA EndIs == ASSUME stash \in Stashes, tick \in Nat PROVE EndOnMount \in Nat
BY AuthFlowsAssumption DEF EndOnMount, Stashes

LEMMA NavigationLeaves ==
  ASSUME AuthTyped,
         \/ \E p \in Destinations : Visit(p)
         \/ \E v \in AuthViews \ {"twoFactor", "resetPassword", "resetLinkSent"} : FollowLink(v)
         \/ ReloadTab \/ OpenResetLink \/ SignOutTab
  PROVE  Leaves
<1>0. EndOnMount \in Nat
  BY EndIs DEF AuthTyped
<1>1. /\ stash \in Stashes /\ stash.endsAt \in {stash.endsAt, 0} /\ jar \in Jars
      /\ "dashboard" \in Destinations /\ tab.dest \in Destinations
      /\ \A v \in AuthViews : v \in AuthViews \cup {"app"}
      /\ "app" \in AuthViews \cup {"app"} /\ "signIn" \in AuthViews \cup {"app"}
      /\ "resetPassword" \in AuthViews \cup {"app"} /\ tab.view \in AuthViews \cup {"app"}
  BY DEF AuthTyped, AuthViews, Destinations, Tabs
<1>2. /\ Away(calls) \subseteq Calls /\ OnlyAway(Away(calls))
      /\ Lost(calls) \subseteq Calls /\ OnlyAway(Lost(calls))
  BY AwayIs DEF AuthTyped
<1>3. ASSUME NEW p \in Destinations, Visit(p) PROVE Leaves
  <2>1. PICK view \in AuthViews \cup {"app"} : Shows(view, p)
    BY <1>0, <1>1, <1>3 DEF Visit, ShowIn, Shows, Stashes
  <2>2. calls' = Away(calls) /\ wanted' = p
        /\ UNCHANGED <<jar, identity, tick, heardAt>>
    BY <1>3 DEF Visit
  <2> QED
    BY <1>1, <1>2, <2>1, <2>2 DEF Leaves
<1>4. ASSUME NEW v \in AuthViews, FollowLink(v) PROVE Leaves
  <2>1. PICK dest \in Destinations : Shows(v, dest) /\ wanted' = dest
    BY <1>0, <1>1, <1>4 DEF FollowLink, ShowIn, Shows, Stashes
  <2>2. calls' = Away(calls)
        /\ UNCHANGED <<jar, identity, tick, heardAt>>
    BY <1>4 DEF FollowLink
  <2> QED
    BY <1>1, <1>2, <2>1, <2>2 DEF Leaves
<1>5. ASSUME ReloadTab PROVE Leaves
  <2>1. PICK view \in AuthViews \cup {"app"} : Shows(view, tab.dest)
    BY <1>0, <1>1, <1>5 DEF ReloadTab, ShowIn, Shows, Stashes
  <2>2. calls' = Lost(calls) /\ wanted' = tab.dest
        /\ UNCHANGED <<jar, identity, tick, heardAt>>
    BY <1>5 DEF ReloadTab
  <2> QED
    BY <1>1, <1>2, <2>1, <2>2 DEF Leaves
<1>6. ASSUME OpenResetLink PROVE Leaves
  <2>1. Shows("resetPassword", "dashboard")
    BY <1>0, <1>1, <1>6 DEF OpenResetLink, ShowIn, Shows, Stashes
  <2>2. /\ wanted' = "dashboard"
        /\ calls' = Lost(calls)
        /\ UNCHANGED <<jar, identity, tick, heardAt>>
    BY <1>6 DEF OpenResetLink
  <2> QED
    BY <1>1, <1>2, <2>1, <2>2 DEF Leaves
<1>7. ASSUME SignOutTab PROVE Leaves
  <2>1. Shows("signIn", "dashboard")
    BY <1>0, <1>1, <1>7 DEF SignOutTab, ShowIn, Shows, Stashes
  <2>2. /\ wanted' = "dashboard"
        /\ calls' = Away(calls) /\ identity' = identity /\ tick' = tick /\ heardAt' = heardAt
    BY <1>7 DEF SignOutTab
  <2>3. jar' \in Jars
    BY <1>1, <1>7 DEF SignOutTab, Jars
  <2> QED
    BY <1>1, <1>2, <2>1, <2>2, <2>3 DEF Leaves
<1> QED
  BY <1>3, <1>4, <1>5, <1>6, <1>7

\* A form that sends, and a dialog that opens, closes or is filled in.
LEMMA FormsStay ==
  ASSUME AuthTyped,
         \/ \E f \in Dialogs \cup {"view"} : TypeIn(f)
         \/ SubmitSignUp \/ SubmitSignIn \/ SubmitConfirmation \/ PressResend \/ SubmitForgot
         \/ SubmitReset \/ SubmitFactor \/ SubmitPasswordChange \/ SubmitEnrolment
         \/ SubmitDisable \/ SubmitRegenerate
         \/ CloseDialog \/ (\E d \in Dialogs : OpenDialog(d)) \/ AuthTick
  PROVE  Stays
<1>1. \A c \in calls : Same(c, c)
  BY DEF Same
<1>2. ASSUME NEW kind \in Kinds, Send(kind), kind \in {"signIn", "factor"} => tab.view # "app"
      PROVE Stays
  <2>1. [kind |-> kind, from |-> "here", outcome |-> "none", dest |-> tab.dest, codes |-> 0] \in Calls
    BY DEF AuthTyped, Tabs, Calls
  <2>2. calls' \subseteq Calls /\ \A c \in calls' : SentHere(c) \/ \E old \in calls : Same(c, old)
    BY <1>1, <1>2, <2>1 DEF AuthTyped, Send, SentHere
  <2> QED
    BY <1>2, <2>2 DEF AuthTyped, Send, Stays
<1>3. ASSUME NEW f \in Dialogs \cup {"view"}, TypeIn(f) PROVE Stays
  <2>1. /\ tab' \in Tabs /\ tab'.view = tab.view /\ tab'.dest = tab.dest /\ tab'.endsAt = tab.endsAt
    BY <1>3 DEF AuthTyped, TypeIn, Tabs
  <2> QED
    BY <1>1, <1>3, <2>1 DEF AuthTyped, TypeIn, Stays
<1>4. ASSUME NEW d \in Dialogs, OpenDialog(d) PROVE Stays
  <2>1. /\ tab' \in Tabs /\ tab'.view = tab.view /\ tab'.dest = tab.dest /\ tab'.endsAt = tab.endsAt
    BY <1>4 DEF AuthTyped, OpenDialog, Tabs
  <2> QED
    BY <1>1, <1>4, <2>1 DEF AuthTyped, OpenDialog, Stays
<1>5. ASSUME CloseDialog PROVE Stays
  <2>1. /\ tab' \in Tabs /\ tab'.view = tab.view /\ tab'.dest = tab.dest /\ tab'.endsAt = tab.endsAt
    BY <1>5 DEF AuthTyped, CloseDialog, Tabs, Enrolment
  <2>2. calls' \subseteq Calls
    BY <1>5 DEF AuthTyped, CloseDialog, Calls
  <2>3. \A c \in calls' : \E old \in calls : Same(c, old)
    BY <1>5 DEF AuthTyped, CloseDialog, Calls, Same
  <2> QED
    BY <1>5, <2>1, <2>2, <2>3 DEF AuthTyped, CloseDialog, Stays
<1>6. ASSUME AuthTick PROVE Stays
  BY <1>1, <1>6 DEF AuthTyped, AuthTick, Stays
<1>7. ASSUME \/ SubmitSignUp \/ SubmitSignIn \/ SubmitConfirmation \/ PressResend \/ SubmitForgot
             \/ SubmitReset \/ SubmitFactor \/ SubmitPasswordChange \/ SubmitEnrolment
             \/ SubmitDisable \/ SubmitRegenerate
      PROVE Stays
  <2>1. \E kind \in Kinds : Send(kind) /\ (kind \in {"signIn", "factor"} => tab.view # "app")
    BY <1>7 DEF SubmitSignUp, SubmitSignIn, SubmitConfirmation, PressResend, SubmitForgot,
       SubmitReset, SubmitFactor, SubmitPasswordChange, SubmitEnrolment, SubmitDisable,
       SubmitRegenerate, Submits, SignInFields, FactorFields, Kinds
  <2> QED
    BY <1>2, <2>1
<1> QED
  BY <1>3, <1>4, <1>5, <1>6, <1>7

LEMMA HandlingStays ==
  ASSUME AuthTyped, NEW c \in calls, Handle(c)
  PROVE  Stays
<1>1. \A d \in calls : Same(d, d)
  BY DEF Same
<1>2. c \in Calls /\ identity \in Accounts /\ jar \in Jars
  BY DEF AuthTyped
<1>3. \A o \in {"refused", "ok", "unverified", "secondFactor"} :
        Done(c, o) \in Calls /\ Same(Done(c, o), c)
  BY <1>2 DEF Done, Calls, Same
<1>4. Refused(c) \in Calls /\ Same(Refused(c), c)
  BY <1>2 DEF Refused, Calls, Same
<1>5. \A n \in Nat : [Done(c, "ok") EXCEPT !.codes = n] \in Calls /\ Same([Done(c, "ok") EXCEPT !.codes = n], c)
  BY <1>2 DEF Done, Calls, Same
<1>6. identity.codes + 1 \in Nat
  BY <1>2 DEF Accounts
<1>7. \E new \in Calls : Same(new, c) /\ calls' = (calls \ {c}) \cup {new}
  BY <1>3, <1>4, <1>5, <1>6 DEF Handle, HandleSignUp, HandleSignIn, HandleConfirmation, HandleFactor, HandleReset,
     HandleForgot,
     HandleEnable, HandleActivate, HandleDisable, HandleRegenerate
<1>8. calls' \subseteq Calls /\ \A d \in calls' : \E old \in calls : Same(d, old)
  BY <1>1, <1>7 DEF AuthTyped
<1>9. identity' \in Accounts
  <2>1. ASSUME HandleSignUp(c) PROVE identity' \in Accounts
    BY <1>2, <1>6, <2>1 DEF HandleSignUp, Accounts
  <2>2. ASSUME HandleConfirmation(c) PROVE identity' \in Accounts
    BY <1>2, <1>6, <2>2 DEF HandleConfirmation, Accounts
  <2>3. ASSUME HandleReset(c) PROVE identity' \in Accounts
    BY <1>2, <1>6, <2>3 DEF HandleReset, Accounts
  <2>4. ASSUME HandleForgot(c) PROVE identity' \in Accounts
    BY <1>2, <1>6, <2>4 DEF HandleForgot, Accounts
  <2>5. ASSUME HandleEnable(c) PROVE identity' \in Accounts
    BY <1>2, <1>6, <2>5 DEF HandleEnable, Accounts
  <2>6. ASSUME HandleActivate(c) PROVE identity' \in Accounts
    BY <1>2, <1>6, <2>6 DEF HandleActivate, Accounts
  <2>7. ASSUME HandleDisable(c) PROVE identity' \in Accounts
    BY <1>2, <1>6, <2>7 DEF HandleDisable, Accounts
  <2>8. ASSUME HandleRegenerate(c) PROVE identity' \in Accounts
    BY <1>2, <1>6, <2>8 DEF HandleRegenerate, Accounts
  <2>9. ASSUME identity' = identity PROVE identity' \in Accounts
    BY <1>2, <2>9
  <2> QED
    BY <2>1, <2>2, <2>3, <2>4, <2>5, <2>6, <2>7, <2>8, <2>9 DEF Handle, HandleSignIn, HandleFactor
<1>10. jar' \in Jars
  BY <1>2 DEF Handle, Jars, HandleSignUp, HandleSignIn, HandleConfirmation, HandleFactor, HandleReset,
     HandleForgot,
     HandleEnable, HandleActivate, HandleDisable, HandleRegenerate
<1> QED
  BY <1>8, <1>9, <1>10 DEF Stays, Handle, AuthTyped

Departs(c) ==
  \/ AnswerSignIn(c) \/ AnswerSignUp(c) \/ AnswerConfirmation(c) \/ AnswerFactor(c)
  \/ AnswerForgot(c) \/ AnswerReset(c)

LEMMA AnsweringLeaves ==
  ASSUME AuthTyped, NEW c \in calls, Answered(c), Departs(c)
  PROVE  Leaves
<1>0. EndOnMount \in Nat /\ 0 \in Nat
  BY EndIs DEF AuthTyped
<1>1. /\ c \in Calls /\ c.dest \in Destinations /\ c.codes \in Nat /\ stash \in Stashes /\ tab \in Tabs
      /\ "dashboard" \in Destinations /\ UNCHANGED <<identity, jar, tick>>
      /\ identity \in Accounts /\ jar \in Jars /\ tick \in Nat /\ tick >= tick
  BY DEF AuthTyped, Calls, Destinations, Answered
<1>2. /\ Away(Forget(c)) \subseteq Calls /\ OnlyAway(Away(Forget(c)))
      /\ Forget(c) \subseteq Calls /\ Forget(c) \subseteq calls
  BY AwayIs DEF AuthTyped, Forget
<1>3. \A d \in calls : Same(d, d)
  BY DEF Same
<1>4. /\ \A v \in {"twoFactor", "app", "verifyEmail", "signIn", "resetLinkSent"} :
           v \in AuthViews \cup {"app"}
      /\ [stash EXCEPT !.address = TRUE] \in Stashes
      /\ [stash EXCEPT !.address = FALSE, !.endsAt = 0] \in Stashes
  BY <1>1 DEF AuthViews, Stashes
<1>5. ASSUME NEW d \in Destinations, calls' = Away(Forget(c)), heardAt' = heardAt,
             \E view \in {"twoFactor", "app", "verifyEmail", "signIn", "resetLinkSent"} :
                Shows(view, d) /\ (wanted' = d \/ (view = "app" /\ wanted' = wanted))
      PROVE Leaves
  BY <1>1, <1>2, <1>4, <1>5 DEF Leaves
<1>9. CASE AnswerSignIn(c)
  <2>1. CASE c.outcome = "unverified"
    BY <1>0, <1>1, <1>4, <1>5, <1>9, <2>1 DEF AnswerSignIn, LeaveFor, ShowIn, Shows, Stashes
  <2>2. CASE c.outcome = "secondFactor"
    BY <1>0, <1>1, <1>4, <1>5, <1>9, <2>2 DEF AnswerSignIn, ContinueSignIn, LeaveFor, ShowIn, Shows, Stashes
  <2>3. CASE c.outcome \notin {"unverified", "secondFactor"}
    BY <1>0, <1>1, <1>4, <1>5, <1>9, <2>3 DEF AnswerSignIn, ContinueSignIn, LeaveFor, ShowIn, Shows, Stashes
  <2> QED
    BY <2>1, <2>2, <2>3
<1>10. CASE AnswerSignUp(c)
  BY <1>0, <1>1, <1>4, <1>5, <1>10 DEF AnswerSignUp, LeaveFor, ShowIn, Shows, Stashes
<1>11. CASE AnswerConfirmation(c)
  BY <1>0, <1>1, <1>4, <1>5, <1>11 DEF AnswerConfirmation, LeaveFor, ShowIn, Shows, Stashes
<1>12. CASE AnswerFactor(c)
  BY <1>0, <1>1, <1>4, <1>5, <1>12 DEF AnswerFactor, LeaveFor, ShowIn, Shows, Stashes
<1>13. CASE AnswerForgot(c)
  BY <1>0, <1>1, <1>4, <1>5, <1>13 DEF AnswerForgot, LeaveFor, ShowIn, Shows, Stashes
<1>14. CASE AnswerReset(c)
  BY <1>0, <1>1, <1>4, <1>5, <1>14 DEF AnswerReset, LeaveFor, ShowIn, Shows, Stashes
<1> QED
  BY <1>9, <1>10, <1>11, <1>12, <1>13, <1>14 DEF Departs

LEMMA AnsweringMoves ==
  ASSUME AuthTyped, NEW c \in calls, Answered(c)
  PROVE  Leaves \/ Stays \/ Hears
<1>0. EndOnMount \in Nat /\ 0 \in Nat
  BY EndIs DEF AuthTyped
<1>1. /\ c \in Calls /\ c.dest \in Destinations /\ c.codes \in Nat /\ stash \in Stashes /\ tab \in Tabs
      /\ "dashboard" \in Destinations /\ UNCHANGED <<identity, jar, tick>>
      /\ identity \in Accounts /\ jar \in Jars /\ tick \in Nat /\ tick >= tick
  BY DEF AuthTyped, Calls, Destinations, Answered
<1>2. /\ Away(Forget(c)) \subseteq Calls /\ OnlyAway(Away(Forget(c)))
      /\ Forget(c) \subseteq Calls /\ Forget(c) \subseteq calls
  BY AwayIs DEF AuthTyped, Forget
<1>3. \A d \in calls : Same(d, d)
  BY DEF Same
<1>6. ASSUME tab' \in Tabs, tab'.view = tab.view, tab'.dest = tab.dest, tab'.endsAt = tab.endsAt,
             calls' = Forget(c), UNCHANGED <<stash, heardAt, wanted>>
      PROVE Stays
  BY <1>1, <1>2, <1>3, <1>6 DEF Stays
<1>7. CASE c.outcome = "refused" /\ AnswerRefused(c)
  <2>1. tab' \in Tabs /\ tab'.view = tab.view /\ tab'.dest = tab.dest /\ tab'.endsAt = tab.endsAt
    BY <1>1, <1>7 DEF AnswerRefused, Tabs
  <2> QED
    BY <1>6, <1>7, <2>1 DEF AnswerRefused
<1>8. CASE c.from = "lost" /\ calls' = Forget(c) /\ UNCHANGED <<stash, tab, heardAt, wanted>>
  BY <1>1, <1>6, <1>8
<1>9. CASE Departs(c)
  BY <1>9, AnsweringLeaves
<1>15. CASE AnswerChange(c)
  <2>1. tab' \in Tabs /\ tab'.view = tab.view /\ tab'.dest = tab.dest /\ tab'.endsAt = tab.endsAt
    BY <1>1, <1>15 DEF AnswerChange, Tabs
  <2> QED
    BY <1>6, <1>15, <2>1 DEF AnswerChange
<1>16. CASE AnswerResend(c)
  <2>1. CASE c.from = "here"
    BY <1>1, <1>2, <1>16, <2>1 DEF AnswerResend, Hears
  <2>2. CASE c.from # "here"
    BY <1>1, <1>6, <1>16, <2>2 DEF AnswerResend
  <2> QED
    BY <2>1, <2>2
<1>17. CASE c.kind \in {"enable", "activate", "disable", "regenerate"} /\ AnswerDialog(c)
  <2>1. tab' \in Tabs /\ tab'.view = tab.view /\ tab'.dest = tab.dest /\ tab'.endsAt = tab.endsAt
    BY <1>1, <1>17 DEF AnswerDialog, Tabs
  <2> QED
    BY <1>6, <1>17, <2>1 DEF AnswerDialog
<1> QED
  BY <1>7, <1>8, <1>9, <1>15, <1>16, <1>17 DEF Answered, Departs

LEMMA AuthMoves ==
  ASSUME AuthTyped, AuthNext
  PROVE  Leaves \/ Stays \/ Hears
BY NavigationLeaves, FormsStay, HandlingStays, AnsweringMoves DEF AuthNext

LEMMA AuthStarts ==
  ASSUME AuthInit PROVE AuthTyped /\ CooldownKept /\ GoingWhereAsked
<1>1. AuthTyped
  BY DEF AuthInit, AuthTyped, Accounts, Jars, Stashes, Tabs, Mounted, Enrolment, AuthViews, Destinations
<1> QED
  BY <1>1 DEF AuthInit, CooldownKept, EndsLate, GoingWhereAsked, Mounted

LEMMA AuthSteps ==
  ASSUME AuthTyped, CooldownKept, GoingWhereAsked, [AuthNext]_authVars
  PROVE  (AuthTyped /\ CooldownKept /\ GoingWhereAsked)'
<1>0. EndOnMount \in Nat
  BY EndIs DEF AuthTyped
<1>1. CASE Leaves
  <2>1. PICK view \in AuthViews \cup {"app"}, dest \in Destinations, end \in {0, EndOnMount} :
          /\ tab' = [Mounted(view, dest) EXCEPT !.endsAt = end]
          /\ wanted' = dest \/ (view = "app" /\ wanted' = wanted)
    BY <1>1 DEF Leaves, Shows
  <2>2. stash' \in Stashes /\ stash'.endsAt \in {stash.endsAt, 0, EndOnMount}
    BY <1>1 DEF Leaves, Shows
  <2>3. tab'.view = view /\ tab'.dest = dest /\ tab'.endsAt = end /\ tab' \in Tabs
    BY <1>0, <2>1 DEF Mounted, Tabs, Enrolment
  <2>4. AuthTyped'
    BY <1>1, <2>1, <2>2, <2>3 DEF AuthTyped, Leaves
  <2>5. EndsLate(EndOnMount)
    BY AuthFlowsAssumption DEF AuthTyped, Stashes, CooldownKept, EndsLate, EndOnMount
  <2>6. CooldownKept'
    BY <1>1, <2>2, <2>3, <2>5 DEF CooldownKept, EndsLate, Leaves
  <2>7. GoingWhereAsked'
    BY <1>1, <2>1, <2>3 DEF GoingWhereAsked, Leaves, OnlyAway
  <2> QED
    BY <2>4, <2>6, <2>7
<1>2. CASE Stays
  <2>1. AuthTyped'
    BY <1>2 DEF AuthTyped, Stays
  <2>2. CooldownKept'
    BY <1>2 DEF AuthTyped, CooldownKept, EndsLate, Stays
  <2>3. GoingWhereAsked'
    BY <1>2 DEF GoingWhereAsked, Stays, SentHere, Same
  <2> QED
    BY <2>1, <2>2, <2>3
<1>3. CASE Hears
  <2>1. tick + Cooldown \in Nat
    BY AuthFlowsAssumption DEF AuthTyped
  <2>2. /\ tab' \in Tabs /\ tab'.view = tab.view /\ tab'.dest = tab.dest
        /\ tab'.endsAt = tick + Cooldown /\ stash' \in Stashes /\ stash'.endsAt = tick + Cooldown
    BY <1>3, <2>1 DEF AuthTyped, Hears, Tabs, Stashes
  <2>3. AuthTyped'
    BY <1>3, <2>2 DEF AuthTyped, Hears
  <2>4. CooldownKept'
    BY <1>3, <2>1, <2>2 DEF AuthTyped, CooldownKept, EndsLate, Hears
  <2>5. GoingWhereAsked'
    BY <1>3, <2>2 DEF GoingWhereAsked, Hears
  <2> QED
    BY <2>3, <2>4, <2>5
<1>4. CASE UNCHANGED authVars
  BY <1>4 DEF authVars, AuthTyped, CooldownKept, EndsLate, GoingWhereAsked
<1> QED
  BY <1>1, <1>2, <1>3, <1>4, AuthMoves

LEMMA PressedLate == ASSUME AuthTyped, CooldownKept PROVE ResendsApart
BY AuthFlowsAssumption DEF AuthTyped, Tabs, CooldownKept, EndsLate, ResendsApart, PressResend, CanResend

LEMMA LandsWhereAsked == ASSUME AuthTyped, GoingWhereAsked PROVE DestinationKept
<1> SUFFICES ASSUME NEW c \in calls, Answered(c), c.kind \in {"signIn", "factor"}, c.from = "here",
                    tab'.view = "app"
             PROVE  tab'.dest = wanted
  BY DEF DestinationKept
<1>1. c.dest = wanted /\ tab.view # "app" /\ tab \in Tabs
  BY DEF GoingWhereAsked, AuthTyped
<1>2. CASE AnswerRefused(c)
  BY <1>1, <1>2 DEF AnswerRefused, Tabs
<1>3. CASE AnswerSignIn(c)
  BY <1>1, <1>3 DEF AnswerSignIn, ContinueSignIn, LeaveFor, ShowIn, Mounted
<1>4. CASE AnswerFactor(c)
  BY <1>1, <1>4 DEF AnswerFactor, LeaveFor, ShowIn, Mounted
<1> QED
  BY <1>2, <1>3, <1>4 DEF Answered

\* Where at most one request is under way: what its answer says of the codes is still so
\* when it comes, and it does not come into a dialog that shows others.
CallTrue(c) ==
  /\ c.kind \in {"enable", "regenerate"} => c.outcome \in {"none", "refused", "ok"}
  /\ c.kind = "enable" /\ c.outcome = "none" =>
       tab.enrolment.codes = 0 /\ (tab.dialog = "regenerate" => identity.factor = "on")
  /\ c.kind = "enable" /\ c.outcome = "ok" => c.codes = identity.codes /\ identity.factor = "pending"
  /\ c.kind = "activate" /\ tab.enrolment.codes # 0 => tab.dialog = "enable"
  /\ c.kind = "regenerate" /\ c.outcome = "none" =>
       tab.shown = 0 /\ (tab.dialog = "enable" => identity.factor # "on")
  /\ c.kind = "regenerate" /\ c.outcome = "ok" => c.codes = identity.codes

EnrolmentTrue ==
  /\ Taken(tab.enrolment.codes)
  /\ tab.enrolment.step = "password" => tab.enrolment.codes = 0
  /\ tab.enrolment.codes # 0 /\ tab.dialog # "enable" => identity.factor # "on"

CodesInv ==
  /\ \A c, d \in calls : c = d
  /\ \A c \in calls : CallTrue(c)
  /\ EnrolmentTrue

LEMMA OnlyCall ==
  ASSUME CodesInv, NEW c \in calls
  PROVE  calls = {c} /\ Forget(c) = {} /\ Away(Forget(c)) = {}
BY DEF CodesInv, Forget, Away

\* A step of the tab that leaves its dialogs alone.
LEMMA DialogsAlone ==
  ASSUME AuthTyped, CodesInv, tab'.enrolment = tab.enrolment, tab'.dialog = tab.dialog,
         tab'.shown = tab.shown, identity' = identity, calls' \subseteq calls
  PROVE  CodesInv' /\ CodesWork
BY DEF CodesInv, CallTrue, EnrolmentTrue, Taken, CodesWork

LEMMA LeavingForgets ==
  ASSUME AuthTyped, CodesInv, Leaves PROVE CodesInv' /\ CodesWork
<1>1. tab'.enrolment = Enrolment /\ tab'.dialog = "none" /\ tab'.shown = 0 /\ identity' = identity
  BY DEF Leaves, Shows, Mounted
<1>2. \A c, d \in calls' : c = d
  BY DEF Leaves, CodesInv, Away, Lost, Forget
<1>3. \A new \in calls' : \E old \in calls :
        new.kind = old.kind /\ new.outcome = old.outcome /\ new.codes = old.codes
  BY DEF Leaves, Away, Lost, Forget, AuthTyped, Calls
<1>4. \A c \in calls' : CallTrue(c)'
  BY <1>1, <1>3 DEF CodesInv, CallTrue, Enrolment
<1>5. EnrolmentTrue'
  BY <1>1 DEF EnrolmentTrue, Taken, Enrolment
<1> QED
  BY <1>1, <1>2, <1>4, <1>5 DEF CodesInv, EnrolmentTrue, CodesWork, Taken

LEMMA FormsKeepCodes ==
  ASSUME AuthTyped, CodesInv, MaxCalls <= 1,
         \/ \E f \in Dialogs \cup {"view"} : TypeIn(f)
         \/ SubmitSignUp \/ SubmitSignIn \/ SubmitConfirmation \/ PressResend \/ SubmitForgot
         \/ SubmitReset \/ SubmitFactor \/ SubmitPasswordChange \/ SubmitEnrolment
         \/ SubmitDisable \/ SubmitRegenerate
         \/ CloseDialog \/ (\E d \in Dialogs : OpenDialog(d)) \/ AuthTick
  PROVE  CodesInv' /\ CodesWork
<1>0. tab \in Tabs /\ identity \in Accounts /\ calls \subseteq Calls
  BY DEF AuthTyped
<1>1. ASSUME NEW f \in Dialogs \cup {"view"}, TypeIn(f) PROVE CodesInv' /\ CodesWork
  BY <1>0, <1>1, DialogsAlone DEF TypeIn, Tabs
<1>2. ASSUME AuthTick PROVE CodesInv' /\ CodesWork
  BY <1>2, DialogsAlone DEF AuthTick
<1>3. ASSUME NEW d \in Dialogs, OpenDialog(d) PROVE CodesInv' /\ CodesWork
  <2>1. /\ tab'.enrolment = tab.enrolment /\ tab'.dialog = d /\ tab'.shown = tab.shown
        /\ identity' = identity /\ calls' = calls /\ tab.dialog = "none"
        /\ d = "enable" <=> identity.factor # "on"
    BY <1>0, <1>3 DEF OpenDialog, Tabs, Dialogs
  <2>2. \A c \in calls' : CallTrue(c)'
    BY <2>1 DEF CodesInv, CallTrue, EnrolmentTrue, Dialogs
  <2> QED
    BY <2>1, <2>2 DEF CodesInv, EnrolmentTrue, CodesWork, Taken
<1>4. ASSUME CloseDialog PROVE CodesInv' /\ CodesWork
  <2>1. /\ tab'.dialog = "none" /\ identity' = identity
        /\ tab.dialog = "enable" => tab'.enrolment = Enrolment
        /\ tab.dialog # "enable" => tab'.enrolment = tab.enrolment
        /\ tab'.shown \in {0, tab.shown}
    BY <1>0, <1>4 DEF CloseDialog, Tabs
  <2>2. \A new \in calls' : \E old \in calls :
          new.kind = old.kind /\ new.outcome = old.outcome /\ new.codes = old.codes
    BY <1>0, <1>4 DEF CloseDialog, Calls
  <2>3. \A c, d \in calls' : c = d
    BY <1>4 DEF CloseDialog, CodesInv
  <2>4. \A c \in calls' : CallTrue(c)'
    BY <2>1, <2>2 DEF CodesInv, CallTrue, Enrolment
  <2>5. EnrolmentTrue'
    BY <2>1 DEF CodesInv, EnrolmentTrue, Taken, Enrolment
  <2> QED
    BY <2>1, <2>3, <2>4, <2>5 DEF CodesInv, EnrolmentTrue, CodesWork, Taken
<1>5. ASSUME NEW kind \in Kinds, Send(kind),
             kind = "enable" => tab.enrolment.codes = 0 /\ tab.dialog = "enable",
             kind = "activate" => tab.dialog = "enable",
             kind = "regenerate" => tab.shown = 0 /\ tab.dialog = "regenerate"
      PROVE CodesInv' /\ CodesWork
  <2>1. calls = {}
    <3>1. ASSUME NEW c \in calls PROVE FALSE
      <4>1. calls = {c}
        BY OnlyCall
      <4>2. Cardinality(calls) = 1
        BY <4>1, FS_Singleton
      <4> QED
        BY <1>5, <4>2, AuthFlowsAssumption DEF Send
    <3> QED
      BY <3>1
  <2>2. /\ calls' = {[kind |-> kind, from |-> "here", outcome |-> "none", dest |-> tab.dest, codes |-> 0]}
        /\ tab' = tab /\ identity' = identity
    BY <1>5, <2>1 DEF Send
  <2>3. \A c \in calls' : CallTrue(c)'
    BY <1>5, <2>2 DEF CallTrue
  <2> QED
    BY <2>2, <2>3 DEF CodesInv, EnrolmentTrue, CodesWork, Taken
<1>6. ASSUME SubmitEnrolment PROVE CodesInv' /\ CodesWork
  <2>1. CASE tab.enrolment.step = "password" /\ Submits("enable", EnrolmentFields, "enable")
    BY <1>5, <2>1 DEF Submits, EnrolmentFields, Kinds, CodesInv, EnrolmentTrue
  <2>2. CASE Submits("enable", EnrolmentFields, "activate")
    BY <1>5, <2>2 DEF Submits, EnrolmentFields, Kinds
  <2> QED
    BY <1>6, <2>1, <2>2 DEF SubmitEnrolment
<1>7. ASSUME SubmitRegenerate PROVE CodesInv' /\ CodesWork
  BY <1>5, <1>7 DEF SubmitRegenerate, Submits, RegenerateFields, Kinds
<1>8. ASSUME \/ SubmitSignUp \/ SubmitSignIn \/ SubmitConfirmation \/ PressResend \/ SubmitForgot
             \/ SubmitReset \/ SubmitFactor \/ SubmitPasswordChange \/ SubmitDisable
      PROVE CodesInv' /\ CodesWork
  <2>1. \E kind \in Kinds \ {"enable", "activate", "regenerate"} : Send(kind)
    BY <1>8 DEF SubmitSignUp, SubmitSignIn, SubmitConfirmation, PressResend, SubmitForgot,
       SubmitReset, SubmitFactor, SubmitPasswordChange, SubmitDisable, Submits, Kinds
  <2> QED
    BY <1>5, <2>1
<1> QED
  BY <1>1, <1>2, <1>3, <1>4, <1>6, <1>7, <1>8

LEMMA HandlingKeepsCodes ==
  ASSUME AuthTyped, CodesInv, NEW c \in calls, Handle(c)
  PROVE  CodesInv' /\ CodesWork
<1>0. /\ c \in Calls /\ identity \in Accounts /\ CallTrue(c) /\ calls = {c}
      /\ tab' = tab /\ c.outcome = "none"
  BY OnlyCall DEF AuthTyped, CodesInv, Handle
<1>1. ASSUME NEW d \in Calls, calls' = (calls \ {c}) \cup {d}, CallTrue(d)', EnrolmentTrue',
             tab.dialog = "regenerate" /\ Taken(tab.shown) => Taken(tab.shown)'
      PROVE CodesInv' /\ CodesWork
  BY <1>0, <1>1 DEF CodesInv, EnrolmentTrue, CodesWork
<1>2. /\ Done(c, "ok") \in Calls /\ Done(c, "ok").kind = c.kind /\ Done(c, "ok").outcome = "ok"
      /\ Refused(c) \in Calls /\ Refused(c).kind = c.kind /\ Refused(c).outcome = "refused"
      /\ \A n \in Nat : LET d == [Done(c, "ok") EXCEPT !.codes = n] IN
           d \in Calls /\ d.kind = c.kind /\ d.outcome = "ok" /\ d.codes = n
  BY <1>0 DEF Done, Refused, Calls
<1>3. CASE c.kind = "enable" /\ HandleEnable(c)
  <2>1. identity.codes + 1 \in Nat /\ identity.codes + 1 # 0
    BY <1>0 DEF Accounts
  <2>2. identity'.codes = identity.codes + 1 /\ identity'.factor = "pending" /\ identity.factor # "on"
    BY <1>0, <1>3 DEF HandleEnable, Accounts
  <2>3. PICK d \in Calls :
          /\ d.kind = "enable" /\ d.outcome = "ok" /\ d.codes = identity.codes + 1
          /\ calls' = (calls \ {c}) \cup {d}
    BY <1>2, <1>3, <2>1 DEF HandleEnable
  <2>4. tab.enrolment.codes = 0 /\ tab.dialog # "regenerate"
    BY <1>0, <1>3, <2>2 DEF CallTrue
  <2>5. CallTrue(d)'
    BY <2>2, <2>3 DEF CallTrue
  <2>6. EnrolmentTrue'
    BY <1>0, <2>4 DEF EnrolmentTrue, Taken
  <2> QED
    BY <1>1, <2>3, <2>4, <2>5, <2>6
<1>4. CASE c.kind = "regenerate" /\ HandleRegenerate(c)
  <2>1. identity.codes + 1 \in Nat
    BY <1>0 DEF Accounts
  <2>2. identity'.codes = identity.codes + 1 /\ identity'.factor = "on" /\ identity.factor = "on"
    BY <1>0, <1>4 DEF HandleRegenerate, Accounts
  <2>3. PICK d \in Calls :
          /\ d.kind = "regenerate" /\ d.outcome = "ok" /\ d.codes = identity.codes + 1
          /\ calls' = (calls \ {c}) \cup {d}
    BY <1>2, <1>4, <2>1 DEF HandleRegenerate
  <2>4. tab.shown = 0 /\ tab.enrolment.codes = 0
    BY <1>0, <1>4, <2>2 DEF CallTrue, CodesInv, EnrolmentTrue
  <2>5. CallTrue(d)'
    BY <2>2, <2>3 DEF CallTrue
  <2>6. EnrolmentTrue'
    BY <1>0, <2>4 DEF EnrolmentTrue, Taken
  <2>7. Taken(tab.shown)'
    BY <1>0, <2>4 DEF Taken
  <2> QED
    BY <1>1, <2>3, <2>5, <2>6, <2>7
<1>5. CASE c.kind = "activate" /\ HandleActivate(c)
  <2>1. identity'.codes = identity.codes
    BY <1>0, <1>5 DEF HandleActivate, Accounts
  <2>2. CallTrue(Done(c, "ok"))'
    BY <1>0, <1>2, <1>5 DEF CallTrue
  <2>3. EnrolmentTrue'
    BY <1>0, <1>5, <2>1 DEF CallTrue, CodesInv, EnrolmentTrue, Taken
  <2>4. Taken(tab.shown) => Taken(tab.shown)'
    BY <1>0, <2>1 DEF Taken
  <2> QED
    BY <1>1, <1>2, <1>5, <2>2, <2>3, <2>4 DEF HandleActivate
<1>6. CASE c.kind = "disable" /\ HandleDisable(c)
  <2>1. identity'.codes = identity.codes /\ identity'.factor = "off"
    BY <1>0, <1>6 DEF HandleDisable, Accounts
  <2>2. CallTrue(Done(c, "ok"))'
    BY <1>0, <1>2, <1>6 DEF CallTrue
  <2>3. EnrolmentTrue'
    BY <1>0, <2>1 DEF CodesInv, EnrolmentTrue, Taken
  <2>4. Taken(tab.shown) => Taken(tab.shown)'
    BY <1>0, <2>1 DEF Taken
  <2> QED
    BY <1>1, <1>2, <1>6, <2>2, <2>3, <2>4 DEF HandleDisable
<1>7. ASSUME NEW d \in Calls, calls' = (calls \ {c}) \cup {d}, d.kind = c.kind,
             c.kind \notin {"enable", "activate", "regenerate"} \/ d.outcome = "refused",
             identity'.codes = identity.codes, identity'.factor = identity.factor
      PROVE CodesInv' /\ CodesWork
  <2>1. CallTrue(d)'
    BY <1>0, <1>7 DEF CallTrue
  <2>2. EnrolmentTrue' /\ (Taken(tab.shown) => Taken(tab.shown)')
    BY <1>0, <1>7 DEF CodesInv, EnrolmentTrue, Taken
  <2> QED
    BY <1>1, <1>7, <2>1, <2>2
<1>8. CASE calls' = (calls \ {c}) \cup {Refused(c)} /\ identity' = identity
  BY <1>2, <1>7, <1>8
<1>9. CASE /\ c.kind \in {"signUp", "signIn", "confirm", "factor", "reset", "forgot", "resend", "change"}
           /\ ~(calls' = (calls \ {c}) \cup {Refused(c)} /\ identity' = identity)
  <2>1. \A o \in {"refused", "ok", "unverified", "secondFactor"} :
          Done(c, o) \in Calls /\ Done(c, o).kind = c.kind
    BY <1>0 DEF Done, Calls
  <2>2. \E d \in Calls : d.kind = c.kind /\ calls' = (calls \ {c}) \cup {d}
    BY <1>2, <1>9, <2>1 DEF Handle, HandleSignUp, HandleSignIn, HandleConfirmation, HandleFactor,
       HandleReset, HandleForgot
  <2>3. identity'.codes = identity.codes /\ identity'.factor = identity.factor
    BY <1>0, <1>9 DEF Accounts, Handle, HandleSignUp, HandleSignIn, HandleConfirmation, HandleFactor,
       HandleReset, HandleForgot
  <2> QED
    BY <1>7, <1>9, <2>2, <2>3
<1> QED
  BY <1>0, <1>3, <1>4, <1>5, <1>6, <1>8, <1>9 DEF Handle

LEMMA AnsweringKeepsCodes ==
  ASSUME AuthTyped, CodesInv, NEW c \in calls, Answered(c)
  PROVE  CodesInv' /\ CodesWork
<1>0. /\ c \in Calls /\ tab \in Tabs /\ CallTrue(c) /\ calls = {c} /\ Forget(c) = {}
      /\ identity' = identity
  BY OnlyCall DEF AuthTyped, CodesInv, Answered
<1>3. CASE c.outcome # "refused" /\ c.from # "lost"
           /\ c.kind \in {"enable", "activate", "disable", "regenerate"} /\ AnswerDialog(c)
  <2>0. c.outcome # "none"
    BY DEF Answered
  <2>1. calls' = {}
    BY <1>0, <1>3 DEF AnswerDialog
  <2>2. CASE tab' = tab
    BY <1>0, <2>1, <2>2, DialogsAlone
  <2>3. CASE c.kind = "enable" /\ tab' # tab
    <3>1. /\ tab'.enrolment = [step |-> "verify", codes |-> c.codes] /\ tab'.dialog = tab.dialog
          /\ tab'.shown = tab.shown
      BY <1>0, <1>3, <2>3 DEF AnswerDialog, Tabs
    <3>2. c.outcome = "ok"
      BY <1>0, <1>3, <2>3 DEF CallTrue, Answered
    <3>3. c.codes = identity.codes /\ identity.factor = "pending"
      BY <1>0, <2>3, <3>2 DEF CallTrue
    <3> QED
      BY <1>0, <2>1, <3>1, <3>3 DEF CodesInv, EnrolmentTrue, CodesWork, Taken
  <2>4. CASE c.kind = "activate" /\ tab' # tab
    <3>1. /\ tab'.enrolment.step = "backupCodes" /\ tab'.enrolment.codes = tab.enrolment.codes
          /\ tab'.dialog = tab.dialog /\ tab'.shown = tab.shown
      BY <1>0, <1>3, <2>4 DEF AnswerDialog, Tabs
    <3> QED
      BY <1>0, <2>1, <3>1 DEF CodesInv, EnrolmentTrue, CodesWork, Taken
  <2>5. CASE c.kind = "disable" /\ tab' # tab
    <3>1. /\ tab'.enrolment = tab.enrolment /\ tab'.shown = tab.shown
          /\ tab'.dialog = "enable" => tab.dialog = "enable"
          /\ tab.dialog = "enable" => tab'.dialog = "enable"
      BY <1>0, <1>3, <2>5 DEF AnswerDialog, Tabs
    <3> QED
      BY <1>0, <2>1, <3>1 DEF CodesInv, EnrolmentTrue, CodesWork, Taken
  <2>6. CASE c.kind = "regenerate" /\ tab' # tab
    <3>1. /\ tab'.enrolment = tab.enrolment /\ tab'.dialog = tab.dialog /\ tab'.shown = c.codes
      BY <1>0, <1>3, <2>6 DEF AnswerDialog, Tabs
    <3>2. c.outcome = "ok"
      BY <1>0, <1>3, <2>6 DEF CallTrue, Answered
    <3>3. c.codes = identity.codes
      BY <1>0, <2>6, <3>2 DEF CallTrue
    <3> QED
      BY <1>0, <2>1, <3>1, <3>3 DEF CodesInv, EnrolmentTrue, CodesWork, Taken
  <2> QED
    BY <1>3, <2>2, <2>3, <2>4, <2>5, <2>6
<1>4. CASE AnswerRefused(c)
  <2>1. tab'.enrolment = tab.enrolment /\ tab'.dialog = tab.dialog /\ tab'.shown = tab.shown
    BY <1>0, <1>4 DEF AnswerRefused, Tabs
  <2> QED
    BY <1>0, <1>4, <2>1, DialogsAlone DEF AnswerRefused
<1>5. CASE AnswerChange(c)
  <2>1. tab'.enrolment = tab.enrolment /\ tab'.dialog = tab.dialog /\ tab'.shown = tab.shown
    BY <1>0, <1>5 DEF AnswerChange, Tabs
  <2> QED
    BY <1>0, <1>5, <2>1, DialogsAlone DEF AnswerChange
<1>6. CASE calls' = Forget(c) /\ UNCHANGED <<stash, tab, heardAt, wanted>>
  BY <1>0, <1>6, DialogsAlone
<1>7. CASE AnswerResend(c) /\ c.from # "here"
  BY <1>0, <1>7, DialogsAlone DEF AnswerResend
<1>8. CASE AnswerResend(c) /\ c.from = "here"
  <2>1. tab'.enrolment = tab.enrolment /\ tab'.dialog = tab.dialog /\ tab'.shown = tab.shown
    BY <1>0, <1>8 DEF AnswerResend, Tabs
  <2> QED
    BY <1>0, <1>8, <2>1, DialogsAlone DEF AnswerResend
<1>9. CASE Departs(c)
  BY <1>9, AnsweringLeaves, LeavingForgets
<1> QED
  BY <1>3, <1>4, <1>5, <1>6, <1>7, <1>8, <1>9 DEF Answered, Departs

LEMMA CodesStart == ASSUME AuthInit PROVE CodesInv
BY DEF AuthInit, CodesInv, EnrolmentTrue, Taken, Mounted, Enrolment

LEMMA CodesStep ==
  ASSUME AuthTyped, CodesInv, MaxCalls <= 1, [AuthNext]_authVars
  PROVE  CodesInv' /\ (CodesWork \/ UNCHANGED authVars)
<1>1. CASE UNCHANGED authVars
  BY <1>1 DEF authVars, CodesInv, CallTrue, EnrolmentTrue, Taken
<1>2. CASE AuthNext
  BY <1>2, NavigationLeaves, LeavingForgets, FormsKeepCodes, HandlingKeepsCodes, AnsweringKeepsCodes DEF AuthNext
<1> QED
  BY <1>1, <1>2

LEMMA PromisesKept ==
  AuthTyped /\ CooldownKept /\ GoingWhereAsked => ResendsApart /\ DestinationKept
BY PressedLate, LandsWhereAsked

\* A resend is asked for a cooldown after the tab heard of the last (useResendCooldown),
\* and who completes a sign-in lands on the page they were sent away from
\* (useSignInContinuation): for any number of requests under way, and any cooldown.
THEOREM PromisesHold == AuthSpec => [][ResendsApart /\ DestinationKept]_authVars
<1>1. AuthSpec => [](AuthTyped /\ CooldownKept /\ GoingWhereAsked)
  BY AuthStarts, AuthSteps, PTL DEF AuthSpec
<1> QED
  BY <1>1, PromisesKept, PTL

\* And the codes on screen are those the API takes (enable-two-factor-dialog.tsx,
\* regenerate-backup-codes-dialog.tsx), however often they are drawn, where one request
\* is under way at a time: a second one may be handled before a first that was sent
\* before a reload, which draws the codes anew.
THEOREM JourneysHold == ASSUME MaxCalls <= 1 PROVE AuthSpec => JourneysKept
<1>1. AuthSpec => [](AuthTyped /\ CooldownKept /\ GoingWhereAsked)
  BY AuthStarts, AuthSteps, PTL DEF AuthSpec
<1>2. AuthTyped /\ CodesInv /\ [AuthNext]_authVars => CodesInv'
  BY CodesStep
<1>3. AuthTyped /\ CodesInv /\ [AuthNext]_authVars => [CodesWork]_authVars
  BY CodesStep
<1> QED
  BY <1>1, <1>2, <1>3, PromisesKept, CodesStart, PTL DEF AuthSpec, JourneysKept

\* The bounds of the model, on the clock, the codes and the requests under way.
ClockBound == tick <= MaxTick /\ stash.endsAt <= MaxTick + Cooldown
CodesBound ==
  /\ identity.codes <= MaxGenerations /\ tab.shown <= MaxGenerations
  /\ \A c \in calls : c.codes <= MaxGenerations
CallsBound == IsFiniteSet(calls) /\ Cardinality(calls) <= MaxCalls

\* No more requests than before.
NoMore(new, old) == IsFiniteSet(old) => IsFiniteSet(new) /\ Cardinality(new) <= Cardinality(old)

LEMMA SubsetNoMore == ASSUME NEW old, NEW new, new \subseteq old PROVE NoMore(new, old)
BY FS_Subset DEF NoMore

LEMMA ImageNoMore ==
  ASSUME NEW old, NEW new, NEW g, g \in [old -> new], \A d \in new : \E c \in old : g[c] = d
  PROVE  NoMore(new, old)
BY FS_Surjection DEF NoMore, Surjection

LEMMA AwayNoMore == ASSUME NEW cs PROVE NoMore(Away(cs), cs)
<1> DEFINE g == [c \in cs |-> [c EXCEPT !.from = "away"]]
<1>1. g \in [cs -> Away(cs)] /\ \A d \in Away(cs) : \E c \in cs : g[c] = d
  BY DEF Away
<1> HIDE DEF g
<1> QED
  BY <1>1, ImageNoMore

LEMMA LostNoMore == ASSUME NEW cs PROVE NoMore(Lost(cs), cs)
<1> DEFINE waiting == {c \in cs : c.outcome = "none"}
           g == [c \in waiting |-> [c EXCEPT !.from = "lost"]]
<1>1. g \in [waiting -> Lost(cs)] /\ \A d \in Lost(cs) : \E c \in waiting : g[c] = d
  BY DEF Lost
<1> HIDE DEF g
<1>2. NoMore(Lost(cs), waiting)
  BY <1>1, ImageNoMore
<1>3. NoMore(waiting, cs)
  BY SubsetNoMore
<1> QED
  BY <1>2, <1>3, FS_CardinalityType DEF NoMore

LEMMA SwapNoMore ==
  ASSUME NEW cs, NEW c \in cs, NEW d
  PROVE  NoMore((cs \ {c}) \cup {d}, cs)
<1> SUFFICES ASSUME IsFiniteSet(cs)
             PROVE  /\ IsFiniteSet((cs \ {c}) \cup {d})
                    /\ Cardinality((cs \ {c}) \cup {d}) <= Cardinality(cs)
  BY DEF NoMore
<1> DEFINE rest == cs \ {c}
<1>1. IsFiniteSet(rest) /\ Cardinality(rest) = Cardinality(cs) - 1 /\ Cardinality(cs) \in Nat
  BY FS_RemoveElement, FS_CardinalityType
<1> HIDE DEF rest
<1>2. /\ IsFiniteSet(rest \cup {d})
      /\ Cardinality(rest \cup {d}) = IF d \in rest THEN Cardinality(rest) ELSE Cardinality(rest) + 1
  BY <1>1, FS_AddElement
<1> QED
  BY <1>1, <1>2, FS_CardinalityType DEF rest

\* The kinds of step, as far as the bounds tell them apart.
Sends == \E kind \in Kinds : Send(kind)
Renewed(c) ==
  /\ tick' = tick /\ stash' = stash /\ tab' = tab
  /\ \E d \in Calls :
       /\ calls' = (calls \ {c}) \cup {d}
       /\ \/ d.codes = c.codes /\ identity'.codes = identity.codes
          \/ /\ identity.codes < MaxGenerations /\ d.codes = identity.codes + 1
             /\ identity'.codes = d.codes
Others ==
  /\ tick' = tick \/ AuthTick
  /\ stash'.endsAt \in {stash.endsAt, 0, EndOnMount, tick + Cooldown}
  /\ tab'.shown \in {tab.shown, 0} \cup {c.codes : c \in calls}
  /\ identity' = identity /\ NoMore(calls', calls)
  /\ \A d \in calls' : \E c \in calls : d.codes = c.codes

LEMMA HandlingRenews == ASSUME AuthTyped, NEW c \in calls, Handle(c) PROVE Renewed(c)
<1>1. c \in Calls /\ identity \in Accounts
  BY DEF AuthTyped
<1>2. /\ \A o \in {"refused", "ok", "unverified", "secondFactor"} : Done(c, o) \in Calls /\ Done(c, o).codes = c.codes
      /\ Refused(c) \in Calls /\ Refused(c).codes = c.codes
      /\ \A n \in Nat : [Done(c, "ok") EXCEPT !.codes = n] \in Calls /\ [Done(c, "ok") EXCEPT !.codes = n].codes = n
  BY <1>1 DEF Done, Refused, Calls
<1>3. identity.codes \in Nat /\ identity.codes + 1 \in Nat
  BY <1>1 DEF Accounts
<1>4. tick' = tick /\ stash' = stash /\ tab' = tab
  BY DEF Handle
<1>5. CASE HandleEnable(c) \/ HandleRegenerate(c)
  <2>1. identity'.codes = identity.codes + 1 /\ identity.codes < MaxGenerations
    BY <1>1, <1>5 DEF HandleEnable, HandleRegenerate, Accounts, Fresh
  <2> QED
    BY <1>2, <1>3, <1>4, <1>5, <2>1 DEF Renewed, HandleEnable, HandleRegenerate
<1>6. CASE ~(HandleEnable(c) \/ HandleRegenerate(c))
  <2>1. identity'.codes = identity.codes
    BY <1>1, <1>6 DEF Handle, HandleSignUp, HandleSignIn, HandleConfirmation, HandleFactor, HandleReset,
       HandleForgot, HandleActivate, HandleDisable, Accounts
  <2>2. PICK d \in Calls : d.codes = c.codes /\ calls' = (calls \ {c}) \cup {d}
    BY <1>2, <1>6 DEF Handle, HandleSignUp, HandleSignIn, HandleConfirmation, HandleFactor, HandleReset,
       HandleForgot, HandleActivate, HandleDisable
  <2> QED
    BY <1>4, <2>1, <2>2 DEF Renewed
<1> QED
  BY <1>5, <1>6

\* What a tab that is loaded anew or shows another view holds.
LEMMA LeavingIsBounded == ASSUME AuthTyped, Leaves PROVE Others
<1>1. tick' = tick /\ identity' = identity /\ tab'.shown = 0
      /\ stash'.endsAt \in {stash.endsAt, 0, EndOnMount}
  BY DEF Leaves, Shows, Mounted
<1>2. ASSUME NEW c \in calls PROVE NoMore(Away(Forget(c)), calls)
  <2>1. NoMore(Away(Forget(c)), Forget(c)) /\ NoMore(Forget(c), calls)
    BY AwayNoMore, SubsetNoMore DEF Forget
  <2> QED
    BY <2>1, FS_CardinalityType DEF NoMore
<1>3. NoMore(calls', calls)
  BY <1>2, AwayNoMore, LostNoMore DEF Leaves
<1>4. \A d \in calls' : \E c \in calls : d.codes = c.codes
  BY DEF Leaves, Away, Lost, Forget, AuthTyped, Calls
<1> QED
  BY <1>1, <1>3, <1>4 DEF Others

LEMMA AnswersAreBounded == ASSUME AuthTyped, NEW c \in calls, Answered(c) PROVE Others
<1>1. CASE Departs(c)
  BY <1>1, AnsweringLeaves, LeavingIsBounded
<1>2. CASE ~Departs(c)
  <2>1. calls' = Forget(c)
    BY <1>2 DEF Answered, Departs, AnswerRefused, AnswerChange, AnswerResend, AnswerDialog
  <2>2. NoMore(calls', calls) /\ \A d \in calls' : \E b \in calls : d.codes = b.codes
    BY <2>1, SubsetNoMore DEF Forget
  <2>3. tab'.shown \in {tab.shown, c.codes}
    BY <1>2 DEF Answered, Departs, AnswerRefused, AnswerChange, AnswerResend, AnswerDialog, AuthTyped, Tabs
  <2>4. stash'.endsAt \in {stash.endsAt, tick + Cooldown}
    BY <1>2 DEF Answered, Departs, AnswerRefused, AnswerChange, AnswerResend, AnswerDialog, AuthTyped, Stashes
  <2>5. tick' = tick /\ identity' = identity
    BY DEF Answered
  <2> QED
    BY <2>2, <2>3, <2>4, <2>5 DEF Others
<1> QED
  BY <1>1, <1>2

LEMMA TypingIsBounded ==
  ASSUME AuthTyped,
         \/ \E f \in Dialogs \cup {"view"} : TypeIn(f)
         \/ CloseDialog \/ (\E d \in Dialogs : OpenDialog(d)) \/ AuthTick
  PROVE  Others
<1>1. NoMore(calls, calls) /\ \A d \in calls : \E b \in calls : d.codes = b.codes
  BY SubsetNoMore
<1>2. CASE CloseDialog
  <2> DEFINE g == [c \in calls |-> IF c.kind = tab.dialog /\ c.kind # "disable" /\ c.from = "here"
                                  THEN [c EXCEPT !.from = "reset"] ELSE c]
  <2>1. g \in [calls -> calls'] /\ \A d \in calls' : \E c \in calls : g[c] = d
    BY <1>2 DEF CloseDialog
  <2>2. \A c \in calls : g[c].codes = c.codes
    BY DEF AuthTyped, Calls
  <2> HIDE DEF g
  <2>3. NoMore(calls', calls) /\ \A d \in calls' : \E c \in calls : d.codes = c.codes
    BY <2>1, <2>2, ImageNoMore
  <2>4. tab'.shown \in {tab.shown, 0}
    BY <1>2 DEF CloseDialog, AuthTyped, Tabs
  <2> QED
    BY <1>2, <2>3, <2>4 DEF CloseDialog, Others
<1>3. CASE AuthTick
  BY <1>1, <1>3 DEF AuthTick, Others
<1>4. CASE (\E f \in Dialogs \cup {"view"} : TypeIn(f)) \/ (\E d \in Dialogs : OpenDialog(d))
  <2>1. tab'.shown = tab.shown
    BY <1>4 DEF TypeIn, OpenDialog, AuthTyped, Tabs
  <2> QED
    BY <1>1, <1>4, <2>1 DEF TypeIn, OpenDialog, Others
<1> QED
  BY <1>2, <1>3, <1>4

LEMMA StepsAreBounded ==
  ASSUME AuthTyped, AuthNext
  PROVE  Sends \/ (\E c \in calls : Renewed(c)) \/ Others
<1>1. CASE \/ SubmitSignUp \/ SubmitSignIn \/ SubmitConfirmation \/ PressResend \/ SubmitForgot
           \/ SubmitReset \/ SubmitFactor \/ SubmitPasswordChange \/ SubmitEnrolment
           \/ SubmitDisable \/ SubmitRegenerate
  BY <1>1 DEF SubmitSignUp, SubmitSignIn, SubmitConfirmation, PressResend, SubmitForgot,
     SubmitReset, SubmitFactor, SubmitPasswordChange, SubmitEnrolment, SubmitDisable,
     SubmitRegenerate, Submits, Kinds, Sends
<1>2. CASE \E c \in calls : Handle(c) \/ Answered(c)
  BY <1>2, HandlingRenews, AnswersAreBounded
<1>3. CASE \/ \E p \in Destinations : Visit(p)
           \/ \E v \in AuthViews \ {"twoFactor", "resetPassword", "resetLinkSent"} : FollowLink(v)
           \/ ReloadTab \/ OpenResetLink \/ SignOutTab
  BY <1>3, NavigationLeaves, LeavingIsBounded
<1>4. CASE \/ \E f \in Dialogs \cup {"view"} : TypeIn(f)
           \/ CloseDialog \/ (\E d \in Dialogs : OpenDialog(d)) \/ AuthTick
  BY <1>4, TypingIsBounded
<1> QED
  BY <1>1, <1>2, <1>3, <1>4 DEF AuthNext

LEMMA BoundsStart == ASSUME AuthInit PROVE ClockBound /\ CodesBound /\ CallsBound
<1>1. IsFiniteSet({}) /\ Cardinality({}) = 0
  BY FS_EmptySet
<1> QED
  BY <1>1, AuthFlowsAssumption DEF AuthInit, Mounted, ClockBound, CodesBound, CallsBound

LEMMA BoundsKeep ==
  ASSUME AuthTyped, ClockBound, CodesBound, CallsBound, [AuthNext]_authVars
  PROVE  (ClockBound /\ CodesBound /\ CallsBound)'
<1>0. /\ EndOnMount \in {stash.endsAt, tick + Cooldown} /\ stash.endsAt \in Nat /\ tick \in Nat
      /\ identity.codes \in Nat /\ tab.shown \in Nat /\ \A c \in calls : c.codes \in Nat
      /\ Cooldown \in Nat /\ MaxTick \in Nat /\ MaxGenerations \in Nat \ {0} /\ MaxCalls \in Nat
  BY AuthFlowsAssumption DEF AuthTyped, Accounts, Tabs, Stashes, Calls, EndOnMount
<1>1. CASE Sends
  <2>1. PICK kind \in Kinds : Send(kind)
    BY <1>1 DEF Sends
  <2> DEFINE new == [kind |-> kind, from |-> "here", outcome |-> "none", dest |-> tab.dest, codes |-> 0]
  <2>2. new.codes = 0 /\ calls' = calls \cup {new} /\ Cardinality(calls) < MaxCalls
        /\ UNCHANGED <<identity, stash, tab, tick>>
    BY <2>1 DEF Send
  <2> HIDE DEF new
  <2>3. CallsBound'
    <3>1. IsFiniteSet(calls) /\ Cardinality(calls) \in Nat
      BY FS_CardinalityType DEF CallsBound
    <3>2. /\ IsFiniteSet(calls \cup {new})
          /\ Cardinality(calls \cup {new}) = IF new \in calls THEN Cardinality(calls) ELSE Cardinality(calls) + 1
      BY <3>1, FS_AddElement
    <3> QED
      BY <1>0, <2>2, <3>1, <3>2 DEF CallsBound
  <2> QED
    BY <1>0, <2>2, <2>3 DEF ClockBound, CodesBound
<1>2. CASE \E c \in calls : Renewed(c)
  <2>1. PICK c \in calls : Renewed(c)
    BY <1>2
  <2>2. PICK d \in Calls : /\ calls' = (calls \ {c}) \cup {d}
                           /\ d.codes <= MaxGenerations /\ identity'.codes <= MaxGenerations
    BY <1>0, <2>1 DEF Renewed, CodesBound
  <2>3. CallsBound'
    <3>1. NoMore(calls', calls)
      BY <2>2, SwapNoMore
    <3>2. IsFiniteSet(calls') /\ Cardinality(calls') <= Cardinality(calls) /\ Cardinality(calls) <= MaxCalls
      BY <3>1 DEF CallsBound, NoMore
    <3>3. Cardinality(calls') \in Nat /\ Cardinality(calls) \in Nat
      BY <3>2, FS_CardinalityType DEF CallsBound
    <3> QED
      BY <1>0, <3>2, <3>3 DEF CallsBound
  <2> QED
    BY <2>1, <2>2, <2>3 DEF ClockBound, CodesBound, Renewed
<1>3. CASE Others
  <2>1. CallsBound'
    BY <1>0, <1>3, FS_CardinalityType DEF CallsBound, Others, NoMore
  <2>2. tick' <= MaxTick /\ stash'.endsAt <= MaxTick + Cooldown
    BY <1>0, <1>3 DEF ClockBound, Others, AuthTick
  <2>3. CodesBound'
    BY <1>0, <1>3 DEF CodesBound, Others
  <2> QED
    BY <2>1, <2>2, <2>3 DEF ClockBound
<1>4. CASE UNCHANGED authVars
  BY <1>4 DEF authVars, ClockBound, CodesBound, CallsBound
<1> QED
  BY <1>1, <1>2, <1>3, <1>4, StepsAreBounded

LEMMA AuthTypeHolds == AuthSpec => []AuthTypeOK
<1>1. AuthTyped /\ ClockBound /\ CodesBound /\ CallsBound => AuthTypeOK
  BY DEF AuthTyped, Accounts, Tabs, Stashes, ClockBound, CodesBound, CallsBound, AuthTypeOK
<1>2. AuthSpec => [](AuthTyped /\ CooldownKept /\ GoingWhereAsked)
  BY AuthStarts, AuthSteps, PTL DEF AuthSpec
<1> QED
  BY <1>1, <1>2, BoundsStart, BoundsKeep, PTL DEF AuthSpec

-----------------------------------------------------------------------------
(* The listing of findings, page by page. *)

Rows == [severity : Nat, cvss : Nat \cup {NoScore}]
RowsTyped == found \in [Finding -> Rows]

\* One key of the order: strict, total on rows that differ in it, transitive.
LEMMA KeyOrder ==
  ASSUME NEW u \in Nat \cup {NoScore}, NEW v \in Nat \cup {NoScore},
         NEW w \in Nat \cup {NoScore}, NEW dir
  PROVE  /\ u # v => Precedes(u, v, dir) \/ Precedes(v, u, dir)
         /\ ~(Precedes(u, v, dir) /\ Precedes(v, u, dir)) /\ ~Precedes(u, u, dir)
         /\ Precedes(u, v, dir) /\ Precedes(v, w, dir) => Precedes(u, w, dir)
BY FindingsAssumption DEF Precedes

\* What the cursor takes for the values that follow one: those the order puts behind it.
LEMMA PastKey ==
  ASSUME NEW u \in Nat \cup {NoScore}, NEW v \in Nat \cup {NoScore}, NEW dir
  PROVE  /\ Beyond(v, u, dir) => u # v
         /\ u = NoScore => ~Precedes(u, v, dir)
         /\ u # NoScore => (Precedes(u, v, dir) <=> Beyond(v, u, dir) \/ v = NoScore)
BY FindingsAssumption DEF Precedes, Beyond

\* The order of the database is a strict total order of the rows, and what follows a
\* row by the cursor is what follows it in that order.
LEMMA RowOrder ==
  ASSUME RowsTyped, NEW f \in Finding, NEW g \in Finding, NEW h \in Finding,
         NEW sort, NEW dir
  PROVE  /\ f # g => Before(f, g, sort, dir) \/ Before(g, f, sort, dir)
         /\ ~(Before(f, g, sort, dir) /\ Before(g, f, sort, dir)) /\ ~Before(f, f, sort, dir)
         /\ Before(f, g, sort, dir) /\ Before(g, h, sort, dir) => Before(f, h, sort, dir)
         /\ After(g, f, sort, dir) <=> Before(f, g, sort, dir)
<1> DEFINE S(x) == found[x].severity
           C(x) == found[x].cvss
           P(u, v) == Precedes(u, v, dir)
           Key == Nat \cup {NoScore}
<1>1. \A x \in Finding : x \in Nat /\ S(x) \in Key /\ C(x) \in Key
  BY FindingsAssumption DEF RowsTyped, Rows
<1> DEFINE B(x, y) == \/ sort = "severity" /\ S(x) # S(y) /\ P(S(x), S(y))
                      \/ (sort = "severity" => S(x) = S(y)) /\ C(x) # C(y) /\ P(C(x), C(y))
                      \/ (sort = "severity" => S(x) = S(y)) /\ C(x) = C(y) /\ x < y
<1>2. \A x, y \in Finding : Before(x, y, sort, dir) <=> B(x, y)
  BY DEF Before, AheadOn
<1>3. ASSUME NEW x \in Finding, NEW y \in Finding
      PROVE  After(y, x, sort, dir) <=> B(x, y)
  <2>1. /\ Beyond(S(y), S(x), dir) => S(x) # S(y)
        /\ S(x) = NoScore => ~P(S(x), S(y))
        /\ S(x) # NoScore => (P(S(x), S(y)) <=> Beyond(S(y), S(x), dir) \/ S(y) = NoScore)
    BY <1>1, PastKey
  <2>2. /\ Beyond(C(y), C(x), dir) => C(x) # C(y)
        /\ C(x) = NoScore => ~P(C(x), C(y))
        /\ C(x) # NoScore => (P(C(x), C(y)) <=> Beyond(C(y), C(x), dir) \/ C(y) = NoScore)
    BY <1>1, PastKey
  <2>3. (y > x) <=> (x < y)
    BY <1>1
  <2>4. AfterOn("cvss", y, x, dir, y > x)
          <=> (C(x) # C(y) /\ P(C(x), C(y))) \/ (C(x) = C(y) /\ x < y)
    <3> HIDE DEF P
    <3> QED
      BY <2>2, <2>3 DEF AfterOn
  <2>5. AfterOn("severity", y, x, dir, AfterOn("cvss", y, x, dir, y > x))
          <=> (S(x) # S(y) /\ P(S(x), S(y)))
                \/ (S(x) = S(y) /\ AfterOn("cvss", y, x, dir, y > x))
    <3> DEFINE rest == AfterOn("cvss", y, x, dir, y > x)
    <3> HIDE DEF P, rest
    <3> QED
      BY <2>1 DEF AfterOn
  <2> QED
    BY <2>4, <2>5 DEF After
<1> DEFINE Chain(u, v, w) == /\ u # v => P(u, v) \/ P(v, u)
                             /\ ~(P(u, v) /\ P(v, u)) /\ ~P(u, u)
                             /\ P(u, v) /\ P(v, w) => P(u, w)
<1>4. Chain(S(f), S(g), S(h)) /\ Chain(C(f), C(g), C(h))
  <2>1. ASSUME NEW u \in Key, NEW v \in Key, NEW w \in Key PROVE Chain(u, v, w)
    BY KeyOrder
  <2> HIDE DEF Chain
  <2> QED
    BY <1>1, <2>1
<1>5. f \in Nat /\ g \in Nat /\ h \in Nat
  BY <1>1
<1> HIDE DEF S, C, P, Key
<1>6. /\ f # g => B(f, g) \/ B(g, f)
      /\ ~(B(f, g) /\ B(g, f)) /\ ~B(f, f)
      /\ B(f, g) /\ B(g, h) => B(f, h)
  BY <1>4, <1>5
<1> QED
  BY <1>2, <1>3, <1>6

\* Sorted() lists every row of a set once, in the order of the database.
LEMMA SortedIs ==
  ASSUME RowsTyped, NEW fs, fs \subseteq Finding, NEW sort, NEW dir
  PROVE  LET n == Cardinality(fs)
             s == Sorted(fs, sort, dir) IN
         /\ n \in Nat /\ s \in [1..n -> fs]
         /\ \A i, j \in 1..n : i < j => Before(s[i], s[j], sort, dir)
         /\ \A f \in fs : \E i \in 1..n : s[i] = f
<1> DEFINE n == Cardinality(fs)
           lower(f) == {g \in fs : Before(g, f, sort, dir)}
           rank == [f \in fs |-> Cardinality(lower(f)) + 1]
           s == Sorted(fs, sort, dir)
<1>1. IsFiniteSet(fs) /\ n \in Nat
  BY FindingsAssumption, FS_Subset, FS_CardinalityType
<1>2. ASSUME NEW f \in fs
      PROVE  /\ IsFiniteSet(lower(f)) /\ Cardinality(lower(f)) \in Nat
             /\ rank[f] = Cardinality(lower(f)) + 1 /\ rank[f] \in 1..n
  <2>1. lower(f) \subseteq fs \ {f} /\ IsFiniteSet(fs \ {f}) /\ Cardinality(fs \ {f}) = n - 1
    BY <1>1, FS_RemoveElement, RowOrder
  <2>2. IsFiniteSet(lower(f)) /\ Cardinality(lower(f)) \in Nat /\ Cardinality(lower(f)) <= n - 1
    BY <2>1, FS_Subset, FS_CardinalityType
  <2>3. rank[f] = Cardinality(lower(f)) + 1
    OBVIOUS
  <2> HIDE DEF lower, rank, n
  <2> QED
    BY <2>2, <2>3, <1>1
<1> HIDE DEF rank, n
<1>3. ASSUME NEW f \in fs, NEW g \in fs, Before(f, g, sort, dir)
      PROVE  rank[f] < rank[g]
  <2>1. lower(f) \subseteq lower(g) /\ f \in lower(g) /\ f \notin lower(f)
    BY <1>3, RowOrder
  <2>2. /\ Cardinality(lower(f)) <= Cardinality(lower(g))
        /\ Cardinality(lower(f)) # Cardinality(lower(g))
    BY <2>1, <1>2, FS_Subset
  <2> HIDE DEF lower
  <2> QED
    BY <2>2, <1>2
<1>4. ASSUME NEW f \in fs, NEW g \in fs, rank[f] = rank[g]
      PROVE  f = g
  <2> HIDE DEF lower
  <2>1. rank[f] \in Nat /\ rank[g] \in Nat
    BY <1>1, <1>2
  <2> QED
    BY <1>3, <1>4, <2>1, RowOrder
<1>5. rank \in Surjection(fs, 1..n)
  <2>1. IsFiniteSet(1..n) /\ Cardinality(1..n) = n
    BY <1>1, FS_Interval
  <2>2. rank \in Injection(fs, 1..n)
    BY <1>2, <1>4 DEF Injection, IsInjective, rank
  <2> QED
    BY <1>1, <2>1, <2>2, FS_Injection DEF n
<1>6. ASSUME NEW i \in 1..n
      PROVE  s[i] \in fs /\ rank[s[i]] = i
  <2>1. PICK f \in fs : rank[f] = i
    BY <1>5 DEF Surjection
  <2>2. s[i] = CHOOSE h \in fs : Cardinality(lower(h)) = i - 1
    BY DEF Sorted, n
  <2> HIDE DEF lower, s
  <2>3. Cardinality(lower(f)) = i - 1
    BY <2>1, <1>1, <1>2
  <2>4. s[i] \in fs /\ Cardinality(lower(s[i])) = i - 1
    BY <2>2, <2>3
  <2> QED
    BY <2>4, <1>1, <1>2
<1>7. s \in [1..n -> fs]
  BY <1>6 DEF Sorted, n
<1>8. ASSUME NEW i \in 1..n, NEW j \in 1..n, i < j
      PROVE  Before(s[i], s[j], sort, dir)
  <2>1. s[i] # s[j] /\ ~(rank[s[j]] < rank[s[i]]) /\ s[i] \in Finding /\ s[j] \in Finding
    BY <1>1, <1>6, <1>8
  <2> QED
    BY <2>1, <1>3, <1>6, RowOrder
<1>9. ASSUME NEW f \in fs
      PROVE  s[rank[f]] = f
  BY <1>2, <1>4, <1>6
<1> QED
  BY <1>1, <1>2, <1>7, <1>8, <1>9 DEF n

\* What the screen of the findings does, apart from the rest of the application.
ListSpec == ListInit /\ [][ListNext]_listVars

Directions == {"asc", "desc"}

\* The listings of a client.
Listings ==
  [pc : {"idle", "scope", "filter", "rows", "show", "more", "end"},
   sort : SortKeys, dir : Directions, states : SUBSET TriageStates,
   limit : Nat \ {0}, after : Finding \cup {NoRow},
   cursorOf : SortKeys \X Directions, scope : SUBSET (0..2), hidden : SUBSET Prints,
   page : Seq(Finding), more : BOOLEAN, listed : Seq(Finding)]

ListingTypes ==
  /\ RowsTyped /\ completed \in 0..2 /\ archived \in BOOLEAN /\ postureChanges \in Nat
  /\ triaged \in [Prints -> TriageStates \cup {"none"}] /\ steady \subseteq Finding
  /\ listing \in Listings

\* What the order puts behind each row.
Behind == [sort \in SortKeys |-> [dir \in Directions |->
            [f \in Finding |-> {g \in Finding : Before(f, g, sort, dir)}]]]

InOrder(s, behind) == \A i, j \in DOMAIN s : i < j => s[j] \in behind[s[i]]
Lists(s, f) == \E i \in DOMAIN s : s[i] = f

\* The order a listing began with is the one its cursor was issued for.
CursorInv ==
  /\ listing.cursorOf = <<listing.sort, listing.dir>>
  /\ listing.pc # "end" => /\ listing.listed = <<>> => listing.after = NoRow
                           /\ listing.listed # <<>> => listing.after = Last(listing.listed)

\* The page just read goes on where the pages shown end.
PagesInv == LET behind == Behind[listing.sort][listing.dir] IN
  /\ InOrder(listing.listed, behind) /\ InOrder(listing.page, behind)
  /\ \A i \in DOMAIN listing.listed, j \in DOMAIN listing.page :
       listing.page[j] \in behind[listing.listed[i]]
  /\ listing.pc # "show" => listing.page = <<>>
  /\ listing.pc = "show" /\ listing.more => listing.page # <<>>

\* A finding that has matched all the time is shown, on the page, or still ahead.
StillAhead(f) == LET behind == Behind[listing.sort][listing.dir] IN
  IF listing.pc = "end" THEN FALSE
  ELSE IF listing.pc = "show"
  THEN Lists(listing.page, f) \/ (listing.more /\ f \in behind[Last(listing.page)])
  ELSE listing.after # NoRow => f \in behind[listing.after]

SteadyInv == \A f \in steady :
  /\ Matches(f, listing.states)
  /\ listing.pc \in {"filter", "rows"} => FoundBy[f] \in listing.scope
  /\ listing.pc = "rows" => PrintOf[f] \notin listing.hidden
  /\ Lists(listing.listed, f) \/ StillAhead(f)

\* With nothing changed, what is read is what matches.
UndisturbedInv == (postureChanges = 0 /\ listing.pc # "idle") =>
  /\ \A f \in Finding : Matches(f, listing.states) => f \in steady
  /\ \A i \in DOMAIN listing.listed : Matches(listing.listed[i], listing.states)
  /\ \A i \in DOMAIN listing.page : Matches(listing.page[i], listing.states)
  /\ listing.pc \in {"filter", "rows"} => listing.scope = Scope
  /\ listing.pc = "rows" => listing.hidden = Hidden(listing.states)

ListInv == ListingTypes /\ CursorInv /\ PagesInv /\ SteadyInv /\ UndisturbedInv

\* One page: the first rows in order, and whether there are more behind them.
LEMMA PageIs ==
  ASSUME RowsTyped, NEW fs, fs \subseteq Finding, NEW sort \in SortKeys,
         NEW dir \in Directions, NEW limit \in Nat \ {0}
  PROVE  LET rs == Sorted(fs, sort, dir)
             p == SubSeq(rs, 1, IF Len(rs) > limit THEN limit ELSE Len(rs))
             behind == Behind[sort][dir] IN
         /\ p \in Seq(Finding) /\ \A i \in DOMAIN p : p[i] \in fs
         /\ InOrder(p, behind)
         /\ Len(rs) > limit => p # <<>>
         /\ \A f \in fs : Lists(p, f) \/ (Len(rs) > limit /\ f \in behind[Last(p)])
<1> DEFINE n == Cardinality(fs)
           rs == Sorted(fs, sort, dir)
           k == IF Len(rs) > limit THEN limit ELSE Len(rs)
           p == SubSeq(rs, 1, k)
           behind == Behind[sort][dir]
<1>1. /\ n \in Nat /\ rs \in [1..n -> fs]
      /\ \A i, j \in 1..n : i < j => Before(rs[i], rs[j], sort, dir)
      /\ \A f \in fs : \E i \in 1..n : rs[i] = f
  BY SortedIs
<1>2. \A f, g \in Finding : g \in behind[f] <=> Before(f, g, sort, dir)
  BY DEF Behind
<1> HIDE DEF n, rs, behind
<1>3. Len(rs) = n /\ rs \in Seq(fs) /\ \A i \in 1..n : rs[i] \in fs /\ rs[i] \in Finding
  BY <1>1
<1>4. k \in 0..n /\ k = (IF n > limit THEN limit ELSE n)
  BY <1>1, <1>3
<1> HIDE DEF k
<1>5. p \in Seq(fs) /\ Len(p) = k /\ DOMAIN p = 1..k /\ \A i \in 1..k : p[i] = rs[i]
  BY <1>1, <1>3, <1>4
<1> HIDE DEF p
<1>6. p \in Seq(Finding) /\ (\A i \in DOMAIN p : p[i] \in fs)
  BY <1>5, <1>3, <1>4, <1>1
<1>7. InOrder(p, behind)
  <2> SUFFICES ASSUME NEW i \in 1..k, NEW j \in 1..k, i < j
               PROVE  p[j] \in behind[p[i]]
    BY <1>5 DEF InOrder
  <2>1. i \in 1..n /\ j \in 1..n
    BY <1>4, <1>1
  <2> QED
    BY <2>1, <1>1, <1>2, <1>3, <1>5
<1>8. n > limit => p # <<>>
  BY <1>5, <1>4
<1>9. ASSUME NEW f \in fs
      PROVE  Lists(p, f) \/ (n > limit /\ f \in behind[Last(p)])
  <2>1. PICK i \in 1..n : rs[i] = f
    BY <1>1
  <2>2. CASE i <= k
    BY <2>1, <2>2, <1>5, <1>4, <1>1 DEF Lists
  <2>3. CASE i > k
    <3>1. n > limit /\ k = limit /\ k \in 1..n /\ Last(p) = rs[k]
      BY <2>1, <2>3, <1>1, <1>4, <1>5 DEF Last
    <3> QED
      BY <3>1, <2>1, <2>3, <1>1, <1>2, <1>3
  <2> QED
    BY <2>2, <2>3, <1>1, <1>4
<1> QED
  BY <1>3, <1>6, <1>7, <1>8, <1>9 DEF p, k, rs, behind

\* Pages put one after the other.
LEMMA PagesJoin ==
  ASSUME NEW s \in Seq(Finding), NEW p \in Seq(Finding), NEW behind,
         InOrder(s, behind), InOrder(p, behind),
         \A i \in DOMAIN s, j \in DOMAIN p : p[j] \in behind[s[i]]
  PROVE  /\ s \o p \in Seq(Finding) /\ InOrder(s \o p, behind)
         /\ \A f : Lists(s \o p, f) <=> Lists(s, f) \/ Lists(p, f)
         /\ p # <<>> => s \o p # <<>> /\ Last(s \o p) = Last(p)
<1> DEFINE t == s \o p
<1>1. /\ t \in Seq(Finding) /\ Len(s) \in Nat /\ Len(p) \in Nat /\ Len(t) = Len(s) + Len(p)
      /\ DOMAIN s = 1..Len(s) /\ DOMAIN p = 1..Len(p) /\ DOMAIN t = 1..Len(s) + Len(p)
  OBVIOUS
<1>2. /\ \A i \in 1..Len(s) : t[i] = s[i]
      /\ \A i \in 1..Len(p) : t[Len(s) + i] = p[i]
  OBVIOUS
<1>3. \A i \in 1..Len(s) + Len(p) :
        i \in 1..Len(s) \/ (i - Len(s) \in 1..Len(p) /\ i = Len(s) + (i - Len(s)))
  BY <1>1
<1> HIDE DEF t
<1>4. ASSUME NEW i \in DOMAIN t, NEW j \in DOMAIN t, i < j
      PROVE  t[j] \in behind[t[i]]
  <2>1. CASE i \in 1..Len(s) /\ j \in 1..Len(s)
    BY <2>1, <1>1, <1>2, <1>4 DEF InOrder
  <2>2. CASE i \in 1..Len(s) /\ j - Len(s) \in 1..Len(p)
    BY <2>2, <1>1, <1>2, <1>3
  <2>3. CASE i - Len(s) \in 1..Len(p) /\ j - Len(s) \in 1..Len(p)
    <3>1. i - Len(s) < j - Len(s)
      BY <1>1, <1>4, <2>3
    <3> QED
      BY <3>1, <2>3, <1>1, <1>2, <1>3 DEF InOrder
  <2> QED
    BY <2>1, <2>2, <2>3, <1>1, <1>3, <1>4
<1>5. ASSUME NEW f
      PROVE  Lists(t, f) <=> Lists(s, f) \/ Lists(p, f)
  <2>1. ASSUME Lists(t, f) PROVE Lists(s, f) \/ Lists(p, f)
    <3>1. PICK i \in 1..Len(s) + Len(p) : t[i] = f
      BY <2>1, <1>1 DEF Lists
    <3>2. CASE i \in 1..Len(s)
      BY <3>1, <3>2, <1>1, <1>2 DEF Lists
    <3>3. CASE i - Len(s) \in 1..Len(p)
      BY <3>1, <3>3, <1>1, <1>2, <1>3 DEF Lists
    <3> QED
      BY <3>2, <3>3, <1>3
  <2>2. Lists(s, f) => Lists(t, f)
    BY <1>1, <1>2 DEF Lists
  <2>3. ASSUME Lists(p, f) PROVE Lists(t, f)
    <3>1. PICK i \in 1..Len(p) : p[i] = f
      BY <2>3, <1>1 DEF Lists
    <3>2. Len(s) + i \in DOMAIN t /\ t[Len(s) + i] = f
      BY <3>1, <1>1, <1>2
    <3> QED
      BY <3>2 DEF Lists
  <2> QED
    BY <2>1, <2>2, <2>3
<1>6. ASSUME p # <<>> PROVE t # <<>> /\ Last(t) = Last(p)
  <2>1. Len(p) \in 1..Len(p) /\ Len(t) > 0
    BY <1>6, <1>1
  <2> QED
    BY <2>1, <1>1, <1>2 DEF Last
<1> QED
  BY <1>1, <1>4, <1>5, <1>6 DEF InOrder, t

LEMMA ListStarts == ASSUME ListInit PROVE ListInv
<1>1. RowsTyped
  BY FindingsAssumption DEF ListInit, RowsTyped, Rows
<1>2. ListingTypes
  <2>1. listing \in Listings
    BY DEF ListInit, NoListing, Listings, SortKeys, Directions, Actionable, TriageStates
  <2>2. triaged \in [Prints -> TriageStates \cup {"none"}]
    BY DEF ListInit, TriageStates
  <2>3. completed \in 0..2 /\ postureChanges \in Nat /\ steady \subseteq Finding
    BY DEF ListInit
  <2>4. archived \in BOOLEAN
    BY Zenon DEF ListInit
  <2> QED
    BY <1>1, <2>1, <2>2, <2>3, <2>4 DEF ListingTypes, Listings
<1>3. CursorInv /\ PagesInv /\ SteadyInv /\ UndisturbedInv
  BY DEF ListInit, NoListing, CursorInv, PagesInv, SteadyInv, UndisturbedInv, InOrder, NoRow
<1> QED
  BY <1>2, <1>3 DEF ListInv

\* The rows never change, so neither does their order.
LEMMA OrderStays == ASSUME UNCHANGED found PROVE RowsTyped' = RowsTyped /\ Behind' = Behind
BY DEF RowsTyped, Behind, Before, AheadOn

LEMMA MatchingStays ==
  ASSUME UnchangedButListing
  PROVE  Scope' = Scope /\ \A f \in Finding : \A states : Matches(f, states)' <=> Matches(f, states)
BY DEF UnchangedButListing, Scope, Matches, StateOf

\* What a filter hides is what does not match it.
LEMMA HiddenIs ==
  ASSUME ListingTypes, NEW states \in SUBSET TriageStates, NEW f \in Finding
  PROVE  /\ Hidden(states) \subseteq Prints /\ PrintOf[f] \in Prints
         /\ PrintOf[f] \notin Hidden(states) <=> StateOf(PrintOf[f]) \in states
<1>1. PrintOf[f] \in Prints
  BY FindingsAssumption DEF Prints, Range
<1> QED
  BY <1>1 DEF Hidden, StateOf, ListingTypes, Listings, TriageStates

LEMMA BeginKeeps == ASSUME ListInv, BeginListing PROVE ListInv'
<1>1. PICK sort \in SortKeys, dir \in Directions, limit \in PageSizes,
           states \in {Actionable, {"CONFIRMED", "FALSE_POSITIVE"}, TriageStates} :
        /\ listing' = [NoListing EXCEPT !.pc = "scope", !.sort = sort, !.dir = dir,
                         !.limit = limit, !.states = states, !.cursorOf = <<sort, dir>>]
        /\ steady' = {f \in Finding : Matches(f, states)}
  BY DEF BeginListing, Directions
<1>2. /\ listing' = [pc |-> "scope", sort |-> sort, dir |-> dir, states |-> states,
                     limit |-> limit, after |-> NoRow, cursorOf |-> <<sort, dir>>,
                     scope |-> {}, hidden |-> {}, page |-> <<>>, more |-> FALSE, listed |-> <<>>]
      /\ states \in SUBSET TriageStates /\ limit \in Nat \ {0}
  BY <1>1, FindingsAssumption DEF NoListing, Actionable, TriageStates
<1>3. UnchangedButListing
  BY DEF BeginListing
<1>4. ListingTypes'
  <2>1. RowsTyped'
    BY <1>3, OrderStays DEF ListInv, ListingTypes, Listings, UnchangedButListing
  <2>2. listing' \in Listings
    BY <1>2 DEF Listings
  <2>3. steady' \subseteq Finding
    BY <1>1
  <2> QED
    BY <2>1, <2>2, <2>3, <1>3
       DEF ListInv, ListingTypes, Listings, UnchangedButListing, Prints, SortKeys,
           TriageStates
<1>5. CursorInv' /\ PagesInv'
  BY <1>2 DEF CursorInv, PagesInv, InOrder, NoRow
<1>6. SteadyInv' /\ UndisturbedInv'
  <2>1. \A f \in Finding : Matches(f, states)' <=> f \in steady'
    BY <1>1, <1>3, MatchingStays
  <2>2. steady' \subseteq Finding
    BY <1>1
  <2> QED
    BY <1>2, <2>1, <2>2 DEF SteadyInv, UndisturbedInv, StillAhead
<1> QED
  BY <1>4, <1>5, <1>6 DEF ListInv

\* A step of the request that reads the scope or the filter, or asks for a page.
LEMMA MoveKeeps ==
  ASSUME ListInv, UnchangedButListing, UNCHANGED steady,
         NEW p \in {"scope", "filter", "rows", "end"},
         NEW scope \in SUBSET (0..2), NEW hidden \in SUBSET Prints,
         listing' = [listing EXCEPT !.pc = p, !.scope = scope, !.hidden = hidden],
         listing.pc \in {"scope", "filter", "more"},
         p = "end" => steady = {},
         p \in {"filter", "rows"} =>
           /\ postureChanges = 0 => scope = Scope
           /\ \A f \in steady : FoundBy[f] \in scope,
         p = "rows" =>
           /\ postureChanges = 0 => hidden = Hidden(listing.states)
           /\ \A f \in steady : PrintOf[f] \notin hidden
  PROVE  ListInv'
<1>1. /\ listing'.pc = p /\ listing'.sort = listing.sort /\ listing'.dir = listing.dir
      /\ listing'.states = listing.states /\ listing'.limit = listing.limit
      /\ listing'.after = listing.after /\ listing'.cursorOf = listing.cursorOf
      /\ listing'.scope = scope /\ listing'.hidden = hidden /\ listing'.page = listing.page
      /\ listing'.more = listing.more /\ listing'.listed = listing.listed
  BY DEF ListInv, ListingTypes, Listings
<1>2. ListingTypes'
  <2>1. RowsTyped'
    BY OrderStays DEF ListInv, ListingTypes, Listings, UnchangedButListing
  <2> QED
    BY <2>1
       DEF ListInv, ListingTypes, Listings, UnchangedButListing, Prints, SortKeys,
           TriageStates
<1>3. Behind' = Behind
  BY OrderStays DEF UnchangedButListing
<1>4. CursorInv' /\ PagesInv'
  BY <1>1, <1>3 DEF ListInv, CursorInv, PagesInv, InOrder
<1>5. ListingTypes /\ listing.page = <<>> /\ listing.states \in SUBSET TriageStates
  BY DEF ListInv, ListingTypes, Listings, PagesInv
<1>6. SteadyInv'
  BY <1>1, <1>3, <1>5, MatchingStays
     DEF ListInv, ListingTypes, Listings, SteadyInv, StillAhead, Lists
<1>7. UndisturbedInv'
  <2>1. Scope' = Scope /\ Hidden(listing.states)' = Hidden(listing.states)
    BY <1>1, MatchingStays DEF UnchangedButListing, Hidden, Prints
  <2> QED
    BY <1>1, <1>2, <1>5, <2>1, MatchingStays
       DEF ListInv, ListingTypes, Listings, UndisturbedInv, UnchangedButListing
<1> QED
  BY <1>2, <1>4, <1>6, <1>7 DEF ListInv

LEMMA UnchangedKeeps == ASSUME ListInv, UNCHANGED listVars PROVE ListInv'
<1>1. Behind' = Behind /\ RowsTyped' = RowsTyped
  BY OrderStays DEF listVars
<1>2. UnchangedButListing
  BY DEF listVars, UnchangedButListing
<1>3. Scope' = Scope /\ Hidden(listing.states)' = Hidden(listing.states)
  BY MatchingStays, <1>2 DEF listVars, Hidden, Prints
<1> QED
  BY <1>1, <1>2, <1>3, MatchingStays
     DEF listVars, ListInv, ListingTypes, Listings, CursorInv, PagesInv, InOrder, SteadyInv,
         StillAhead, Lists, UndisturbedInv, Prints

LEMMA AskKeeps == ASSUME ListInv, AskNextPage PROVE ListInv'
<1>1. PICK dir \in Directions : LET asked == [listing EXCEPT !.dir = dir] IN
        listing' = IF CursorAccepted(asked) THEN [asked EXCEPT !.pc = "scope"] ELSE listing
  BY DEF AskNextPage, Directions
<1>2. CASE listing' = listing
  BY <1>2, UnchangedKeeps DEF AskNextPage, UnchangedButListing, listVars
<1>3. CASE CursorAccepted([listing EXCEPT !.dir = dir])
  <2>1. dir = listing.dir
    BY <1>3 DEF CursorAccepted, ListInv, ListingTypes, Listings, CursorInv
  <2>2. listing' = [listing EXCEPT !.pc = "scope", !.scope = listing.scope,
                      !.hidden = listing.hidden]
    BY <1>1, <1>3, <2>1 DEF ListInv, ListingTypes, Listings
  <2>3. listing.scope \in SUBSET (0..2) /\ listing.hidden \in SUBSET Prints
    BY DEF ListInv, ListingTypes, Listings
  <2> QED
    BY <2>2, <2>3, MoveKeeps DEF AskNextPage
<1> QED
  BY <1>1, <1>2, <1>3

LEMMA ScopeKeeps == ASSUME ListInv, ResolveScope PROVE ListInv'
<1>0. listing.pc = "scope" /\ UnchangedButListing /\ UNCHANGED steady
  BY DEF ResolveScope
<1>1. listing.scope \in SUBSET (0..2) /\ listing.hidden \in SUBSET Prints /\ Scope \in SUBSET (0..2)
  BY DEF ListInv, ListingTypes, Listings, Scope
<1>2. \A f \in steady : FoundBy[f] \in Scope
  BY DEF ListInv, SteadyInv, Matches
<1>3. CASE Scope = {}
  <2>1. listing' = [listing EXCEPT !.pc = "end", !.scope = listing.scope, !.hidden = listing.hidden]
    BY <1>3 DEF ResolveScope, ListInv, ListingTypes, Listings
  <2> QED
    <3>1. steady = {}
      BY <1>2, <1>3
    <3> QED
      BY <1>0, <1>1, <2>1, <3>1, MoveKeeps
<1>4. CASE Scope # {}
  <2>1. listing' = [listing EXCEPT !.pc = "filter", !.scope = Scope, !.hidden = listing.hidden]
    BY <1>4 DEF ResolveScope, ListInv, ListingTypes, Listings
  <2> QED
    BY <1>0, <1>1, <1>2, <2>1, MoveKeeps
<1> QED
  BY <1>3, <1>4

LEMMA FilterKeeps == ASSUME ListInv, ReadFilter PROVE ListInv'
<1> DEFINE hidden == Hidden(listing.states)
<1>1. /\ listing.scope \in SUBSET (0..2) /\ listing.hidden \in SUBSET Prints
      /\ listing.states \in SUBSET TriageStates /\ hidden \in SUBSET Prints
  BY DEF ListInv, ListingTypes, Listings, Hidden
<1>2. \A f \in steady : PrintOf[f] \in Prints /\ PrintOf[f] \notin hidden
  BY <1>1, HiddenIs DEF ListInv, ListingTypes, Listings, SteadyInv, Matches
<1>3. /\ \A f \in steady : FoundBy[f] \in listing.scope
      /\ postureChanges = 0 => listing.scope = Scope
  BY DEF ReadFilter, ListInv, SteadyInv, UndisturbedInv
<1> HIDE DEF hidden
<1>4. CASE hidden = Prints
  <2>1. listing' = [listing EXCEPT !.pc = "end", !.scope = listing.scope, !.hidden = listing.hidden]
    BY <1>4 DEF ReadFilter, ListInv, ListingTypes, Listings, hidden
  <2> QED
    <3>1. steady = {}
      BY <1>2, <1>4
    <3> QED
      BY <1>1, <2>1, <3>1, MoveKeeps DEF ReadFilter
<1>5. CASE hidden # Prints
  <2>1. listing' = [listing EXCEPT !.pc = "rows", !.scope = listing.scope, !.hidden = hidden]
    BY <1>5 DEF ReadFilter, ListInv, ListingTypes, Listings, hidden
  <2> QED
    BY <1>1, <1>2, <1>3, <2>1, MoveKeeps DEF ReadFilter, hidden
<1> QED
  BY <1>4, <1>5

LEMMA RowsKeep == ASSUME ListInv, ReadRows PROVE ListInv'
<1> DEFINE l == listing
           matching == {f \in Finding : /\ FoundBy[f] \in l.scope /\ PrintOf[f] \notin l.hidden
                                        /\ l.after # NoRow => After(f, l.after, l.sort, l.dir)}
           rs == Sorted(matching, l.sort, l.dir)
           taken == SubSeq(rs, 1, IF Len(rs) > l.limit THEN l.limit ELSE Len(rs))
           goesOn == Len(rs) > l.limit
           behind == Behind[l.sort][l.dir]
<1>1. /\ listing.pc = "rows" /\ UNCHANGED steady /\ UnchangedButListing
      /\ listing' = [listing EXCEPT !.pc = "show", !.page = taken, !.more = goesOn]
  BY DEF ReadRows
<1>2. /\ RowsTyped /\ matching \subseteq Finding /\ l.sort \in SortKeys /\ l.dir \in Directions
      /\ l.limit \in Nat \ {0} /\ l.after \in Finding \cup {NoRow} /\ NoRow \notin Finding
      /\ steady \subseteq Finding /\ l.states \in SUBSET TriageStates
  BY FindingsAssumption DEF ListInv, ListingTypes, Listings, NoRow
<1>3. /\ taken \in Seq(Finding) /\ \A i \in DOMAIN taken : taken[i] \in matching
      /\ InOrder(taken, behind)
      /\ goesOn => taken # <<>>
      /\ \A f \in matching : Lists(taken, f) \/ (goesOn /\ f \in behind[Last(taken)])
  <2> HIDE DEF matching
  <2> QED
    BY <1>2, PageIs
<1>4. \A f, g \in Finding : (g \in behind[f] <=> Before(f, g, l.sort, l.dir))
                            /\ (g \in behind[f] <=> After(g, f, l.sort, l.dir))
  BY <1>2, RowOrder DEF Behind
<1>5. \A f \in matching : /\ f \in Finding /\ FoundBy[f] \in l.scope /\ PrintOf[f] \notin l.hidden
                          /\ l.after # NoRow => f \in behind[l.after]
  BY <1>2, <1>4
<1>6. \A f \in Finding : (FoundBy[f] \in l.scope /\ PrintOf[f] \notin l.hidden
                          /\ (l.after # NoRow => f \in behind[l.after])) => f \in matching
  BY <1>2, <1>4
<1>7. goesOn \in BOOLEAN
  OBVIOUS
<1> HIDE DEF matching, taken, goesOn, behind
<1>8. /\ listing'.pc = "show" /\ listing'.sort = listing.sort /\ listing'.dir = listing.dir
      /\ listing'.states = listing.states /\ listing'.after = listing.after
      /\ listing'.cursorOf = listing.cursorOf /\ listing'.page = taken
      /\ listing'.more = goesOn /\ listing'.listed = listing.listed
  BY <1>1 DEF ListInv, ListingTypes, Listings
<1>9. ListingTypes'
  <2>1. RowsTyped'
    BY <1>1, OrderStays DEF ListInv, ListingTypes, Listings, UnchangedButListing
  <2> QED
    BY <1>1, <1>3, <1>7, <2>1
       DEF ListInv, ListingTypes, Listings, UnchangedButListing, Prints
<1>10. Behind' = Behind
  BY <1>1, OrderStays DEF UnchangedButListing
<1>11. CursorInv'
  BY <1>1, <1>8 DEF ListInv, CursorInv
<1>12. PagesInv'
  <2>1. InOrder(listing.listed, behind) /\ listing.listed \in Seq(Finding)
    BY DEF ListInv, ListingTypes, Listings, PagesInv, behind
  <2>2. ASSUME NEW i \in DOMAIN listing.listed, NEW f \in matching
        PROVE  f \in behind[listing.listed[i]]
    <3> DEFINE s == listing.listed
    <3>1. /\ s \in Seq(Finding) /\ Len(s) \in Nat /\ DOMAIN s = 1..Len(s) /\ i \in 1..Len(s)
          /\ s # <<>> /\ l.after = Last(s)
      BY <1>1, <2>1 DEF ListInv, CursorInv
    <3>2. l.after = s[Len(s)] /\ s[i] \in Finding /\ s[Len(s)] \in Finding
      BY <3>1 DEF Last
    <3>3. f \in behind[s[Len(s)]] /\ f \in Finding
      BY <3>2, <1>2, <1>5
    <3>4. CASE i = Len(s)
      BY <3>3, <3>4
    <3>5. CASE i < Len(s)
      <4>1. s[Len(s)] \in behind[s[i]]
        BY <2>1, <3>1, <3>5 DEF InOrder
      <4> QED
        BY <4>1, <3>2, <3>3, <1>2, <1>4, RowOrder
    <3> QED
      BY <3>1, <3>4, <3>5
  <2> QED
    <3>1. \A i \in DOMAIN listing.listed, j \in DOMAIN taken :
            taken[j] \in behind[listing.listed[i]]
      BY <1>3, <2>2
    <3>2. Behind'[listing'.sort][listing'.dir] = behind
      BY <1>8, <1>10 DEF behind
    <3> QED
      BY <1>3, <1>8, <2>1, <3>1, <3>2 DEF PagesInv, InOrder
<1>13. SteadyInv'
  <2>1. ASSUME NEW f \in steady
        PROVE  /\ Matches(f, listing.states)
               /\ \/ Lists(listing.listed, f) \/ Lists(taken, f)
                  \/ (goesOn /\ f \in behind[Last(taken)])
    <3>1. /\ Matches(f, listing.states) /\ FoundBy[f] \in l.scope /\ PrintOf[f] \notin l.hidden
          /\ Lists(listing.listed, f) \/ (l.after # NoRow => f \in behind[l.after])
      BY <1>1 DEF ListInv, SteadyInv, StillAhead, behind
    <3> QED
      BY <3>1, <1>2, <1>3, <1>6
  <2> QED
    BY <2>1, <1>1, <1>2, <1>8, <1>10, MatchingStays DEF SteadyInv, StillAhead, Lists, behind
<1>14. UndisturbedInv'
  <2>1. ASSUME postureChanges = 0, NEW f \in matching
        PROVE  Matches(f, listing.states)
    <3>1. l.scope = Scope /\ l.hidden = Hidden(l.states)
      BY <1>1, <2>1 DEF ListInv, UndisturbedInv
    <3> QED
      BY <1>2, <1>5, <3>1, HiddenIs DEF ListInv, Matches
  <2>2. \A i \in DOMAIN listing.listed : listing.listed[i] \in Finding
    BY DEF ListInv, ListingTypes, Listings
  <2> QED
    BY <1>1, <1>2, <1>3, <1>5, <1>8, <2>1, <2>2, MatchingStays
       DEF ListInv, UndisturbedInv, UnchangedButListing
<1> QED
  BY <1>9, <1>11, <1>12, <1>13, <1>14 DEF ListInv

LEMMA ShowKeeps == ASSUME ListInv, ShowPage PROVE ListInv'
<1> DEFINE s == listing.listed
           p == listing.page
           behind == Behind[listing.sort][listing.dir]
<1>1. /\ listing.pc = "show" /\ UNCHANGED steady /\ UnchangedButListing
      /\ listing' = [listing EXCEPT !.listed = s \o p, !.page = <<>>,
                       !.after = IF listing.more THEN Last(p) ELSE listing.after,
                       !.pc = IF listing.more THEN "more" ELSE "end"]
  BY DEF ShowPage, ListInv, ListingTypes, Listings
<1>2. /\ s \in Seq(Finding) /\ p \in Seq(Finding) /\ listing.more \in BOOLEAN
      /\ steady \subseteq Finding
  BY DEF ListInv, ListingTypes, Listings
<1>3. /\ InOrder(s, behind) /\ InOrder(p, behind)
      /\ \A i \in DOMAIN s, j \in DOMAIN p : p[j] \in behind[s[i]]
      /\ listing.more => p # <<>>
  BY <1>1 DEF ListInv, PagesInv
<1>4. /\ s \o p \in Seq(Finding) /\ InOrder(s \o p, behind)
      /\ \A f : Lists(s \o p, f) <=> Lists(s, f) \/ Lists(p, f)
      /\ p # <<>> => s \o p # <<>> /\ Last(s \o p) = Last(p)
  BY <1>2, <1>3, PagesJoin
<1>5. listing.more => Last(p) \in Finding
  BY <1>2, <1>3 DEF Last
<1>6. /\ listing'.pc = (IF listing.more THEN "more" ELSE "end")
      /\ listing'.sort = listing.sort /\ listing'.dir = listing.dir
      /\ listing'.states = listing.states /\ listing'.cursorOf = listing.cursorOf
      /\ listing'.after = (IF listing.more THEN Last(p) ELSE listing.after)
      /\ listing'.page = <<>> /\ listing'.listed = s \o p
  BY <1>1 DEF ListInv, ListingTypes, Listings
<1>7. Behind' = Behind
  BY <1>1, OrderStays DEF UnchangedButListing
<1>8. ListingTypes'
  <2>1. RowsTyped'
    BY <1>1, OrderStays DEF ListInv, ListingTypes, Listings, UnchangedButListing
  <2> DEFINE after == IF listing.more THEN Last(p) ELSE listing.after
             pc == IF listing.more THEN "more" ELSE "end"
             listed == s \o p
  <2>2. after \in Finding \cup {NoRow} /\ pc \in {"more", "end"} /\ listed \in Seq(Finding)
    BY <1>4, <1>5 DEF ListInv, ListingTypes, Listings
  <2>3. listing' = [listing EXCEPT !.listed = listed, !.page = <<>>, !.after = after, !.pc = pc]
    BY <1>1
  <2> HIDE DEF s, p, after, pc, listed
  <2>4. listing' \in Listings
    <3>1. listing \in Listings /\ <<>> \in Seq(Finding)
      BY DEF ListInv, ListingTypes
    <3>2. /\ [listing EXCEPT !.listed = listed] \in Listings
          /\ \A r \in Listings : [r EXCEPT !.page = <<>>] \in Listings
      BY <2>2, <3>1 DEF Listings
    <3>3. \A r \in Listings : [r EXCEPT !.after = after, !.pc = pc] \in Listings
      BY <2>2 DEF Listings
    <3>4. listing' = [[[listing EXCEPT !.listed = listed] EXCEPT !.page = <<>>]
                        EXCEPT !.after = after, !.pc = pc]
      BY <2>3, <3>1 DEF Listings
    <3> QED
      BY <3>2, <3>3, <3>4
  <2> QED
    BY <1>1, <2>1, <2>4
       DEF ListInv, ListingTypes, UnchangedButListing, Prints, Listings, SortKeys,
           Directions, TriageStates
<1> HIDE DEF s, p, behind
<1>9. CursorInv'
  BY <1>3, <1>4, <1>6 DEF ListInv, CursorInv
<1>10. PagesInv'
  BY <1>4, <1>6, <1>7 DEF PagesInv, InOrder, behind
<1>11. SteadyInv'
  <2>1. ASSUME NEW f \in steady
        PROVE  /\ Matches(f, listing.states)
               /\ Lists(s \o p, f) \/ (listing.more /\ f \in behind[Last(p)])
    BY <1>1, <1>4 DEF ListInv, SteadyInv, StillAhead, behind, s, p
  <2>2. \A f \in steady : Matches(f, listing.states)'
    BY <2>1, <1>1, <1>2, <1>6, MatchingStays
  <2>3. \A f \in steady' : Lists(listing.listed, f)' \/ StillAhead(f)'
    BY <2>1, <1>1, <1>6, <1>7 DEF StillAhead, Lists, behind
  <2> QED
    BY <2>2, <2>3, <1>1, <1>6 DEF SteadyInv
<1>12. UndisturbedInv'
  <2>1. ASSUME postureChanges = 0, NEW i \in DOMAIN (s \o p)
        PROVE  Matches((s \o p)[i], listing.states) /\ (s \o p)[i] \in Finding
    <3>1. Lists(s \o p, (s \o p)[i]) /\ (s \o p)[i] \in Finding
      BY <1>4 DEF Lists
    <3>2. Lists(s, (s \o p)[i]) \/ Lists(p, (s \o p)[i])
      BY <3>1, <1>4
    <3> QED
      BY <3>1, <3>2, <1>1, <2>1 DEF ListInv, UndisturbedInv, Lists, s, p
  <2> QED
    BY <2>1, <1>1, <1>2, <1>6, MatchingStays
       DEF ListInv, UndisturbedInv, UnchangedButListing
<1> QED
  BY <1>8, <1>9, <1>10, <1>11, <1>12 DEF ListInv

LEMMA PostureKeeps == ASSUME ListInv, PostureChanges PROVE ListInv'
<1>1. /\ UNCHANGED <<found, listing>> /\ postureChanges' = postureChanges + 1
      /\ steady' = {f \in steady : Matches(f, listing.states)'}
      /\ TriageFinding \/ CompleteScan \/ ArchiveListed
      /\ listing.pc \notin {"idle", "end"}
  BY DEF PostureChanges, Change, TriageFinding, CompleteScan, ArchiveListed
<1>2. /\ triaged' \in [Prints -> TriageStates \cup {"none"}]
      /\ completed' \in 0..2 /\ archived' \in BOOLEAN
  <2>1. triaged \in [Prints -> TriageStates \cup {"none"}] /\ completed \in 0..2
    BY DEF ListInv, ListingTypes, Listings
  <2>2. archived \in BOOLEAN
    BY DEF ListInv, ListingTypes, Listings
  <2>3. CASE TriageFinding
    BY <2>1, <2>2, <2>3 DEF TriageFinding
  <2>4. CASE CompleteScan
    BY <2>1, <2>2, <2>4 DEF CompleteScan
  <2>5. CASE ArchiveListed
    <3>1. archived' \in BOOLEAN
      BY <2>5, Zenon DEF ArchiveListed
    <3> QED
      BY <2>1, <2>5, <3>1 DEF ArchiveListed
  <2> QED
    BY <1>1, <2>3, <2>4, <2>5
<1>3. Behind' = Behind /\ RowsTyped' = RowsTyped
  BY <1>1, OrderStays
<1>4. postureChanges \in Nat /\ postureChanges' \in Nat /\ postureChanges' # 0
  BY <1>1 DEF ListInv, ListingTypes, Listings
<1>5. ListingTypes'
  BY <1>1, <1>2, <1>3, <1>4 DEF ListInv, ListingTypes, Listings, Prints
<1>6. CursorInv' /\ PagesInv' /\ UndisturbedInv'
  BY <1>1, <1>3, <1>4 DEF ListInv, CursorInv, PagesInv, InOrder, UndisturbedInv
<1>7. SteadyInv'
  <2>1. \A f \in steady' : f \in steady /\ Matches(f, listing.states)'
    BY <1>1
  <2>2. \A f \in steady' : Lists(listing.listed, f)' \/ StillAhead(f)'
    BY <2>1, <1>1, <1>3 DEF ListInv, SteadyInv, StillAhead, Lists
  <2> QED
    BY <2>1, <2>2, <1>1 DEF ListInv, SteadyInv
<1> QED
  BY <1>5, <1>6, <1>7 DEF ListInv

LEMMA ListSteps == ASSUME ListInv, [ListNext]_listVars PROVE ListInv'
BY BeginKeeps, AskKeeps, ScopeKeeps, FilterKeeps, RowsKeep, ShowKeeps, PostureKeeps, UnchangedKeeps
   DEF ListNext

LEMMA ListHolds == ListSpec => []ListInv
BY ListStarts, ListSteps, PTL DEF ListSpec

LEMMA ListIsExact == ASSUME ListInv PROVE ListingExact
<1> DEFINE s == listing.listed
<1>1. /\ s \in Seq(Finding) /\ listing.sort \in SortKeys /\ listing.dir \in Directions
      /\ steady \subseteq Finding
  BY DEF ListInv, ListingTypes, Listings
<1>2. ASSUME NEW i \in DOMAIN s, NEW j \in DOMAIN s, i < j
      PROVE  Before(s[i], s[j], listing.sort, listing.dir)
  <2>1. s[j] \in Behind[listing.sort][listing.dir][s[i]] /\ s[i] \in Finding
    BY <1>1, <1>2 DEF ListInv, PagesInv, InOrder
  <2> QED
    BY <1>1, <2>1 DEF Behind
<1>3. ASSUME listing.pc = "end" PROVE steady \subseteq ToSet(s)
  BY <1>3 DEF ListInv, SteadyInv, StillAhead, Lists, ToSet
<1>4. ASSUME listing.pc = "end", postureChanges = 0 PROVE ToSet(s) \subseteq steady
  BY <1>1, <1>4 DEF ListInv, UndisturbedInv, ToSet
<1> QED
  BY <1>2, <1>3, <1>4 DEF ListingExact

\* Whatever others triage, archive or complete meanwhile, what the list shows is in its
\* order, nothing twice, and at its end holds every finding that matched throughout; and
\* nothing else, when no posture changed (listFindings and its cursor): for any findings
\* and any size of a page.
THEOREM ListingHolds == ListSpec => []ListingExact
BY ListHolds, ListIsExact, PTL

LEMMA ListTypeHolds == ListSpec => []ListTypeOK
<1>1. ListInv => ListTypeOK
  BY DEF ListInv, ListingTypes, Listings, ListTypeOK, ToSet
<1> QED
  BY <1>1, ListHolds, PTL

-----------------------------------------------------------------------------
(* What the pages offer, and what the API makes of it: once the guards of the      *)
(* routers are laid out, the two are compared page by page.                       *)

\* A handler refuses with the first of its guards that does.
LEMMA RefusalAt ==
  ASSUME NEW guards, NEW k \in DOMAIN guards, DOMAIN guards \subseteq Nat, guards[k][1],
         \A j \in DOMAIN guards : j < k => ~guards[j][1]
  PROVE  FirstRefusal(guards) = guards[k][2]
<1> DEFINE refusing == {i \in DOMAIN guards : guards[i][1]}
<1>1. k \in refusing /\ refusing \subseteq Nat /\ \A j \in refusing : k <= j
  OBVIOUS
<1> HIDE DEF refusing
<1>2. Min(refusing) = k
  BY <1>1 DEF Min
<1> QED
  BY <1>1, <1>2 DEF FirstRefusal, refusing

LEMMA NoRefusal ==
  ASSUME NEW guards, \A j \in DOMAIN guards : ~guards[j][1]
  PROVE  FirstRefusal(guards) = "ok"
BY DEF FirstRefusal

\* The answer of up to six guards.
Refuses(guards, k) == k \in DOMAIN guards /\ guards[k][1]

LEMMA RefusalIs ==
  ASSUME NEW guards, DOMAIN guards \subseteq 1..6
  PROVE  FirstRefusal(guards) =
           IF Refuses(guards, 1) THEN guards[1][2] ELSE IF Refuses(guards, 2) THEN guards[2][2]
           ELSE IF Refuses(guards, 3) THEN guards[3][2] ELSE IF Refuses(guards, 4) THEN guards[4][2]
           ELSE IF Refuses(guards, 5) THEN guards[5][2] ELSE IF Refuses(guards, 6) THEN guards[6][2]
           ELSE "ok"
<1>1. CASE \E k \in 1..6 : Refuses(guards, k) /\ \A j \in 1..6 : j < k => ~Refuses(guards, j)
  <2>1. PICK k \in 1..6 : Refuses(guards, k) /\ \A j \in 1..6 : j < k => ~Refuses(guards, j)
    BY <1>1
  <2>2. FirstRefusal(guards) = guards[k][2]
    BY <2>1, RefusalAt DEF Refuses
  <2> QED
    BY <2>1, <2>2
<1>2. CASE \A k \in 1..6 : ~Refuses(guards, k)
  BY <1>2, NoRefusal DEF Refuses
<1> QED
  BY <1>1, <1>2

\* The first of the conditions that holds gives the answer, otherwise it is "ok".
First1(a, r) == IF a THEN r ELSE "ok"
LEMMA Refusal1 ==
  ASSUME NEW a, NEW r
  PROVE  FirstRefusal(<< <<a, r>> >>) = First1(a, r)
<1> DEFINE g == << <<a, r>> >>
<1>1. DOMAIN g \subseteq 1..6 /\ \A k \in 2..6 : ~Refuses(g, k)
  BY DEF Refuses
<1>2. (Refuses(g, 1) <=> a) /\ g[1][2] = r
  BY DEF Refuses
<1> HIDE DEF g
<1>3. FirstRefusal(g) = First1(a, r)
  BY <1>1, <1>2, RefusalIs DEF First1
<1> QED
  BY <1>3 DEF g

First2(a, r, b, s) == IF a THEN r ELSE First1(b, s)
LEMMA Refusal2 ==
  ASSUME NEW a, NEW r, NEW b, NEW s
  PROVE  FirstRefusal(<< <<a, r>>, <<b, s>> >>) = First2(a, r, b, s)
<1> DEFINE g == << <<a, r>>, <<b, s>> >>
<1>1. DOMAIN g \subseteq 1..6 /\ \A k \in 3..6 : ~Refuses(g, k)
  BY DEF Refuses
<1>2. (Refuses(g, 1) <=> a) /\ g[1][2] = r
  BY DEF Refuses
<1>3. (Refuses(g, 2) <=> b) /\ g[2][2] = s
  BY DEF Refuses
<1> HIDE DEF g
<1>4. FirstRefusal(g) = First2(a, r, b, s)
  BY <1>1, <1>2, <1>3, RefusalIs DEF First1, First2
<1> QED
  BY <1>4 DEF g

First3(a, r, b, s, c, t) == IF a THEN r ELSE First2(b, s, c, t)
LEMMA Refusal3 ==
  ASSUME NEW a, NEW r, NEW b, NEW s, NEW c, NEW t
  PROVE  FirstRefusal(<< <<a, r>>, <<b, s>>, <<c, t>> >>) = First3(a, r, b, s, c, t)
<1> DEFINE g == << <<a, r>>, <<b, s>>, <<c, t>> >>
<1>1. DOMAIN g \subseteq 1..6 /\ \A k \in 4..6 : ~Refuses(g, k)
  BY DEF Refuses
<1>2. (Refuses(g, 1) <=> a) /\ g[1][2] = r
  BY DEF Refuses
<1>3. (Refuses(g, 2) <=> b) /\ g[2][2] = s
  BY DEF Refuses
<1>4. (Refuses(g, 3) <=> c) /\ g[3][2] = t
  BY DEF Refuses
<1> HIDE DEF g
<1>5. FirstRefusal(g) = First3(a, r, b, s, c, t)
  BY <1>1, <1>2, <1>3, <1>4, RefusalIs DEF First1, First2, First3
<1> QED
  BY <1>5 DEF g

First4(a, r, b, s, c, t, d, u) == IF a THEN r ELSE First3(b, s, c, t, d, u)
LEMMA Refusal4 ==
  ASSUME NEW a, NEW r, NEW b, NEW s, NEW c, NEW t, NEW d, NEW u
  PROVE  FirstRefusal(<< <<a, r>>, <<b, s>>, <<c, t>>, <<d, u>> >>) = First4(a, r, b, s, c, t, d, u)
<1> DEFINE g == << <<a, r>>, <<b, s>>, <<c, t>>, <<d, u>> >>
<1>1. DOMAIN g \subseteq 1..6 /\ \A k \in 5..6 : ~Refuses(g, k)
  BY DEF Refuses
<1>2. (Refuses(g, 1) <=> a) /\ g[1][2] = r
  BY DEF Refuses
<1>3. (Refuses(g, 2) <=> b) /\ g[2][2] = s
  BY DEF Refuses
<1>4. (Refuses(g, 3) <=> c) /\ g[3][2] = t
  BY DEF Refuses
<1>5. (Refuses(g, 4) <=> d) /\ g[4][2] = u
  BY DEF Refuses
<1> HIDE DEF g
<1>6. FirstRefusal(g) = First4(a, r, b, s, c, t, d, u)
  BY <1>1, <1>2, <1>3, <1>4, <1>5, RefusalIs DEF First1, First2, First3, First4
<1> QED
  BY <1>6 DEF g

First5(a, r, b, s, c, t, d, u, e, v) == IF a THEN r ELSE First4(b, s, c, t, d, u, e, v)
LEMMA Refusal5 ==
  ASSUME NEW a, NEW r, NEW b, NEW s, NEW c, NEW t, NEW d, NEW u, NEW e, NEW v
  PROVE  FirstRefusal(<< <<a, r>>, <<b, s>>, <<c, t>>, <<d, u>>, <<e, v>> >>) =
           First5(a, r, b, s, c, t, d, u, e, v)
<1> DEFINE g == << <<a, r>>, <<b, s>>, <<c, t>>, <<d, u>>, <<e, v>> >>
<1>1. DOMAIN g \subseteq 1..6 /\ \A k \in 6..6 : ~Refuses(g, k)
  BY DEF Refuses
<1>2. (Refuses(g, 1) <=> a) /\ g[1][2] = r
  BY DEF Refuses
<1>3. (Refuses(g, 2) <=> b) /\ g[2][2] = s
  BY DEF Refuses
<1>4. (Refuses(g, 3) <=> c) /\ g[3][2] = t
  BY DEF Refuses
<1>5. (Refuses(g, 4) <=> d) /\ g[4][2] = u
  BY DEF Refuses
<1>6. (Refuses(g, 5) <=> e) /\ g[5][2] = v
  BY DEF Refuses
<1> HIDE DEF g
<1>7. FirstRefusal(g) = First5(a, r, b, s, c, t, d, u, e, v)
  BY <1>1, <1>2, <1>3, <1>4, <1>5, <1>6, RefusalIs DEF First1, First2, First3, First4, First5
<1> QED
  BY <1>7 DEF g

First6(a, r, b, s, c, t, d, u, e, v, f, w) == IF a THEN r ELSE First5(b, s, c, t, d, u, e, v, f, w)
LEMMA Refusal6 ==
  ASSUME NEW a, NEW r, NEW b, NEW s, NEW c, NEW t, NEW d, NEW u, NEW e, NEW v, NEW f, NEW w
  PROVE  FirstRefusal(<< <<a, r>>, <<b, s>>, <<c, t>>, <<d, u>>, <<e, v>>, <<f, w>> >>) =
           First6(a, r, b, s, c, t, d, u, e, v, f, w)
<1> DEFINE g == << <<a, r>>, <<b, s>>, <<c, t>>, <<d, u>>, <<e, v>>, <<f, w>> >>
<1>1. DOMAIN g \subseteq 1..6 /\ \A k \in 7..6 : ~Refuses(g, k)
  BY DEF Refuses
<1>2. (Refuses(g, 1) <=> a) /\ g[1][2] = r
  BY DEF Refuses
<1>3. (Refuses(g, 2) <=> b) /\ g[2][2] = s
  BY DEF Refuses
<1>4. (Refuses(g, 3) <=> c) /\ g[3][2] = t
  BY DEF Refuses
<1>5. (Refuses(g, 4) <=> d) /\ g[4][2] = u
  BY DEF Refuses
<1>6. (Refuses(g, 5) <=> e) /\ g[5][2] = v
  BY DEF Refuses
<1>7. (Refuses(g, 6) <=> f) /\ g[6][2] = w
  BY DEF Refuses
<1> HIDE DEF g
<1>8. FirstRefusal(g) = First6(a, r, b, s, c, t, d, u, e, v, f, w)
  BY <1>1, <1>2, <1>3, <1>4, <1>5, <1>6, <1>7, RefusalIs DEF First1, First2, First3, First4, First5, First6
<1> QED
  BY <1>8 DEF g

\* The refusals of each router, and the reasons of the pages, as chains of conditions.
LEMMA ScannableIs ==
  ASSUME NEW f
  PROVE  NotScannable(f) =
           First5(f.archived, "ARCHIVED",
                  f.proof = "failed", "VERIFICATION_FAILED",
                  f.proof = "none", "NOT_VERIFIED",
                  f.proof = "expired", "VERIFICATION_EXPIRED",
                  f.blocked, "BLOCKLISTED")
<1> DEFINE a == f.archived
           b == f.proof = "failed"
           c == f.proof = "none"
           d == f.proof = "expired"
           e == f.blocked
<1>1. NotScannable(f) =
        FirstRefusal(<< <<a, "ARCHIVED">>, <<b, "VERIFICATION_FAILED">>, <<c, "NOT_VERIFIED">>,
                   <<d, "VERIFICATION_EXPIRED">>, <<e, "BLOCKLISTED">> >>)
  BY DEF NotScannable
<1> HIDE DEF a, b, c, d, e
<1>2. NotScannable(f) = First5(a, "ARCHIVED", b, "VERIFICATION_FAILED", c, "NOT_VERIFIED",
                  d, "VERIFICATION_EXPIRED", e, "BLOCKLISTED")
  BY <1>1, Refusal5
<1> QED
  BY <1>2 DEF a, b, c, d, e

LEMMA TargetsAnswerIs ==
  ASSUME NEW f, NEW do
  PROVE  TargetsAnswer(do, f) =
           First2(f.role \notin Writers, "FORBIDDEN",
                  do = "verify" /\ f.archived, "ARCHIVED_TARGET")
<1> DEFINE a == f.role \notin Writers
           b == do = "verify" /\ f.archived
<1>1. TargetsAnswer(do, f) =
        FirstRefusal(<< <<a, "FORBIDDEN">>, <<b, "ARCHIVED_TARGET">> >>)
  BY DEF TargetsAnswer, NotAWriter
<1> HIDE DEF a, b
<1>2. TargetsAnswer(do, f) = First2(a, "FORBIDDEN", b, "ARCHIVED_TARGET")
  BY <1>1, Refusal2
<1> QED
  BY <1>2 DEF a, b

LEMMA ControlAnswerIs ==
  ASSUME NEW f, NEW do
  PROVE  ControlAnswer(do, f) =
           First6(f.role \notin Writers, "FORBIDDEN",
                  do = "pause" /\ f.status # "RUNNING", "ILLEGAL_TRANSITION",
                  do = "resume" /\ f.status # "PAUSED", "ILLEGAL_TRANSITION",
                  do = "cancel" /\ f.status \in {"COMPLETED", "CANCELLED"}, "ILLEGAL_TRANSITION",
                  do = "resume" /\ f.halted, "KILL_SWITCH_ENGAGED",
                  do = "resume" /\ ~f.scannable, "TARGET_NOT_SCANNABLE")
<1> DEFINE a == f.role \notin Writers
           b == do = "pause" /\ f.status # "RUNNING"
           c == do = "resume" /\ f.status # "PAUSED"
           d == do = "cancel" /\ f.status \in {"COMPLETED", "CANCELLED"}
           e == do = "resume" /\ f.halted
           g == do = "resume" /\ ~f.scannable
<1>1. ControlAnswer(do, f) =
        FirstRefusal(<< <<a, "FORBIDDEN">>, <<b, "ILLEGAL_TRANSITION">>, <<c, "ILLEGAL_TRANSITION">>,
                   <<d, "ILLEGAL_TRANSITION">>, <<e, "KILL_SWITCH_ENGAGED">>, <<g, "TARGET_NOT_SCANNABLE">> >>)
  BY DEF ControlAnswer, NotAWriter
<1> HIDE DEF a, b, c, d, e, g
<1>2. ControlAnswer(do, f) = First6(a, "FORBIDDEN", b, "ILLEGAL_TRANSITION",
                  c, "ILLEGAL_TRANSITION", d, "ILLEGAL_TRANSITION",
                  e, "KILL_SWITCH_ENGAGED", g, "TARGET_NOT_SCANNABLE")
  BY <1>1, Refusal6
<1> QED
  BY <1>2 DEF a, b, c, d, e, g

LEMMA StartAnswerIs ==
  ASSUME NEW f
  PROVE  StartAnswer(f) =
           First3(f.role \notin Writers, "FORBIDDEN",
                  NotScannable(f) # "ok", NotScannable(f),
                  f.halted, "KILL_SWITCH_ENGAGED")
<1> DEFINE a == f.role \notin Writers
           b == NotScannable(f) # "ok"
           c == f.halted
<1>1. StartAnswer(f) =
        FirstRefusal(<< <<a, "FORBIDDEN">>, <<b, NotScannable(f)>>,
                   <<c, "KILL_SWITCH_ENGAGED">> >>)
  BY DEF StartAnswer, NotAWriter
<1> HIDE DEF a, b, c
<1>2. StartAnswer(f) = First3(a, "FORBIDDEN", b, NotScannable(f),
                  c, "KILL_SWITCH_ENGAGED")
  BY <1>1, Refusal3
<1> QED
  BY <1>2 DEF a, b, c

LEMMA ReportsAnswerIs ==
  ASSUME NEW f, NEW do
  PROVE  ReportsAnswer(do, f) =
           First4(do \in {"share", "revoke"} /\ f.role \notin Writers, "FORBIDDEN",
                  do = "download" /\ f.evidence /\ f.role = "VIEWER", "EVIDENCE_WITHHELD",
                  do \in {"download", "share"} /\ f.status # "READY", "REPORT_NOT_READY",
                  do \in {"download", "share"} /\ f.expired, "REPORT_EXPIRED")
<1> DEFINE a == do \in {"share", "revoke"} /\ f.role \notin Writers
           b == do = "download" /\ f.evidence /\ f.role = "VIEWER"
           c == do \in {"download", "share"} /\ f.status # "READY"
           d == do \in {"download", "share"} /\ f.expired
<1>1. ReportsAnswer(do, f) =
        FirstRefusal(<< <<a, "FORBIDDEN">>, <<b, "EVIDENCE_WITHHELD">>,
                   <<c, "REPORT_NOT_READY">>, <<d, "REPORT_EXPIRED">> >>)
  BY DEF ReportsAnswer
<1> HIDE DEF a, b, c, d
<1>2. ReportsAnswer(do, f) = First4(a, "FORBIDDEN", b, "EVIDENCE_WITHHELD",
                  c, "REPORT_NOT_READY", d, "REPORT_EXPIRED")
  BY <1>1, Refusal4
<1> QED
  BY <1>2 DEF a, b, c, d

LEMMA DownloadReasonIs ==
  ASSUME NEW s
  PROVE  DownloadBlockedReason(s) =
           First3(s.status # "READY", "REPORT_NOT_READY",
                  s.expired, "REPORT_EXPIRED",
                  s.evidence /\ knows /\ s.role = "VIEWER", "EVIDENCE_WITHHELD")
<1> DEFINE a == s.status # "READY"
           b == s.expired
           c == s.evidence /\ knows /\ s.role = "VIEWER"
<1>1. DownloadBlockedReason(s) =
        FirstRefusal(<< <<a, "REPORT_NOT_READY">>, <<b, "REPORT_EXPIRED">>,
                   <<c, "EVIDENCE_WITHHELD">> >>)
  BY DEF DownloadBlockedReason
<1> HIDE DEF a, b, c
<1>2. DownloadBlockedReason(s) = First3(a, "REPORT_NOT_READY", b, "REPORT_EXPIRED",
                  c, "EVIDENCE_WITHHELD")
  BY <1>1, Refusal3
<1> QED
  BY <1>2 DEF a, b, c

LEMMA RequestAnswerIs ==
  ASSUME NEW f
  PROVE  RequestAnswer(f) =
           First1(f.status # "COMPLETED", "SCAN_NOT_COMPLETED")
<1> DEFINE a == f.status # "COMPLETED"
<1>1. RequestAnswer(f) =
        FirstRefusal(<< <<a, "SCAN_NOT_COMPLETED">> >>)
  BY DEF RequestAnswer
<1> HIDE DEF a
<1>2. RequestAnswer(f) = First1(a, "SCAN_NOT_COMPLETED")
  BY <1>1, Refusal1
<1> QED
  BY <1>2 DEF a

LEMMA TriageAnswerIs ==
  ASSUME NEW f, NEW i
  PROVE  TriageAnswer(f, i) =
           First2(f.role \notin Writers, "FORBIDDEN",
                  i.phrase /\ ~i.text, "INVALID")
<1> DEFINE a == f.role \notin Writers
           b == i.phrase /\ ~i.text
<1>1. TriageAnswer(f, i) =
        FirstRefusal(<< <<a, "FORBIDDEN">>, <<b, "INVALID">> >>)
  BY DEF TriageAnswer, NotAWriter
<1> HIDE DEF a, b
<1>2. TriageAnswer(f, i) = First2(a, "FORBIDDEN", b, "INVALID")
  BY <1>1, Refusal2
<1> QED
  BY <1>2 DEF a, b

LEMMA UsersAnswerIs ==
  ASSUME NEW f, NEW i, NEW do
  PROVE  UsersAnswer(do, f, i) =
           First3(do \in {"suspend", "unsuspend"} /\ ~i.text, "INVALID",
                  f.self, "CANNOT_CHANGE_SELF",
                  do \in {IF f.suspended THEN "suspend" ELSE "unsuspend", RoleChange[f.rowRole]}, "NO_CHANGE")
<1> DEFINE a == do \in {"suspend", "unsuspend"} /\ ~i.text
           b == f.self
           c == do \in {IF f.suspended THEN "suspend" ELSE "unsuspend", RoleChange[f.rowRole]}
<1>1. UsersAnswer(do, f, i) =
        FirstRefusal(<< <<a, "INVALID">>, <<b, "CANNOT_CHANGE_SELF">>,
                   <<c, "NO_CHANGE">> >>)
  BY DEF UsersAnswer
<1> HIDE DEF a, b, c
<1>2. UsersAnswer(do, f, i) = First3(a, "INVALID", b, "CANNOT_CHANGE_SELF", c, "NO_CHANGE")
  BY <1>1, Refusal3
<1> QED
  BY <1>2 DEF a, b, c

LEMMA BlocklistAnswerIs ==
  ASSUME NEW i, NEW do
  PROVE  BlocklistAnswer(do, i) =
           First1(do = "add entry" /\ ~i.text, "INVALID")
<1> DEFINE a == do = "add entry" /\ ~i.text
<1>1. BlocklistAnswer(do, i) =
        FirstRefusal(<< <<a, "INVALID">> >>)
  BY DEF BlocklistAnswer
<1> HIDE DEF a
<1>2. BlocklistAnswer(do, i) = First1(a, "INVALID")
  BY <1>1, Refusal1
<1> QED
  BY <1>2 DEF a

LEMMA KillSwitchAnswerIs ==
  ASSUME NEW i
  PROVE  KillSwitchAnswer(i) =
           First1(~i.text, "INVALID")
<1> DEFINE a == ~i.text
<1>1. KillSwitchAnswer(i) =
        FirstRefusal(<< <<a, "INVALID">> >>)
  BY DEF KillSwitchAnswer
<1> HIDE DEF a
<1>2. KillSwitchAnswer(i) = First1(a, "INVALID")
  BY <1>1, Refusal1
<1> QED
  BY <1>2 DEF a

LEMMA QuotaAnswerIs ==
  ASSUME NEW i
  PROVE  QuotaAnswer(i) =
           First2(i.number # Blank /\ i.number % 2 # 0, "INVALID",
                  (IF i.number = Blank THEN 0 ELSE i.number \div 2) \notin 1..MaxRate, "INVALID")
<1> DEFINE a == i.number # Blank /\ i.number % 2 # 0
           b == (IF i.number = Blank THEN 0 ELSE i.number \div 2) \notin 1..MaxRate
<1>1. QuotaAnswer(i) =
        FirstRefusal(<< <<a, "INVALID">>, <<b, "INVALID">> >>)
  BY DEF QuotaAnswer
<1> HIDE DEF a, b
<1>2. QuotaAnswer(i) = First2(a, "INVALID", b, "INVALID")
  BY <1>1, Refusal2
<1> QED
  BY <1>2 DEF a, b

\* What the section of the administration answers, behind the role and the second factor.
AdminSection(do, f, i) ==
  CASE do = "quota" -> QuotaAnswer(i)
    [] do \in {"add entry", "toggle entry", "delete entry"} -> BlocklistAnswer(do, i)
    [] do \in {"engage", "release"} -> KillSwitchAnswer(i)
    [] do = "administration" -> "ok"
    [] OTHER -> UsersAnswer(do, f, i)

LEMMA AdminAnswerIs ==
  ASSUME NEW f, NEW i, NEW do
  PROVE  AdminAnswer(do, f, i) =
           First3(f.role # "ADMIN", "FORBIDDEN",
                  ~f.secondFactor, "TWO_FACTOR_REQUIRED",
                  AdminSection(do, f, i) # "ok", AdminSection(do, f, i))
<1> DEFINE a == f.role # "ADMIN"
           b == ~f.secondFactor
           c == AdminSection(do, f, i) # "ok"
<1>1. AdminAnswer(do, f, i) =
        FirstRefusal(<< <<a, "FORBIDDEN">>, <<b, "TWO_FACTOR_REQUIRED">>,
                   <<c, AdminSection(do, f, i)>> >>)
  BY DEF AdminAnswer, AdminSection
<1> HIDE DEF a, b, c
<1>2. AdminAnswer(do, f, i) = First3(a, "FORBIDDEN", b, "TWO_FACTOR_REQUIRED",
                  c, AdminSection(do, f, i))
  BY <1>1, Refusal3
<1> QED
  BY <1>2 DEF a, b, c

\* What becomes of a request from a page that is up to date.
Fine(do, answer) ==
  \/ answer = "ok" \/ <<do, answer>> \in KnownRefusals
  \/ ~knows /\ <<do, answer>> \in UnknownRefusals

LEMMA TargetOffersWork ==
  ASSUME NEW f \in TargetFacts, NEW do \in TargetOffers(f), NEW i
  PROVE  Fine(do, Answer("target", do, f, i))
<1>1. CASE do = "start"
  <2>1. Answer("target", do, f, i) = StartAnswer(f)
    BY <1>1 DEF Answer
  <2>2. f.role \in Writers /\ ~f.halted /\ NotScannable(f) = "ok"
    BY <1>1, ScannableIs DEF TargetOffers, TargetsPage, RegisterTargetDialog, TargetVerifyPage, TargetDetailPage,
       TargetHeader, VerificationCard, ScopeEditor, When, CanWrite, StartDisabledReason, First5, First4, First3,
       First2, First1
  <2> QED
    BY <2>1, <2>2, StartAnswerIs DEF First3, First2, First1, Fine
<1>2. CASE do # "start"
  <2>1. Answer("target", do, f, i) = TargetsAnswer(do, f)
    BY <1>2 DEF Answer
  <2>2. do \in {"register", "archive", "delete", "verify", "scope"}
    BY <1>2 DEF TargetOffers, TargetsPage, RegisterTargetDialog, TargetVerifyPage, TargetDetailPage,
       TargetHeader, VerificationCard, ScopeEditor, When
  <2> QED
    BY <2>1, <2>2, TargetsAnswerIs DEF First2, First1, Fine, KnownRefusals
<1> QED
  BY <1>1, <1>2

LEMMA ScanOffersWork ==
  ASSUME NEW f \in ScanFacts, NEW do \in ControlButtons(f) \cup ScanSections(f), NEW i
  PROVE  Fine(do, Answer("scan", do, f, i))
<1>1. CASE do = "generate"
  BY <1>1, RequestAnswerIs DEF Answer, ControlButtons, ScanSections, When, First1, Fine
<1>2. CASE do # "generate"
  <2>1. Answer("scan", do, f, i) = ControlAnswer(do, f)
    BY <1>2 DEF Answer
  <2>2. /\ f.role \in Writers /\ do \in {"pause", "resume", "cancel"}
        /\ do = "pause" => f.status = "RUNNING"
        /\ do = "resume" => f.status = "PAUSED" /\ ~f.halted
        /\ do = "cancel" => f.status \in {"QUEUED", "RUNNING", "PAUSED"}
    BY <1>2 DEF ControlButtons, ScanSections, When, CanWrite
  <2> QED
    BY <2>1, <2>2, ControlAnswerIs DEF First6, First5, First4, First3, First2, First1, Fine, KnownRefusals
<1> QED
  BY <1>1, <1>2

LEMMA FindingOffersWork ==
  ASSUME NEW f \in FindingFacts, NEW i, NEW do \in TriagePanel(f, i) \cup BulkSelection(f, i)
  PROVE  Fine(do, Answer("finding", do, f, i))
<1>1. Answer("finding", do, f, i) = TriageAnswer(f, i)
  BY DEF Answer
<1> QED
  BY <1>1, TriageAnswerIs DEF TriagePanel, BulkSelection, When, CanWrite, First2, First1, Fine

LEMMA ReportsOffersWork ==
  ASSUME NEW f \in ReportsFacts, NEW i, NEW do \in GenerateReportDialog(f)
  PROVE  Fine(do, Answer("reports", do, f, i))
<1>1. Answer("reports", do, f, i) = RequestAnswer(f)
  BY DEF Answer
<1> QED
  BY <1>1, RequestAnswerIs
     DEF GenerateReportDialog, CompletedScanSelect, When, First1, Fine, KnownRefusals

LEMMA ReportOffersWork ==
  ASSUME NEW f \in ReportFacts, NEW i, NEW do \in ReportActions(f)
  PROVE  Fine(do, Answer("report", do, f, i))
<1>1. Answer("report", do, f, i) = ReportsAnswer(do, f)
  BY DEF Answer
<1>2. CASE do = "download"
  BY <1>1, <1>2, ReportsAnswerIs, DownloadReasonIs DEF ReportActions, ShareDialog, When, First4, First3, First2,
     First1, Fine, UnknownRefusals
<1>3. CASE do # "download"
  <2>1. do \in {"share", "revoke"} /\ f.role \in Writers /\ f.status = "READY" /\ ~f.expired
    BY <1>3 DEF ReportActions, ShareDialog, When, CanWrite
  <2> QED
    BY <1>1, <2>1, ReportsAnswerIs DEF First4, First3, First2, First1, Fine
<1> QED
  BY <1>2, <1>3

LEMMA RoleNames == RoleChange["ADMIN"] = "role to ADMIN" /\ RoleChange["VIEWER"] = "role to VIEWER"
BY DEF RoleChange

LEMMA AdminOffersWork ==
  ASSUME NEW f \in AdminFacts, NEW i \in Typed, NEW do \in AdminOffers(f, i)
  PROVE  Fine(do, Answer("admin", do, f, i))
<1>1. Answer("admin", do, f, i) = AdminAnswer(do, f, i)
  BY DEF Answer
<1>2. knows /\ f.role = "ADMIN"
  BY DEF AdminOffers, MainNav, When
<1>3. CASE do = "administration"
  BY <1>1, <1>2, <1>3, AdminAnswerIs DEF AdminSection, First3, First2, First1, Fine, KnownRefusals
<1>4. CASE do # "administration"
  <2>1. f.secondFactor /\ do \in UsersTab(f, i) \cup QuotaDialog(f, i) \cup BlocklistTab(f, i)
                                 \cup KillSwitchCard(f, i)
    BY <1>4 DEF AdminOffers, MainNav, When
  <2>2. CASE do \in UsersTab(f, i)
    <3>1. /\ ~f.self /\ do \in {"suspend", "unsuspend", "role to ADMIN", "role to VIEWER"}
          /\ do \in {"suspend", "unsuspend"} => i.text
          /\ do # (IF f.suspended THEN "suspend" ELSE "unsuspend") /\ do # RoleChange[f.rowRole]
      <4>1. /\ ~f.self /\ f.rowRole \in {"ADMIN", "VIEWER"}
            /\ do \in {"suspend", "unsuspend"} => i.text
            /\ \/ \E r \in {"ADMIN", "VIEWER"} \ {f.rowRole} : do = RoleChange[r]
               \/ do = IF f.suspended THEN "unsuspend" ELSE "suspend"
        BY <1>2, <2>2 DEF UsersTab, UserRow, When, ReasonReady, AdminFacts
      <4> QED
        BY <4>1, RoleNames
    <3>2. UsersAnswer(do, f, i) = "ok"
      BY <3>1, UsersAnswerIs DEF First3, First2, First1
    <3> QED
      BY <1>1, <1>2, <2>1, <3>1, <3>2, AdminAnswerIs DEF AdminSection, First3, First2, First1, Fine
  <2>3. CASE do \in QuotaDialog(f, i)
    <3>1. do = "quota" /\ i.number # Blank /\ i.number % 2 = 0 /\ i.number \div 2 \in 1..MaxRate
      BY <2>3 DEF QuotaDialog, When, FieldValid
    <3>2. QuotaAnswer(i) = "ok"
      BY <3>1, QuotaAnswerIs DEF First2, First1
    <3> QED
      BY <1>1, <1>2, <2>1, <3>1, <3>2, AdminAnswerIs DEF AdminSection, First3, First2, First1, Fine
  <2>4. CASE do \in BlocklistTab(f, i)
    <3>1. do \in {"add entry", "toggle entry", "delete entry"} /\ (do = "add entry" => i.text)
      BY <2>4 DEF BlocklistTab, AddEntryCard, When
    <3>2. BlocklistAnswer(do, i) = "ok"
      BY <3>1, BlocklistAnswerIs DEF First1
    <3> QED
      BY <1>1, <1>2, <2>1, <3>1, <3>2, AdminAnswerIs DEF AdminSection, First3, First2, First1, Fine
  <2>5. CASE do \in KillSwitchCard(f, i)
    <3>1. do \in {"engage", "release"} /\ i.text
      BY <2>5 DEF KillSwitchCard, When, ReasonReady
    <3>2. KillSwitchAnswer(i) = "ok"
      BY <3>1, KillSwitchAnswerIs DEF First1
    <3> QED
      BY <1>1, <1>2, <2>1, <3>1, <3>2, AdminAnswerIs DEF AdminSection, First3, First2, First1, Fine
  <2> QED
    BY <2>1, <2>2, <2>3, <2>4, <2>5
<1> QED
  BY <1>3, <1>4

\* The rate that is shown is the rate of the run, when the cap is known.
LEMMA RateIsRun ==
  ASSUME NEW f \in StartFacts, NEW r \in StartRequests(f),
         NEW shown, shown = ShownRate(f, r.profile, IF r.customised THEN r.chosen ELSE 0),
         NEW answer, answer = RateAnswer(f, IF r.customised THEN shown ELSE 0)
  PROVE  /\ answer = "ok" \/ (~knows /\ answer = "RATE_LIMIT_ABOVE_QUOTA")
         /\ knows => shown - RateRun(f, IF r.customised THEN shown ELSE r.profile) = 0
<1>1. /\ r.profile \in 1..MaxRate /\ r.customised \in BOOLEAN /\ r.chosen \in 0..RateCap(f)
      /\ f.cap \in 1..MaxRate /\ MaxRate \in Nat
      /\ RateCap(f) \in 1..MaxRate /\ (knows => RateCap(f) = f.cap)
  BY PageOffersAssumption DEF StartRequests, StartFacts, RateCap
<1>2. \A a, b \in Nat : Min({a, b}) = IF a <= b THEN a ELSE b
  <2> SUFFICES ASSUME NEW a \in Nat, NEW b \in Nat PROVE Min({a, b}) = IF a <= b THEN a ELSE b
    OBVIOUS
  <2> QED
    BY DEF Min
<1>3. /\ shown \in 1..MaxRate /\ (knows => shown <= f.cap)
      /\ knows /\ ~r.customised => shown = IF r.profile <= f.cap THEN r.profile ELSE f.cap
  <2>1. Min({r.profile, RateCap(f)}) = IF r.profile <= RateCap(f) THEN r.profile ELSE RateCap(f)
    BY <1>1, <1>2
  <2> QED
    BY <1>1, <2>1 DEF ShownRate
<1>4. answer = "ok" \/ (~knows /\ answer = "RATE_LIMIT_ABOVE_QUOTA")
  BY <1>1, <1>3 DEF RateAnswer
<1>5. ASSUME knows PROVE shown - RateRun(f, IF r.customised THEN shown ELSE r.profile) = 0
  <2>1. Min({shown, f.cap}) = shown /\ Min({r.profile, f.cap}) = IF r.profile <= f.cap THEN r.profile ELSE f.cap
    BY <1>1, <1>2, <1>3, <1>5
  <2> QED
    BY <1>1, <1>3, <1>5, <2>1 DEF RateRun
<1> QED
  BY <1>4, <1>5

\* What a page must offer, and what it must state, once the role is known.
Withholds(p, do, s, i) ==
  LET answer == Answer(p, do, s, i) IN
  /\ answer = "ok"
  /\ do \notin Offers(p, s, i)
  /\ ~(p = "target" /\ s.archived /\ do \in {"archive", "scope"})
  /\ ~(p = "reports" /\ s.named)
Misstates(p, do, s, i) ==
  LET stated == StatedReason(p, do, s)  answer == Answer(p, do, s, i) IN
  /\ stated # "ok" /\ answer # stated
  /\ ~(answer = "EVIDENCE_WITHHELD" /\ stated = "REPORT_EXPIRED")
  /\ ~(answer = NotScannable(s) /\ stated = "KILL_SWITCH_ENGAGED")

LEMMA TargetOpen ==
  ASSUME knows, NEW s \in TargetFacts, NEW i, NEW do \in Asked["target"]
  PROVE  ~Withholds("target", do, s, i) /\ ~Misstates("target", do, s, i)
<1>0. /\ Answer("target", do, s, i) = IF do = "start" THEN StartAnswer(s) ELSE TargetsAnswer(do, s)
      /\ Offers("target", s, i) = TargetOffers(s)
      /\ StatedReason("target", do, s) = IF do = "start" /\ CanWrite(s) THEN StartDisabledReason(s) ELSE "ok"
  BY DEF Answer, Offers, StatedReason
<1>1. CASE do = "start"
  <2>1. StartAnswer(s) = IF s.role \notin Writers THEN "FORBIDDEN"
                         ELSE IF NotScannable(s) # "ok" THEN NotScannable(s)
                         ELSE IF s.halted THEN "KILL_SWITCH_ENGAGED" ELSE "ok"
    BY StartAnswerIs DEF First3, First2, First1
  <2>2. s.role \in Writers /\ StartDisabledReason(s) = "ok" => do \in TargetOffers(s)
    BY <1>1 DEF TargetOffers, TargetDetailPage, TargetHeader, When, CanWrite
  <2> QED
    BY <1>0, <1>1, <2>1, <2>2 DEF Withholds, Misstates, CanWrite, StartDisabledReason
<1>2. CASE do # "start"
  <2>1. do \in {"register", "archive", "delete", "verify", "scope"}
    BY <1>2 DEF Asked
  <2>2. do \in TargetOffers(s) \/ (s.archived /\ do \in {"archive", "scope"})
    BY <2>1 DEF TargetOffers, TargetsPage, RegisterTargetDialog, TargetDetailPage, TargetHeader, VerificationCard,
       ScopeEditor, When
  <2> QED
    BY <1>0, <1>2, <2>2 DEF Withholds, Misstates
<1> QED
  BY <1>1, <1>2

LEMMA ScanOpen ==
  ASSUME knows, NEW s \in ScanFacts, NEW i, NEW do \in Asked["scan"]
  PROVE  ~Withholds("scan", do, s, i) /\ ~Misstates("scan", do, s, i)
<1>0. /\ Answer("scan", do, s, i) = IF do = "generate" THEN RequestAnswer(s) ELSE ControlAnswer(do, s)
      /\ Offers("scan", s, i) = ControlButtons(s) \cup ScanSections(s)
      /\ StatedReason("scan", do, s) =
           IF do = "resume" /\ CanWrite(s) /\ s.status = "PAUSED" /\ s.halted THEN "KILL_SWITCH_ENGAGED" ELSE "ok"
  BY DEF Answer, Offers, StatedReason
<1>1. CASE do = "generate"
  <2>1. RequestAnswer(s) = "ok" => do \in ScanSections(s)
    BY <1>1, RequestAnswerIs DEF First1, ScanSections, When
  <2> QED
    BY <1>0, <1>1, <2>1 DEF Withholds, Misstates
<1>2. CASE do # "generate"
  <2>1. do \in {"pause", "resume", "cancel"}
    BY <1>2 DEF Asked
  <2>2. ControlAnswer(do, s) = "ok" =>
          /\ s.role \in Writers /\ (do = "pause" => s.status = "RUNNING")
          /\ do = "resume" => s.status = "PAUSED" /\ ~s.halted
          /\ do = "cancel" => s.status \notin {"COMPLETED", "CANCELLED"}
    BY ControlAnswerIs DEF First6, First5, First4, First3, First2, First1
  <2>3. ControlAnswer(do, s) = "ok" => do \in ControlButtons(s)
    BY <2>1, <2>2 DEF ControlButtons, When, CanWrite, ScanFacts
  <2>4. do = "resume" /\ CanWrite(s) /\ s.status = "PAUSED" /\ s.halted =>
          ControlAnswer(do, s) = "KILL_SWITCH_ENGAGED"
    BY ControlAnswerIs DEF First6, First5, First4, First3, First2, First1, CanWrite
  <2> QED
    BY <1>0, <1>2, <2>3, <2>4 DEF Withholds, Misstates
<1> QED
  BY <1>1, <1>2

LEMMA ReportOpen ==
  ASSUME knows, NEW s \in ReportFacts, NEW i, NEW do \in Asked["report"]
  PROVE  ~Withholds("report", do, s, i) /\ ~Misstates("report", do, s, i)
<1>0. /\ Answer("report", do, s, i) = ReportsAnswer(do, s)
      /\ Offers("report", s, i) = ReportActions(s)
      /\ StatedReason("report", do, s) = IF do = "download" THEN DownloadBlockedReason(s) ELSE "ok"
      /\ do \in {"download", "share"}
  BY DEF Answer, Offers, StatedReason, Asked
<1>1. CASE do = "download"
  <2>1. /\ DownloadBlockedReason(s) = IF s.status # "READY" THEN "REPORT_NOT_READY"
             ELSE IF s.expired THEN "REPORT_EXPIRED"
             ELSE IF s.evidence /\ s.role = "VIEWER" THEN "EVIDENCE_WITHHELD" ELSE "ok"
        /\ ReportsAnswer(do, s) = IF s.evidence /\ s.role = "VIEWER" THEN "EVIDENCE_WITHHELD"
             ELSE IF s.status # "READY" THEN "REPORT_NOT_READY" ELSE IF s.expired THEN "REPORT_EXPIRED" ELSE "ok"
    BY <1>1, ReportsAnswerIs, DownloadReasonIs DEF First4, First3, First2, First1
  <2>2. s.evidence => s.status = "READY"
    BY DEF ReportFacts
  <2>3. DownloadBlockedReason(s) = "ok" => do \in ReportActions(s)
    BY <1>1 DEF ReportActions, When
  <2> QED
    BY <1>0, <1>1, <2>1, <2>2, <2>3 DEF Withholds, Misstates
<1>2. CASE do = "share"
  <2>1. ReportsAnswer(do, s) = "ok" => s.role \in Writers /\ s.status = "READY" /\ ~s.expired
    BY <1>2, ReportsAnswerIs DEF First4, First3, First2, First1
  <2>2. ReportsAnswer(do, s) = "ok" => do \in ReportActions(s)
    BY <1>2, <2>1 DEF ReportActions, ShareDialog, When, CanWrite
  <2> QED
    BY <1>0, <1>2, <2>2 DEF Withholds, Misstates
<1> QED
  BY <1>0, <1>1, <1>2

LEMMA FindingOpen ==
  ASSUME knows, NEW s \in FindingFacts, NEW i, NEW do \in Asked["finding"]
  PROVE  ~Withholds("finding", do, s, i) /\ ~Misstates("finding", do, s, i)
<1>1. /\ Answer("finding", do, s, i) = TriageAnswer(s, i) /\ do \in {"triage", "bulk triage"}
      /\ Offers("finding", s, i) = TriagePanel(s, i) \cup BulkSelection(s, i)
      /\ StatedReason("finding", do, s) = "ok"
  BY DEF Answer, Offers, StatedReason, Asked
<1>2. TriageAnswer(s, i) = "ok" => s.role \in Writers /\ (i.phrase => i.text)
  BY TriageAnswerIs DEF First2, First1
<1>3. TriageAnswer(s, i) = "ok" => do \in Offers("finding", s, i)
  BY <1>1, <1>2 DEF TriagePanel, BulkSelection, When, CanWrite
<1> QED
  BY <1>1, <1>3 DEF Withholds, Misstates

LEMMA ReportsOpen ==
  ASSUME NEW s \in ReportsFacts, NEW i, NEW do \in Asked["reports"]
  PROVE  ~Withholds("reports", do, s, i) /\ ~Misstates("reports", do, s, i)
<1>1. /\ Answer("reports", do, s, i) = RequestAnswer(s) /\ do = "generate"
      /\ Offers("reports", s, i) = GenerateReportDialog(s)
      /\ StatedReason("reports", do, s) = "ok"
  BY DEF Answer, Offers, StatedReason, Asked
<1>2. RequestAnswer(s) = "ok" /\ ~s.named => do \in GenerateReportDialog(s)
  BY <1>1, RequestAnswerIs DEF First1, GenerateReportDialog, CompletedScanSelect, When
<1> QED
  BY <1>1, <1>2 DEF Withholds, Misstates

LEMMA AdminOpen ==
  ASSUME knows, NEW s \in AdminFacts, NEW i \in Typed, NEW do \in Asked["admin"]
  PROVE  ~Withholds("admin", do, s, i) /\ ~Misstates("admin", do, s, i)
<1>1. /\ Answer("admin", do, s, i) = AdminAnswer(do, s, i)
      /\ Offers("admin", s, i) = AdminOffers(s, i) /\ StatedReason("admin", do, s) = "ok"
      /\ do \in {"suspend", "unsuspend", "role to ADMIN", "role to VIEWER", "quota", "add entry"}
  BY DEF Answer, Offers, StatedReason, Asked
<1>2. SUFFICES ASSUME AdminAnswer(do, s, i) = "ok" PROVE do \in AdminOffers(s, i)
  BY <1>1 DEF Withholds, Misstates
<1>3. s.role = "ADMIN" /\ s.secondFactor /\ AdminSection(do, s, i) = "ok"
  BY <1>2, AdminAnswerIs DEF First3, First2, First1
<1>4. CASE do = "quota"
  <2>1. QuotaAnswer(i) = "ok"
    BY <1>3, <1>4 DEF AdminSection
  <2>2. i.number # Blank /\ i.number % 2 = 0 /\ i.number \div 2 \in 1..MaxRate
    BY <2>1, QuotaAnswerIs DEF First2, First1
  <2> QED
    BY <1>3, <1>4, <2>2 DEF AdminOffers, QuotaDialog, FieldValid, When
<1>5. CASE do = "add entry"
  <2>1. i.text
    BY <1>3, <1>5, BlocklistAnswerIs DEF AdminSection, First1
  <2> QED
    BY <1>3, <1>5, <2>1 DEF AdminOffers, BlocklistTab, AddEntryCard, When
<1>6. CASE do \in {"suspend", "unsuspend", "role to ADMIN", "role to VIEWER"}
  <2>1. UsersAnswer(do, s, i) = "ok"
    BY <1>3, <1>6 DEF AdminSection
  <2>2. /\ do \in {"suspend", "unsuspend"} => i.text
        /\ ~s.self /\ do # (IF s.suspended THEN "suspend" ELSE "unsuspend") /\ do # RoleChange[s.rowRole]
    BY <2>1, UsersAnswerIs DEF First3, First2, First1
  <2>3. s.rowRole \in {"ADMIN", "VIEWER"} /\ s.self \in BOOLEAN
    BY DEF AdminFacts
  <2>4. \/ \E r \in {"ADMIN", "VIEWER"} \ {s.rowRole} : do = RoleChange[r]
        \/ do = IF s.suspended THEN "unsuspend" ELSE "suspend"
    BY <1>6, <2>2, <2>3, RoleNames
  <2>5. do \in UserRow(s)
    BY <2>2, <2>4 DEF UserRow, When
  <2>6. do \in UsersTab(s, i)
    BY <2>2, <2>5 DEF UsersTab, ReasonReady
  <2> QED
    BY <1>3, <2>6 DEF AdminOffers, When
<1> QED
  BY <1>1, <1>4, <1>5, <1>6

OffersSpec == OffersInit /\ [][OffersNext]_offerVars

\* What a view holds, besides its types.
OffersTyped == OffersTypeOK /\ knows \in BOOLEAN /\ late \in BOOLEAN

LEMMA OffersStart == OffersInit => OffersTyped
BY Zenon DEF OffersInit, OffersTyped, OffersTypeOK

LEMMA OffersTypedStep == OffersTyped /\ [OffersNext]_offerVars => OffersTyped'
<1> SUFFICES ASSUME OffersTyped, [OffersNext]_offerVars PROVE OffersTyped'
  OBVIOUS
<1>1. CASE MeAnswers
  BY <1>1, Zenon DEF OffersTyped, OffersTypeOK, MeAnswers
<1>2. CASE FactsChange
  BY <1>2, Zenon DEF OffersTyped, OffersTypeOK, FactsChange
<1>3. CASE Reload
  BY <1>3, Zenon DEF OffersTyped, OffersTypeOK, Reload
<1>4. CASE UNCHANGED <<page, now, seen, knows, late>>
  BY <1>4, Zenon DEF OffersTyped, OffersTypeOK
<1>5. ASSUME NEW i, NEW do, Click(do, i) PROVE OffersTyped'
  BY <1>4, <1>5 DEF Click
<1>6. ASSUME NEW r, StartAtRate(r) PROVE OffersTyped'
  BY <1>4, <1>6 DEF StartAtRate
<1> QED
  BY <1>1, <1>2, <1>3, <1>4, <1>5, <1>6 DEF OffersNext, offerVars

LEMMA OffersTypeHolds == OffersSpec => []OffersTypeOK
BY OffersStart, OffersTypedStep, PTL DEF OffersSpec, OffersTyped

\* What is kept of the last request, besides the types.
OffersInv == OffersTyped /\ OfferedIsAccepted /\ ShownRateIsRun

LEMMA OffersWork ==
  ASSUME OffersTyped, NEW i \in Inputs(page), NEW do \in Offers(page, now, i)
  PROVE  Fine(do, Answer(page, do, now, i))
<1>1. page \in Pages /\ now \in Facts(page)
  BY DEF OffersTyped, OffersTypeOK
<1>2. CASE page = "target"
  BY <1>1, <1>2, TargetOffersWork DEF Facts, Offers
<1>3. CASE page = "start"
  BY <1>3 DEF Offers
<1>4. CASE page = "scan"
  BY <1>1, <1>4, ScanOffersWork DEF Facts, Offers
<1>5. CASE page = "finding"
  BY <1>1, <1>5, FindingOffersWork DEF Facts, Offers
<1>6. CASE page = "reports"
  BY <1>1, <1>6, ReportsOffersWork DEF Facts, Offers
<1>7. CASE page = "report"
  BY <1>1, <1>7, ReportOffersWork DEF Facts, Offers
<1>8. CASE page = "admin"
  BY <1>1, <1>8, AdminOffersWork DEF Facts, Offers, Inputs
<1> QED
  BY <1>1, <1>2, <1>3, <1>4, <1>5, <1>6, <1>7, <1>8 DEF Pages

LEMMA NothingIsWithheld == ASSUME OffersTyped PROVE NothingWithheld
<1>1. page \in Pages /\ seen \in Facts(page)
  BY DEF OffersTyped, OffersTypeOK
<1>2. ASSUME knows, NEW do \in Asked[page], NEW i \in Inputs(page)
      PROVE  ~Withholds(page, do, seen, i) /\ ~Misstates(page, do, seen, i)
  <2>1. CASE page = "target"
    BY <1>1, <1>2, <2>1, TargetOpen DEF Facts
  <2>2. CASE page = "start"
    BY <1>2, <2>2 DEF Asked
  <2>3. CASE page = "scan"
    BY <1>1, <1>2, <2>3, ScanOpen DEF Facts
  <2>4. CASE page = "finding"
    BY <1>1, <1>2, <2>4, FindingOpen DEF Facts
  <2>5. CASE page = "reports"
    BY <1>1, <1>2, <2>5, ReportsOpen DEF Facts
  <2>6. CASE page = "report"
    BY <1>1, <1>2, <2>6, ReportOpen DEF Facts
  <2>7. CASE page = "admin"
    BY <1>1, <1>2, <2>7, AdminOpen DEF Facts, Inputs
  <2> QED
    BY <1>1, <2>1, <2>2, <2>3, <2>4, <2>5, <2>6, <2>7 DEF Pages
<1> QED
  BY <1>2 DEF NothingWithheld, Withholds, Misstates

LEMMA ClickKeeps ==
  ASSUME OffersInv, NEW i \in Inputs(page), NEW do \in Offers(page, seen, i), Click(do, i)
  PROVE  OfferedIsAccepted' /\ ShownRateIsRun'
<1> DEFINE answer == Answer(page, do, now, i)
<1>1. clicked' = [asks |-> do, off |-> 0, answer |-> answer, late |-> late, unknown |-> ~knows]
  BY DEF Click
<1>2. ~late => Fine(do, answer)
  BY OffersWork DEF OffersInv, OffersTyped, OffersTypeOK
<1> HIDE DEF answer
<1>3. /\ clicked'.asks = do /\ clicked'.answer = answer /\ clicked'.off = 0
      /\ clicked'.late = late /\ clicked'.unknown = ~knows
  BY <1>1
<1>4. OfferedIsAccepted'
  BY <1>2, <1>3 DEF OfferedIsAccepted, Fine, KnownRefusals, UnknownRefusals, OffersInv, OffersTyped
<1> QED
  BY <1>3, <1>4 DEF ShownRateIsRun

LEMMA StartKeeps ==
  ASSUME OffersInv, page = "start", NEW r \in StartRequests(seen), StartAtRate(r)
  PROVE  OfferedIsAccepted' /\ ShownRateIsRun'
<1> DEFINE shown == ShownRate(seen, r.profile, IF r.customised THEN r.chosen ELSE 0)
           answer == RateAnswer(now, IF r.customised THEN shown ELSE 0)
           off == shown - RateRun(now, IF r.customised THEN shown ELSE r.profile)
<1>1. clicked' = [asks |-> "start at a rate", off |-> off, answer |-> answer,
                  late |-> late, unknown |-> ~knows]
  BY DEF StartAtRate
<1>2. ASSUME ~late
      PROVE  /\ answer = "ok" \/ (~knows /\ answer = "RATE_LIMIT_ABOVE_QUOTA")
             /\ knows => off = 0
  <2>1. seen = now /\ now \in StartFacts
    BY <1>2 DEF OffersInv, OffersTyped, OffersTypeOK, Facts
  <2> QED
    BY <2>1, RateIsRun
<1> HIDE DEF shown, answer, off
<1>3. /\ clicked'.asks = "start at a rate" /\ clicked'.answer = answer /\ clicked'.off = off
      /\ clicked'.late = late /\ clicked'.unknown = ~knows
  BY <1>1
<1>4. OfferedIsAccepted'
  BY <1>2, <1>3 DEF OfferedIsAccepted, UnknownRefusals, OffersInv, OffersTyped
<1> QED
  BY <1>2, <1>3, <1>4, Zenon DEF ShownRateIsRun

LEMMA OffersSteps == OffersInv /\ [OffersNext]_offerVars => OffersInv'
<1> SUFFICES ASSUME OffersInv, [OffersNext]_offerVars PROVE OffersInv'
  OBVIOUS
<1>1. OffersTyped'
  BY OffersTypedStep DEF OffersInv
<1>2. CASE UNCHANGED clicked
  BY <1>1, <1>2 DEF OffersInv, OfferedIsAccepted, ShownRateIsRun, KnownRefusals, UnknownRefusals
<1>3. CASE Reload
  BY <1>1, <1>3 DEF Reload, NoClick, OffersInv, OfferedIsAccepted, ShownRateIsRun
<1> QED
  BY <1>1, <1>2, <1>3, ClickKeeps, StartKeeps DEF OffersNext, offerVars, MeAnswers, FactsChange, OffersInv

\* A control that a page offers works, unless the facts changed since it was built or in
\* the few places where the page is known not to look; what the API would do is offered,
\* with the API's own reason where it is not; and the rate the dialog shows is the rate
\* of the run: for any rate limit and any profiles (the pages under web/src/pages
\* against the routers they call).
THEOREM PagesHold == OffersSpec => []PageAgrees
<1>1. OffersInit => OffersInv
  BY OffersStart DEF OffersInv, OffersInit, NoClick, OfferedIsAccepted, ShownRateIsRun
<1>2. OffersInv => PageAgrees
  BY NothingIsWithheld DEF OffersInv, PageAgrees
<1> QED
  BY <1>1, <1>2, OffersSteps, PTL DEF OffersSpec

-----------------------------------------------------------------------------
(* The web application: each part of it behaves as it does alone. *)

LEMMA BrowserParts ==
  BrowserSpec => CacheSpec /\ DeskSpec /\ AuthSpec /\ ListSpec /\ OffersSpec
<1>1. BrowserInit => CacheInit /\ DeskInit /\ AuthInit /\ ListInit /\ OffersInit
  BY DEF BrowserInit
<1>2. [BrowserNext]_browserVars =>
        /\ [CacheNext]_cacheVars /\ [DeskNext]_deskVars /\ [AuthNext]_authVars
        /\ [ListNext]_listVars /\ [OffersNext]_offerVars
  BY DEF BrowserNext, browserVars
<1> QED
  BY <1>1, <1>2, PTL DEF BrowserSpec, CacheSpec, DeskSpec, AuthSpec, ListSpec, OffersSpec

\* The type invariant of the five parts.
THEOREM BrowserTypeHolds == BrowserSpec => []BrowserTypeOK
<1>1. AuthTypeOK /\ CacheTypeOK /\ ListTypeOK /\ OffersTypeOK /\ DeskTypeOK => BrowserTypeOK
  BY DEF BrowserTypeOK
<1> QED
  BY <1>1, BrowserParts, AuthTypeHolds, CacheTypeHolds, ListTypeHolds, OffersTypeHolds,
     DeskTypeHolds, PTL

\* What the pages promise holds in the web application as a whole, whichever part of
\* it a behaviour follows.
THEOREM BrowserHolds ==
  BrowserSpec => /\ [](OwnChangesShown /\ TriageAsMeant /\ ListingExact /\ PageAgrees)
                 /\ [][ResendsApart /\ DestinationKept]_authVars
<1> QED
  BY BrowserParts, OwnChangesHold, TriageHolds, ListingHolds, PagesHold, PromisesHold, PTL

================================================================================
