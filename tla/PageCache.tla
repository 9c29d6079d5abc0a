------------------------------- MODULE PageCache -------------------------------
(* What the pages of the web application show of the server, through the query   *)
(* cache: each query with the facts its endpoint reads, each change a page makes  *)
(* with the facts it changes and the keys it invalidates. A behaviour takes one   *)
(* query and one change of the tables; the change, those of other people, the     *)
(* fetches and the mounting and leaving of the page interleave.                   *)
EXTENDS Integers, Sequences, FiniteSets, SequencesExt

CONSTANTS
  MaxOwn,          \* bound on the changes this tab makes
  MaxOthers        \* bound on those others make

ASSUME PageCacheAssumption == MaxOwn \in Nat /\ MaxOthers \in Nat

VARIABLES
  query, change,   \* the entry of the cache and the mutation under study
  facts,           \* how often what the query reads has changed on the server
  entry,           \* the cached data: the count it shows, and its flags
  fetch,           \* the fetch under way: none, not yet read, or the count read
  mounted,         \* whether a page that uses the query is on screen
  mutation,        \* none, sent, or the count after it was applied
  told,            \* the count after the last own change the tab knows of
  racing,          \* the fetch under way began before a change that was answered
  own, others

cacheVars == <<query, change, facts, entry, fetch, mounted, mutation, told, racing, own, others>>

NoData == -1
NoFetch == -1
Unread == -2

----------------------------------------------------------------------------
(* The queries of the pages. Parts of a key that name a row or a filter are left  *)
(* out: one row, one filter.                                                      *)

Query(key, reads) == [key |-> key, reads |-> reads, once |-> FALSE, polls |-> FALSE]
Polled(q) == [q EXCEPT !.polls = TRUE]

MeQuery == [Query(<<"me">>, {"users", "organizations"}) EXCEPT !.once = TRUE]
SystemStatusQuery == Polled(Query(<<"system-status">>, {"halt"}))
BlocklistQuery == Query(<<"admin", "blocklist">>, {"blocklist"})
AuditQuery == Query(<<"admin", "audit">>, {"audit"})
UsersQuery == Query(<<"admin", "users">>, {"users"})
SwitchQuery == Query(<<"admin", "kill-switch">>, {"halt"})
OrganizationsQuery == Query(<<"admin", "organizations">>, {"organizations", "scans", "scan"})
HealthQuery == Polled(Query(<<"admin", "health">>, {"scans", "scan"}))
TargetsQuery == Query(<<"targets">>, {"targets", "target"})
TargetQuery == Query(<<"target">>, {"target"})
ScansQuery == Polled(Query(<<"scans">>, {"scans", "scan"}))
RecentScansQuery == Query(<<"scans", "recent">>, {"scans", "scan"})
ScanQuery == Query(<<"scan">>, {"scan"})
ScanFindingsQuery == Query(<<"scan-findings">>, {"findings", "triage"})
ResolvedQuery == Query(<<"findings", "resolved">>, {"findings", "triage"})
FindingsQuery == Query(<<"findings">>, {"findings", "triage", "posture"})
FindingQuery == Query(<<"finding">>, {"triage"})
ReportsQuery == Polled(Query(<<"reports">>, {"reports"}))
DashboardQuery == Query(<<"dashboard">>, {"findings", "triage", "posture", "targets", "target", "blocklist", "scans", "scan"})

Queries ==
  {MeQuery, SystemStatusQuery, BlocklistQuery, AuditQuery, UsersQuery, SwitchQuery, OrganizationsQuery,
   HealthQuery, TargetsQuery, TargetQuery, ScansQuery, RecentScansQuery, ScanQuery, ScanFindingsQuery,
   ResolvedQuery, FindingsQuery, FindingQuery, ReportsQuery, DashboardQuery}

----------------------------------------------------------------------------
(* The changes the pages make: the facts, the keys invalidated once the API has   *)
(* answered, and the keys the answer is written to.                               *)

Made(name, changes, invalidates, seeds) ==
  [name |-> name, changes |-> changes, invalidates |-> invalidates, seeds |-> seeds]

UserChange == Made("role, suspension", {"users", "audit"}, {<<"admin", "users">>}, {})
QuotaChange == Made("quota", {"organizations", "audit"}, {<<"admin", "organizations">>}, {})
BlocklistChange == Made("blocklist", {"blocklist", "audit"}, {<<"admin", "blocklist">>}, {})
HaltChange ==
  Made("kill switch", {"halt", "scan", "audit"}, {<<"admin">>, <<"system-status">>, <<"scans">>}, {})
RegisterTarget == Made("register", {"targets"}, {<<"targets">>}, {})
VerifyOwnTarget == Made("verify", {"target"}, {<<"targets">>, <<"target">>}, {})
ScopeChange == Made("scope", {"target"}, {<<"targets">>, <<"target">>}, {})
ArchiveOwnTarget == Made("archive", {"target", "posture"}, {<<"targets">>, <<"target">>}, {})
TargetDeletion == Made("delete", {"targets", "target", "posture", "scans", "scan", "findings"}, {<<"targets">>}, {})
ScanControl == Made("control", {"scan"}, {<<"scans">>}, {<<"scan">>})
ScanStart == Made("start", {"scans"}, {<<"scans">>}, {})
TriageOne == Made("triage", {"triage"}, {<<"findings">>}, {<<"finding">>})

\* Mutant: a bulk triage refreshes the list and not the finding that is open.
TriageMany_ListOnly == Made("bulk triage", {"triage"}, {<<"findings">>}, {})

TriageMany == Made("bulk triage", {"triage"}, {<<"findings">>, <<"finding">>}, {})

ReportRequest == Made("report", {"reports"}, {<<"reports">>}, {})
ReportShare == Made("share", {"reports"}, {<<"reports">>}, {})

Changes ==
  {UserChange, QuotaChange, BlocklistChange, HaltChange, RegisterTarget, VerifyOwnTarget,
   ScopeChange, ArchiveOwnTarget, TargetDeletion, ScanControl, ScanStart, TriageOne, TriageMany,
   ReportRequest, ReportShare}

Concerns(c, q) == c.changes \cap q.reads # {}
Invalidates(c, q) == \E k \in c.invalidates : IsPrefix(k, q.key)
Seeds(c, q) == q.key \in c.seeds

CacheInit ==
  /\ query \in Queries /\ change \in {c \in Changes : Concerns(c, query)}
  /\ facts = 0 /\ entry = [shows |-> NoData, old |-> FALSE, invalid |-> FALSE, raced |-> FALSE]
  /\ fetch = NoFetch /\ mounted = FALSE /\ mutation = NoFetch /\ told = 0
  /\ racing = FALSE /\ own = 0 /\ others = 0

----------------------------------------------------------------------------
(* The cache (external: TanStack Query with the options of query-client.ts). *)

IsStale == entry.shows = NoData \/ entry.invalid \/ entry.old

\* A fetch that is under way is shared.
Fetched(started) ==
  IF started /\ fetch = NoFetch THEN fetch' = Unread /\ racing' = FALSE ELSE UNCHANGED <<fetch, racing>>

Mount ==
  /\ ~mounted /\ mounted' = TRUE /\ Fetched(IsStale)
  /\ UNCHANGED <<query, change, facts, entry, mutation, told, own, others>>

Unmount ==
  /\ mounted /\ mounted' = FALSE
  /\ UNCHANGED <<query, change, facts, entry, fetch, mutation, told, racing, own, others>>

\* refetchInterval, and the window coming back to the front over stale data.
Refetch ==
  /\ mounted /\ (query.polls \/ IsStale)
  /\ Fetched(TRUE)
  /\ UNCHANGED <<query, change, facts, entry, mounted, mutation, told, own, others>>

ReadFacts ==
  /\ fetch = Unread /\ fetch' = facts
  /\ UNCHANGED <<query, change, facts, entry, mounted, mutation, told, racing, own, others>>

\* The data arrive and count as fresh, whatever was invalidated meanwhile.
FetchEnds ==
  /\ fetch >= 0 /\ fetch' = NoFetch
  /\ entry' = [shows |-> fetch, old |-> FALSE, invalid |-> FALSE, raced |-> racing]
  /\ UNCHANGED <<query, change, facts, mounted, mutation, told, racing, own, others>>

FetchFails ==
  /\ fetch # NoFetch /\ fetch' = NoFetch
  /\ UNCHANGED <<query, change, facts, entry, mounted, mutation, told, racing, own, others>>

\* staleTime: five minutes, or never.
Age ==
  /\ entry.shows # NoData /\ ~query.once /\ entry' = [entry EXCEPT !.old = TRUE]
  /\ UNCHANGED <<query, change, facts, fetch, mounted, mutation, told, racing, own, others>>

----------------------------------------------------------------------------
(* Changes. *)

SendChange ==
  /\ mutation = NoFetch /\ own < MaxOwn
  /\ mutation' = Unread /\ own' = own + 1
  /\ UNCHANGED <<query, change, facts, entry, fetch, mounted, told, racing, others>>

ApplyChange ==
  /\ mutation = Unread
  /\ facts' = facts + 1 /\ mutation' = facts + 1
  /\ UNCHANGED <<query, change, entry, fetch, mounted, told, racing, own, others>>

ChangedByOthers ==
  /\ others < MaxOthers /\ others' = others + 1 /\ facts' = facts + 1
  /\ UNCHANGED <<query, change, entry, fetch, mounted, mutation, told, racing, own>>

\* Mutant: a fetch under way goes on and its data are taken.
Refreshed_Joins ==
  LET again == Invalidates(change, query) /\ mounted IN
  /\ fetch' = IF again /\ fetch = NoFetch THEN Unread ELSE fetch
  /\ racing' = FALSE
  /\ entry' = IF Seeds(change, query) THEN [shows |-> mutation, old |-> FALSE, invalid |-> FALSE, raced |-> FALSE]
              ELSE IF Invalidates(change, query) /\ entry.shows # NoData THEN [entry EXCEPT !.invalid = TRUE]
              ELSE entry

\* What invalidation does to the query: one on screen is fetched anew, and a fetch
\* under way is given up unless it is the first; one that is not on screen is
\* marked. Data written to the entry leave a fetch under way alone.
Refreshed ==
  LET again == Invalidates(change, query) /\ mounted
      cancels == again /\ entry.shows # NoData IN
  /\ fetch' = IF again /\ (cancels \/ fetch = NoFetch) THEN Unread ELSE fetch
  /\ racing' = IF again /\ (cancels \/ fetch = NoFetch) THEN FALSE ELSE racing \/ fetch # NoFetch
  /\ entry' = IF Seeds(change, query) THEN [shows |-> mutation, old |-> FALSE, invalid |-> FALSE, raced |-> FALSE]
              ELSE IF Invalidates(change, query) /\ entry.shows # NoData THEN [entry EXCEPT !.invalid = TRUE]
              ELSE entry

\* onSuccess of the mutation.
ChangeAnswered ==
  /\ mutation > 0
  /\ Refreshed /\ told' = mutation /\ mutation' = NoFetch
  /\ UNCHANGED <<query, change, facts, mounted, own, others>>

CacheNext ==
  \/ Mount \/ Unmount \/ Refetch \/ ReadFacts \/ FetchEnds \/ FetchFails \/ Age
  \/ SendChange \/ ApplyChange \/ ChangedByOthers \/ ChangeAnswered

----------------------------------------------------------------------------
(* Properties. *)

CacheTypeOK ==
  /\ facts \in 0..MaxOwn + MaxOthers /\ entry.shows \in NoData..facts
  /\ fetch \in Unread..facts /\ mutation \in Unread..facts /\ told \in 0..facts

\* Pages that go on showing what was there before a change of this tab, until the
\* data are five minutes old or polled again: the change does not refresh them.
KnownGaps ==
  {<<"role, suspension", <<"me">>>>, <<"quota", <<"me">>>>, <<"kill switch", <<"scan">>>>} \cup
  ({"role, suspension", "quota", "blocklist"} \X {<<"admin", "audit">>}) \cup
  ({"register", "verify", "scope", "archive", "delete", "blocklist", "kill switch", "control",
    "start", "triage", "bulk triage"} \X {<<"dashboard">>}) \cup
  ({"archive", "delete"} \X {<<"findings">>}) \cup
  ({"delete"} \X {<<"target">>, <<"scan">>, <<"scans">>, <<"scans", "recent">>,
                  <<"scan-findings">>, <<"findings", "resolved">>}) \cup
  ({"delete", "control", "start"} \X {<<"admin", "health">>, <<"admin", "organizations">>}) \cup
  ({"triage", "bulk triage"} \X {<<"scan-findings">>})

\* A page does not go back behind a change this tab made and saw accepted, unless
\* its fetch failed, was already under way without data to replace, or the change
\* does not refresh it at all.
OwnChangesShown ==
  (/\ <<change.name, query.key>> \notin KnownGaps \/ Seeds(change, query)
   /\ entry.shows # NoData /\ ~entry.invalid /\ ~entry.raced)
  => entry.shows >= told
=============================================================================
