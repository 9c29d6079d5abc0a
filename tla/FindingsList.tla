------------------------------ MODULE FindingsList ------------------------------
(* The findings of a target's current posture, read page by page with a keyset   *)
(* cursor while scans complete, findings are triaged and the target is archived. *)
(*                                                                               *)
(* One page is several reads (the scope, the filter on the triage projection,    *)
(* the rows, the triage to show), none of them in a transaction; rows themselves *)
(* are never changed. The database orders the rows; the cursor has to say what   *)
(* comes after a row in that order, for nullable columns and both directions.    *)
EXTENDS Integers, FiniteSets, Sequences, SequencesExt, Functions

CONSTANTS
  Finding,         \* ids, positive numbers in the order of the database
  FoundBy,         \* [Finding -> 1..2], the scan that wrote a finding
  PrintOf,         \* [Finding -> fingerprints]
  NoScore,         \* the null of a CVSS score
  Tables,          \* the tables of rows to list: severity and score of each finding
  PageSizes,       \* limits a client asks for
  MaxPosture       \* bound on the changes around a listing

ASSUME FindingsAssumption ==
  /\ Finding \subseteq Nat \ {0} /\ IsFiniteSet(Finding)
  /\ FoundBy \in [Finding -> 1..2] /\ DOMAIN PrintOf = Finding
  /\ NoScore \notin Nat
  /\ Tables \subseteq [Finding -> [severity : Nat, cvss : Nat \cup {NoScore}]]
  /\ PageSizes \subseteq Nat \ {0} /\ MaxPosture \in Nat

VARIABLES
  found,           \* the rows: severity and score of each finding
  completed,       \* the newest COMPLETED scan of the target; 0 before there is one
  archived,
  triaged,         \* target_finding_triage: the state of each fingerprint, if it has a row
  listing,         \* the client's listing and the request in progress
  steady,          \* findings that have matched ever since the listing began
  postureChanges

listVars == <<found, completed, archived, triaged, listing, steady, postureChanges>>

Prints == Range(PrintOf)
TriageStates == {"OPEN", "CONFIRMED", "FALSE_POSITIVE"}
Actionable == {"OPEN", "CONFIRMED"}
NoRow == 0

NoListing == [pc |-> "idle", sort |-> "severity", dir |-> "desc", states |-> Actionable,
              limit |-> 1, after |-> NoRow, cursorOf |-> <<"severity", "desc">>,
              scope |-> {}, hidden |-> {}, page |-> <<>>, more |-> FALSE, listed |-> <<>>]

ListInit ==
  /\ found \in Tables
  /\ completed = 1 /\ archived = FALSE
  /\ triaged \in [Prints -> {"none", "FALSE_POSITIVE"}]
  /\ listing = NoListing /\ steady = {} /\ postureChanges = 0

----------------------------------------------------------------------------
(* The order of the database, and what the cursor takes for it. *)

\* SORT_COLUMNS: by severity and then score, or by score; then by the id, ascending.
SortKeys == {"severity", "cvss"}

Precedes(v, w, dir) ==
  /\ v # NoScore
  /\ w = NoScore \/ (IF dir = "desc" THEN v > w ELSE v < w)

AheadOn(col, f, g, dir, rest) ==
  IF found[f][col] = found[g][col] THEN rest ELSE Precedes(found[f][col], found[g][col], dir)

\* ORDER BY the columns, nulls last, then the id (external: PostgreSQL).
Before(f, g, sort, dir) ==
  LET byScore == AheadOn("cvss", f, g, dir, f < g) IN
  IF sort = "severity" THEN AheadOn("severity", f, g, dir, byScore) ELSE byScore

\* beyond(): strictly past the value, nulls not among them.
Beyond(v, bound, dir) == v # NoScore /\ (IF dir = "desc" THEN v < bound ELSE v > bound)

\* Mutant: no row without the value comes after one with it.
AfterOn_NullsFirst(col, g, f, dir, rest) ==
  LET v == found[g][col]  at == found[f][col] IN
  IF at = NoScore THEN v = NoScore /\ rest ELSE Beyond(v, at, dir) \/ (v = at /\ rest)

\* after(index): beyond on a key, or equal on it and after on the rest; a null is
\* beyond any value and followed by nulls only.
AfterOn(col, g, f, dir, rest) ==
  LET v == found[g][col]  at == found[f][col] IN
  IF at = NoScore THEN v = NoScore /\ rest
  ELSE Beyond(v, at, dir) \/ (v = at /\ rest) \/ v = NoScore

\* findingsAfter(): after the cursor, key by key.
After(g, f, sort, dir) ==
  LET byScore == AfterOn("cvss", g, f, dir, g > f) IN
  IF sort = "severity" THEN AfterOn("severity", g, f, dir, byScore) ELSE byScore

\* The rows of fs in the order of the database: the i-th has i - 1 of them before it.
Sorted(fs, sort, dir) ==
  [i \in 1..Cardinality(fs) |->
     CHOOSE f \in fs : Cardinality({g \in fs : Before(g, f, sort, dir)}) = i - 1]

----------------------------------------------------------------------------
(* A listing. *)

UnchangedButListing == UNCHANGED <<found, completed, archived, triaged, postureChanges>>

\* resolveScope: the newest completed scan of each target that is not archived.
Scope == IF archived \/ completed = 0 THEN {} ELSE {completed}

StateOf(p) == IF triaged[p] = "none" THEN "OPEN" ELSE triaged[p]

\* triageFilter: a fingerprint without a row is OPEN, so a filter with OPEN hides
\* the rows in other states and one without it hides all but those listed.
Hidden(states) ==
  IF "OPEN" \in states
  THEN {p \in Prints : triaged[p] \in TriageStates \ states}
  ELSE Prints \ {p \in Prints : triaged[p] \in states}

Matches(f, states) == FoundBy[f] \in Scope /\ StateOf(PrintOf[f]) \in states

\* parseFindingListQuery: a new listing, in one of the orders and filters.
BeginListing ==
  /\ listing.pc = "idle"
  /\ \E sort \in SortKeys, dir \in {"asc", "desc"}, limit \in PageSizes,
       states \in {Actionable, {"CONFIRMED", "FALSE_POSITIVE"}, TriageStates} :
       /\ listing' = [NoListing EXCEPT !.pc = "scope", !.sort = sort, !.dir = dir,
                        !.limit = limit, !.states = states, !.cursorOf = <<sort, dir>>]
       /\ steady' = {f \in Finding : Matches(f, states)}
  /\ UnchangedButListing

\* Mutant: a cursor is taken for any order.
CursorAccepted_Always(l) == l.limit = l.limit

\* parseCursor: a cursor is good for the order it was issued for.
CursorAccepted(l) == l.cursorOf = <<l.sort, l.dir>>

\* The next page; a client may turn the order round with the cursor it has.
AskNextPage ==
  /\ listing.pc = "more"
  /\ \E dir \in {"asc", "desc"} :
       LET asked == [listing EXCEPT !.dir = dir] IN
       listing' = IF CursorAccepted(asked) THEN [asked EXCEPT !.pc = "scope"] ELSE listing
  /\ UNCHANGED steady /\ UnchangedButListing

ResolveScope ==
  /\ listing.pc = "scope"
  /\ listing' = IF Scope = {} THEN [listing EXCEPT !.pc = "end"]
                ELSE [listing EXCEPT !.pc = "filter", !.scope = Scope]
  /\ UNCHANGED steady /\ UnchangedButListing

ReadFilter == LET hidden == Hidden(listing.states) IN
  /\ listing.pc = "filter"
  /\ listing' = IF hidden = Prints THEN [listing EXCEPT !.pc = "end"]
                ELSE [listing EXCEPT !.pc = "rows", !.hidden = hidden]
  /\ UNCHANGED steady /\ UnchangedButListing

\* One row more than the limit tells whether there is another page.
ReadRows ==
  LET l == listing
      matching == {f \in Finding : /\ FoundBy[f] \in l.scope /\ PrintOf[f] \notin l.hidden
                                   /\ l.after # NoRow => After(f, l.after, l.sort, l.dir)}
      rows == Sorted(matching, l.sort, l.dir)
      page == SubSeq(rows, 1, IF Len(rows) > l.limit THEN l.limit ELSE Len(rows))
  IN /\ l.pc = "rows"
     /\ listing' = [l EXCEPT !.pc = "show", !.page = page, !.more = Len(rows) > l.limit]
     /\ UNCHANGED steady /\ UnchangedButListing

\* toSummaries adds the triage and the diff; the page and its cursor are answered.
ShowPage ==
  /\ listing.pc = "show"
  /\ listing' = [listing EXCEPT
       !.listed = @ \o listing.page, !.page = <<>>,
       !.after = IF listing.more THEN Last(listing.page) ELSE @,
       !.pc = IF listing.more THEN "more" ELSE "end"]
  /\ UNCHANGED steady /\ UnchangedButListing

----------------------------------------------------------------------------
(* What changes meanwhile. *)

Change == postureChanges < MaxPosture /\ postureChanges' = postureChanges + 1

TriageFinding ==
  /\ \E p \in Prints, s \in TriageStates :
       triaged[p] # s /\ triaged' = [triaged EXCEPT ![p] = s]
  /\ UNCHANGED <<found, completed, archived, listing>>

CompleteScan ==
  /\ completed = 1 /\ completed' = 2
  /\ UNCHANGED <<found, archived, triaged, listing>>

ArchiveListed == archived' = ~archived /\ UNCHANGED <<found, completed, triaged, listing>>

PostureChanges ==
  /\ Change /\ listing.pc \notin {"idle", "end"}
  /\ TriageFinding \/ CompleteScan \/ ArchiveListed
  /\ steady' = {f \in steady : Matches(f, listing.states)'}

ListNext ==
  \/ BeginListing \/ AskNextPage \/ ResolveScope \/ ReadFilter \/ ReadRows \/ ShowPage
  \/ PostureChanges

----------------------------------------------------------------------------
(* Properties. *)

ListTypeOK ==
  /\ listing.pc \in {"idle", "scope", "filter", "rows", "show", "more", "end"}
  /\ ToSet(listing.listed) \cup ToSet(listing.page) \cup steady \subseteq Finding
  /\ listing.after \in Finding \cup {NoRow} /\ listing.hidden \subseteq Prints
  /\ triaged \in [Prints -> TriageStates \cup {"none"}] /\ completed \in 0..2

\* Whatever is triaged, completed or archived between two reads, the pages of one
\* listing repeat no finding and keep its order, and every finding that matched
\* all the time is on one of them once the listing has ended. (With nothing
\* changed these are exactly the findings that match.)
ListingExact ==
  /\ \A i, j \in DOMAIN listing.listed : i < j =>
       Before(listing.listed[i], listing.listed[j], listing.sort, listing.dir)
  /\ listing.pc = "end" => steady \subseteq ToSet(listing.listed)
  /\ (listing.pc = "end" /\ postureChanges = 0) => ToSet(listing.listed) = steady
=============================================================================
