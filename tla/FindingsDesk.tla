----------------------------- MODULE FindingsDesk -----------------------------
(* The findings pages: the filter bar and the query it becomes, the rows that have *)
(* arrived, the selection made on them, the bulk triage of a selection and the     *)
(* triage form of one finding. Other people triage, rows are fetched again, and    *)
(* what is typed takes effect only once typing pauses.                            *)
EXTENDS Integers, FiniteSets, Sequences, FiniteSetsExt, Functions

CONSTANTS
  Desk,            \* the findings, numbered in the order of the list
  PageSize,        \* rows of a page
  BulkLimit,       \* findings a bulk triage may name
  MaxSends,        \* bound on the requests of this tab
  MaxElsewhere     \* bound on the triage of other people

ASSUME FindingsDeskAssumption ==
  /\ Desk \subseteq Nat /\ IsFiniteSet(Desk)
  /\ PageSize \in Nat \ {0} /\ BulkLimit \in Nat \ {0} /\ MaxSends \in Nat /\ MaxElsewhere \in Nat

VARIABLES
  oneScan,         \* the list of one scan, or the posture
  bar,             \* the filter bar
  settled,         \* the search text as last sent
  state, reason,   \* of each finding, on the server
  rows, more,      \* what has arrived for the filters: a set, and whether there is more
  loading,
  selected, picked, \* the selection, and what was picked since the filters changed
  form,            \* the triage form: NoForm, or what it is for and what it holds
  sending,         \* the request under way
  sends, elsewhere

deskVars == <<oneScan, bar, settled, state, reason, rows, more, loading, selected, picked,
              form, sending, sends, elsewhere>>

\* One state of each kind: one that needs action and takes no reason, one that is
\* hidden from the posture and takes one.
States == {"OPEN", "FALSE_POSITIVE"}
JustifiedStates == {"FALSE_POSITIVE"}
ActionableStates == {"OPEN"}

NoForm == [for |-> {}, initial |-> "OPEN", prefill |-> "", choice |-> "OPEN", text |-> "", typed |-> FALSE]
NoRequest == [ids |-> {}, choice |-> "OPEN", text |-> ""]

----------------------------------------------------------------------------
(* From the bar to the query, and what the API reads in it. *)

Absent == "absent"

ToFilters(b, scan) ==
  [scanId |-> IF scan THEN "scan" ELSE Absent, q |-> IF b.search = "" THEN Absent ELSE b.search,
   triage |-> IF b.triage # "DEFAULT" THEN b.triage ELSE IF scan THEN "all" ELSE Absent,
   sort |-> b.sort, direction |-> b.direction]

\* A parameter that is absent is not in the address.
QueryString(filters) == Restrict(filters, {k \in DOMAIN filters : filters[k] # Absent})

Parameter(q, name) == IF name \in DOMAIN q THEN q[name] ELSE Absent

\* Mutant: "all" leaves out what is hidden by default.
ParseTriage_AllButHidden(q) ==
  IF Parameter(q, "triage") \in States THEN {q["triage"]}
  ELSE IF Parameter(q, "scanId") # Absent THEN States ELSE ActionableStates

ParseTriage(q) ==
  CASE Parameter(q, "triage") = "all" -> States
    [] Parameter(q, "triage") \in States -> {q["triage"]}
    [] OTHER -> IF Parameter(q, "scanId") # Absent THEN States ELSE ActionableStates

ParseSort(q) ==
  LET sort == IF Parameter(q, "sort") = Absent THEN "severity" ELSE q["sort"]
      given == Parameter(q, "direction") IN
  [sort |-> sort, direction |-> IF given # Absent THEN given ELSE IF sort = "name" THEN "asc" ELSE "desc"]

ParseListQuery(q) ==
  [scan |-> Parameter(q, "scanId") # Absent, search |-> Parameter(q, "q"), states |-> ParseTriage(q), order |-> ParseSort(q)]

\* The query of the rows on screen.
Asks == ParseListQuery(QueryString(ToFilters([bar EXCEPT !.search = settled], oneScan)))

\* The text is found in every second finding.
Matching(q) == {f \in Desk : state[f] \in q.states /\ (q.search = Absent \/ f % 2 = 0)}
FirstOf(S, n) == {f \in S : Cardinality({g \in S : g < f}) < n}

----------------------------------------------------------------------------

DeskInit ==
  /\ oneScan \in BOOLEAN
  /\ bar = [triage |-> "DEFAULT", search |-> "", sort |-> "severity", direction |-> "desc"] /\ settled = ""
  /\ state = [f \in Desk |-> "OPEN"] /\ reason = [f \in Desk |-> ""]
  /\ rows = {} /\ more = FALSE /\ loading = TRUE
  /\ selected = {} /\ picked = {}
  /\ form = NoForm /\ sending = NoRequest /\ sends = 0 /\ elsewhere = 0

\* Mutant: the selection outlives the filters it was made under.
FiltersChange_Keeps ==
  /\ rows' = {} /\ more' = FALSE /\ loading' = TRUE /\ picked' = {} /\ UNCHANGED selected

\* Another key of the cache: nothing to show yet, and the selection is dropped.
FiltersChange == rows' = {} /\ more' = FALSE /\ loading' = TRUE /\ picked' = {} /\ selected' = {}

\* Filters that are chosen apply at once, behind no dialog.
ChooseTriageFilter(v) ==
  /\ form = NoForm /\ v # bar.triage
  /\ bar' = [bar EXCEPT !.triage = v]
  /\ FiltersChange
  /\ UNCHANGED <<oneScan, settled, state, reason, form, sending, sends, elsewhere>>

ChooseSort(v) ==
  /\ form = NoForm /\ v # bar.sort
  /\ bar' = [bar EXCEPT !.sort = v, !.direction = IF v = "name" THEN "asc" ELSE "desc"]
  /\ FiltersChange
  /\ UNCHANGED <<oneScan, settled, state, reason, form, sending, sends, elsewhere>>

TypeSearch(v) ==
  /\ form = NoForm /\ bar' = [bar EXCEPT !.search = v]
  /\ UNCHANGED <<oneScan, settled, state, reason, rows, more, loading, selected, picked, form, sending, sends, elsewhere>>

\* 300 ms after the last keystroke, a dialog open or not.
SearchSettles ==
  /\ settled # bar.search /\ settled' = bar.search
  /\ FiltersChange
  /\ form' = IF form.for \in SUBSET selected THEN [form EXCEPT !.for = {}] ELSE form
  /\ UNCHANGED <<oneScan, bar, state, reason, sending, sends, elsewhere>>

----------------------------------------------------------------------------
(* Rows. *)

\* A first page, or every page that is loaded once more.
RowsArrive(n) ==
  LET found == Matching(Asks) IN
  /\ n \in {PageSize, Max({PageSize, Cardinality(rows)})}
  /\ (n = PageSize) = (loading \/ Cardinality(rows) <= PageSize)
  /\ rows' = FirstOf(found, n) /\ more' = (rows' # found) /\ loading' = FALSE
  /\ UNCHANGED <<oneScan, bar, settled, state, reason, selected, picked, form, sending, sends, elsewhere>>

LoadMore ==
  LET rest == {f \in Matching(Asks) : \A g \in rows : g < f} IN
  /\ ~loading /\ more /\ form = NoForm
  /\ rows' = rows \cup FirstOf(rest, PageSize) /\ more' = (Cardinality(rest) > PageSize)
  /\ UNCHANGED <<oneScan, bar, settled, state, reason, loading, selected, picked, form, sending, sends, elsewhere>>

Select(f) ==
  /\ form = NoForm /\ f \in rows
  /\ selected' = IF f \in selected THEN selected \ {f} ELSE selected \cup {f}
  /\ picked' = selected' \cap (picked \cup {f})
  /\ UNCHANGED <<oneScan, bar, settled, state, reason, rows, more, loading, form, sending, sends, elsewhere>>

SelectAll ==
  /\ form = NoForm /\ rows # {}
  /\ selected' = IF rows \subseteq selected THEN {} ELSE rows
  /\ picked' = selected'
  /\ UNCHANGED <<oneScan, bar, settled, state, reason, rows, more, loading, form, sending, sends, elsewhere>>

----------------------------------------------------------------------------
(* The triage form, in the dialog over a selection and on the page of a finding. *)

OpenBulk ==
  /\ form = NoForm /\ selected # {}
  /\ form' = [NoForm EXCEPT !.for = selected]
  /\ UNCHANGED <<oneScan, bar, settled, state, reason, rows, more, loading, selected, picked, sending, sends, elsewhere>>

\* The page of a finding starts from what is recorded of it; leaving the list
\* forgets the selection.
OpenFinding(f) ==
  /\ form = NoForm /\ f \in rows
  /\ form' = [for |-> {f}, initial |-> state[f], prefill |-> reason[f], choice |-> state[f], text |-> reason[f], typed |-> FALSE]
  /\ selected' = {}
  /\ UNCHANGED <<oneScan, bar, settled, state, reason, rows, more, loading, picked, sending, sends, elsewhere>>

LeaveForm ==
  /\ form # NoForm /\ sending = NoRequest /\ form' = NoForm
  /\ UNCHANGED <<oneScan, bar, settled, state, reason, rows, more, loading, selected, picked, sending, sends, elsewhere>>

\* Mutant: the text stays as it is when another state is chosen.
JustificationFor_Stays(next, current, initial, prefill) == current

\* The recorded reason explains the recorded state: it goes with another choice and
\* comes back with the first. What was typed is left alone.
JustificationFor(next, current, initial, prefill) ==
  IF next = initial THEN IF current = "" THEN prefill ELSE current
  ELSE IF current = prefill THEN "" ELSE current

ChooseState(v) ==
  /\ form # NoForm /\ v # form.choice
  /\ form' = [form EXCEPT !.choice = v, !.text = JustificationFor(v, @, form.initial, form.prefill)]
  /\ UNCHANGED <<oneScan, bar, settled, state, reason, rows, more, loading, selected, picked, sending, sends, elsewhere>>

TypeReason(v) ==
  /\ form # NoForm /\ v # form.text
  /\ form' = [form EXCEPT !.text = v, !.typed = TRUE]
  /\ UNCHANGED <<oneScan, bar, settled, state, reason, rows, more, loading, selected, picked, sending, sends, elsewhere>>

Missing(choice, text) == choice \in JustifiedStates /\ text = ""

SubmitForm ==
  /\ form # NoForm /\ sending = NoRequest /\ sends < MaxSends
  /\ ~Missing(form.choice, form.text)
  /\ form.for # {}           \* a dialog over no finding is refused by the API
  /\ sending' = [ids |-> form.for, choice |-> form.choice, text |-> form.text] /\ sends' = sends + 1
  /\ UNCHANGED <<oneScan, bar, settled, state, reason, rows, more, loading, selected, picked, form, elsewhere>>

----------------------------------------------------------------------------
(* The API. *)

\* Mutant: the schema does not ask for a reason.
Accepts_NoReason(ids, choice, text) == Cardinality(ids) \in 1..BulkLimit

Accepts(ids, choice, text) == Cardinality(ids) \in 1..BulkLimit /\ ~Missing(choice, text)

\* All of the findings that are not in that state already, for that reason.
Recorded(ids, choice, text) ==
  /\ state' = [f \in Desk |-> IF f \in ids THEN choice ELSE state[f]]
  /\ reason' = [f \in Desk |-> IF f \in ids THEN text ELSE reason[f]]

\* The lists are fetched again, the selection is over and the dialog closed; the
\* page of a finding shows what is recorded now.
TriageAnswered ==
  /\ sending # NoRequest /\ Accepts(sending.ids, sending.choice, sending.text)
  /\ Recorded(sending.ids, sending.choice, sending.text)
  /\ form' = NoForm /\ selected' = {} /\ sending' = NoRequest
  /\ rows' = FirstOf({f \in Desk : state'[f] \in Asks.states /\ (Asks.search = Absent \/ f % 2 = 0)}, Max({PageSize, Cardinality(rows)}))
  /\ UNCHANGED <<oneScan, bar, settled, more, loading, picked, sends, elsewhere>>

\* Refused whole: the dialog shows why and keeps what it holds.
TriageRefused ==
  /\ sending # NoRequest /\ ~Accepts(sending.ids, sending.choice, sending.text)
  /\ sending' = NoRequest
  /\ UNCHANGED <<oneScan, bar, settled, state, reason, rows, more, loading, selected, picked, form, sends, elsewhere>>

\* Anyone else, from any client.
TriagedElsewhere(f, v, t) ==
  /\ elsewhere < MaxElsewhere /\ Accepts({f}, v, t) /\ Recorded({f}, v, t)
  /\ elsewhere' = elsewhere + 1
  /\ UNCHANGED <<oneScan, bar, settled, rows, more, loading, selected, picked, form, sending, sends>>

DeskNext ==
  \/ \E v \in {"DEFAULT", "all", "FALSE_POSITIVE"} : ChooseTriageFilter(v)
  \/ \E v \in {"severity", "name"} : ChooseSort(v)
  \/ SearchSettles \/ \E v \in {"", "text"} : TypeSearch(v)
  \/ \E n \in PageSize..Cardinality(Desk) : RowsArrive(n)
  \/ LoadMore \/ SelectAll \/ \E f \in Desk : Select(f) \/ OpenFinding(f)
  \/ OpenBulk \/ LeaveForm \/ SubmitForm \/ TriageAnswered \/ TriageRefused
  \/ \E v \in States : ChooseState(v)
  \/ \E t \in {"", "typed"} : TypeReason(t)
  \/ \E f \in Desk, v \in States, t \in {"", "recorded"} : TriagedElsewhere(f, v, t)

----------------------------------------------------------------------------
(* Properties. *)

DeskTypeOK ==
  /\ rows \subseteq Desk /\ selected \subseteq Desk /\ state \in [Desk -> States]
  /\ form.choice \in States /\ sends \in 0..MaxSends

\* The API reads what the bar says: one scan is shown whole unless a state is
\* chosen, the posture shows what needs action, and the order is the one shown.
AskedIsMeant ==
  LET meant == CASE bar.triage = "all" \/ (bar.triage = "DEFAULT" /\ oneScan) -> States
                 [] bar.triage = "DEFAULT" /\ ~oneScan -> ActionableStates
                 [] OTHER -> {bar.triage} IN
  /\ Asks.states = meant /\ Asks.scan = oneScan
  /\ Asks.order = [sort |-> bar.sort, direction |-> bar.direction]

\* What is selected, and what a bulk triage is about to be recorded for, was picked
\* under the filters on screen.
SelectionUnderFilters == selected \subseteq picked

\* The reason of one state is not sent as that of another, and a finding that is
\* hidden has a reason, whoever hid it.
ReasonOfItsState ==
  /\ form.text # "" /\ ~form.typed => form.choice = form.initial
  /\ \A f \in Desk : state[f] \in JustifiedStates => reason[f] # ""

\* What is filtered, selected and recorded is what the analyst meant.
TriageAsMeant == AskedIsMeant /\ SelectionUnderFilters /\ ReasonOfItsState
=============================================================================
