-------------------------------- MODULE Triage --------------------------------
(* Triage decisions. A request reads the projection, decides what changes, and  *)
(* appends one history row per change in a single statement. The trigger of the *)
(* database projects each row; it waits for the row locks of other statements,  *)
(* so its clock reading and its write are two steps.                            *)
EXTENDS Integers, FiniteSets, Sequences, SequencesExt

CONSTANTS
  Analyst,       \* triage requests, each sent at most once
  Fingerprint,         \* fingerprints of one target
  Decision,      \* a state with its justification
  Open,          \* OPEN without a justification
  Nobody,
  MaxClock       \* bound of clock_timestamp

ASSUME TriageAssumption ==
  /\ IsFiniteSet(Analyst) /\ IsFiniteSet(Fingerprint)
  /\ Open \in Decision /\ Nobody \notin Analyst /\ MaxClock \in Nat \ {0}

VARIABLES
  analyst,       \* the requests
  history,       \* committed rows of finding_triage_history
  projection,    \* target_finding_triage
  rowLock,       \* who holds the projection row, or its unique key, of each print
  clock

triageVars == <<analyst, history, projection, rowLock, clock>>

NoProjection == [decision |-> Open, at |-> 0, last |-> 0]
NoTriage == [pc |-> "idle", subjects |-> {}, prints |-> <<>>, decision |-> Open,
             ids |-> <<>>, next |-> 1, stamp |-> 0, writes |-> {}]

TriageInit ==
  /\ analyst = [a \in Analyst |-> NoTriage]
  /\ history = {} /\ projection = [p \in Fingerprint |-> NoProjection]
  /\ rowLock = [p \in Fingerprint |-> Nobody]
  /\ clock = 1

ClockTicks ==
  /\ clock < MaxClock /\ clock' = clock + 1
  /\ UNCHANGED <<analyst, history, projection, rowLock>>

----------------------------------------------------------------------------
(* triageFindings, applyTriage *)

\* One decision for a list of findings; findings of several scans that share a
\* fingerprint are one subject.
ReceiveTriage(a) ==
  /\ analyst[a].pc = "idle"
  /\ \E subjects \in (SUBSET Fingerprint) \ {{}}, decision \in Decision :
       analyst' = [analyst EXCEPT ![a] = [NoTriage EXCEPT !.pc = "read",
                     !.subjects = subjects, !.decision = decision]]
  /\ UNCHANGED <<history, projection, rowLock, clock>>

\* A subject changes if its state or its justification differs from the row's,
\* and no row is OPEN.
Changes(subjects, decision) == {p \in subjects : projection[p].decision # decision}

\* The changes go in the order in which the database returned the findings.
ReadTriage(a) == LET changes == Changes(analyst[a].subjects, analyst[a].decision) IN
  /\ analyst[a].pc = "read"
  /\ \E prints \in SetToSeqs(changes) :
       analyst' = [analyst EXCEPT ![a].prints = prints,
                     ![a].pc = IF changes = {} THEN "done" ELSE "insert"]
  /\ UNCHANGED <<history, projection, rowLock, clock>>

\* Ids are cuids: distinct, in no useful order.
UsedIds == {h.id : h \in history}
           \cup UNION {{analyst[a].ids[i] : i \in DOMAIN analyst[a].ids} : a \in Analyst}
IdPool == 1..Cardinality(Analyst) * Cardinality(Fingerprint)

\* createMany: the rows get their ids, and stay invisible.
InsertHistory(a) ==
  /\ analyst[a].pc = "insert"
  /\ \E ids \in [DOMAIN analyst[a].prints -> IdPool \ UsedIds] :
       /\ IsInjective(ids)
       /\ analyst' = [analyst EXCEPT ![a].pc = "stamp", ![a].ids = ids]
  /\ UNCHANGED <<history, projection, rowLock, clock>>

----------------------------------------------------------------------------
(* sync_target_finding_triage, for each inserted row in turn. *)

Printed(a) == analyst[a].prints[analyst[a].next]

\* The VALUES list, clock_timestamp() among them, is evaluated first ...
StampRow(a) ==
  /\ analyst[a].pc = "stamp"
  /\ analyst' = [analyst EXCEPT ![a].pc = "upsert", ![a].stamp = clock]
  /\ UNCHANGED <<history, projection, rowLock, clock>>

\* Mutant: the last write wins.
MayReplace_Always(row, at, id) == TRUE

\* ... and compared with the row as it is once its lock is held.
MayReplace(row, at, id) == row.at < at \/ (row.at = at /\ row.last <= id)

UpsertRow(a) == LET r == analyst[a]  p == Printed(a)  id == r.ids[r.next] IN
  /\ r.pc = "upsert" /\ rowLock[p] = Nobody
  /\ rowLock' = [rowLock EXCEPT ![p] = a]
  /\ analyst' = [analyst EXCEPT
       ![a].writes = @ \cup {[print |-> p, id |-> id, at |-> r.stamp,
                              projects |-> MayReplace(projection[p], r.stamp, id)]},
       ![a].next = @ + 1,
       ![a].pc = IF r.next = Len(r.prints) THEN "commit" ELSE "stamp"]
  /\ UNCHANGED <<history, projection, clock>>

Released(a) == [p \in Fingerprint |-> IF rowLock[p] = a THEN Nobody ELSE rowLock[p]]
WriteOf(a, p) == CHOOSE w \in analyst[a].writes : w.print = p
Projects(a, p) == \E w \in analyst[a].writes : w.print = p /\ w.projects

Commit(a) ==
  /\ analyst[a].pc = "commit"
  /\ history' = history \cup
       {[print |-> w.print, id |-> w.id, decision |-> analyst[a].decision,
         at |-> w.at] : w \in analyst[a].writes}
  /\ projection' = [p \in Fingerprint |->
       IF Projects(a, p)
       THEN [decision |-> analyst[a].decision, at |-> WriteOf(a, p).at,
             last |-> WriteOf(a, p).id]
       ELSE projection[p]]
  /\ rowLock' = Released(a)
  /\ analyst' = [analyst EXCEPT ![a] = [NoTriage EXCEPT !.pc = "done"]]
  /\ UNCHANGED clock

Abort(a) ==
  /\ rowLock' = Released(a)
  /\ analyst' = [analyst EXCEPT ![a] = [NoTriage EXCEPT !.pc = "done"]]
  /\ UNCHANGED <<history, projection, clock>>

WaitsFor(a, b) == analyst[a].pc = "upsert" /\ rowLock[Printed(a)] = b

\* PostgreSQL (external) fails one statement of a cycle of waits.
DeadlockDetected(a) ==
  /\ \E b \in Analyst \ {a} : WaitsFor(a, b) /\ WaitsFor(b, a)
  /\ Abort(a)

\* The API process or its connection is lost before the commit.
ConnectionLost(a) ==
  /\ analyst[a].pc \in {"insert", "stamp", "upsert", "commit"}
  /\ Abort(a)

TriageStep(a) ==
  \/ ReadTriage(a) \/ InsertHistory(a) \/ StampRow(a) \/ UpsertRow(a)
  \/ Commit(a) \/ DeadlockDetected(a)

TriageNext ==
  \/ \E a \in Analyst : ReceiveTriage(a) \/ TriageStep(a) \/ ConnectionLost(a)
  \/ ClockTicks

TriageSpec == TriageInit /\ [][TriageNext]_triageVars

----------------------------------------------------------------------------
(* Properties. *)

TriageTypeOK ==
  /\ \A a \in Analyst :
       /\ analyst[a].pc \in {"idle", "read", "insert", "stamp", "upsert", "commit", "done"}
       /\ analyst[a].decision \in Decision /\ analyst[a].subjects \subseteq Fingerprint
  /\ \A h \in history : h.print \in Fingerprint /\ h.decision \in Decision /\ h.at \in 1..MaxClock
  /\ \A p \in Fingerprint : projection[p].decision \in Decision /\ projection[p].at \in 0..MaxClock
  /\ rowLock \in [Fingerprint -> Analyst \cup {Nobody}]

Rows(p) == {h \in history : h.print = p}
Later(h, g) == h.at > g.at \/ (h.at = g.at /\ h.id > g.id)
Latest(p) == CHOOSE h \in Rows(p) : \A g \in Rows(p) \ {h} : Later(h, g)

\* The projection is the row whose trigger read the clock last, whatever the
\* order in which concurrent statements got the row lock (the replay guard).
ProjectionIsLatest == \A p \in Fingerprint : Rows(p) # {} =>
  projection[p].last = Latest(p).id /\ projection[p].decision = Latest(p).decision
=============================================================================
