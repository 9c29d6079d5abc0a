--------------------------- MODULE Services_proofs ---------------------------
(* Theorems about what works behind the API, beyond those of Reports_proofs: the  *)
(* engine of a scan, the triage of findings, the outbox of mails and what scans    *)
(* store, for any number of requests, workers, faults and rows.                    *)
EXTENDS Services, Reports_proofs, FiniteSetTheorems, SequenceTheorems, TLAPS

-----------------------------------------------------------------------------
(* The engine. For every site and limit, any number of pauses, crashes, faults: the *)
(* request budget holds over all runs of a scan, every request is accounted for, *)
(* and the kill switch lets at most one request past.                            *)

\* The spend a run knows of is never less than what left, the lost rows apart;
\* a request that was cleared while the switch was engaged is marked so.
EngineInv ==
  /\ made \in Nat /\ ledger \in Nat /\ sent \in Nat /\ unledgered \in Nat
  /\ sinceHalt \in Nat
  /\ req \in [at : {"none", "asked", "cleared", "sent"}, url : {req.url},
              depth : {req.depth}, halted : BOOLEAN]
  /\ sent <= made + unledgered
  /\ LedgerComplete /\ BudgetRespected /\ OneAfterHalt
  /\ (halted /\ req.at = "cleared" /\ ~req.halted) => sinceHalt = 0

LEMMA LimitNat == MaxRequests \in Nat
BY EngineAssumption

LEMMA EngineInitInv == ASSUME EngineInit PROVE EngineInv
BY EngineAssumption DEF EngineInit, EngineInv, LedgerComplete, BudgetRespected,
  OneAfterHalt, NoReq

\* The steps that only choose or drop a request leave every count alone.
LEMMA CountsKept ==
  ASSUME EngineInv, UNCHANGED <<halted, made, ledger, sent, unledgered, sinceHalt>>,
         \/ UNCHANGED req
         \/ req.at # "sent" /\ req' = NoReq
         \/ req.at # "sent" /\ \E u, d : Ask(u, d)
  PROVE  EngineInv'
<1>1. CASE UNCHANGED req
  BY <1>1 DEF EngineInv, LedgerComplete, BudgetRespected, OneAfterHalt
<1>2. CASE req.at # "sent" /\ req' = NoReq
  BY <1>2 DEF EngineInv, LedgerComplete, BudgetRespected, OneAfterHalt, NoReq
<1>3. CASE req.at # "sent" /\ \E u, d : Ask(u, d)
  <2>1. PICK u, d : req' = [at |-> "asked", url |-> u, depth |-> d, halted |-> FALSE]
    BY <1>3 DEF Ask
  <2>2. req.at # "sent"
    BY <1>3
  <2> QED
    BY <2>1, <2>2 DEF EngineInv, LedgerComplete, BudgetRespected, OneAfterHalt
<1> QED BY <1>1, <1>2, <1>3

LEMMA StartRunInv == ASSUME EngineInv, StartRun PROVE EngineInv'
BY DEF StartRun, EngineInv, LedgerComplete, BudgetRespected, OneAfterHalt

LEMMA ReadControlsInv == ASSUME EngineInv, ReadControls PROVE EngineInv'
<1>1. PICK engaged \in BOOLEAN :
        /\ ReadSwitch(engaged)
        /\ req' = NoReq \/ req' = [req EXCEPT !.at = "cleared", !.halted = engaged]
  BY DEF ReadControls
<1>2. halted => engaged
  BY <1>1 DEF ReadSwitch
<1>3. UNCHANGED <<halted, made, ledger, sent, unledgered, sinceHalt>> /\ req.at = "asked"
  BY DEF ReadControls, UnchangedButRun
<1>4. CASE req' = NoReq
  BY <1>3, <1>4, CountsKept
<1>5. CASE req' = [req EXCEPT !.at = "cleared", !.halted = engaged]
  BY <1>2, <1>3, <1>5 DEF EngineInv, LedgerComplete, BudgetRespected, OneAfterHalt
<1> QED BY <1>1, <1>4, <1>5

\* What the guard lets through was not refused for the switch nor the ceiling.
LEMMA AllowedWithin ==
  ASSUME NEW dns, Refusal(dns) = "allowed"
  PROVE  ~req.halted /\ ~(made >= MaxRequests)
BY DEF Refusal

LEMMA AuthorizeInv == ASSUME EngineInv, Authorize PROVE EngineInv'
<1>1. PICK dns : IF Refusal(dns) = "allowed"
        THEN /\ req' = [req EXCEPT !.at = "sent"] /\ made' = made + 1
             /\ sent' = sent + 1 /\ sinceHalt' = IF halted THEN sinceHalt + 1 ELSE 0
        ELSE req' = NoReq /\ UNCHANGED <<made, sent, sinceHalt>>
  BY DEF Authorize
<1>2. UNCHANGED <<halted, ledger, unledgered>> /\ req.at = "cleared"
  BY DEF Authorize
<1>3. CASE Refusal(dns) = "allowed"
  <2>1. ~req.halted /\ ~(made >= MaxRequests)
    BY <1>3, AllowedWithin
  <2>2. MaxRequests \in Nat
    BY EngineAssumption
  <2> QED
    BY <1>1, <1>2, <1>3, <2>1, <2>2
       DEF EngineInv, LedgerComplete, BudgetRespected, OneAfterHalt
<1>4. CASE Refusal(dns) # "allowed"
  BY <1>1, <1>2, <1>4, CountsKept
<1> QED BY <1>3, <1>4

LEMMA AnswerInv == ASSUME EngineInv, Answer PROVE EngineInv'
<1>1. /\ req.at = "sent" /\ req' = NoReq
      /\ \/ ledger' = ledger + 1 /\ UNCHANGED unledgered
         \/ unledgered' = unledgered + 1 /\ UNCHANGED ledger
      /\ UNCHANGED <<halted, made, sent, sinceHalt>>
  BY DEF Answer
<1> QED
  BY <1>1, LimitNat
     DEF EngineInv, LedgerComplete, BudgetRespected, OneAfterHalt, NoReq

LEMMA EngineDiesInv == ASSUME EngineInv, EngineDies PROVE EngineInv'
BY LimitNat
   DEF EngineDies, EngineInv, LedgerComplete, BudgetRespected, OneAfterHalt, NoReq

LEMMA SwitchKillInv == ASSUME EngineInv, SwitchKill PROVE EngineInv'
BY DEF SwitchKill, EngineInv, LedgerComplete, BudgetRespected, OneAfterHalt

LEMMA PhaseStepInv == ASSUME EngineInv, PhaseStep PROVE EngineInv'
<1>1. UNCHANGED <<halted, made, ledger, sent, unledgered, sinceHalt>>
  BY DEF PhaseStep, UnchangedButRun
<1>2. UNCHANGED req \/ (req.at = "none" /\ \E u, d : Ask(u, d))
  <2>1. CASE AskRobots BY <2>1 DEF AskRobots, Between
  <2>2. CASE ReadSitemap BY <2>2 DEF ReadSitemap, Between
  <2>3. CASE Visit BY <2>3 DEF Visit, Between
  <2>4. CASE EndVisits BY <2>4 DEF EndVisits, Between, BrowserOpens
  <2>5. CASE BrowserAsks BY <2>5 DEF BrowserAsks, Between
  <2>6. CASE EndRender BY <2>6 DEF EndRender, Between, BrowserOpens
  <2>7. CASE ShakeHands BY <2>7 DEF ShakeHands, Between
  <2>8. CASE ProbeActively BY <2>8 DEF ProbeActively, Between
  <2> QED
    BY <2>1, <2>2, <2>3, <2>4, <2>5, <2>6, <2>7, <2>8 DEF PhaseStep
<1> QED BY <1>1, <1>2, CountsKept

LEMMA EngineStepInv == ASSUME EngineInv, [EngineNext]_engineVars PROVE EngineInv'
<1>1. CASE StartRun BY <1>1, StartRunInv
<1>2. CASE PhaseStep BY <1>2, PhaseStepInv
<1>3. CASE Checkpoint BY <1>3, CountsKept DEF Checkpoint, UnchangedButRun
<1>4. CASE ReadControls BY <1>4, ReadControlsInv
<1>5. CASE DropRequest BY <1>5, CountsKept DEF DropRequest, UnchangedButRun
<1>6. CASE Authorize BY <1>6, AuthorizeInv
<1>7. CASE Answer BY <1>7, AnswerInv
<1>8. CASE EngineReturns BY <1>8, CountsKept DEF EngineReturns
<1>9. CASE EngineDies BY <1>9, EngineDiesInv
<1>10. CASE PauseOrResume BY <1>10, CountsKept DEF PauseOrResume
<1>11. CASE SwitchKill BY <1>11, SwitchKillInv
<1>12. CASE UNCHANGED engineVars BY <1>12, CountsKept DEF engineVars
<1> QED
  BY <1>1, <1>2, <1>3, <1>4, <1>5, <1>6, <1>7, <1>8, <1>9, <1>10, <1>11, <1>12
     DEF EngineNext

LEMMA EngineInvariant == EngineSpec => []EngineInv
<1>1. EngineInit => EngineInv
  BY EngineInitInv
<1>2. EngineInv /\ [EngineNext]_engineVars => EngineInv'
  BY EngineStepInv
<1> QED BY <1>1, <1>2, PTL DEF EngineSpec

\* Over pauses, resumes, crashes and redeliveries, no more requests reach the
\* target than maxRequests and those whose ledger row was lost (loadResume counts
\* the ledger; the guard's ceiling counts what the run made).
THEOREM BudgetHolds == EngineSpec => []BudgetRespected
<1>1. EngineInv => BudgetRespected
  BY DEF EngineInv
<1> QED BY <1>1, EngineInvariant, PTL

\* Every request that left a run has its ledger row, is waiting for its answer,
\* or lost its row to a fault.
THEOREM RequestsAccounted == EngineSpec => []LedgerComplete
<1>1. EngineInv => LedgerComplete
  BY DEF EngineInv
<1> QED BY <1>1, EngineInvariant, PTL

\* After the kill switch was engaged at most one request still leaves the run:
\* the one already past its check (ADR-0008).
THEOREM HaltStops == EngineSpec => []OneAfterHalt
<1>1. EngineInv => OneAfterHalt
  BY DEF EngineInv
<1> QED BY <1>1, EngineInvariant, PTL

-----------------------------------------------------------------------------
(* Triage. For any number of concurrent requests, any clock and any order of ids,  *)
(* locks, deadlocks and lost connections: the projection is the latest decision.   *)

Places == {"idle", "read", "insert", "stamp", "upsert", "commit", "done"}
WriteType == [print : Fingerprint, id : Int, at : Int, projects : BOOLEAN]
RowType == [print : Fingerprint, id : Int, decision : Decision, at : Int]
RequestType == [pc : Places, subjects : SUBSET Fingerprint, prints : Seq(Fingerprint),
                decision : Decision, ids : Seq(Int), next : Int, stamp : Int,
                writes : SUBSET WriteType]

Shape ==
  /\ analyst \in [Analyst -> RequestType]
  /\ history \in SUBSET RowType
  /\ projection \in [Fingerprint -> [decision : Decision, at : Int, last : Int]]
  /\ rowLock \in [Fingerprint -> Analyst \cup {Nobody}]
  /\ clock \in Int /\ clock >= 1

\* A request holds ids from the insert on and writes from the upsert on: one write
\* for a fingerprint, judged against the projection, which waits for its lock.
Draft(r) ==
  /\ r.pc \notin {"stamp", "upsert", "commit"} => r.writes = {} /\ r.ids = <<>>
  /\ r.pc \in {"stamp", "upsert", "commit"} => DOMAIN r.ids = DOMAIN r.prints
  /\ r.pc \in {"read", "insert"} => r.next = 1
  /\ r.pc = "insert" => 1 \in DOMAIN r.prints
  /\ r.pc \in {"stamp", "upsert"} => r.next \in DOMAIN r.ids
  /\ r.pc = "upsert" => r.stamp >= 1
  /\ \A i, j \in DOMAIN r.ids : r.ids[i] = r.ids[j] => i = j
  /\ \A w \in r.writes : w.at >= 1 /\ \E i \in DOMAIN r.ids : i < r.next /\ w.id = r.ids[i]
  /\ \A w, x \in r.writes : w.print = x.print \/ w.id = x.id => w = x
Judged(r) == \A w \in r.writes : w.projects = MayReplace(projection[w.print], w.at, w.id)

\* A request holds the lock of exactly the projections it has written.
LocksHeld == \A a \in Analyst, p \in Fingerprint :
  rowLock[p] = a <=> \E w \in analyst[a].writes : w.print = p

\* No two rows, committed or not, have an id in common.
IdsOf(a) == {analyst[a].ids[i] : i \in DOMAIN analyst[a].ids}
IdsApart ==
  /\ \A a, b \in Analyst : a # b => IdsOf(a) \cap IdsOf(b) = {}
  /\ \A a \in Analyst, h \in history : h.id \notin IdsOf(a)
  /\ \A h, g \in history : h.id = g.id => h = g

IsNewest(h, p) == h \in Rows(p) /\ \A g \in Rows(p) \ {h} : Later(h, g)
Projected(p) ==
  /\ Rows(p) = {} => projection[p].at = 0
  /\ Rows(p) # {} => \E h \in Rows(p) : /\ IsNewest(h, p)
                                        /\ projection[p].decision = h.decision
                                        /\ projection[p].at = h.at
                                        /\ projection[p].last = h.id

TriageInv ==
  /\ Shape /\ LocksHeld /\ IdsApart
  /\ \A a \in Analyst : Draft(analyst[a]) /\ Judged(analyst[a])
  /\ \A p \in Fingerprint : Projected(p)

LEMMA NoSequence == <<>> \in Seq(Int) /\ <<>> \in Seq(Fingerprint) /\ DOMAIN <<>> = {}
OBVIOUS

LEMMA NoTriageTyped == NoTriage \in RequestType /\ Draft(NoTriage)
<1>1. NoTriage \in RequestType
  BY TriageAssumption, NoSequence DEF NoTriage, RequestType, Places
<1> QED BY <1>1, NoSequence DEF NoTriage, Draft

LEMMA TriageInitInv == ASSUME TriageInit PROVE TriageInv
<1> USE DEF TriageInit
<1>1. Shape
  <2>1. NoProjection \in [decision : Decision, at : Int, last : Int]
    BY TriageAssumption DEF NoProjection
  <2> QED BY <2>1, NoTriageTyped DEF Shape
<1>2. LocksHeld
  BY TriageAssumption DEF LocksHeld, NoTriage
<1>3. IdsApart
  BY NoSequence DEF IdsApart, IdsOf, NoTriage
<1>4. \A a \in Analyst : Draft(analyst[a]) /\ Judged(analyst[a])
  BY NoTriageTyped DEF Judged, NoTriage
<1>5. \A p \in Fingerprint : Projected(p)
  BY DEF Projected, Rows, NoProjection
<1> QED BY <1>1, <1>2, <1>3, <1>4, <1>5 DEF TriageInv

\* A request moves without writing.
LEMMA MoveKeepsInv ==
  ASSUME TriageInv, UNCHANGED <<history, projection, rowLock, clock>>,
         NEW a \in Analyst, NEW r \in RequestType, analyst' = [analyst EXCEPT ![a] = r],
         Draft(r), r.writes = analyst[a].writes,
         \A i \in DOMAIN r.ids : r.ids[i] \in IdsOf(a) \/ r.ids[i] \notin UsedIds
  PROVE  TriageInv'
<1> USE DEF TriageInv
<1>1. /\ analyst \in [Analyst -> RequestType] /\ analyst'[a] = r
      /\ \A b \in Analyst : b # a => analyst'[b] = analyst[b]
  BY DEF Shape
<1>2. Shape'
  BY <1>1 DEF Shape
<1>3. LocksHeld'
  BY <1>1 DEF LocksHeld
<1>4. IdsApart'
  <2>1. IdsOf(a)' = {r.ids[i] : i \in DOMAIN r.ids}
    BY <1>1 DEF IdsOf
  <2>2. \A b \in Analyst : b # a => IdsOf(b)' = IdsOf(b) /\ IdsOf(b) \subseteq UsedIds
    BY <1>1 DEF IdsOf, UsedIds
  <2>3. \A h \in history : h.id \in UsedIds
    BY DEF UsedIds
  <2>4. \A b \in Analyst : b # a => IdsOf(a)' \cap IdsOf(b)' = {}
    BY <2>1, <2>2 DEF IdsApart
  <2>5. \A h \in history : h.id \notin IdsOf(a)'
    BY <2>1, <2>3 DEF IdsApart
  <2> QED BY <2>2, <2>4, <2>5 DEF IdsApart
<1>5. \A b \in Analyst : Draft(analyst[b])' /\ Judged(analyst[b])'
  <2>1. \A b \in Analyst : Draft(analyst'[b])
    BY <1>1
  <2>2. \A b \in Analyst : Judged(analyst[b])'
    BY <1>1 DEF Judged, MayReplace
  <2> QED BY <2>1, <2>2 DEF Draft
<1>6. \A p \in Fingerprint : Projected(p)'
  BY DEF Projected, IsNewest, Rows, Later
<1> QED BY <1>2, <1>3, <1>4, <1>5, <1>6

LEMMA ReceiveKeepsInv ==
  ASSUME TriageInv, NEW a \in Analyst, ReceiveTriage(a) PROVE TriageInv'
<1>1. PICK subjects \in SUBSET Fingerprint, chosen \in Decision :
        analyst' = [analyst EXCEPT ![a] = [NoTriage EXCEPT !.pc = "read",
                      !.subjects = subjects, !.decision = chosen]]
  BY DEF ReceiveTriage
<1> DEFINE r == [NoTriage EXCEPT !.pc = "read", !.subjects = subjects, !.decision = chosen]
<1>2. r \in RequestType
  BY NoTriageTyped DEF RequestType, Places
<1>3. r.pc = "read" /\ r.writes = {} /\ r.ids = <<>> /\ r.next = 1
  BY DEF NoTriage
<1>4. Draft(r)
  BY <1>3, NoSequence DEF Draft
<1>5. analyst[a].writes = {}
  BY DEF TriageInv, Draft, ReceiveTriage
<1>6. analyst' = [analyst EXCEPT ![a] = r] /\ UNCHANGED <<history, projection, rowLock, clock>>
  BY <1>1 DEF ReceiveTriage
<1>7. \A i \in DOMAIN r.ids : r.ids[i] \notin UsedIds
  BY <1>3, NoSequence
<1> HIDE DEF r
<1> QED BY <1>2, <1>3, <1>4, <1>5, <1>6, <1>7, MoveKeepsInv

LEMMA SeqOfChanges ==
  ASSUME NEW S \in SUBSET Fingerprint, NEW prints \in SetToSeqs(S)
  PROVE  prints \in Seq(Fingerprint) /\ (S # {} => 1 \in DOMAIN prints)
<1>1. IsFiniteSet(S) /\ Cardinality(S) \in Nat /\ (S # {} => Cardinality(S) # 0)
  BY TriageAssumption, FS_Subset, FS_CardinalityType, FS_EmptySet
<1>2. prints \in [1..Cardinality(S) -> S]
  BY DEF SetToSeqs
<1> QED BY <1>1, <1>2

LEMMA ReadKeepsInv ==
  ASSUME TriageInv, NEW a \in Analyst, ReadTriage(a) PROVE TriageInv'
<1> DEFINE changes == Changes(analyst[a].subjects, analyst[a].decision)
<1>1. PICK prints \in SetToSeqs(changes) :
        analyst' = [analyst EXCEPT ![a] = [analyst[a] EXCEPT !.prints = prints,
                      !.pc = IF changes = {} THEN "done" ELSE "insert"]]
  BY DEF ReadTriage, TriageInv, Shape
<1>2. analyst[a] \in RequestType /\ analyst[a].writes = {} /\ analyst[a].ids = <<>>
      /\ analyst[a].next = 1
  BY DEF TriageInv, Shape, Draft, ReadTriage
<1>3. changes \in SUBSET Fingerprint
  BY <1>2 DEF Changes, RequestType
<1>4. prints \in Seq(Fingerprint) /\ (changes # {} => 1 \in DOMAIN prints)
  BY <1>3, SeqOfChanges
<1> HIDE DEF changes
<1> DEFINE r == [analyst[a] EXCEPT !.prints = prints,
                   !.pc = IF changes = {} THEN "done" ELSE "insert"]
<1>5. /\ r \in RequestType /\ r.writes = {} /\ r.ids = <<>>
      /\ r.pc \in {"done", "insert"} /\ (r.pc = "insert" => 1 \in DOMAIN r.prints)
      /\ r.next = 1
  BY <1>2, <1>4 DEF RequestType, Places
<1>6. Draft(r)
  BY <1>5, NoSequence DEF Draft
<1>7. analyst' = [analyst EXCEPT ![a] = r] /\ UNCHANGED <<history, projection, rowLock, clock>>
  BY <1>1 DEF ReadTriage
<1>8. \A i \in DOMAIN r.ids : r.ids[i] \notin UsedIds
  BY <1>5, NoSequence
<1> HIDE DEF r
<1> QED BY <1>2, <1>5, <1>6, <1>7, <1>8, MoveKeepsInv

LEMMA InsertKeepsInv ==
  ASSUME TriageInv, NEW a \in Analyst, InsertHistory(a) PROVE TriageInv'
<1>1. PICK ids \in [DOMAIN analyst[a].prints -> IdPool \ UsedIds] :
        /\ IsInjective(ids)
        /\ analyst' = [analyst EXCEPT ![a] = [analyst[a] EXCEPT !.pc = "stamp", !.ids = ids]]
  BY DEF InsertHistory, TriageInv, Shape
<1>2. /\ analyst[a] \in RequestType /\ analyst[a].writes = {}
      /\ analyst[a].next = 1 /\ 1 \in DOMAIN analyst[a].prints
  BY DEF TriageInv, Shape, Draft, InsertHistory
<1>3. ids \in Seq(Int)
  BY <1>2, TriageAssumption, FS_CardinalityType DEF RequestType, IdPool
<1> DEFINE r == [analyst[a] EXCEPT !.pc = "stamp", !.ids = ids]
<1>4. r \in RequestType /\ r.writes = {} /\ r.ids = ids /\ r.pc = "stamp"
      /\ r.next = 1 /\ r.prints = analyst[a].prints
  BY <1>2, <1>3 DEF RequestType, Places
<1>5. DOMAIN ids = DOMAIN analyst[a].prints
  BY <1>1
<1>6. Draft(r)
  BY <1>1, <1>2, <1>4, <1>5 DEF Draft, IsInjective
<1>7. \A i \in DOMAIN r.ids : r.ids[i] \notin UsedIds
  BY <1>1, <1>4
<1>8. analyst' = [analyst EXCEPT ![a] = r] /\ UNCHANGED <<history, projection, rowLock, clock>>
  BY <1>1 DEF InsertHistory
<1> HIDE DEF r
<1> QED BY <1>2, <1>4, <1>6, <1>7, <1>8, MoveKeepsInv

LEMMA StampKeepsInv ==
  ASSUME TriageInv, NEW a \in Analyst, StampRow(a) PROVE TriageInv'
<1> DEFINE r == [analyst[a] EXCEPT !.pc = "upsert", !.stamp = clock]
<1>1. analyst[a] \in RequestType /\ clock \in Int /\ clock >= 1 /\ Draft(analyst[a])
      /\ analyst[a].pc = "stamp"
  BY DEF TriageInv, Shape, StampRow
<1>2. /\ r \in RequestType /\ r.pc = "upsert" /\ r.stamp = clock /\ r.ids = analyst[a].ids
      /\ r.next = analyst[a].next /\ r.prints = analyst[a].prints
      /\ r.writes = analyst[a].writes
  BY <1>1 DEF RequestType, Places
<1>3. Draft(r)
  BY <1>1, <1>2 DEF Draft
<1>4. \A i \in DOMAIN r.ids : r.ids[i] \in IdsOf(a)
  BY <1>2 DEF IdsOf
<1>5. analyst' = [analyst EXCEPT ![a] = r] /\ UNCHANGED <<history, projection, rowLock, clock>>
  BY DEF StampRow, TriageInv, Shape
<1> HIDE DEF r
<1> QED BY <1>2, <1>3, <1>4, <1>5, MoveKeepsInv

\* The write is judged once its lock is held, so the projection waits for the commit.
LEMMA UpsertKeepsInv ==
  ASSUME TriageInv, NEW a \in Analyst, UpsertRow(a) PROVE TriageInv'
<1> DEFINE old == analyst[a]
           p == Printed(a)
           id == old.ids[old.next]
           w == [print |-> p, id |-> id, at |-> old.stamp,
                 projects |-> MayReplace(projection[p], old.stamp, id)]
           new == analyst'[a]
<1>1. /\ Shape /\ Draft(old) /\ Judged(old) /\ old.pc = "upsert" /\ old \in RequestType
      /\ rowLock[p] = Nobody
  BY DEF TriageInv, UpsertRow, Shape
<1>2. /\ old.next \in DOMAIN old.ids /\ p \in Fingerprint /\ id \in Int /\ old.stamp \in Int
      /\ old.stamp >= 1 /\ old.next \in Int
  BY <1>1 DEF Draft, RequestType, Printed
<1>3. w \in WriteType /\ w.print = p /\ w.id = id /\ w.at = old.stamp
      /\ w.projects = MayReplace(projection[p], old.stamp, id)
  BY <1>1, <1>2 DEF WriteType, MayReplace, Shape
<1>4. /\ analyst' = [analyst EXCEPT ![a] = [old EXCEPT !.writes = @ \cup {w}, !.next = @ + 1,
            !.pc = IF old.next = Len(old.prints) THEN "commit" ELSE "stamp"]]
      /\ rowLock' = [rowLock EXCEPT ![p] = a] /\ UNCHANGED <<history, projection, clock>>
  BY <1>1 DEF UpsertRow, Shape
<1> HIDE DEF w
<1>5. /\ new \in RequestType /\ new.writes = old.writes \cup {w} /\ new.ids = old.ids
      /\ new.prints = old.prints /\ new.next = old.next + 1
      /\ new.pc = IF old.next = Len(old.prints) THEN "commit" ELSE "stamp"
  <2>2. "commit" \in Places /\ "stamp" \in Places /\ old.next + 1 \in Int
    BY <1>2 DEF Places
  <2>3. new = [old EXCEPT !.writes = old.writes \cup {w}, !.next = old.next + 1,
                 !.pc = IF old.next = Len(old.prints) THEN "commit" ELSE "stamp"]
    BY <1>1, <1>4 DEF Shape
  <2>4. old.writes \cup {w} \in SUBSET WriteType
    BY <1>1, <1>3 DEF RequestType
  <2> DEFINE n == old.next + 1
             pc == IF old.next = Len(old.prints) THEN "commit" ELSE "stamp"
             ws == old.writes \cup {w}
  <2>5. n \in Int /\ pc \in Places /\ ws \in SUBSET WriteType
    BY <2>2, <2>4
  <2>6. new = [old EXCEPT !.writes = ws, !.next = n, !.pc = pc]
    BY <2>3
  <2>7. old \in RequestType
    BY <1>1
  <2> HIDE DEF n, pc, ws, old
  <2>8. /\ new \in RequestType /\ new.writes = ws /\ new.ids = old.ids
        /\ new.prints = old.prints /\ new.next = n /\ new.pc = pc
    BY <2>5, <2>6, <2>7 DEF RequestType
  <2> QED BY <2>8 DEF n, pc, ws
<1>6. \A b \in Analyst : b # a => analyst'[b] = analyst[b]
  BY <1>1, <1>4 DEF Shape
<1>7. Shape'
  BY <1>1, <1>2, <1>4, <1>5, <1>6 DEF Shape
<1>8. \A x \in old.writes : x.print # p /\ x.id # id
  <2>1. rowLock[p] # a
    BY <1>1, TriageAssumption
  <2>2. \A x \in old.writes : x.print # p
    BY <1>2, <2>1 DEF TriageInv, LocksHeld
  <2>3. \A x \in old.writes : x.id # id
    BY <1>1, <1>2 DEF Draft
  <2> QED BY <2>2, <2>3
<1>9. LocksHeld'
  <2>1. ASSUME NEW b \in Analyst, NEW q \in Fingerprint
        PROVE  rowLock'[q] = b <=> \E x \in analyst'[b].writes : x.print = q
    <3>1. rowLock[q] = b <=> \E x \in analyst[b].writes : x.print = q
      BY DEF TriageInv, LocksHeld
    <3>2. rowLock'[q] = IF q = p THEN a ELSE rowLock[q]
      BY <1>1, <1>2, <1>4 DEF Shape
    <3>3. CASE b = a
      BY <1>3, <1>5, <3>1, <3>2, <3>3
    <3>4. CASE b # a
      BY <1>1, <1>6, <3>1, <3>2, <3>4, TriageAssumption
    <3> QED BY <3>3, <3>4
  <2> QED BY <2>1 DEF LocksHeld
<1>10. IdsApart'
  <2>1. \A b \in Analyst : IdsOf(b)' = IdsOf(b)
    BY <1>5, <1>6 DEF IdsOf
  <2> QED BY <1>4, <2>1 DEF TriageInv, IdsApart
<1>11. Draft(new)
  <2>1. DOMAIN old.ids = 1..Len(old.prints) /\ DOMAIN old.ids = DOMAIN old.prints
    BY <1>1 DEF Draft, RequestType
  <2>2. new.pc \in {"commit", "stamp"} /\ (new.pc = "stamp" => new.next \in DOMAIN new.ids)
    BY <1>1, <1>2, <1>5, <2>1 DEF RequestType
  <2>3. \A x \in new.writes : x.at >= 1 /\ \E i \in DOMAIN new.ids : i < new.next /\ x.id = new.ids[i]
    <3>1. ASSUME NEW x \in old.writes
          PROVE  x.at >= 1 /\ \E i \in DOMAIN new.ids : i < new.next /\ x.id = new.ids[i]
      <4>1. x.at >= 1
        BY <1>1 DEF Draft
      <4>2. PICK i \in DOMAIN old.ids : i < old.next /\ x.id = old.ids[i]
        BY <1>1 DEF Draft
      <4>3. i \in Int
        BY <2>1, <4>2
      <4> QED BY <1>2, <1>5, <4>1, <4>2, <4>3
    <3>2. w.at >= 1 /\ old.next < new.next /\ w.id = new.ids[old.next]
      BY <1>2, <1>3, <1>5
    <3> QED BY <1>2, <1>5, <3>1, <3>2
  <2>4. \A x, y \in new.writes : x.print = y.print \/ x.id = y.id => x = y
    BY <1>1, <1>3, <1>5, <1>8 DEF Draft
  <2> QED BY <1>1, <1>5, <2>1, <2>2, <2>3, <2>4 DEF Draft
<1>12. ASSUME NEW b \in Analyst PROVE Draft(analyst[b])' /\ Judged(analyst[b])'
  <2>1. CASE b # a
    BY <1>4, <1>6, <2>1 DEF TriageInv, Draft, Judged, MayReplace
  <2>2. CASE b = a
    BY <1>1, <1>3, <1>4, <1>5, <1>11, <2>2 DEF Judged, Draft, MayReplace
  <2> QED BY <2>1, <2>2
<1>13. \A q \in Fingerprint : Projected(q)'
  BY <1>4 DEF TriageInv, Projected, IsNewest, Rows, Later
<1> QED BY <1>7, <1>9, <1>10, <1>12, <1>13 DEF TriageInv

\* The rows of a fingerprint are its old ones and the write of the statement.
LEMMA NewestOfTwo ==
  ASSUME NEW p \in Fingerprint, NEW h \in history, NEW g \in RowType, history \in SUBSET RowType,
         IsNewest(h, p), g.print = p,
         g.at > h.at \/ (g.at = h.at /\ g.id > h.id)
  PROVE  \A k \in Rows(p) : Later(g, k)
<1> TAKE k \in Rows(p)
<1>1. k = h \/ Later(h, k)
  BY DEF IsNewest
<1>2. h \in RowType /\ k \in RowType
  BY DEF Rows
<1> QED BY <1>1, <1>2 DEF Later, RowType

LEMMA CommitKeepsInv ==
  ASSUME TriageInv, NEW a \in Analyst, Commit(a) PROVE TriageInv'
<1> DEFINE r == analyst[a]
           RowOf(w) == [print |-> w.print, id |-> w.id, decision |-> r.decision, at |-> w.at]
           done == [NoTriage EXCEPT !.pc = "done"]
<1>1. /\ Shape /\ r \in RequestType /\ Draft(r) /\ Judged(r)
      /\ \A w \in r.writes : w \in WriteType /\ RowOf(w) \in RowType
  <2>1. Shape /\ r \in RequestType /\ Draft(r) /\ Judged(r)
    BY DEF TriageInv, Shape
  <2> QED BY <2>1 DEF RequestType, WriteType, RowType
<1>2. /\ history' = history \cup {RowOf(w) : w \in r.writes}
      /\ rowLock' = Released(a) /\ analyst' = [analyst EXCEPT ![a] = done] /\ clock' = clock
  BY DEF Commit
<1>3. done \in RequestType /\ done.writes = {} /\ done.ids = <<>> /\ done.pc = "done"
  BY NoTriageTyped DEF NoTriage, RequestType, Places
<1>4. \A b \in Analyst : analyst'[b] = IF b = a THEN done ELSE analyst[b]
  BY <1>1, <1>2 DEF Shape
<1> HIDE DEF done
<1>5. \A p \in Fingerprint : \A w \in r.writes : w.print = p => WriteOf(a, p) = w
  BY <1>1 DEF Draft, WriteOf
<1>6. ASSUME NEW p \in Fingerprint, ~Projects(a, p) PROVE projection'[p] = projection[p]
  BY <1>6 DEF Commit
<1>7. ASSUME NEW w \in r.writes, w.projects
      PROVE  projection'[w.print] = [decision |-> r.decision, at |-> w.at, last |-> w.id]
  BY <1>1, <1>5, <1>7 DEF Commit, Projects, WriteType
<1>8. Shape'
  <2>1. projection' \in [Fingerprint -> [decision : Decision, at : Int, last : Int]]
    <3>1. ASSUME NEW p \in Fingerprint
          PROVE  projection'[p] \in [decision : Decision, at : Int, last : Int]
      <4>1. CASE ~Projects(a, p)
        BY <1>1, <1>6, <4>1 DEF Shape
      <4>2. CASE Projects(a, p)
        <5>1. PICK w \in r.writes : w.print = p /\ w.projects
          BY <4>2 DEF Projects
        <5>2. projection'[p] = [decision |-> r.decision, at |-> w.at, last |-> w.id]
          BY <1>7, <5>1
        <5>3. r.decision \in Decision /\ w.at \in Int /\ w.id \in Int
          BY <1>1 DEF WriteType, RequestType
        <5> QED BY <5>2, <5>3
      <4> QED BY <4>1, <4>2
    <3>2. projection' = [p \in Fingerprint |-> projection'[p]]
      BY DEF Commit
    <3> QED BY <3>1, <3>2
  <2>2. rowLock' \in [Fingerprint -> Analyst \cup {Nobody}]
    BY <1>1, <1>2 DEF Shape, Released
  <2>3. history' \in SUBSET RowType
    BY <1>1, <1>2 DEF Shape
  <2> QED BY <1>1, <1>2, <1>3, <2>1, <2>2, <2>3 DEF Shape
<1>9. LocksHeld'
  BY <1>1, <1>2, <1>3, <1>4, TriageAssumption DEF TriageInv, LocksHeld, Released
<1>10. \A w \in r.writes : w.id \in IdsOf(a)
  BY <1>1 DEF Draft, IdsOf
<1>11. IdsApart'
  <2>1. IdsOf(a)' = {} /\ \A b \in Analyst : b # a => IdsOf(b)' = IdsOf(b)
    BY <1>3, <1>4, NoSequence DEF IdsOf
  <2>2. \A b, c \in Analyst : b # c => IdsOf(b)' \cap IdsOf(c)' = {}
    BY <2>1 DEF TriageInv, IdsApart
  <2>3. \A b \in Analyst, h \in history' : h.id \notin IdsOf(b)'
    BY <1>2, <1>10, <2>1 DEF TriageInv, IdsApart
  <2>4. \A h, g \in history' : h.id = g.id => h = g
    BY <1>1, <1>2, <1>10 DEF TriageInv, IdsApart, Draft
  <2> QED BY <2>2, <2>3, <2>4 DEF IdsApart
<1>12. ASSUME NEW b \in Analyst PROVE Draft(analyst[b])' /\ Judged(analyst[b])'
  <2>1. CASE b = a
    BY <1>3, <1>4, <2>1, NoSequence DEF Draft, Judged
  <2>2. CASE b # a
    <3>1. ASSUME NEW w \in analyst[b].writes
          PROVE  w.print \in Fingerprint /\ ~Projects(a, w.print)
      <4>1. w.print \in Fingerprint
        BY <1>1 DEF Shape, RequestType, WriteType
      <4>2. rowLock[w.print] = b
        BY <4>1 DEF TriageInv, LocksHeld
      <4>3. \A x \in r.writes : x.print # w.print
        BY <2>2, <4>1, <4>2 DEF TriageInv, LocksHeld
      <4> QED BY <4>1, <4>3 DEF Projects
    <3>2. \A w \in analyst[b].writes : projection'[w.print] = projection[w.print]
      BY <1>6, <3>1
    <3>3. analyst'[b] = analyst[b] /\ Draft(analyst[b]) /\ Judged(analyst[b])
      BY <1>4, <2>2 DEF TriageInv
    <3> QED BY <3>2, <3>3 DEF Draft, Judged, MayReplace
  <2> QED BY <2>1, <2>2
<1>13. ASSUME NEW p \in Fingerprint PROVE Projected(p)'
  <2>1. CASE \A w \in r.writes : w.print # p
    <3>1. Rows(p)' = Rows(p)
      BY <1>2, <2>1 DEF Rows
    <3>2. projection'[p] = projection[p]
      BY <1>6, <2>1 DEF Projects
    <3> QED BY <3>1, <3>2 DEF TriageInv, Projected, IsNewest, Later
  <2>2. ASSUME NEW w \in r.writes, w.print = p PROVE Projected(p)'
    <3>0. PICK new \in RowType : new = RowOf(w)
      BY <1>1
    <3>1. /\ Rows(p)' = Rows(p) \cup {new} /\ new.print = p
          /\ new.at = w.at /\ new.id = w.id /\ new.decision = r.decision
      <4>1. \A x \in r.writes : RowOf(x).print = p => x = w
        BY <1>1, <2>2 DEF Draft
      <4> QED BY <1>2, <2>2, <3>0, <4>1 DEF Rows
    <3>2. w.at >= 1 /\ w.at \in Int /\ w.id \in Int
          /\ (w.projects <=> MayReplace(projection[p], w.at, w.id))
      BY <1>1, <2>2 DEF Draft, Judged, WriteType
    <3>3. projection[p].at \in Int /\ projection[p].last \in Int
      BY <1>1 DEF Shape
    <3>4. CASE Rows(p) = {}
      <4>1. w.projects
        BY <3>2, <3>4 DEF TriageInv, Projected, MayReplace
      <4>2. projection'[p] = [decision |-> r.decision, at |-> w.at, last |-> w.id]
        BY <1>7, <2>2, <4>1
      <4>3. IsNewest(new, p)'
        BY <3>1, <3>4 DEF IsNewest
      <4> QED BY <3>1, <4>2, <4>3 DEF Projected
    <3>5. ASSUME Rows(p) # {} PROVE Projected(p)'
      <4>1. PICK h \in Rows(p) : /\ IsNewest(h, p) /\ projection[p].decision = h.decision
                                 /\ projection[p].at = h.at /\ projection[p].last = h.id
        BY <3>5 DEF TriageInv, Projected
      <4>2. h \in history /\ h.id # w.id /\ history \in SUBSET RowType
        BY <1>1, <1>10 DEF Rows, TriageInv, IdsApart, Shape
      <4>3. CASE w.projects
        <5>1. new.at > h.at \/ (new.at = h.at /\ new.id > h.id)
          BY <3>1, <3>2, <3>3, <4>1, <4>2, <4>3 DEF MayReplace
        <5>2. \A k \in Rows(p) : Later(new, k)
          BY <3>0, <3>1, <4>1, <4>2, <5>1, NewestOfTwo
        <5>3. IsNewest(new, p)'
          BY <3>1, <5>2 DEF IsNewest, Later
        <5>4. projection'[p] = [decision |-> r.decision, at |-> w.at, last |-> w.id]
          BY <1>7, <2>2, <4>3
        <5> QED BY <3>1, <5>3, <5>4 DEF Projected
      <4>4. CASE ~w.projects
        <5>1. ~Projects(a, p)
          BY <1>1, <2>2, <4>4 DEF Projects, Draft
        <5>2. Later(h, new)
          BY <3>1, <3>2, <3>3, <4>1, <4>2, <4>4 DEF MayReplace, Later
        <5>3. IsNewest(h, p)'
          BY <3>1, <4>1, <5>2 DEF IsNewest, Later
        <5>4. projection'[p] = projection[p]
          BY <1>6, <5>1
        <5> QED BY <3>1, <4>1, <5>3, <5>4 DEF Projected
      <4> QED BY <4>3, <4>4 DEF TriageInv
    <3> QED BY <3>4, <3>5
  <2> QED BY <2>1, <2>2
<1> QED BY <1>8, <1>9, <1>11, <1>12, <1>13 DEF TriageInv

LEMMA AbortKeepsInv ==
  ASSUME TriageInv, NEW a \in Analyst, Abort(a) PROVE TriageInv'
<1> DEFINE done == [NoTriage EXCEPT !.pc = "done"]
<1>1. /\ rowLock' = Released(a) /\ analyst' = [analyst EXCEPT ![a] = done]
      /\ UNCHANGED <<history, projection, clock>> /\ Shape
  BY DEF Abort, TriageInv
<1>2. done \in RequestType /\ done.writes = {} /\ done.ids = <<>> /\ done.pc = "done"
  BY NoTriageTyped DEF NoTriage, RequestType, Places
<1>3. \A b \in Analyst : analyst'[b] = IF b = a THEN done ELSE analyst[b]
  BY <1>1 DEF Shape
<1> HIDE DEF done
<1>4. Shape'
  <2>1. rowLock' \in [Fingerprint -> Analyst \cup {Nobody}]
    BY <1>1 DEF Shape, Released
  <2> QED BY <1>1, <1>2, <2>1 DEF Shape
<1>5. LocksHeld'
  BY <1>1, <1>2, <1>3, TriageAssumption DEF TriageInv, LocksHeld, Released
<1>6. IdsApart'
  <2>1. IdsOf(a)' = {} /\ \A b \in Analyst : b # a => IdsOf(b)' = IdsOf(b)
    BY <1>2, <1>3, NoSequence DEF IdsOf
  <2> QED BY <1>1, <2>1 DEF TriageInv, IdsApart
<1>7. ASSUME NEW b \in Analyst PROVE Draft(analyst[b])' /\ Judged(analyst[b])'
  <2>1. CASE b = a
    BY <1>2, <1>3, <2>1, NoSequence DEF Draft, Judged
  <2>2. CASE b # a
    BY <1>1, <1>3, <2>2 DEF TriageInv, Draft, Judged, MayReplace
  <2> QED BY <2>1, <2>2
<1>8. \A p \in Fingerprint : Projected(p)'
  BY <1>1 DEF TriageInv, Projected, IsNewest, Rows, Later
<1> QED BY <1>4, <1>5, <1>6, <1>7, <1>8 DEF TriageInv

LEMMA IdleKeepsInv ==
  ASSUME TriageInv, UNCHANGED <<analyst, history, projection, rowLock>>,
         clock' = clock \/ clock' = clock + 1
  PROVE  TriageInv'
<1>1. Shape' /\ LocksHeld'
  BY DEF TriageInv, Shape, LocksHeld
<1>2. IdsApart'
  BY DEF TriageInv, IdsApart, IdsOf
<1>3. \A a \in Analyst : Draft(analyst[a])' /\ Judged(analyst[a])'
  BY DEF TriageInv, Draft, Judged, MayReplace
<1>4. \A p \in Fingerprint : Projected(p)'
  BY DEF TriageInv, Projected, IsNewest, Rows, Later
<1> QED BY <1>1, <1>2, <1>3, <1>4 DEF TriageInv

LEMMA TriageStepInv == ASSUME TriageInv, [TriageNext]_triageVars PROVE TriageInv'
<1>1. CASE UNCHANGED triageVars
  BY <1>1, IdleKeepsInv DEF triageVars
<1>2. CASE ClockTicks
  BY <1>2, IdleKeepsInv DEF ClockTicks
<1>3. ASSUME NEW a \in Analyst, ReceiveTriage(a) \/ TriageStep(a) \/ ConnectionLost(a)
      PROVE  TriageInv'
  BY <1>3, ReceiveKeepsInv, ReadKeepsInv, InsertKeepsInv, StampKeepsInv, UpsertKeepsInv,
    CommitKeepsInv, AbortKeepsInv DEF TriageStep, DeadlockDetected, ConnectionLost
<1> QED BY <1>1, <1>2, <1>3 DEF TriageNext

LEMMA InvIsLatest == ASSUME TriageInv PROVE ProjectionIsLatest
<1> SUFFICES ASSUME NEW p \in Fingerprint, Rows(p) # {}
    PROVE projection[p].last = Latest(p).id /\ projection[p].decision = Latest(p).decision
  BY DEF ProjectionIsLatest
<1>1. PICK h \in Rows(p) : /\ IsNewest(h, p) /\ projection[p].decision = h.decision
                           /\ projection[p].last = h.id
  BY DEF TriageInv, Projected
<1>2. ASSUME NEW g \in Rows(p), \A k \in Rows(p) \ {g} : Later(g, k) PROVE g = h
  <2>1. g \in RowType /\ h \in RowType
    BY DEF TriageInv, Shape, Rows
  <2> QED BY <1>1, <1>2, <2>1 DEF IsNewest, Later, RowType
<1>3. Latest(p) = h
  BY <1>1, <1>2 DEF Latest, IsNewest
<1> QED BY <1>1, <1>3

\* The projection of every fingerprint says what its latest history row says, the
\* latest by the trigger's clock and id, whatever order the statements got their
\* locks in and whichever were rolled back (sync_target_finding_triage).
THEOREM ProjectionHolds == TriageSpec => []ProjectionIsLatest
<1>1. TriageInit => TriageInv
  BY TriageInitInv
<1>2. TriageInv /\ [TriageNext]_triageVars => TriageInv'
  BY TriageStepInv
<1>3. TriageInv => ProjectionIsLatest
  BY InvIsLatest
<1> QED BY <1>1, <1>2, <1>3, PTL DEF TriageSpec

-----------------------------------------------------------------------------
(* The outbox of failed mails. What a drain has read of a row is still true when   *)
(* its turn comes, because one drain runs at a time: where two overlap (a drain by  *)
(* hand beside the scheduler's) nothing is claimed.                                *)

MailSpec == MailInit /\ [][MailNext]_mailVars

Held == [mail : Mail, attempts : Nat]
MailDrains == [pc : {"off", "query", "next", "mark", "count"}, pass : Int,
               batch : Seq(Held), size : Int]
RowAt(status, attempts, wait) ==
  [status |-> status, attempts |-> attempts, wait |-> wait]

MailRow(entry) ==
  entry = RowAt(entry.status, entry.attempts, entry.wait) /\ entry.attempts \in Nat

MailTyped ==
  /\ sender \in [Mail -> {"new", "failed", "done"}]
  /\ outbox = [m \in Mail |-> outbox[m]] /\ \A m \in Mail : MailRow(outbox[m])
  /\ delivered \in [Mail -> Int] /\ unmarked \in [Mail -> Int]
  /\ drain \in [Drain -> MailDrains]
  /\ \A d \in Drain : drain[d].pc \in {"mark", "count"} => drain[d].batch # <<>>

\* A message and its row: no row before the inline attempt has failed, no
\* delivery while it waits that was not left unmarked, and a refusal counted for
\* each attempt.
Kept(m) ==
  /\ sender[m] # "done" => outbox[m].status = "NONE" /\ delivered[m] = 0 /\ unmarked[m] = 0
  /\ delivered[m] <= 1 + unmarked[m]
  /\ outbox[m].status \in {"FAILED", "DEAD_LETTER"} => delivered[m] = unmarked[m]
  /\ outbox[m].status = "FAILED" => outbox[m].attempts < MaxAttempts
  /\ outbox[m].status = "DEAD_LETTER" => outbox[m].attempts = MaxAttempts

OneDrain == \A d, e \in Drain : drain[d].pc # "off" /\ drain[e].pc # "off" => d = e

\* What a drain has read of a row is still true of it when its turn comes.
ReadHolds(item) ==
  outbox[item.mail].status = "FAILED" /\ outbox[item.mail].attempts = item.attempts

Distinct(batch) ==
  \A i, j \in 1..Len(batch) : batch[i].mail = batch[j].mail => i = j

BatchHolds(d) ==
  drain[d].pc \in {"next", "mark", "count"} =>
       /\ Distinct(drain[d].batch)
       /\ \A i \in 1..Len(drain[d].batch) : ReadHolds(drain[d].batch[i])

Undisturbed ==
  /\ OneDrain /\ \A m \in Mail : Kept(m)
  /\ \A d \in Drain : BatchHolds(d)

MailInv == ~overlapped => Undisturbed

-----------------------------------------------------------------------------
LEMMA RowFields ==
  ASSUME NEW a, NEW b, NEW c
  PROVE  /\ RowAt(a, b, c).status = a /\ RowAt(a, b, c).attempts = b
         /\ RowAt(a, b, c).wait = c
         /\ \A x : [RowAt(a, b, c) EXCEPT !.status = x] = RowAt(x, b, c)
         /\ \A x : [RowAt(a, b, c) EXCEPT !.wait = x] = RowAt(a, b, x)
BY DEF RowAt

LEMMA MailInitInv == MailInit => MailTyped /\ MailInv
<1> SUFFICES ASSUME MailInit PROVE MailTyped /\ MailInv
  OBVIOUS
<1>1. outbox = [m \in Mail |-> NoMailRow] /\ MailRow(NoMailRow)
  BY DEF MailInit, MailRow, NoMailRow, RowAt
<1>2. MailTyped
  BY <1>1 DEF MailInit, MailTyped, NoMailRow, Stopped, MailDrains, Held
<1>3. OneDrain /\ \A d \in Drain : BatchHolds(d)
  BY DEF MailInit, OneDrain, BatchHolds, Stopped
<1>4. \A m \in Mail : Kept(m)
  BY DEF MailInit, Kept, NoMailRow
<1> QED
  BY <1>2, <1>3, <1>4 DEF MailInv, Undisturbed

\* A batch is the rows that are due, each once, as they are.
LEMMA DueFinite == IsFiniteSet(Due) /\ Cardinality(Due) \in Nat
<1>1. Due \subseteq Mail
  BY DEF Due
<1> QED
  BY <1>1, MailAssumption, FS_Subset, FS_CardinalityType

LEMMA Selected ==
  ASSUME NEW batch \in SetToSeqs(Due), NEW n \in 0..Len(batch),
         NEW taken, taken = SubSeq(batch, 1, n)
  PROVE  /\ taken \in Seq(Due) /\ Len(taken) = n /\ DOMAIN taken = 1..n
         /\ \A i, j \in 1..n : taken[i] = taken[j] => i = j
<1> DEFINE k == Cardinality(Due)
<1>1. batch \in [1..k -> Due] /\ \A i, j \in 1..k : i # j => batch[i] # batch[j]
  BY DEF SetToSeqs
<1>2. batch \in Seq(Due) /\ Len(batch) = k /\ k \in Nat
  BY <1>1, DueFinite
<1>3. n \in Nat /\ n <= k
  BY <1>2
<1>4. taken \in Seq(Due) /\ Len(taken) = n
      /\ \A i \in 1..n : taken[i] = batch[i]
  BY <1>2, <1>3
<1>5. DOMAIN taken = 1..n
  BY <1>4
<1>6. \A i, j \in 1..n : taken[i] = taken[j] => i = j
  <2> HIDE DEF k
  <2> SUFFICES ASSUME NEW i \in 1..n, NEW j \in 1..n, taken[i] = taken[j]
               PROVE  i = j
    OBVIOUS
  <2>1. i \in 1..k /\ j \in 1..k
    BY <1>2, <1>3
  <2>2. batch[i] = batch[j]
    BY <1>4
  <2> QED
    BY <1>1, <2>1, <2>2
<1> QED
  BY <1>4, <1>5, <1>6

-----------------------------------------------------------------------------
DrainAt(pc, pass, batch, size) ==
  [pc |-> pc, pass |-> pass, batch |-> batch, size |-> size]

Becomes(d, x) == drain' = [drain EXCEPT ![d] = x]

LEMMA DrainFields ==
  ASSUME NEW a, NEW p, NEW b, NEW n
  PROVE  /\ DrainAt(a, p, b, n).pc = a /\ DrainAt(a, p, b, n).pass = p
         /\ DrainAt(a, p, b, n).batch = b /\ DrainAt(a, p, b, n).size = n
BY DEF DrainAt

LEMMA DrainExcept ==
  ASSUME NEW r \in MailDrains, NEW x, NEW y
  PROVE  /\ [r EXCEPT !.pc = x] = DrainAt(x, r.pass, r.batch, r.size)
         /\ [r EXCEPT !.pc = x, !.batch = y] = DrainAt(x, r.pass, y, r.size)
         /\ [r EXCEPT !.pc = x, !.pass = y] = DrainAt(x, y, r.batch, r.size)
<1>1. [r EXCEPT !.pc = x] = DrainAt(x, r.pass, r.batch, r.size)
  BY DEF MailDrains, DrainAt
<1>2. [r EXCEPT !.pc = x, !.batch = y] = DrainAt(x, r.pass, y, r.size)
  <2>1. [DrainAt(x, r.pass, r.batch, r.size) EXCEPT !.batch = y] = DrainAt(x, r.pass, y, r.size)
    BY DEF DrainAt
  <2> QED
    BY <1>1, <2>1
<1>3. [r EXCEPT !.pc = x, !.pass = y] = DrainAt(x, y, r.batch, r.size)
  <2>1. [DrainAt(x, r.pass, r.batch, r.size) EXCEPT !.pass = y] = DrainAt(x, y, r.batch, r.size)
    BY DEF DrainAt
  <2> QED
    BY <1>1, <2>1
<1> QED
  BY <1>1, <1>2, <1>3

\* What each step makes of its drain.
LEMMA DrainBecomes ==
  ASSUME MailTyped, NEW d \in Drain
  PROVE  /\ StartDrain(d) => Becomes(d, DrainAt("query", 0, <<>>, 0))
         /\ Deliver(d) => \E pc \in {"mark", "count"} :
              Becomes(d, DrainAt(pc, drain[d].pass, drain[d].batch, drain[d].size))
         /\ MarkSent(d) =>
              Becomes(d, DrainAt("next", drain[d].pass, Tail(drain[d].batch), drain[d].size))
         /\ CountFailure(d) =>
              \/ Becomes(d, DrainAt("off", 0, <<>>, 0))
              \/ /\ Exists(Current(d).mail)
                 /\ outbox' = [outbox EXCEPT ![Current(d).mail] = Retried(Current(d).attempts)]
                 /\ Becomes(d, DrainAt("next", drain[d].pass, Tail(drain[d].batch), drain[d].size))
         /\ PassEnds(d) =>
              \/ Becomes(d, DrainAt("off", 0, <<>>, 0))
              \/ Becomes(d, DrainAt("query", drain[d].pass + 1, drain[d].batch, drain[d].size))
         /\ DrainDies(d) => Becomes(d, DrainAt("off", 0, <<>>, 0))
<1>0. drain \in [Drain -> MailDrains] /\ drain[d] \in MailDrains
  BY DEF MailTyped
<1>1. Stopped = DrainAt("off", 0, <<>>, 0)
      /\ [Stopped EXCEPT !.pc = "query"] = DrainAt("query", 0, <<>>, 0)
  BY DEF Stopped, DrainAt
<1> DEFINE r == drain[d]
<1>2. ASSUME NEW pc, NEW b
      PROVE  [drain EXCEPT ![d].pc = pc, ![d].batch = b]
               = [drain EXCEPT ![d] = DrainAt(pc, r.pass, b, r.size)]
  <2>1. [r EXCEPT !.pc = pc, !.batch = b] = DrainAt(pc, r.pass, b, r.size)
    BY <1>0, DrainExcept
  <2> QED
    BY <1>0, <2>1
<1>3. ASSUME NEW pc, NEW n
      PROVE  [drain EXCEPT ![d].pc = pc, ![d].pass = n]
               = [drain EXCEPT ![d] = DrainAt(pc, n, r.batch, r.size)]
  <2>1. [r EXCEPT !.pc = pc, !.pass = n] = DrainAt(pc, n, r.batch, r.size)
    BY <1>0, DrainExcept
  <2> QED
    BY <1>0, <2>1
<1>4. ASSUME NEW pc
      PROVE  [drain EXCEPT ![d].pc = pc]
               = [drain EXCEPT ![d] = DrainAt(pc, r.pass, r.batch, r.size)]
  <2>1. [r EXCEPT !.pc = pc] = DrainAt(pc, r.pass, r.batch, r.size)
    BY <1>0, DrainExcept
  <2> QED
    BY <1>0, <2>1
<1>5. Advance(d) = [drain EXCEPT ![d] =
                      DrainAt("next", drain[d].pass, Tail(drain[d].batch), drain[d].size)]
  BY <1>2 DEF Advance
<1>6. StartDrain(d) => Becomes(d, DrainAt("query", 0, <<>>, 0))
  BY <1>1 DEF StartDrain, Becomes
<1>7. Deliver(d) => \E pc \in {"mark", "count"} :
        Becomes(d, DrainAt(pc, drain[d].pass, drain[d].batch, drain[d].size))
  BY <1>4 DEF Deliver, Becomes
<1>8. MarkSent(d) =>
        Becomes(d, DrainAt("next", drain[d].pass, Tail(drain[d].batch), drain[d].size))
  BY <1>5 DEF MarkSent, Becomes
<1>9. CountFailure(d) =>
        \/ Becomes(d, DrainAt("off", 0, <<>>, 0))
        \/ /\ Exists(Current(d).mail)
           /\ outbox' = [outbox EXCEPT ![Current(d).mail] = Retried(Current(d).attempts)]
           /\ Becomes(d, DrainAt("next", drain[d].pass, Tail(drain[d].batch), drain[d].size))
  BY <1>1, <1>5 DEF CountFailure, Becomes
<1>10. PassEnds(d) =>
         \/ Becomes(d, DrainAt("off", 0, <<>>, 0))
         \/ Becomes(d, DrainAt("query", drain[d].pass + 1, drain[d].batch, drain[d].size))
  BY <1>1, <1>3 DEF PassEnds, Becomes
<1>11. DrainDies(d) => Becomes(d, DrainAt("off", 0, <<>>, 0))
  BY <1>1 DEF DrainDies, Becomes
<1> QED
  BY <1>6, <1>7, <1>8, <1>9, <1>10, <1>11

LEMMA SelectBecomes ==
  ASSUME MailTyped, NEW d \in Drain, SelectDue(d)
  PROVE  \E b \in Seq(Held), n \in Nat :
           /\ Becomes(d, DrainAt("next", drain[d].pass, b, n)) /\ Len(b) = n /\ n <= BatchSize
           /\ Distinct(b) /\ \A i \in 1..Len(b) : b[i].mail \in Mail /\ ReadHolds(b[i])
<1> DEFINE Item(m) == [mail |-> m, attempts |-> outbox[m].attempts]
<1>1. PICK batch \in SetToSeqs(Due) :
        LET taken == SubSeq(batch, 1, IF Len(batch) < BatchSize THEN Len(batch) ELSE BatchSize)
        IN drain' = [drain EXCEPT ![d].pc = "next", ![d].size = Len(taken),
             ![d].batch = [i \in DOMAIN taken |->
                             [mail |-> taken[i], attempts |-> outbox[taken[i]].attempts]]]
  BY DEF SelectDue
<1>2. PICK n : n = IF Len(batch) < BatchSize THEN Len(batch) ELSE BatchSize
  OBVIOUS
<1>3. PICK taken : taken = SubSeq(batch, 1, n)
  OBVIOUS
<1>4. batch \in Seq(Due)
  BY DueFinite DEF SetToSeqs
<1>5. n \in 0..Len(batch)
  BY <1>2, <1>4, MailAssumption
<1>n. n <= BatchSize
  BY <1>2, <1>4, MailAssumption
<1>6. /\ taken \in Seq(Due) /\ Len(taken) = n /\ DOMAIN taken = 1..n
      /\ \A i, j \in 1..n : taken[i] = taken[j] => i = j
  BY <1>3, <1>5, Selected
<1>7. PICK b : b = [i \in 1..n |-> Item(taken[i])]
  OBVIOUS
<1>8. drain' = [drain EXCEPT ![d].pc = "next", ![d].size = n, ![d].batch = b]
  BY <1>1, <1>2, <1>3, <1>6, <1>7
<1>9. ASSUME NEW i \in 1..n
      PROVE  /\ taken[i] \in Mail /\ outbox[taken[i]].status = "FAILED"
             /\ outbox[taken[i]].attempts \in Nat
  <2>1. taken[i] \in Due
    BY <1>6, ElementOfSeq
  <2> QED
    BY <2>1 DEF Due, MailTyped, MailRow
<1>10. \A i \in 1..n : b[i] = Item(taken[i]) /\ Item(taken[i]) \in Held
  BY <1>7, <1>9 DEF Held
<1>11. b \in Seq(Held) /\ Len(b) = n /\ n \in Nat
  BY <1>5, <1>7, <1>10
<1>12. ASSUME NEW i \in 1..Len(b), NEW j \in 1..Len(b), b[i].mail = b[j].mail
       PROVE  i = j
  <2>1. i \in 1..n /\ j \in 1..n
    BY <1>11
  <2>2. taken[i] = taken[j]
    <3>1. b[i] = Item(taken[i]) /\ b[j] = Item(taken[j])
      BY <1>10, <2>1
    <3> QED
      BY <1>12, <3>1
  <2> QED
    BY <1>6, <2>1, <2>2
<1>13. ASSUME NEW i \in 1..Len(b) PROVE b[i].mail \in Mail /\ ReadHolds(b[i])
  <2>1. i \in 1..n /\ b[i] = Item(taken[i])
    BY <1>10, <1>11
  <2> QED
    BY <1>9, <2>1 DEF ReadHolds
<1>14. Becomes(d, DrainAt("next", drain[d].pass, b, n))
  <2> DEFINE r == drain[d]
  <2>1. drain \in [Drain -> MailDrains] /\ r \in MailDrains
    BY DEF MailTyped
  <2>2. [r EXCEPT !.pc = "next"] = DrainAt("next", r.pass, r.batch, r.size)
    BY <2>1, DrainExcept
  <2>3. [DrainAt("next", r.pass, r.batch, r.size) EXCEPT !.size = n]
          = DrainAt("next", r.pass, r.batch, n)
    BY DEF DrainAt
  <2>4. [DrainAt("next", r.pass, r.batch, n) EXCEPT !.batch = b]
          = DrainAt("next", r.pass, b, n)
    BY DEF DrainAt
  <2>5. drain' = [drain EXCEPT ![d] = [r EXCEPT !.pc = "next", !.size = n, !.batch = b]]
    BY <1>8, <2>1
  <2> QED
    BY <2>2, <2>3, <2>4, <2>5 DEF Becomes
<1> QED
  BY <1>n, <1>11, <1>12, <1>13, <1>14 DEF Distinct

\* The outbox after a step: one row changed to another row, or all of them.
RowBecomes(m, x, n, w) == outbox' = [outbox EXCEPT ![m] = RowAt(x, n, w)]

LEMMA OneRow ==
  ASSUME MailTyped, NEW m \in Mail, NEW x, NEW n \in Nat, NEW w, RowBecomes(m, x, n, w)
  PROVE  /\ outbox' = [k \in Mail |-> outbox'[k]] /\ \A k \in Mail : MailRow(outbox'[k])
         /\ outbox'[m].status = x /\ outbox'[m].attempts = n
         /\ \A k \in Mail \ {m} : outbox'[k] = outbox[k]
<1>1. outbox' = [k \in Mail |-> outbox'[k]]
  BY DEF MailTyped, RowBecomes
<1>2. outbox'[m] = RowAt(x, n, w)
  BY DEF MailTyped, RowBecomes
<1>3. \A k \in Mail \ {m} : outbox'[k] = outbox[k]
  BY DEF MailTyped, RowBecomes
<1>4. MailRow(RowAt(x, n, w)) /\ RowAt(x, n, w).status = x /\ RowAt(x, n, w).attempts = n
  BY RowFields DEF MailRow
<1>5. \A k \in Mail : MailRow(outbox'[k])
  BY <1>2, <1>3, <1>4 DEF MailTyped
<1>6. outbox'[m].status = x /\ outbox'[m].attempts = n
  BY <1>2, <1>4
<1> QED
  BY <1>1, <1>3, <1>5, <1>6, Zenon

LEMMA MarkedRow ==
  ASSUME MailTyped, NEW m \in Mail, outbox' = [outbox EXCEPT ![m].status = "SENT"]
  PROVE  outbox' = [outbox EXCEPT ![m] = RowAt("SENT", outbox[m].attempts, outbox[m].wait)]
<1>1. outbox[m] = RowAt(outbox[m].status, outbox[m].attempts, outbox[m].wait)
  BY DEF MailTyped, MailRow
<1>2. [outbox[m] EXCEPT !.status = "SENT"] = RowAt("SENT", outbox[m].attempts, outbox[m].wait)
  BY <1>1, RowFields
<1> QED
  BY <1>2

LEMMA RecordedRow ==
  ASSUME NEW m \in Mail,
         outbox' = [outbox EXCEPT ![m] =
                      [status |-> "FAILED", attempts |-> 1, wait |-> BackoffMinutes(1)]]
  PROVE  outbox' = [outbox EXCEPT ![m] = RowAt("FAILED", 1, BackoffMinutes(1))]
BY DEF RowAt

LEMMA RetriedRow ==
  ASSUME NEW n \in Nat
  PROVE  Retried(n) = RowAt(IF n + 1 >= MaxAttempts THEN "DEAD_LETTER" ELSE "FAILED",
                            n + 1, BackoffMinutes(n + 1))
BY DEF Retried, RowAt

LEMMA AllRows ==
  ASSUME MailTyped, MinutePasses \/ PurgeOutbox
  PROVE  /\ outbox' = [k \in Mail |-> outbox'[k]] /\ \A k \in Mail : MailRow(outbox'[k])
         /\ \A k \in Mail :
              \/ /\ outbox'[k].status = outbox[k].status
                 /\ outbox'[k].attempts = outbox[k].attempts
              \/ outbox[k].status \in Terminal /\ outbox'[k].status = "NONE"
<1>1. CASE MinutePasses
  <2>1. ASSUME NEW k \in Mail
        PROVE  \E w : outbox'[k] = RowAt(outbox[k].status, outbox[k].attempts, w)
    <3> DEFINE w == IF outbox[k].wait > 0 THEN outbox[k].wait - 1 ELSE 0
    <3>1. outbox'[k] = [outbox[k] EXCEPT !.wait = w]
      BY <1>1 DEF MinutePasses
    <3>2. outbox[k] = RowAt(outbox[k].status, outbox[k].attempts, outbox[k].wait)
      BY DEF MailTyped, MailRow
    <3> HIDE DEF w
    <3>3. [outbox[k] EXCEPT !.wait = w] = RowAt(outbox[k].status, outbox[k].attempts, w)
      BY <3>2, RowFields
    <3> QED
      BY <3>1, <3>3
  <2>2. outbox' = [k \in Mail |-> outbox'[k]]
    BY <1>1 DEF MinutePasses
  <2> QED
    BY <2>1, <2>2, RowFields DEF MailTyped, MailRow
<1>2. CASE PurgeOutbox
  <2>1. MailRow(NoMailRow) /\ NoMailRow.status = "NONE"
    BY DEF NoMailRow, MailRow, RowAt
  <2>2. outbox' = [k \in Mail |-> outbox'[k]]
        /\ \A k \in Mail : \/ outbox'[k] = outbox[k]
                           \/ outbox[k].status \in Terminal /\ outbox'[k] = NoMailRow
    BY <1>2 DEF PurgeOutbox
  <2> QED
    BY <2>1, <2>2 DEF MailTyped
<1> QED
  BY <1>1, <1>2

\* The row a drain is at.
LEMMA CurrentRow ==
  ASSUME MailTyped, NEW d \in Drain, drain[d].batch # <<>>
  PROVE  /\ Current(d) = drain[d].batch[1] /\ 1 \in 1..Len(drain[d].batch)
         /\ Current(d) \in Held /\ Current(d).mail \in Mail /\ Current(d).attempts \in Nat
<1>1. drain[d].batch \in Seq(Held)
  BY DEF MailTyped, MailDrains
<1>2. Len(drain[d].batch) \in Nat \ {0}
  BY <1>1, EmptySeq
<1>3. Current(d) \in Held
  BY <1>1, <1>2 DEF Current
<1> QED
  BY <1>2, <1>3 DEF Current, Held

LEMMA RestOfBatch ==
  ASSUME NEW b \in Seq(Held), b # <<>>
  PROVE  /\ Tail(b) \in Seq(Held)
         /\ \A i \in 1..Len(Tail(b)) : i + 1 \in 1..Len(b) /\ Tail(b)[i] = b[i + 1]
<1>1. Len(b) \in Nat \ {0}
  BY EmptySeq
<1> QED
  BY <1>1, HeadTailProperties

-----------------------------------------------------------------------------
LEMMA NewDrain ==
  ASSUME MailTyped, NEW d \in Drain, NEW pc \in {"off", "query", "next", "mark", "count"},
         NEW p \in Int, NEW b \in Seq(Held), NEW n \in Int,
         Becomes(d, DrainAt(pc, p, b, n))
  PROVE  /\ drain' \in [Drain -> MailDrains]
         /\ drain'[d].pc = pc /\ drain'[d].batch = b
         /\ \A e \in Drain \ {d} : drain'[e] = drain[e]
<1>1. DrainAt(pc, p, b, n) \in MailDrains
  BY DEF DrainAt, MailDrains
<1>2. drain \in [Drain -> MailDrains]
  BY DEF MailTyped
<1>3. drain' \in [Drain -> MailDrains] /\ drain'[d] = DrainAt(pc, p, b, n)
      /\ \A e \in Drain \ {d} : drain'[e] = drain[e]
  BY <1>1, <1>2 DEF Becomes
<1> QED
  BY <1>3, DrainFields

\* The drain of a step: where it gets to and with what batch.
Turns(d, pc, b) ==
  /\ drain' \in [Drain -> MailDrains]
  /\ drain'[d].pc = pc /\ drain'[d].batch = b
  /\ \A e \in Drain \ {d} : drain'[e] = drain[e]

LEMMA DrainTurns ==
  ASSUME MailTyped, NEW d \in Drain
  PROVE  /\ StartDrain(d) => Turns(d, "query", <<>>)
         /\ SelectDue(d) => \E b \in Seq(Held) :
              Turns(d, "next", b) /\ Distinct(b) /\ \A i \in 1..Len(b) : ReadHolds(b[i])
         /\ Deliver(d) => \E pc \in {"mark", "count"} : Turns(d, pc, drain[d].batch)
         /\ MarkSent(d) /\ drain[d].batch # <<>> => Turns(d, "next", Tail(drain[d].batch))
         /\ CountFailure(d) /\ drain[d].batch # <<>> =>
              \/ Turns(d, "off", <<>>)
              \/ /\ Exists(Current(d).mail)
                 /\ outbox' = [outbox EXCEPT ![Current(d).mail] = Retried(Current(d).attempts)]
                 /\ Turns(d, "next", Tail(drain[d].batch))
         /\ PassEnds(d) => \E pc \in {"off", "query"}, b \in Seq(Held) : Turns(d, pc, b)
         /\ DrainDies(d) => Turns(d, "off", <<>>)
<1>1. /\ drain[d].pass \in Int /\ drain[d].pass + 1 \in Int /\ drain[d].size \in Int
      /\ drain[d].batch \in Seq(Held) /\ <<>> \in Seq(Held)
  BY DEF MailTyped, MailDrains
<1>2. drain[d].batch # <<>> => Tail(drain[d].batch) \in Seq(Held)
  BY <1>1, RestOfBatch
<1>3. ASSUME NEW pc \in {"off", "query", "next", "mark", "count"}, NEW p \in Int,
             NEW b \in Seq(Held), NEW n \in Int, Becomes(d, DrainAt(pc, p, b, n))
      PROVE  Turns(d, pc, b)
  BY <1>3, NewDrain DEF Turns
<1>off. Becomes(d, DrainAt("off", 0, <<>>, 0)) => Turns(d, "off", <<>>)
  <2>1. 0 \in Int /\ "off" \in {"off", "query", "next", "mark", "count"}
    OBVIOUS
  <2> QED
    BY <1>1, <1>3, <2>1, Zenon
<1>query. ASSUME NEW p \in Int, NEW b \in Seq(Held), NEW n \in Int
          PROVE  Becomes(d, DrainAt("query", p, b, n)) => Turns(d, "query", b)
  BY <1>3
<1>next. drain[d].batch # <<>> =>
           (Becomes(d, DrainAt("next", drain[d].pass, Tail(drain[d].batch), drain[d].size))
              => Turns(d, "next", Tail(drain[d].batch)))
  BY <1>1, <1>2, <1>3
<1>4. StartDrain(d) => Turns(d, "query", <<>>)
  <2>1. 0 \in Int
    OBVIOUS
  <2> QED
    BY <1>1, <1>query, <2>1, DrainBecomes, Zenon
<1>5. ASSUME SelectDue(d)
      PROVE  \E b \in Seq(Held) :
               Turns(d, "next", b) /\ Distinct(b) /\ \A i \in 1..Len(b) : ReadHolds(b[i])
  <2>1. PICK b \in Seq(Held), n \in Nat :
           /\ Becomes(d, DrainAt("next", drain[d].pass, b, n))
           /\ Distinct(b) /\ \A i \in 1..Len(b) : ReadHolds(b[i])
    BY <1>5, SelectBecomes
  <2>2. Turns(d, "next", b)
    BY <1>1, <1>3, <2>1
  <2> QED
    BY <2>1, <2>2
<1>6. Deliver(d) => \E pc \in {"mark", "count"} : Turns(d, pc, drain[d].batch)
  BY <1>1, <1>3, DrainBecomes
<1>7. MarkSent(d) /\ drain[d].batch # <<>> => Turns(d, "next", Tail(drain[d].batch))
  BY <1>next, DrainBecomes
<1>8. CountFailure(d) /\ drain[d].batch # <<>> =>
        \/ Turns(d, "off", <<>>)
        \/ /\ Exists(Current(d).mail)
           /\ outbox' = [outbox EXCEPT ![Current(d).mail] = Retried(Current(d).attempts)]
           /\ Turns(d, "next", Tail(drain[d].batch))
  BY <1>off, <1>next, DrainBecomes
<1>9. PassEnds(d) => \E pc \in {"off", "query"}, b \in Seq(Held) : Turns(d, pc, b)
  <2>1. Becomes(d, DrainAt("query", drain[d].pass + 1, drain[d].batch, drain[d].size))
          => Turns(d, "query", drain[d].batch)
    BY <1>1, <1>query
  <2> QED
    BY <1>1, <1>off, <2>1, DrainBecomes
<1>10. DrainDies(d) => Turns(d, "off", <<>>)
  BY <1>off, DrainBecomes
<1> QED
  BY <1>4, <1>5, <1>6, <1>7, <1>8, <1>9, <1>10

-----------------------------------------------------------------------------
\* What each step leaves of the outbox: its shape.
Shaped == outbox' = [m \in Mail |-> outbox'[m]] /\ \A m \in Mail : MailRow(outbox'[m])

LEMMA RowsShaped ==
  ASSUME MailTyped, NEW d \in Drain,
         \/ \E m \in Mail : SendInline(m) \/ RecordFailed(m)
         \/ StartDrain(d) \/ DrainStep(d) \/ DrainDies(d)
         \/ MinutePasses \/ PurgeOutbox
  PROVE  Shaped
<1>1. UNCHANGED outbox => Shaped
  BY DEF Shaped, MailTyped
<1>2. CASE \E m \in Mail : RecordFailed(m)
  <2> PICK m \in Mail : RecordFailed(m)
    BY <1>2
  <2>1. UNCHANGED outbox \/ outbox' = [outbox EXCEPT ![m] = RowAt("FAILED", 1, BackoffMinutes(1))]
    BY RecordedRow DEF RecordFailed
  <2>2. 1 \in Nat
    OBVIOUS
  <2> QED
    BY <1>1, <2>1, <2>2, OneRow DEF Shaped, RowBecomes
<1>3. CASE MarkSent(d)
  <2>1. Current(d).mail \in Mail
    BY <1>3, CurrentRow DEF MarkSent, MailTyped
  <2>2. PICK k \in Mail : k = Current(d).mail
    BY <2>1
  <2>3. UNCHANGED outbox \/ outbox' = [outbox EXCEPT ![k].status = "SENT"]
    BY <1>3, <2>2 DEF MarkSent
  <2>4. outbox[k].attempts \in Nat
    BY DEF MailTyped, MailRow
  <2> QED
    BY <1>1, <2>3, <2>4, MarkedRow, OneRow DEF Shaped, RowBecomes
<1>4. CASE CountFailure(d)
  <2>1. Current(d).mail \in Mail /\ Current(d).attempts \in Nat
    BY <1>4, CurrentRow DEF CountFailure, MailTyped
  <2>2. PICK k \in Mail, n \in Nat : k = Current(d).mail /\ n = Current(d).attempts
    BY <2>1
  <2>3. UNCHANGED outbox \/ outbox' = [outbox EXCEPT ![k] = Retried(n)]
    BY <1>4, <2>2 DEF CountFailure
  <2>4. n + 1 \in Nat
    OBVIOUS
  <2> QED
    BY <1>1, <2>3, <2>4, RetriedRow, OneRow DEF Shaped, RowBecomes
<1>5. CASE MinutePasses \/ PurgeOutbox
  BY <1>5, AllRows DEF Shaped
<1> QED
  BY <1>1, <1>2, <1>3, <1>4, <1>5
     DEF SendInline, StartDrain, DrainStep, DrainDies, SelectDue, Deliver, PassEnds

LEMMA DrainsShaped ==
  ASSUME MailTyped, NEW d \in Drain,
         StartDrain(d) \/ DrainStep(d) \/ DrainDies(d)
  PROVE  /\ drain' \in [Drain -> MailDrains]
         /\ \A e \in Drain : drain'[e].pc \in {"mark", "count"} => drain'[e].batch # <<>>
<1>1. ASSUME NEW pc, NEW b, Turns(d, pc, b), pc \in {"mark", "count"} => b # <<>>
      PROVE  /\ drain' \in [Drain -> MailDrains]
             /\ \A e \in Drain : drain'[e].pc \in {"mark", "count"} => drain'[e].batch # <<>>
  BY <1>1 DEF Turns, MailTyped
<1>2. CASE StartDrain(d) \/ DrainDies(d)
  BY <1>1, <1>2, DrainTurns
<1>3. CASE SelectDue(d)
  BY <1>1, <1>3, DrainTurns
<1>4. CASE Deliver(d)
  BY <1>1, <1>4, DrainTurns DEF Deliver
<1>5. CASE MarkSent(d)
  <2>1. drain[d].batch # <<>>
    BY <1>5 DEF MarkSent, MailTyped
  <2> QED
    BY <1>1, <1>5, <2>1, DrainTurns
<1>6. CASE CountFailure(d)
  <2>1. drain[d].batch # <<>>
    BY <1>6 DEF CountFailure, MailTyped
  <2> QED
    BY <1>1, <1>6, <2>1, DrainTurns
<1>7. CASE PassEnds(d)
  BY <1>1, <1>7, DrainTurns
<1> QED
  BY <1>2, <1>3, <1>4, <1>5, <1>6, <1>7 DEF DrainStep

LEMMA CountsShaped ==
  ASSUME MailTyped, NEW d \in Drain,
         \/ \E m \in Mail : SendInline(m) \/ RecordFailed(m)
         \/ StartDrain(d) \/ DrainStep(d) \/ DrainDies(d)
         \/ MinutePasses \/ PurgeOutbox
  PROVE  /\ sender' \in [Mail -> {"new", "failed", "done"}]
         /\ delivered' \in [Mail -> Int] /\ unmarked' \in [Mail -> Int]
<1>1. CASE Deliver(d)
  <2>1. Current(d).mail \in Mail
    BY <1>1, CurrentRow DEF Deliver
  <2> QED
    BY <1>1, <2>1 DEF Deliver, MailTyped
<1>2. CASE MarkSent(d)
  <2>1. Current(d).mail \in Mail
    BY <1>2, CurrentRow DEF MarkSent, MailTyped
  <2> QED
    BY <1>2, <2>1 DEF MarkSent, MailTyped
<1>3. CASE \E m \in Mail : SendInline(m)
  <2> PICK m \in Mail : SendInline(m)
    BY <1>3
  <2>1. /\ (sender' = [sender EXCEPT ![m] = "done"]) \/ (sender' = [sender EXCEPT ![m] = "failed"])
        /\ (delivered' = [delivered EXCEPT ![m] = @ + 1]) \/ UNCHANGED delivered
        /\ UNCHANGED unmarked
    BY DEF SendInline
  <2>2. sender' \in [Mail -> {"new", "failed", "done"}]
    BY <2>1 DEF MailTyped
  <2>3. delivered' \in [Mail -> Int]
    BY <2>1 DEF MailTyped
  <2>4. unmarked' \in [Mail -> Int]
    BY <2>1 DEF MailTyped
  <2> QED
    BY <2>2, <2>3, <2>4
<1>4. CASE \E m \in Mail : RecordFailed(m)
  BY <1>4 DEF MailTyped, RecordFailed
<1>5. CASE \/ StartDrain(d) \/ DrainDies(d) \/ SelectDue(d) \/ CountFailure(d)
           \/ PassEnds(d) \/ MinutePasses \/ PurgeOutbox
  <2>1. UNCHANGED <<sender, delivered, unmarked>>
    BY <1>5 DEF StartDrain, DrainDies, SelectDue, CountFailure, PassEnds, MinutePasses, PurgeOutbox
  <2> QED
    BY <2>1 DEF MailTyped
<1> QED
  BY <1>1, <1>2, <1>3, <1>4, <1>5 DEF DrainStep

LEMMA MailTypedStep == MailTyped /\ [MailNext]_mailVars => MailTyped'
<1> SUFFICES ASSUME MailTyped, [MailNext]_mailVars PROVE MailTyped'
  OBVIOUS
<1>1. CASE UNCHANGED mailVars
  BY <1>1 DEF mailVars, MailTyped
<1>2. CASE \E m \in Mail : SendInline(m) \/ RecordFailed(m)
  <2>1. Scheduled \in Drain
    BY DEF Drain
  <2>2. UNCHANGED drain
    BY <1>2 DEF SendInline, RecordFailed
  <2> QED
    BY <1>2, <2>1, <2>2, RowsShaped, CountsShaped DEF MailTyped, Shaped
<1>3. CASE \E d \in Drain : StartDrain(d) \/ DrainStep(d) \/ DrainDies(d)
  <2>1. PICK d \in Drain : StartDrain(d) \/ DrainStep(d) \/ DrainDies(d)
    BY <1>3
  <2> QED
    BY <2>1, RowsShaped, CountsShaped, DrainsShaped DEF MailTyped, Shaped
<1>4. CASE MinutePasses \/ PurgeOutbox
  <2>1. UNCHANGED <<sender, delivered, unmarked, drain>>
    BY <1>4 DEF MinutePasses, PurgeOutbox
  <2> QED
    BY <1>4, <2>1, AllRows DEF MailTyped
<1> QED
  BY <1>1, <1>2, <1>3, <1>4 DEF MailNext


-----------------------------------------------------------------------------
\* The steps while no two drains have run at once.

\* A batch that does not change holds as long as the rows it has read do.
LEMMA BatchKept ==
  ASSUME MailTyped, NEW d \in Drain, BatchHolds(d), drain'[d] = drain[d],
         \A i \in 1..Len(drain[d].batch) :
           ReadHolds(drain[d].batch[i]) => ReadHolds(drain[d].batch[i])'
  PROVE  BatchHolds(d)'
BY DEF BatchHolds

\* The item a drain is at, and the rest of its batch.
LEMMA AtItem ==
  ASSUME MailTyped, Undisturbed, NEW d \in Drain, drain[d].batch # <<>>,
         drain[d].pc \in {"next", "mark", "count"}
  PROVE  LET m == Current(d).mail IN
         /\ m \in Mail /\ outbox[m].status = "FAILED"
         /\ outbox[m].attempts = Current(d).attempts /\ outbox[m].attempts < MaxAttempts
         /\ delivered[m] = unmarked[m] /\ sender[m] = "done"
<1>1. Current(d).mail \in Mail /\ ReadHolds(Current(d)) /\ Kept(Current(d).mail)
  BY CurrentRow DEF Undisturbed, BatchHolds
<1> QED
  BY <1>1 DEF ReadHolds, Kept, MailTyped

\* A drain that goes on to the next item: its own row may have changed, no other.
LEMMA GoesOn ==
  ASSUME MailTyped, Undisturbed, NEW d \in Drain, drain[d].batch # <<>>,
         drain[d].pc \in {"mark", "count"}, Turns(d, "next", Tail(drain[d].batch)),
         \A k \in Mail \ {Current(d).mail} : outbox'[k] = outbox[k]
  PROVE  BatchHolds(d)'
<1> PICK b : b = drain[d].batch
  OBVIOUS
<1>1. /\ b \in Seq(Held) /\ 1 \in 1..Len(b) /\ Current(d) = b[1]
      /\ Distinct(b) /\ \A i \in 1..Len(b) : ReadHolds(b[i])
  BY CurrentRow DEF MailTyped, MailDrains, Undisturbed, BatchHolds
<1>2. Tail(b) \in Seq(Held)
      /\ \A i \in 1..Len(Tail(b)) : i + 1 \in 1..Len(b) /\ Tail(b)[i] = b[i + 1]
  BY <1>1, RestOfBatch
<1>3. ASSUME NEW i \in 1..Len(b) PROVE b[i] \in Held /\ b[i].mail \in Mail
  <2>1. b[i] \in Held
    BY <1>1, ElementOfSeq
  <2> QED
    BY <2>1 DEF Held
<1>4. drain'[d].batch = Tail(b)
  BY DEF Turns
<1>5. Distinct(Tail(b))
  <2> SUFFICES ASSUME NEW i \in 1..Len(Tail(b)), NEW j \in 1..Len(Tail(b)),
                      Tail(b)[i].mail = Tail(b)[j].mail
               PROVE  i = j
    BY DEF Distinct
  <2>1. i + 1 = j + 1
    BY <1>1, <1>2 DEF Distinct
  <2> QED
    BY <2>1
<1>6. ASSUME NEW i \in 1..Len(Tail(b)) PROVE ReadHolds(Tail(b)[i])'
  <2>1. i + 1 \in 1..Len(b) /\ Tail(b)[i] = b[i + 1] /\ i + 1 # 1
    BY <1>2
  <2>2. b[i + 1].mail # b[1].mail /\ b[i + 1].mail \in Mail
    BY <1>1, <1>3, <2>1 DEF Distinct
  <2>3. outbox'[b[i + 1].mail] = outbox[b[i + 1].mail] /\ ReadHolds(b[i + 1])
    BY <1>1, <2>1, <2>2
  <2> QED
    BY <2>1, <2>3, <1>2 DEF ReadHolds
<1>7. Distinct(drain'[d].batch) /\ \A i \in 1..Len(drain'[d].batch) : ReadHolds(drain[d].batch[i])'
  BY <1>4, <1>5, <1>6
<1> QED
  BY <1>7 DEF BatchHolds, Distinct

LEMMA SenderKeeps ==
  ASSUME MailTyped, Undisturbed, NEW m \in Mail, SendInline(m) \/ RecordFailed(m)
  PROVE  Undisturbed'
<1>0. Kept(m) /\ sender[m] # "done" /\ outbox[m].status = "NONE"
      /\ delivered[m] = 0 /\ unmarked[m] = 0 /\ MaxAttempts \in Nat /\ MaxAttempts > 1
  BY MailAssumption DEF Undisturbed, Kept, SendInline, RecordFailed
<1>1. /\ UNCHANGED <<drain, unmarked>> /\ sender' \in [Mail -> {"new", "failed", "done"}]
      /\ \A k \in Mail \ {m} : /\ outbox'[k] = outbox[k] /\ delivered'[k] = delivered[k]
                              /\ sender'[k] = sender[k]
      /\ \/ /\ outbox'[m] = outbox[m] /\ delivered'[m] = 1 /\ sender'[m] = "done"
         \/ /\ outbox'[m] = outbox[m] /\ delivered'[m] = 0
         \/ /\ outbox'[m].status = "FAILED" /\ outbox'[m].attempts = 1
            /\ delivered'[m] = 0 /\ sender'[m] = "done"
  <2>1. CASE SendInline(m)
    <3>1. /\ UNCHANGED <<outbox, drain, unmarked>>
          /\ \/ /\ delivered' = [delivered EXCEPT ![m] = @ + 1]
                /\ sender' = [sender EXCEPT ![m] = "done"]
             \/ /\ sender' = [sender EXCEPT ![m] = "failed"] /\ UNCHANGED delivered
      BY <2>1 DEF SendInline
    <3>2. CASE /\ delivered' = [delivered EXCEPT ![m] = @ + 1]
               /\ sender' = [sender EXCEPT ![m] = "done"]
      <4>1. delivered'[m] = delivered[m] + 1
        BY <3>2 DEF MailTyped
      <4>2. sender'[m] = "done" /\ sender' \in [Mail -> {"new", "failed", "done"}]
        BY <3>2 DEF MailTyped
      <4>3. \A k \in Mail \ {m} : delivered'[k] = delivered[k] /\ sender'[k] = sender[k]
        BY <3>2 DEF MailTyped
      <4> QED
        BY <1>0, <3>1, <4>1, <4>2, <4>3
    <3>3. CASE sender' = [sender EXCEPT ![m] = "failed"] /\ UNCHANGED delivered
      BY <1>0, <3>1, <3>3 DEF MailTyped
    <3> QED
      BY <3>1, <3>2, <3>3
  <2>2. CASE RecordFailed(m)
    <3>1. /\ UNCHANGED <<delivered, drain, unmarked>>
          /\ sender' = [sender EXCEPT ![m] = "done"]
          /\ \/ outbox' = [outbox EXCEPT ![m] = RowAt("FAILED", 1, BackoffMinutes(1))]
             \/ UNCHANGED outbox
      BY <2>2, RecordedRow DEF RecordFailed
    <3>2. 1 \in Nat
      OBVIOUS
    <3>3. CASE UNCHANGED outbox
      BY <1>0, <3>1, <3>3 DEF MailTyped
    <3>4. CASE outbox' = [outbox EXCEPT ![m] = RowAt("FAILED", 1, BackoffMinutes(1))]
      <4>1. /\ outbox'[m].status = "FAILED" /\ outbox'[m].attempts = 1
            /\ \A k \in Mail \ {m} : outbox'[k] = outbox[k]
        <5>1. RowBecomes(m, "FAILED", 1, BackoffMinutes(1))
          BY <3>4 DEF RowBecomes
        <5> QED
          BY <3>2, <5>1, OneRow
      <4>2. /\ sender'[m] = "done" /\ sender' \in [Mail -> {"new", "failed", "done"}]
            /\ \A k \in Mail \ {m} : sender'[k] = sender[k]
        BY <3>1 DEF MailTyped
      <4> QED
        BY <1>0, <3>1, <4>1, <4>2
    <3> QED
      BY <3>1, <3>3, <3>4
  <2> QED
    BY <2>1, <2>2
<1>2. ASSUME NEW k \in Mail PROVE Kept(k)'
  <2>1. CASE k = m
    BY <1>0, <1>1, <2>1 DEF Kept
  <2>2. CASE k # m
    BY <1>1, <2>2 DEF Kept, Undisturbed
  <2> QED
    BY <2>1, <2>2
<1>3. ASSUME NEW d \in Drain PROVE BatchHolds(d)'
  <2> SUFFICES ASSUME drain[d].pc \in {"next", "mark", "count"} PROVE BatchHolds(d)'
    BY <1>1 DEF BatchHolds
  <2>1. drain[d].batch \in Seq(Held)
    BY DEF MailTyped, MailDrains
  <2>2. ASSUME NEW i \in 1..Len(drain[d].batch)
        PROVE  ReadHolds(drain[d].batch[i]) => ReadHolds(drain[d].batch[i])'
    <3>1. drain[d].batch[i] \in Held
      BY <2>1, ElementOfSeq
    <3> QED
      BY <1>0, <1>1, <3>1 DEF ReadHolds, Held
  <2> QED
    BY <1>1, <2>2, BatchKept DEF Undisturbed
<1> QED
  BY <1>1, <1>2, <1>3 DEF Undisturbed, OneDrain

\* A step of one drain while no other runs.
LEMMA OneTurns ==
  ASSUME MailTyped, Undisturbed, NEW d \in Drain, NEW pc, NEW b, Turns(d, pc, b),
         \A e \in Drain \ {d} : drain[e].pc = "off",
         pc \in {"next", "mark", "count"} => BatchHolds(d)',
         \A m \in Mail : Kept(m)'
  PROVE  Undisturbed'
BY DEF Undisturbed, OneDrain, BatchHolds, Turns

LEMMA DrainKeeps ==
  ASSUME MailTyped, Undisturbed, NEW d \in Drain,
         StartDrain(d) \/ DrainStep(d) \/ DrainDies(d), ~overlapped'
  PROVE  Undisturbed'
<1>1. \A e \in Drain \ {d} : drain[e].pc = "off"
  BY DEF Undisturbed, OneDrain, StartDrain, MayStart, DrainStep, DrainDies,
         SelectDue, Deliver, MarkSent, CountFailure, PassEnds
<1>2. UNCHANGED <<sender, outbox, delivered, unmarked>> => \A m \in Mail : Kept(m)'
  BY DEF Undisturbed, Kept
<1>3. CASE StartDrain(d) \/ DrainDies(d) \/ PassEnds(d)
  <2>1. UNCHANGED <<sender, outbox, delivered, unmarked>>
    BY <1>3 DEF StartDrain, DrainDies, PassEnds
  <2>2. \E pc \in {"off", "query"}, b \in Seq(Held) : Turns(d, pc, b)
    <3>1. <<>> \in Seq(Held)
      OBVIOUS
    <3> QED
      BY <1>3, <3>1, DrainTurns
  <2> QED
    BY <1>1, <1>2, <2>1, <2>2, OneTurns
<1>4. CASE SelectDue(d)
  <2>1. PICK b \in Seq(Held) :
          Turns(d, "next", b) /\ Distinct(b) /\ \A i \in 1..Len(b) : ReadHolds(b[i])
    BY <1>4, DrainTurns
  <2>2. UNCHANGED <<sender, outbox, delivered, unmarked>>
    BY <1>4 DEF SelectDue
  <2>3. BatchHolds(d)'
    BY <2>1, <2>2 DEF BatchHolds, Turns, ReadHolds, Distinct
  <2> QED
    BY <1>1, <1>2, <2>1, <2>2, <2>3, OneTurns
<1>5. CASE Deliver(d)
  <2>1. PICK pc \in {"mark", "count"} : Turns(d, pc, drain[d].batch)
    BY <1>5, DrainTurns
  <2>2. drain[d].pc = "next" /\ drain[d].batch # <<>> /\ UNCHANGED <<sender, outbox>>
    BY <1>5 DEF Deliver
  <2>3. PICK m : m = Current(d).mail
    OBVIOUS
  <2>4. m \in Mail /\ delivered[m] = unmarked[m] /\ sender[m] = "done"
    BY <2>2, <2>3, AtItem
  <2>5. BatchHolds(d)'
    BY <2>1, <2>2 DEF BatchHolds, Turns, ReadHolds, Distinct, Undisturbed
  <2>6. \/ UNCHANGED <<delivered, unmarked>>
        \/ /\ delivered' = [delivered EXCEPT ![m] = @ + 1]
           /\ unmarked' = [unmarked EXCEPT ![m] = @ + 1]
    BY <1>5, <2>3 DEF Deliver
  <2>7. /\ \A k \in Mail \ {m} : delivered'[k] = delivered[k] /\ unmarked'[k] = unmarked[k]
        /\ delivered'[m] = unmarked'[m] /\ delivered'[m] \in Int
    BY <2>4, <2>6 DEF MailTyped
  <2>8. ASSUME NEW k \in Mail PROVE Kept(k)'
    <3>1. CASE k = m
      BY <2>2, <2>4, <2>7, <3>1 DEF Kept, Undisturbed
    <3>2. CASE k # m
      BY <2>2, <2>7, <3>2 DEF Kept, Undisturbed
    <3> QED
      BY <3>1, <3>2
  <2> QED
    BY <1>1, <2>1, <2>5, <2>8, OneTurns
<1>6. CASE MarkSent(d)
  <2>1. drain[d].batch # <<>> /\ drain[d].pc = "mark" /\ UNCHANGED <<sender, delivered>>
    BY <1>6 DEF MarkSent, MailTyped
  <2>2. Turns(d, "next", Tail(drain[d].batch))
    BY <1>6, <2>1, DrainTurns
  <2>3. PICK m : m = Current(d).mail
    OBVIOUS
  <2>4. m \in Mail /\ delivered[m] = unmarked[m] /\ sender[m] = "done"
    BY <2>1, <2>3, AtItem
  <2>5. \/ UNCHANGED <<outbox, unmarked>>
        \/ /\ outbox' = [outbox EXCEPT ![m].status = "SENT"]
           /\ unmarked' = [unmarked EXCEPT ![m] = @ - 1]
    BY <1>6, <2>3 DEF MarkSent
  <2>6. \/ UNCHANGED <<outbox, unmarked>>
        \/ /\ outbox'[m].status = "SENT" /\ \A k \in Mail \ {m} : outbox'[k] = outbox[k]
           /\ unmarked'[m] = unmarked[m] - 1
           /\ \A k \in Mail \ {m} : unmarked'[k] = unmarked[k]
    <3>1. outbox[m].attempts \in Nat
      BY <2>4 DEF MailTyped, MailRow
    <3>2. CASE UNCHANGED <<outbox, unmarked>>
      BY <3>2
    <3>3. CASE /\ outbox' = [outbox EXCEPT ![m].status = "SENT"]
               /\ unmarked' = [unmarked EXCEPT ![m] = @ - 1]
      <4>1. outbox' = [outbox EXCEPT ![m] = RowAt("SENT", outbox[m].attempts, outbox[m].wait)]
        BY <2>4, <3>3, MarkedRow
      <4>2. outbox'[m].status = "SENT" /\ \A k \in Mail \ {m} : outbox'[k] = outbox[k]
        BY <2>4, <3>1, <4>1, OneRow DEF RowBecomes
      <4>3. /\ unmarked'[m] = unmarked[m] - 1
            /\ \A k \in Mail \ {m} : unmarked'[k] = unmarked[k]
        BY <2>4, <3>3 DEF MailTyped
      <4> QED
        BY <4>2, <4>3
    <3> QED
      BY <2>5, <3>2, <3>3
  <2>7. BatchHolds(d)'
    BY <2>1, <2>2, <2>3, <2>6, GoesOn
  <2>8. ASSUME NEW k \in Mail PROVE Kept(k)'
    <3>1. CASE k = m
      <4>1. delivered[m] \in Int /\ unmarked[m] \in Int
        BY <2>4 DEF MailTyped
      <4> QED
        BY <2>1, <2>4, <2>6, <3>1, <4>1 DEF Kept, Undisturbed
    <3>2. CASE k # m
      BY <2>1, <2>6, <3>2 DEF Kept, Undisturbed
    <3> QED
      BY <3>1, <3>2
  <2> QED
    BY <1>1, <2>2, <2>7, <2>8, OneTurns
<1>7. CASE CountFailure(d)
  <2>1. /\ drain[d].batch # <<>> /\ drain[d].pc = "count"
        /\ UNCHANGED <<sender, delivered, unmarked>>
    BY <1>7 DEF CountFailure, MailTyped
  <2>2. PICK m, n : m = Current(d).mail /\ n = Current(d).attempts
    OBVIOUS
  <2>3. /\ m \in Mail /\ delivered[m] = unmarked[m] /\ sender[m] = "done"
        /\ n \in Nat /\ n < MaxAttempts
    BY <2>1, <2>2, AtItem, CurrentRow
  <2>4. CASE Turns(d, "off", <<>>)
    <3>1. CASE UNCHANGED outbox
      BY <1>1, <1>2, <2>1, <2>4, <3>1, OneTurns
    <3>2. CASE drain' = Advance(d)
      BY <2>1, <2>4, <3>2 DEF Advance, Turns, MailTyped, MailDrains
    <3> QED
      BY <1>7, <3>1, <3>2 DEF CountFailure
  <2>5. CASE /\ outbox' = [outbox EXCEPT ![m] = Retried(n)]
             /\ Turns(d, "next", Tail(drain[d].batch))
    <3>1. PICK x : x = IF n + 1 >= MaxAttempts THEN "DEAD_LETTER" ELSE "FAILED"
      OBVIOUS
    <3>2. n + 1 \in Nat /\ outbox' = [outbox EXCEPT ![m] = RowAt(x, n + 1, BackoffMinutes(n + 1))]
      <4>1. Retried(n) = RowAt(x, n + 1, BackoffMinutes(n + 1))
        BY <2>3, <3>1, RetriedRow
      <4> QED
        BY <2>3, <2>5, <4>1
    <3>3. /\ outbox'[m].status = x /\ outbox'[m].attempts = n + 1
          /\ \A k \in Mail \ {m} : outbox'[k] = outbox[k]
      <4>1. RowBecomes(m, x, n + 1, BackoffMinutes(n + 1))
        BY <3>2 DEF RowBecomes
      <4> QED
        BY <2>3, <3>2, <4>1, OneRow
    <3>4. BatchHolds(d)'
      BY <2>1, <2>2, <2>5, <3>3, GoesOn
    <3>5. ASSUME NEW k \in Mail PROVE Kept(k)'
      <4>1. CASE k = m
        <5>1. MaxAttempts \in Nat /\ delivered[m] \in Int
          BY <2>3, MailAssumption DEF MailTyped
        <5> QED
          BY <2>1, <2>3, <3>1, <3>3, <4>1, <5>1 DEF Kept, Undisturbed
      <4>2. CASE k # m
        BY <2>1, <3>3, <4>2 DEF Kept, Undisturbed
      <4> QED
        BY <4>1, <4>2
    <3> QED
      BY <1>1, <2>5, <3>4, <3>5, OneTurns
  <2> QED
    BY <1>7, <2>1, <2>2, <2>4, <2>5, DrainTurns
<1> QED
  BY <1>3, <1>4, <1>5, <1>6, <1>7 DEF DrainStep

LEMMA TimeKeeps ==
  ASSUME MailTyped, Undisturbed, MinutePasses \/ PurgeOutbox
  PROVE  Undisturbed'
<1>1. UNCHANGED <<sender, delivered, unmarked, drain>>
  BY DEF MinutePasses, PurgeOutbox
<1>2. ASSUME NEW m \in Mail PROVE Kept(m)'
  BY <1>1, AllRows DEF Kept, Undisturbed
<1>3. ASSUME NEW d \in Drain PROVE BatchHolds(d)'
  <2> SUFFICES ASSUME drain[d].pc \in {"next", "mark", "count"} PROVE BatchHolds(d)'
    BY <1>1 DEF BatchHolds
  <2>1. drain[d].batch \in Seq(Held)
    BY DEF MailTyped, MailDrains
  <2>2. ASSUME NEW i \in 1..Len(drain[d].batch)
        PROVE  ReadHolds(drain[d].batch[i]) => ReadHolds(drain[d].batch[i])'
    <3>1. drain[d].batch[i] \in Held
      BY <2>1, ElementOfSeq
    <3> QED
      BY <1>1, <3>1, AllRows DEF ReadHolds, Held, Terminal
  <2> QED
    BY <1>1, <2>2, BatchKept DEF Undisturbed
<1> QED
  BY <1>1, <1>2, <1>3 DEF Undisturbed, OneDrain

LEMMA MailInvStep == MailTyped /\ MailInv /\ [MailNext]_mailVars => MailInv'
<1> SUFFICES ASSUME MailTyped, MailInv, [MailNext]_mailVars, ~overlapped' PROVE Undisturbed'
  BY DEF MailInv
<1>1. CASE UNCHANGED mailVars
  BY <1>1 DEF mailVars, MailInv, Undisturbed, OneDrain, Kept, BatchHolds, ReadHolds, Distinct
<1>2. CASE MailNext
  <2>1. ~overlapped
    BY <1>2 DEF MailNext, SendInline, RecordFailed, StartDrain, DrainStep, SelectDue, Deliver,
                MarkSent, CountFailure, PassEnds, DrainDies, MinutePasses, PurgeOutbox
  <2> QED
    BY <1>2, <2>1, SenderKeeps, DrainKeeps, TimeKeeps DEF MailNext, MailInv
<1> QED
  BY <1>1, <1>2

LEMMA MailInvHonest == MailTyped /\ MailInv => OutboxHonest
BY DEF MailTyped, MailInv, Undisturbed, Kept, OutboxHonest, TwiceOnlyIfUnmarked, BooksHonest

\* While no two drains overlap, a mail reaches its reader once, or once more for each
\* mark that was lost, and the row says what became of it: a dead letter was refused
\* as often as the limit says (drainEmailOutbox, sendEmail).
THEOREM OutboxHolds == MailSpec => []OutboxHonest
<1>1. MailInit => MailTyped /\ MailInv
  BY MailInitInv
<1>2. MailTyped /\ MailInv /\ [MailNext]_mailVars => (MailTyped /\ MailInv)'
  BY MailTypedStep, MailInvStep
<1> QED
  BY <1>1, <1>2, MailInvHonest, PTL DEF MailSpec

-----------------------------------------------------------------------------
(* The bounds of the outbox: what a row and a drain may hold, whether drains       *)
(* overlap or not.                                                                 *)

\* The powers of two are numbers, and grow: there are as many sets of numbers to n.
LEMMA Powers ==
  ASSUME NEW m \in Nat, NEW n \in Nat, m <= n
  PROVE  2^m \in Nat /\ 2^n \in Nat /\ 2^m <= 2^n
<1>1. ASSUME NEW k \in Nat
      PROVE  IsFiniteSet(SUBSET (1..k)) /\ Cardinality(SUBSET (1..k)) = 2^k
  <2>1. 1 \in Int /\ k \in Int
    OBVIOUS
  <2>2. IsFiniteSet(1..k) /\ Cardinality(1..k) = IF 1 > k THEN 0 ELSE k - 1 + 1
    BY <2>1, FS_Interval
  <2>3. Cardinality(1..k) = k
    BY <2>2
  <2> QED
    BY <2>2, <2>3, FS_SUBSET, Zenon
<1>2. SUBSET (1..m) \subseteq SUBSET (1..n)
  OBVIOUS
<1>3. /\ Cardinality(SUBSET (1..m)) \in Nat /\ Cardinality(SUBSET (1..n)) \in Nat
      /\ Cardinality(SUBSET (1..m)) <= Cardinality(SUBSET (1..n))
  <2>1. IsFiniteSet(SUBSET (1..m)) /\ IsFiniteSet(SUBSET (1..n))
    BY <1>1
  <2> QED
    BY <1>2, <2>1, FS_CardinalityType, FS_Subset, Zenon
<1>4. Cardinality(SUBSET (1..m)) = 2^m /\ Cardinality(SUBSET (1..n)) = 2^n
  BY <1>1
<1> QED
  BY <1>3, <1>4, Zenon

LEMMA WaitIs ==
  /\ BackoffMinutes(MaxAttempts) \in Nat
  /\ \A n \in 1..MaxAttempts : BackoffMinutes(n) \in 0..BackoffMinutes(MaxAttempts)
<1>1. ASSUME NEW n \in 1..MaxAttempts
      PROVE  BackoffMinutes(n) \in 0..BackoffMinutes(MaxAttempts) /\ BackoffMinutes(MaxAttempts) \in Nat
  <2>1. PICK k, l : k = n - 1 /\ l = MaxAttempts - 1 /\ k \in Nat /\ l \in Nat /\ k <= l
    BY MailAssumption
  <2>2. 2^k \in Nat /\ 2^l \in Nat /\ 2^k <= 2^l
    BY <2>1, Powers
  <2>3. BackoffMinutes(n) = 2^k /\ BackoffMinutes(MaxAttempts) = 2^l
    BY <2>1 DEF BackoffMinutes
  <2> QED
    BY <2>2, <2>3
<1>2. 1 \in 1..MaxAttempts
  BY MailAssumption
<1> QED
  BY <1>1, <1>2

RowBound(r) ==
  /\ r.status \in Terminal \cup {"NONE", "FAILED"}
  /\ r.attempts \in 0..MaxAttempts /\ r.wait \in 0..BackoffMinutes(MaxAttempts)
  /\ r.status = "FAILED" => r.attempts < MaxAttempts

\* A drain holds rows that were FAILED when it read them: each has an attempt left.
DrainBound(r) ==
  /\ r.pc \in {"off", "query", "next", "mark", "count"}
  /\ r.pass \in 0..MaxPasses - 1 /\ r.size \in 0..BatchSize /\ Len(r.batch) <= BatchSize
  /\ \A i \in 1..Len(r.batch) : r.batch[i].attempts < MaxAttempts

MailBounds == (\A m \in Mail : RowBound(outbox[m])) /\ \A d \in Drain : DrainBound(drain[d])

LEMMA OneBound ==
  ASSUME MailTyped, MailBounds, NEW m \in Mail, NEW x, NEW n, NEW w,
         RowBecomes(m, x, n, w), RowBound(RowAt(x, n, w))
  PROVE  \A k \in Mail : RowBound(outbox'[k])
BY DEF RowBecomes, MailTyped, MailBounds

LEMMA RowsBounded ==
  ASSUME MailTyped, MailBounds, NEW d \in Drain,
         \/ \E m \in Mail : SendInline(m) \/ RecordFailed(m)
         \/ StartDrain(d) \/ DrainStep(d) \/ DrainDies(d)
         \/ MinutePasses \/ PurgeOutbox
  PROVE  \A k \in Mail : RowBound(outbox'[k])
<1>1. CASE UNCHANGED outbox
  BY <1>1 DEF MailBounds
<1>2. CASE \E m \in Mail : RecordFailed(m)
  <2> PICK m \in Mail : RecordFailed(m)
    BY <1>2
  <2>1. UNCHANGED outbox \/ RowBecomes(m, "FAILED", 1, BackoffMinutes(1))
    BY RecordedRow DEF RecordFailed, RowBecomes
  <2>2. RowBound(RowAt("FAILED", 1, BackoffMinutes(1)))
    BY WaitIs, MailAssumption, RowFields DEF RowBound
  <2> QED
    BY <1>1, <2>1, <2>2, OneBound
<1>3. CASE MarkSent(d)
  <2>1. PICK m \in Mail : m = Current(d).mail
    BY <1>3, CurrentRow DEF MarkSent, MailTyped
  <2>2. UNCHANGED outbox \/ outbox' = [outbox EXCEPT ![m].status = "SENT"]
    BY <1>3, <2>1 DEF MarkSent
  <2>3. UNCHANGED outbox \/ RowBecomes(m, "SENT", outbox[m].attempts, outbox[m].wait)
    BY <2>2, MarkedRow DEF RowBecomes
  <2>4. RowBound(RowAt("SENT", outbox[m].attempts, outbox[m].wait))
    BY RowFields DEF RowBound, MailBounds, Terminal
  <2> QED
    BY <1>1, <2>3, <2>4, OneBound
<1>4. CASE CountFailure(d)
  <2>1. drain[d].batch # <<>>
    BY <1>4 DEF CountFailure, MailTyped
  <2>2. PICK m \in Mail, n \in Nat : m = Current(d).mail /\ n = Current(d).attempts
    BY <2>1, CurrentRow
  <2>3. n < MaxAttempts
    BY <2>1, <2>2, CurrentRow DEF MailBounds, DrainBound
  <2>4. PICK s : s = IF n + 1 >= MaxAttempts THEN "DEAD_LETTER" ELSE "FAILED"
    OBVIOUS
  <2>5. UNCHANGED outbox \/ RowBecomes(m, s, n + 1, BackoffMinutes(n + 1))
    BY <1>4, <2>2, <2>4, RetriedRow DEF CountFailure, RowBecomes
  <2>6. RowBound(RowAt(s, n + 1, BackoffMinutes(n + 1)))
    <3>1. n + 1 \in 1..MaxAttempts /\ n + 1 \in 0..MaxAttempts
          /\ s \in Terminal \cup {"NONE", "FAILED"} /\ (s = "FAILED" => n + 1 < MaxAttempts)
      BY <2>3, <2>4, MailAssumption DEF Terminal
    <3>2. BackoffMinutes(n + 1) \in 0..BackoffMinutes(MaxAttempts)
      BY <3>1, WaitIs
    <3> QED
      BY <3>1, <3>2, RowFields DEF RowBound
  <2> QED
    BY <1>1, <2>5, <2>6, OneBound
<1>5. CASE MinutePasses
  <2>1. ASSUME NEW k \in Mail PROVE RowBound(outbox'[k])
    <3> DEFINE w == IF outbox[k].wait > 0 THEN outbox[k].wait - 1 ELSE 0
               r == outbox[k]
    <3>1. outbox'[k] = [r EXCEPT !.wait = w]
      BY <1>5 DEF MinutePasses
    <3>2. r = RowAt(r.status, r.attempts, r.wait) /\ RowBound(r)
      BY DEF MailTyped, MailRow, MailBounds
    <3>3. w \in 0..BackoffMinutes(MaxAttempts)
      BY <3>2, WaitIs DEF RowBound
    <3> HIDE DEF w, r
    <3>4. outbox'[k] = RowAt(r.status, r.attempts, w)
      BY <3>1, <3>2, RowFields
    <3> QED
      BY <3>2, <3>3, <3>4, RowFields DEF RowBound
  <2> QED
    BY <2>1
<1>6. CASE PurgeOutbox
  <2>1. RowBound(NoMailRow)
    BY WaitIs, MailAssumption DEF RowBound, NoMailRow
  <2>2. \A k \in Mail : outbox'[k] = outbox[k] \/ outbox'[k] = NoMailRow
    BY <1>6 DEF PurgeOutbox
  <2> QED
    BY <2>1, <2>2 DEF MailBounds
<1> QED
  BY <1>1, <1>2, <1>3, <1>4, <1>5, <1>6
     DEF SendInline, StartDrain, DrainStep, DrainDies, SelectDue, Deliver, PassEnds

LEMMA BoundAt ==
  ASSUME NEW pc \in {"off", "query", "next", "mark", "count"}, NEW p \in 0..MaxPasses - 1,
         NEW b, Len(b) <= BatchSize, \A i \in 1..Len(b) : b[i].attempts < MaxAttempts,
         NEW n \in 0..BatchSize
  PROVE  DrainBound(DrainAt(pc, p, b, n))
BY DEF DrainBound, DrainAt

LEMMA OneDrainBound ==
  ASSUME MailTyped, MailBounds, NEW d \in Drain, NEW pc, NEW p, NEW b, NEW n,
         Becomes(d, DrainAt(pc, p, b, n)), DrainBound(DrainAt(pc, p, b, n))
  PROVE  \A e \in Drain : DrainBound(drain'[e])
BY DEF Becomes, MailTyped, MailBounds

LEMMA DrainsBounded ==
  ASSUME MailTyped, MailBounds, NEW d \in Drain,
         StartDrain(d) \/ DrainStep(d) \/ DrainDies(d)
  PROVE  \A e \in Drain : DrainBound(drain'[e])
<1>1. /\ drain[d] \in MailDrains /\ drain[d].batch \in Seq(Held) /\ DrainBound(drain[d])
      /\ Len(drain[d].batch) \in Nat
  BY DEF MailTyped, MailDrains, MailBounds
<1>2. DrainBound(DrainAt("off", 0, <<>>, 0)) /\ DrainBound(DrainAt("query", 0, <<>>, 0))
  <2>1. 0 \in 0..MaxPasses - 1 /\ 0 \in 0..BatchSize /\ Len(<<>>) = 0 /\ 0 <= BatchSize
    BY MailAssumption
  <2> QED
    BY <2>1, DrainFields DEF DrainBound
<1>3. CASE StartDrain(d) \/ DrainDies(d)
  BY <1>2, <1>3, DrainBecomes, OneDrainBound
<1>4. CASE Deliver(d)
  <2>1. \A pc \in {"mark", "count"} :
          DrainBound(DrainAt(pc, drain[d].pass, drain[d].batch, drain[d].size))
    BY <1>1, DrainFields DEF DrainBound
  <2> QED
    BY <1>4, <2>1, DrainBecomes, OneDrainBound
<1>5. CASE MarkSent(d) \/ CountFailure(d)
  <2>1. drain[d].batch # <<>>
    BY <1>5 DEF MarkSent, CountFailure, MailTyped
  <2>2. PICK b : b = drain[d].batch /\ b \in Seq(Held) /\ b # <<>> /\ Len(b) \in Nat \ {0}
    BY <1>1, <2>1, EmptySeq
  <2>3. /\ Len(Tail(b)) = Len(b) - 1
        /\ \A i \in 1..Len(Tail(b)) : i + 1 \in 1..Len(b) /\ Tail(b)[i] = b[i + 1]
    BY <2>2, RestOfBatch, HeadTailProperties
  <2>4. /\ Len(Tail(b)) <= BatchSize
        /\ \A i \in 1..Len(Tail(b)) : Tail(b)[i].attempts < MaxAttempts
    <3>1. Len(b) <= BatchSize /\ \A i \in 1..Len(b) : b[i].attempts < MaxAttempts
      BY <1>1, <2>2 DEF DrainBound
    <3>2. Len(b) - 1 <= BatchSize
      BY <2>2, <3>1, MailAssumption
    <3> QED
      BY <2>3, <3>1, <3>2
  <2>5. DrainBound(DrainAt("next", drain[d].pass, Tail(b), drain[d].size))
    <3>1. PICK p, n, t : /\ p = drain[d].pass /\ n = drain[d].size /\ t = Tail(b)
                         /\ p \in 0..MaxPasses - 1 /\ n \in 0..BatchSize
      BY <1>1 DEF DrainBound
    <3>2. Len(t) <= BatchSize /\ \A i \in 1..Len(t) : t[i].attempts < MaxAttempts
      BY <2>4, <3>1, Zenon
    <3>3. "next" \in {"off", "query", "next", "mark", "count"}
      OBVIOUS
    <3>4. DrainBound(DrainAt("next", p, t, n))
      BY <3>1, <3>2, <3>3, BoundAt
    <3> QED
      BY <3>1, <3>4
  <2> QED
    BY <1>2, <1>5, <2>2, <2>5, DrainBecomes, OneDrainBound
<1>6. CASE PassEnds(d)
  <2>1. /\ drain[d].batch = <<>>
        /\ drain[d].pass + 1 # MaxPasses \/ Becomes(d, DrainAt("off", 0, <<>>, 0))
    BY <1>6 DEF PassEnds, Becomes, Stopped, DrainAt
  <2>2. ASSUME drain[d].pass + 1 # MaxPasses
        PROVE  DrainBound(DrainAt("query", drain[d].pass + 1, drain[d].batch, drain[d].size))
    <3>1. drain[d].pass + 1 \in 0..MaxPasses - 1
      BY <1>1, <2>2, MailAssumption DEF DrainBound
    <3> QED
      BY <1>1, <3>1, DrainFields DEF DrainBound
  <2> QED
    BY <1>2, <1>6, <2>1, <2>2, DrainBecomes, OneDrainBound
<1>7. CASE SelectDue(d)
  <2>1. PICK b \in Seq(Held), n \in Nat :
           /\ Becomes(d, DrainAt("next", drain[d].pass, b, n)) /\ Len(b) = n /\ n <= BatchSize
           /\ \A i \in 1..Len(b) : b[i].mail \in Mail /\ ReadHolds(b[i])
    BY <1>7, SelectBecomes
  <2>2. \A i \in 1..Len(b) : b[i].attempts < MaxAttempts
    BY <2>1 DEF ReadHolds, MailBounds, RowBound
  <2>3. drain[d].pass \in 0..MaxPasses - 1 /\ n \in 0..BatchSize
    BY <1>1, <2>1, MailAssumption DEF DrainBound
  <2>4. DrainBound(DrainAt("next", drain[d].pass, b, n))
    BY <2>1, <2>2, <2>3, DrainFields DEF DrainBound
  <2> QED
    BY <2>1, <2>4, OneDrainBound
<1> QED
  BY <1>3, <1>4, <1>5, <1>6, <1>7 DEF DrainStep

LEMMA MailBoundsStart == MailInit => MailBounds
<1> SUFFICES ASSUME MailInit PROVE MailBounds
  OBVIOUS
<1>1. RowBound(NoMailRow)
  BY WaitIs, MailAssumption DEF RowBound, NoMailRow
<1>2. DrainBound(Stopped)
  <2>1. 0 \in 0..MaxPasses - 1 /\ 0 \in 0..BatchSize /\ Len(<<>>) = 0 /\ 0 <= BatchSize
    BY MailAssumption
  <2> QED
    BY <2>1 DEF DrainBound, Stopped
<1> QED
  BY <1>1, <1>2 DEF MailInit, MailBounds

LEMMA MailBoundsStep == MailTyped /\ MailBounds /\ [MailNext]_mailVars => MailBounds'
<1> SUFFICES ASSUME MailTyped, MailBounds, [MailNext]_mailVars PROVE MailBounds'
  OBVIOUS
<1>1. CASE UNCHANGED mailVars
  BY <1>1 DEF mailVars, MailBounds
<1>2. CASE \E d \in Drain : StartDrain(d) \/ DrainStep(d) \/ DrainDies(d)
  BY <1>2, RowsBounded, DrainsBounded DEF MailBounds
<1>3. CASE (\E m \in Mail : SendInline(m) \/ RecordFailed(m)) \/ MinutePasses \/ PurgeOutbox
  <2>1. UNCHANGED drain
    BY <1>3 DEF SendInline, RecordFailed, MinutePasses, PurgeOutbox
  <2>2. Scheduled \in Drain
    BY DEF Drain
  <2> QED
    BY <1>3, <2>1, <2>2, RowsBounded DEF MailBounds
<1> QED
  BY <1>1, <1>2, <1>3 DEF MailNext

LEMMA MailIsTyped == MailTyped /\ MailBounds => MailTypeOK
BY DEF MailTyped, MailBounds, RowBound, DrainBound, MailTypeOK

\* The type invariant of the outbox, for any number of mails, drains, faults.
THEOREM MailTypeHolds == MailSpec => []MailTypeOK
BY MailInitInv, MailTypedStep, MailBoundsStart, MailBoundsStep, MailIsTyped, PTL DEF MailSpec

-----------------------------------------------------------------------------
(* The clock of the triage: whatever was stamped was stamped with a reading of it. *)

Ticks == 1..MaxClock
RequestClocked(r) ==
  (r.pc = "upsert" => r.stamp \in Ticks) /\ \A w \in r.writes : w.at \in Ticks

Clocked ==
  /\ clock \in Ticks /\ \A a \in Analyst : RequestClocked(analyst[a])
  /\ \A h \in history : h.at \in Ticks
  /\ \A p \in Fingerprint : projection[p].at \in 0..MaxClock

LEMMA RequestKeepsClock ==
  ASSUME Shape, Clocked, NEW a \in Analyst, NEW r, analyst' = [analyst EXCEPT ![a] = r],
         RequestClocked(r), UNCHANGED <<history, projection, clock>>
  PROVE  Clocked'
<1>1. \A b \in Analyst : analyst'[b] = r \/ analyst'[b] = analyst[b]
  BY DEF Shape
<1>2. \A b \in Analyst : RequestClocked(analyst'[b])
  BY <1>1 DEF Clocked
<1> QED
  BY <1>2 DEF Clocked

LEMMA DoneClocked == RequestClocked([NoTriage EXCEPT !.pc = "done"])
BY DEF RequestClocked, NoTriage

LEMMA AbortKeepsClock ==
  ASSUME Shape, Clocked, NEW a \in Analyst, Abort(a) PROVE Clocked'
BY RequestKeepsClock, DoneClocked DEF Abort

LEMMA MoveKeepsClock ==
  ASSUME Shape, Clocked, NEW a \in Analyst,
         ReceiveTriage(a) \/ ReadTriage(a) \/ InsertHistory(a) \/ StampRow(a)
  PROVE  Clocked'
<1>1. analyst[a] \in RequestType /\ analyst \in [Analyst -> RequestType]
      /\ RequestClocked(analyst[a]) /\ clock \in Ticks
  BY DEF Shape, Clocked
<1>2. CASE ReceiveTriage(a)
  <2>1. PICK subjects, chosen :
          analyst' = [analyst EXCEPT ![a] = [NoTriage EXCEPT !.pc = "read",
                        !.subjects = subjects, !.decision = chosen]]
    BY <1>2 DEF ReceiveTriage
  <2>2. RequestClocked([NoTriage EXCEPT !.pc = "read", !.subjects = subjects, !.decision = chosen])
    BY DEF RequestClocked, NoTriage
  <2> QED
    BY <1>2, <2>1, <2>2, RequestKeepsClock DEF ReceiveTriage
<1>3. CASE ReadTriage(a)
  <2>1. PICK prints, pc : /\ analyst' = [analyst EXCEPT ![a].prints = prints, ![a].pc = pc]
                          /\ pc \in {"done", "insert"}
    BY <1>3 DEF ReadTriage
  <2>2. analyst' = [analyst EXCEPT ![a] = [analyst[a] EXCEPT !.prints = prints, !.pc = pc]]
    BY <1>1, <2>1
  <2>3. RequestClocked([analyst[a] EXCEPT !.prints = prints, !.pc = pc])
    BY <1>1, <2>1 DEF RequestClocked, RequestType
  <2> QED
    BY <1>3, <2>2, <2>3, RequestKeepsClock DEF ReadTriage
<1>4. CASE InsertHistory(a)
  <2>1. PICK ids : analyst' = [analyst EXCEPT ![a].pc = "stamp", ![a].ids = ids]
    BY <1>4 DEF InsertHistory
  <2>2. analyst' = [analyst EXCEPT ![a] = [analyst[a] EXCEPT !.pc = "stamp", !.ids = ids]]
    BY <1>1, <2>1
  <2>3. RequestClocked([analyst[a] EXCEPT !.pc = "stamp", !.ids = ids])
    BY <1>1 DEF RequestClocked, RequestType
  <2> QED
    BY <1>4, <2>2, <2>3, RequestKeepsClock DEF InsertHistory
<1>5. CASE StampRow(a)
  <2>1. analyst' = [analyst EXCEPT ![a] = [analyst[a] EXCEPT !.pc = "upsert", !.stamp = clock]]
    BY <1>1, <1>5 DEF StampRow
  <2>2. RequestClocked([analyst[a] EXCEPT !.pc = "upsert", !.stamp = clock])
    BY <1>1 DEF RequestClocked, RequestType
  <2> QED
    BY <1>5, <2>1, <2>2, RequestKeepsClock DEF StampRow
<1> QED
  BY <1>2, <1>3, <1>4, <1>5

LEMMA UpsertKeepsClock ==
  ASSUME Shape, Clocked, NEW a \in Analyst, UpsertRow(a) PROVE Clocked'
<1> DEFINE r == analyst[a]
           w == [print |-> Printed(a), id |-> r.ids[r.next], at |-> r.stamp,
                 projects |-> MayReplace(projection[Printed(a)], r.stamp, r.ids[r.next])]
           pc == IF r.next = Len(r.prints) THEN "commit" ELSE "stamp"
           new == [r EXCEPT !.writes = @ \cup {w}, !.next = @ + 1, !.pc = pc]
<1>1. r \in RequestType /\ RequestClocked(r) /\ r.pc = "upsert"
  BY DEF Shape, Clocked, UpsertRow
<1>2. analyst' = [analyst EXCEPT ![a] = new]
  BY DEF UpsertRow, Shape
<1>3. w.at = r.stamp /\ pc \in {"commit", "stamp"}
  OBVIOUS
<1>4. new.pc = pc /\ new.writes = r.writes \cup {w}
  BY <1>1 DEF RequestType
<1> HIDE DEF w, pc, new
<1>5. RequestClocked(new)
  BY <1>1, <1>3, <1>4 DEF RequestClocked
<1>6. UNCHANGED <<history, projection, clock>>
  BY DEF UpsertRow
<1> QED
  BY <1>2, <1>5, <1>6, RequestKeepsClock

LEMMA CommitKeepsClock ==
  ASSUME Shape, Clocked, NEW a \in Analyst, Commit(a) PROVE Clocked'
<1>1. \A w \in analyst[a].writes : w.at \in Ticks
  BY DEF Clocked, RequestClocked
<1>2. \A h \in history' : h.at \in Ticks
  BY <1>1 DEF Commit, Clocked
<1>3. ASSUME NEW p \in Fingerprint PROVE projection'[p].at \in 0..MaxClock
  <2>1. CASE Projects(a, p)
    <3>1. WriteOf(a, p) \in analyst[a].writes
      BY <2>1 DEF Projects, WriteOf
    <3>2. projection'[p].at = WriteOf(a, p).at
      BY <2>1 DEF Commit
    <3> QED
      BY <1>1, <3>1, <3>2, TriageAssumption DEF Ticks
  <2>2. CASE ~Projects(a, p)
    BY <2>2 DEF Commit, Clocked
  <2> QED
    BY <2>1, <2>2
<1>4. \A b \in Analyst : RequestClocked(analyst'[b])
  <2>1. \A b \in Analyst : analyst'[b] = [NoTriage EXCEPT !.pc = "done"] \/ analyst'[b] = analyst[b]
    BY DEF Commit, Shape
  <2> QED
    BY <2>1, DoneClocked DEF Clocked
<1>5. clock' \in Ticks
  BY DEF Commit, Clocked
<1> QED
  BY <1>2, <1>3, <1>4, <1>5 DEF Clocked

LEMMA ClockedStep == TriageInv /\ Clocked /\ [TriageNext]_triageVars => Clocked'
<1> SUFFICES ASSUME Shape, Clocked, [TriageNext]_triageVars PROVE Clocked'
  BY DEF TriageInv
<1>1. CASE UNCHANGED triageVars
  BY <1>1 DEF triageVars, Clocked
<1>2. CASE ClockTicks
  <2>1. clock' \in Ticks
    BY <1>2, TriageAssumption DEF ClockTicks, Clocked, Ticks
  <2> QED
    BY <1>2, <2>1 DEF ClockTicks, Clocked
<1>3. ASSUME NEW a \in Analyst, ReceiveTriage(a) \/ TriageStep(a) \/ ConnectionLost(a)
      PROVE  Clocked'
  BY <1>3, MoveKeepsClock, UpsertKeepsClock, CommitKeepsClock, AbortKeepsClock
     DEF TriageStep, DeadlockDetected, ConnectionLost
<1> QED
  BY <1>1, <1>2, <1>3 DEF TriageNext

LEMMA ClockedStart == TriageInit => Clocked
BY TriageAssumption DEF TriageInit, Clocked, RequestClocked, Ticks, NoTriage, NoProjection

LEMMA TriageIsTyped == TriageInv /\ Clocked => TriageTypeOK
<1> SUFFICES ASSUME Shape, Clocked PROVE TriageTypeOK
  BY DEF TriageInv
<1>1. ASSUME NEW a \in Analyst
      PROVE  /\ analyst[a].pc \in {"idle", "read", "insert", "stamp", "upsert", "commit", "done"}
             /\ analyst[a].decision \in Decision /\ analyst[a].subjects \subseteq Fingerprint
  BY DEF Shape, RequestType, Places
<1>2. ASSUME NEW h \in history
      PROVE  h.print \in Fingerprint /\ h.decision \in Decision /\ h.at \in 1..MaxClock
  BY DEF Shape, RowType, Clocked, Ticks
<1>3. ASSUME NEW p \in Fingerprint
      PROVE  projection[p].decision \in Decision /\ projection[p].at \in 0..MaxClock
  BY DEF Shape, Clocked
<1> QED
  BY <1>1, <1>2, <1>3 DEF TriageTypeOK, Shape

\* The type invariant of the triage, for any number of requests and decisions.
THEOREM TriageTypeHolds == TriageSpec => []TriageTypeOK
<1>1. TriageInit => TriageInv
  BY TriageInitInv
<1>2. TriageInv /\ [TriageNext]_triageVars => TriageInv'
  BY TriageStepInv
<1> QED
  BY <1>1, <1>2, ClockedStart, ClockedStep, TriageIsTyped, PTL DEF TriageSpec

-----------------------------------------------------------------------------
(* The types of the engine. *)

Phases == {"none", "robots", "sitemaps", "crawl", "render", "crawled", "tls", "active",
           "done", "failed", "over"}
Asking == {"robots", "sitemaps", "crawl", "render", "tls", "active"}
StopCodes == {"null", "KILL_SWITCH", "CEILING", "STOPPED"}
PagesOf(urls, depths) == [url : urls, depth : depths]

RunType ==
  [phase : Phases, attempt : Nat, stoppedBy : StopCodes,
   robots : {"none", "disallow_all", "rules"}, queue : Seq(PagesOf(Url, Nat)),
   seen : SUBSET Url, crawled : SUBSET Url, toRender : Seq(PagesOf(Url, Nat)),
   maps : Seq(Url), fetched : SUBSET Url, browser : SUBSET Url, revealed : SUBSET Url,
   left : Int, stopSeen : BOOLEAN, clean : BOOLEAN]

\* What is queued, rendered or crawled has been seen; the queue holds no page that
\* is too deep; the browser has a page.
RunTyped(r) ==
  /\ r \in RunType /\ r.crawled \subseteq r.seen
  /\ r.queue \in Seq(PagesOf(r.seen, 0..MaxDepth)) /\ r.toRender \in Seq(PagesOf(r.seen, Nat))
  /\ r.phase = "render" => r.toRender # <<>>

\* A page that is fetched was queued.
ReqTyped(q, r) ==
  /\ q \in [at : {"none", "asked", "cleared", "sent"}, url : Url \cup {Robots, NoUrl},
            depth : Nat, halted : BOOLEAN]
  /\ q.at # "none" => r.phase \in Asking /\ (r.phase # "robots" => q.url \in Url)
  /\ q.at # "none" /\ r.phase = "crawl" => q.url \in r.seen

EngineTyped ==
  /\ site \in Sites /\ row \in [status : {"RUNNING", "PAUSED", "ENDED"}, attempt : Nat]
  /\ RunTyped(run) /\ ReqTyped(req, run)

LEMMA SiteIs ==
  ASSUME EngineTyped
  PROVE  /\ site.entry \subseteq Url /\ site.entry # {} /\ EntryUrl \in Url
         /\ site.sitemaps \in Seq(Url) /\ Sitemap \in Url /\ MaxDepth \in Nat
         /\ \A edges, u : Out(edges, u) \subseteq Url
BY EngineAssumption DEF EngineTyped, EntryUrl, Out

\* Every element of a set is in its sequence.
LEMMA AllInSeq ==
  ASSUME NEW S, IsFiniteSet(S)
  PROVE  SetToSeq(S) \in Seq(S) /\ \A x \in S : \E i \in 1..Len(SetToSeq(S)) : SetToSeq(S)[i] = x
<1>1. PICK k \in Nat : k = Cardinality(S) /\ ExistsBijection(1..k, S)
  BY FS_CardinalityType
<1>2. PICK f : f \in [1..k -> S] /\ IsInjective(f)
  BY <1>1 DEF ExistsBijection, Bijection, Injection, IsInjective
<1>3. SetToSeq(S) = CHOOSE g \in [1..k -> S] : IsInjective(g)
  BY <1>1 DEF SetToSeq
<1>4. PICK s : s = SetToSeq(S) /\ s \in [1..k -> S] /\ IsInjective(s)
  BY <1>2, <1>3
<1>5. s \in Injection(1..k, S)
  BY <1>4 DEF Injection, IsInjective
<1>6. Cardinality(1..k) = k
  <2>1. 1 \in Int /\ k \in Int
    OBVIOUS
  <2>2. Cardinality(1..k) = IF 1 > k THEN 0 ELSE k - 1 + 1
    BY <2>1, FS_Interval
  <2> QED
    BY <2>2
<1>7. s \in Surjection(1..k, S)
  BY <1>1, <1>5, <1>6, FS_Injection
<1>8. s \in Seq(S) /\ Len(s) = k
  BY <1>4
<1> QED
  BY <1>4, <1>7, <1>8 DEF Surjection

LEMMA SeqOfSet == ASSUME NEW S, IsFiniteSet(S) PROVE SetToSeq(S) \in Seq(S)
BY AllInSeq

LEMMA SeqGrows ==
  ASSUME NEW S, NEW T, S \subseteq T, NEW s \in Seq(S)
  PROVE  s \in Seq(T)
<1>1. s \in [1..Len(s) -> T] /\ Len(s) \in Nat
  OBVIOUS
<1> QED
  BY <1>1

\* What is enqueued has been seen, and is not too deep.
LEMMA Enqueued ==
  ASSUME NEW r, RunTyped(r), NEW urls \in SUBSET Url, NEW depth \in Nat
  PROVE  LET e == Enqueue(r, urls, depth) IN
         /\ RunTyped(e) /\ r.seen \subseteq e.seen
         /\ e.phase = r.phase /\ e.toRender = r.toRender
<1> DEFINE new == {u \in urls : depth <= MaxDepth /\ Crawlable(r.robots, u) /\ u \notin r.seen}
           pages == {[url |-> u, depth |-> depth] : u \in new}
           seen == r.seen \cup new
           queue == r.queue \o SetToSeq(pages)
           e == [r EXCEPT !.seen = seen, !.queue = queue]
<1>1. Enqueue(r, urls, depth) = e
  BY DEF Enqueue, RunTyped, RunType
<1>2. MaxDepth \in Nat
  BY EngineAssumption
<1>3. IsFiniteSet(pages)
  <2>1. IsFiniteSet(new)
    BY EngineAssumption, FS_Subset
  <2> DEFINE g == [u \in new |-> [url |-> u, depth |-> depth]]
  <2>2. g \in Surjection(new, pages)
    BY DEF Surjection
  <2> QED
    BY <2>1, <2>2, FS_Surjection
<1>4. pages \subseteq PagesOf(seen, 0..MaxDepth) /\ seen \subseteq Url /\ r.seen \subseteq seen
  BY <1>2 DEF PagesOf, RunTyped, RunType
<1> HIDE DEF new, pages, seen
<1>5. SetToSeq(pages) \in Seq(PagesOf(seen, 0..MaxDepth))
  BY <1>3, <1>4, SeqOfSet, SeqGrows
<1>6. r.queue \in Seq(PagesOf(seen, 0..MaxDepth)) /\ r.toRender \in Seq(PagesOf(seen, Nat))
  <2>1. /\ PagesOf(r.seen, 0..MaxDepth) \subseteq PagesOf(seen, 0..MaxDepth)
        /\ PagesOf(r.seen, Nat) \subseteq PagesOf(seen, Nat)
    BY <1>4 DEF PagesOf
  <2> QED
    BY <2>1, SeqGrows DEF RunTyped
<1>7. queue \in Seq(PagesOf(seen, 0..MaxDepth))
  BY <1>5, <1>6
<1>8. queue \in Seq(PagesOf(Url, Nat))
  <2>1. PagesOf(seen, 0..MaxDepth) \subseteq PagesOf(Url, Nat)
    BY <1>2, <1>4 DEF PagesOf
  <2> QED
    BY <1>7, <2>1, SeqGrows
<1> HIDE DEF queue
<1>9. e \in RunType /\ e.seen = seen /\ e.queue = queue /\ e.toRender = r.toRender
      /\ e.crawled = r.crawled /\ e.phase = r.phase
  BY <1>4, <1>8 DEF RunTyped, RunType
<1> HIDE DEF e
<1>10. RunTyped(e)
  BY <1>4, <1>6, <1>7, <1>9 DEF RunTyped
<1> QED
  BY <1>1, <1>4, <1>9, <1>10 DEF e

\* The fields that no part of RunTyped relates to another.
LEMMA PlainFields ==
  ASSUME NEW r, RunTyped(r)
  PROVE  /\ \A robots \in {"none", "disallow_all", "rules"} : RunTyped([r EXCEPT !.robots = robots])
         /\ \A maps \in Seq(Url) : RunTyped([r EXCEPT !.maps = maps])
         /\ \A urls \in SUBSET Url : /\ RunTyped([r EXCEPT !.revealed = urls])
                                     /\ RunTyped([r EXCEPT !.browser = urls])
                                     /\ RunTyped([r EXCEPT !.fetched = urls])
         /\ \A n \in Int : RunTyped([r EXCEPT !.left = n])
         /\ \A stop \in StopCodes : RunTyped([r EXCEPT !.stoppedBy = stop])
         /\ \A flag \in BOOLEAN : /\ RunTyped([r EXCEPT !.stopSeen = flag])
                                  /\ RunTyped([r EXCEPT !.clean = flag])
         /\ \A phase \in Phases \ {"render"} : RunTyped([r EXCEPT !.phase = phase])
<1>1. ASSUME NEW robots \in {"none", "disallow_all", "rules"} PROVE RunTyped([r EXCEPT !.robots = robots])
  BY DEF RunTyped, RunType
<1>2. ASSUME NEW maps \in Seq(Url) PROVE RunTyped([r EXCEPT !.maps = maps])
  BY DEF RunTyped, RunType
<1>3. ASSUME NEW urls \in SUBSET Url
      PROVE  /\ RunTyped([r EXCEPT !.revealed = urls]) /\ RunTyped([r EXCEPT !.browser = urls])
             /\ RunTyped([r EXCEPT !.fetched = urls])
  BY DEF RunTyped, RunType
<1>4. ASSUME NEW n \in Int PROVE RunTyped([r EXCEPT !.left = n])
  BY DEF RunTyped, RunType
<1>5. ASSUME NEW stop \in StopCodes PROVE RunTyped([r EXCEPT !.stoppedBy = stop])
  BY DEF RunTyped, RunType
<1>6. ASSUME NEW flag \in BOOLEAN
      PROVE  RunTyped([r EXCEPT !.stopSeen = flag]) /\ RunTyped([r EXCEPT !.clean = flag])
  BY DEF RunTyped, RunType
<1>7. ASSUME NEW phase \in Phases \ {"render"} PROVE RunTyped([r EXCEPT !.phase = phase])
  BY DEF RunTyped, RunType
<1> QED
  BY <1>1, <1>2, <1>3, <1>4, <1>5, <1>6, <1>7

LEMMA RobotsTyped ==
  ASSUME EngineTyped, NEW r, RunTyped(r), NEW res PROVE RunTyped(AfterRobots(r, res))
<1> DEFINE robots == IF res \in {"null", "broken"} THEN "disallow_all"
                     ELSE IF res = "ok" THEN "rules" ELSE "none"
           s == [r EXCEPT !.robots = robots]
           e == Enqueue(s, site.entry, 0)
           maps == Append(IF robots = "rules" THEN site.sitemaps ELSE <<>>, Sitemap)
<1>1. robots \in {"none", "disallow_all", "rules"} /\ maps \in Seq(Url)
  BY SiteIs
<1> HIDE DEF robots, maps
<1>2. RunTyped(s)
  BY <1>1, PlainFields
<1> HIDE DEF s
<1>3. RunTyped(e)
  BY <1>2, SiteIs, Enqueued
<1> HIDE DEF e
<1>4. RunTyped([e EXCEPT !.phase = "sitemaps", !.maps = maps])
  <2>1. PICK f : f = [e EXCEPT !.phase = "sitemaps"]
    OBVIOUS
  <2>2. RunTyped(f)
    BY <1>3, <2>1, PlainFields DEF Phases
  <2>3. [e EXCEPT !.phase = "sitemaps", !.maps = maps] = [f EXCEPT !.maps = maps]
    BY <2>1
  <2> QED
    BY <1>1, <2>2, <2>3, PlainFields
<1> QED
  BY <1>4 DEF AfterRobots, robots, s, e, maps

LEMMA SitemapTyped ==
  ASSUME EngineTyped, NEW r, RunTyped(r), NEW res PROVE RunTyped(AfterSitemap(r, res))
<1> DEFINE e == Enqueue(r, Out(site.links, req.url), 1)
           maps == e.maps \o SetToSeq(Out(site.nested, req.url))
<1>1. RunTyped(e)
  BY SiteIs, Enqueued
<1> HIDE DEF e
<1>2. maps \in Seq(Url)
  <2>1. Out(site.nested, req.url) \subseteq Url /\ IsFiniteSet(Out(site.nested, req.url))
    BY SiteIs, EngineAssumption, FS_Subset
  <2>2. SetToSeq(Out(site.nested, req.url)) \in Seq(Url)
    BY <2>1, SeqOfSet, SeqGrows
  <2>3. e.maps \in Seq(Url)
    BY <1>1 DEF RunTyped, RunType
  <2> QED
    BY <2>2, <2>3
<1>3. [e EXCEPT !.maps = @ \o SetToSeq(Out(site.nested, req.url))] = [e EXCEPT !.maps = maps]
  OBVIOUS
<1> HIDE DEF maps
<1>4. RunTyped([e EXCEPT !.maps = maps])
  BY <1>1, <1>2, PlainFields
<1> QED
  BY <1>3, <1>4 DEF AfterSitemap, e

LEMMA PageTyped ==
  ASSUME EngineTyped, NEW r, RunTyped(r), r.phase = "crawl", req.url \in r.seen, NEW res
  PROVE  RunTyped(AfterPage(r, res))
<1> DEFINE u == req.url
           d == req.depth
           moved == IF res = "moved" THEN Enqueue(r, Out(site.redirects, u), d) ELSE r
           linked == Enqueue(moved, Out(site.links, u), d + 1)
           last == [linked EXCEPT !.crawled = @ \cup {u},
                    !.toRender = IF res = "ok" THEN Append(@, [url |-> u, depth |-> d]) ELSE @]
<1>1. d \in Nat /\ d + 1 \in Nat
  BY DEF EngineTyped, ReqTyped
<1>2. RunTyped(moved) /\ u \in moved.seen /\ moved.phase = "crawl"
  <2>1. PICK e : e = Enqueue(r, Out(site.redirects, u), d)
    OBVIOUS
  <2>2. RunTyped(e) /\ r.seen \subseteq e.seen /\ e.phase = r.phase
    BY <1>1, <2>1, SiteIs, Enqueued
  <2> QED
    BY <2>1, <2>2
<1> HIDE DEF moved, d, u
<1>3. RunTyped(linked) /\ u \in linked.seen /\ linked.phase = "crawl"
  <2>1. PICK e : e = Enqueue(moved, Out(site.links, u), d + 1)
    OBVIOUS
  <2>2. RunTyped(e) /\ moved.seen \subseteq e.seen
        /\ e.phase = moved.phase
    <3>1. PICK n : n = d + 1 /\ n \in Nat
      BY <1>1
    <3>2. PICK urls : urls = Out(site.links, u) /\ urls \in SUBSET Url
      BY SiteIs
    <3>3. e = Enqueue(moved, urls, n)
      BY <2>1, <3>1, <3>2
    <3>4. PICK m : m = moved /\ RunTyped(m)
      BY <1>2
    <3>5. /\ RunTyped(Enqueue(m, urls, n)) /\ m.seen \subseteq Enqueue(m, urls, n).seen
          /\ Enqueue(m, urls, n).phase = m.phase
      BY <3>1, <3>2, <3>4, Enqueued
    <3> QED
      BY <3>3, <3>4, <3>5
  <2> QED
    BY <1>2, <2>1, <2>2
<1> HIDE DEF linked
<1>4. RunTyped(last)
  <2> DEFINE pages == IF res = "ok" THEN Append(linked.toRender, [url |-> u, depth |-> d])
                      ELSE linked.toRender
             crawled == linked.crawled \cup {u}
  <2>1. last = [linked EXCEPT !.crawled = crawled, !.toRender = pages]
    BY <1>3 DEF RunTyped, RunType
  <2>2. pages \in Seq(PagesOf(linked.seen, Nat))
    <3>1. [url |-> u, depth |-> d] \in PagesOf(linked.seen, Nat)
      BY <1>1, <1>3 DEF PagesOf
    <3>2. linked.toRender \in Seq(PagesOf(linked.seen, Nat))
      BY <1>3 DEF RunTyped
    <3>3. PICK s, x, S : /\ s = linked.toRender /\ x = [url |-> u, depth |-> d]
                         /\ S = PagesOf(linked.seen, Nat) /\ x \in S /\ s \in Seq(S)
      BY <3>1, <3>2
    <3>4. Append(s, x) \in Seq(S)
      BY <3>3
    <3> QED
      BY <3>3, <3>4
  <2>3. pages \in Seq(PagesOf(Url, Nat))
    <3>1. PagesOf(linked.seen, Nat) \subseteq PagesOf(Url, Nat)
      BY <1>3 DEF RunTyped, RunType, PagesOf
    <3> HIDE DEF pages
    <3> QED
      BY <2>2, <3>1, SeqGrows
  <2>4. crawled \subseteq linked.seen /\ crawled \subseteq Url
    BY <1>3 DEF RunTyped, RunType
  <2> HIDE DEF last, pages, crawled
  <2>5. /\ last \in RunType /\ last.seen = linked.seen /\ last.crawled = crawled
        /\ last.queue = linked.queue /\ last.toRender = pages /\ last.phase = "crawl"
    BY <1>3, <2>1, <2>3, <2>4 DEF RunTyped, RunType
  <2> QED
    BY <1>3, <2>2, <2>4, <2>5 DEF RunTyped
<1> QED
  BY <1>4 DEF AfterPage, u, d, moved, linked

LEMMA BrowserTyped ==
  ASSUME EngineTyped, NEW r, RunTyped(r), req.url \in Url, NEW res
  PROVE  RunTyped(AfterBrowser(r, res))
<1> DEFINE page == Head(r.toRender).url
           some == IF res \in Answered THEN r.revealed \cup {req.url} ELSE r.revealed
<1>1. some \in SUBSET Url /\ Out(site.scripts, page) \in SUBSET Url
      /\ Out(site.fetches, page) \ {page} \in SUBSET Url
  BY SiteIs DEF RunTyped, RunType
<1>2. [r EXCEPT !.revealed = IF res \in Answered THEN @ \cup {req.url} ELSE @]
        = [r EXCEPT !.revealed = some]
  OBVIOUS
<1> HIDE DEF some, page
<1>3. /\ RunTyped([r EXCEPT !.revealed = some])
      /\ RunTyped([r EXCEPT !.browser = Out(site.fetches, page) \ {page},
                            !.revealed = Out(site.scripts, page)])
  <2>1. PICK f, urls, others :
          /\ urls = Out(site.fetches, page) \ {page} /\ others = Out(site.scripts, page)
          /\ f = [r EXCEPT !.browser = urls] /\ urls \in SUBSET Url /\ others \in SUBSET Url
    BY <1>1
  <2>2. RunTyped(f)
    BY <2>1, PlainFields
  <2>3. RunTyped([f EXCEPT !.revealed = others])
    BY <2>1, <2>2, PlainFields
  <2>4. [r EXCEPT !.browser = urls, !.revealed = others] = [f EXCEPT !.revealed = others]
    BY <2>1
  <2>5. RunTyped([r EXCEPT !.revealed = some])
    BY <1>1, PlainFields
  <2> QED
    BY <2>1, <2>3, <2>4, <2>5
<1> QED
  BY <1>2, <1>3 DEF AfterBrowser, page

LEMMA HandshakeTyped ==
  ASSUME NEW r, RunTyped(r), NEW res
  PROVE  RunTyped(AfterHandshake(r, res)) /\ RunTyped(AfterProbe(r, res))
<1>1. r.left - 1 \in Int /\ 0 \in Int /\ "failed" \in Phases \ {"render"}
  BY DEF RunTyped, RunType, Phases
<1> DEFINE n == IF res \in Answered THEN r.left - 1 ELSE 0
<1>2. /\ [r EXCEPT !.left = IF res \in Answered THEN @ - 1 ELSE 0] = [r EXCEPT !.left = n]
      /\ [r EXCEPT !.left = @ - 1] = [r EXCEPT !.left = r.left - 1] /\ n \in Int
  BY <1>1
<1> HIDE DEF n
<1>3. /\ RunTyped([r EXCEPT !.phase = "failed"]) /\ RunTyped([r EXCEPT !.left = n])
      /\ RunTyped([r EXCEPT !.left = r.left - 1])
  BY <1>1, <1>2, PlainFields
<1> QED
  BY <1>2, <1>3 DEF AfterHandshake, AfterProbe

LEMMA HandledTyped ==
  ASSUME EngineTyped, req.at # "none", NEW res PROVE RunTyped(Handled(res))
<1> DEFINE c == run.clean /\ res \in Answered \cup {"OUT_OF_SCOPE"}
           r == [run EXCEPT !.clean = c]
<1>1. [run EXCEPT !.clean = @ /\ res \in Answered \cup {"OUT_OF_SCOPE"}] = r /\ c \in BOOLEAN
  BY DEF EngineTyped, RunTyped, RunType
<1> HIDE DEF c
<1>2. RunTyped(r) /\ r.phase = run.phase /\ r.seen = run.seen
  <2>1. RunTyped(r)
    BY <1>1, PlainFields DEF EngineTyped
  <2> QED
    BY <2>1 DEF EngineTyped, RunTyped, RunType
<1> HIDE DEF r
<1>3. /\ r.phase \in Asking /\ (r.phase # "robots" => req.url \in Url)
      /\ r.phase = "crawl" => req.url \in r.seen
  BY <1>2 DEF EngineTyped, ReqTyped
<1>4. Handled(res) = CASE r.phase = "robots" -> AfterRobots(r, res)
                       [] r.phase = "sitemaps" -> AfterSitemap(r, res)
                       [] r.phase = "crawl" -> AfterPage(r, res)
                       [] r.phase = "render" -> AfterBrowser(r, res)
                       [] r.phase = "tls" -> AfterHandshake(r, res)
                       [] r.phase = "active" -> AfterProbe(r, res)
  BY <1>1 DEF Handled
<1>5. CASE r.phase = "robots"
  BY <1>2, <1>4, <1>5, RobotsTyped
<1>6. CASE r.phase = "sitemaps"
  BY <1>2, <1>4, <1>6, SitemapTyped
<1>7. CASE r.phase = "crawl"
  BY <1>2, <1>3, <1>4, <1>7, PageTyped
<1>8. CASE r.phase = "render"
  BY <1>2, <1>3, <1>4, <1>8, BrowserTyped
<1>9. CASE r.phase = "tls" \/ r.phase = "active"
  BY <1>2, <1>4, <1>9, HandshakeTyped
<1> QED
  BY <1>3, <1>5, <1>6, <1>7, <1>8, <1>9 DEF Asking

LEMMA StopsTyped ==
  ASSUME NEW r, RunTyped(r), NEW code PROVE RunTyped(Stops(r, code))
<1>1. PICK stop \in StopCodes : Stops(r, code) = [r EXCEPT !.stoppedBy = stop]
  BY DEF Stops, RunTyped, RunType, StopCodes
<1>2. RunTyped([r EXCEPT !.stoppedBy = stop])
  BY PlainFields
<1> QED
  BY <1>1, <1>2

LEMMA AskTyped ==
  ASSUME NEW u \in Url \cup {Robots}, NEW depth \in Nat, NEW r,
         NEW q, q = [at |-> "asked", url |-> u, depth |-> depth, halted |-> FALSE],
         r.phase \in Asking, r.phase # "robots" => u \in Url, r.phase = "crawl" => u \in r.seen
  PROVE  ReqTyped(q, r)
<1>1. q \in [at : {"none", "asked", "cleared", "sent"}, url : Url \cup {Robots, NoUrl},
             depth : Nat, halted : BOOLEAN]
  OBVIOUS
<1>2. q.url = u
  OBVIOUS
<1> QED
  BY <1>1, <1>2 DEF ReqTyped

LEMMA NothingAsked == ASSUME NEW r PROVE ReqTyped(NoReq, r)
BY DEF NoReq, ReqTyped

LEMMA StillNothing == ASSUME EngineTyped, req.at = "none", NEW r PROVE ReqTyped(req, r)
BY DEF EngineTyped, ReqTyped

LEMMA NoRunTyped ==
  ASSUME NEW phase \in Phases \ {"render"}, NEW n \in Nat
  PROVE  RunTyped([NoRun EXCEPT !.phase = phase, !.attempt = n]) /\ RunTyped(NoRun)
<1>1. NoRun \in RunType
  BY DEF RunType, NoRun, Phases, StopCodes
<1>2. /\ NoRun.crawled = {} /\ NoRun.seen = {} /\ NoRun.queue = <<>> /\ NoRun.toRender = <<>>
      /\ NoRun.phase = "none"
  BY DEF NoRun
<1>3. RunTyped(NoRun)
  BY <1>1, <1>2 DEF RunTyped
<1>4. RunTyped([NoRun EXCEPT !.phase = phase, !.attempt = n])
  <2>1. PICK r : r = [NoRun EXCEPT !.phase = phase]
    OBVIOUS
  <2>2. RunTyped(r)
    BY <1>3, <2>1, PlainFields
  <2>3. RunTyped([r EXCEPT !.attempt = n])
    BY <2>2 DEF RunTyped, RunType
  <2> QED
    BY <2>1, <2>3
<1> QED
  BY <1>3, <1>4

\* A page that waits, of the queue or for the browser.
LEMMA FirstPage ==
  ASSUME NEW r, RunTyped(r)
  PROVE  /\ r.queue # <<>> => /\ Head(r.queue).url \in r.seen /\ Head(r.queue).depth \in Nat
                              /\ RunTyped([r EXCEPT !.queue = Tail(@)])
                              /\ r.seen \subseteq Url
         /\ r.toRender # <<>> => Head(r.toRender).url \in Url /\ Head(r.toRender).depth \in Nat
<1>1. /\ r.seen \subseteq Url /\ r.queue \in Seq(PagesOf(r.seen, 0..MaxDepth))
      /\ r.toRender \in Seq(PagesOf(r.seen, Nat)) /\ MaxDepth \in Nat /\ r \in RunType
  BY EngineAssumption DEF RunTyped, RunType
<1>2. ASSUME r.queue # <<>>
      PROVE  /\ Head(r.queue) \in PagesOf(r.seen, 0..MaxDepth)
             /\ Tail(r.queue) \in Seq(PagesOf(r.seen, 0..MaxDepth))
  BY <1>1, <1>2, HeadTailProperties
<1>3. ASSUME r.toRender # <<>> PROVE Head(r.toRender) \in PagesOf(r.seen, Nat)
  BY <1>1, <1>3, HeadTailProperties
<1>4. ASSUME r.queue # <<>> PROVE RunTyped([r EXCEPT !.queue = Tail(@)])
  <2>1. PICK q : q = Tail(r.queue) /\ q \in Seq(PagesOf(r.seen, 0..MaxDepth))
    BY <1>2, <1>4
  <2>2. PagesOf(r.seen, 0..MaxDepth) \subseteq PagesOf(Url, Nat)
    BY <1>1 DEF PagesOf
  <2>3. q \in Seq(PagesOf(Url, Nat))
    BY <2>1, <2>2, SeqGrows
  <2>4. RunTyped([r EXCEPT !.queue = q])
    BY <2>1, <2>3 DEF RunTyped, RunType
  <2> QED
    BY <2>1, <2>4
<1>5. ASSUME r.queue # <<>> PROVE Head(r.queue).url \in r.seen /\ Head(r.queue).depth \in Nat
  BY <1>1, <1>2, <1>5 DEF PagesOf
<1>6. ASSUME r.toRender # <<>> PROVE Head(r.toRender).url \in Url /\ Head(r.toRender).depth \in Nat
  BY <1>1, <1>3, <1>6 DEF PagesOf
<1> QED
  BY <1>1, <1>4, <1>5, <1>6

LEMMA BrowserOpensTyped ==
  ASSUME NEW r, RunTyped(r), r.toRender # <<>>, BrowserOpens(r)
  PROVE  RunTyped(run') /\ ReqTyped(req', run')
<1>1. run' = [r EXCEPT !.phase = "render", !.browser = {}, !.revealed = {}]
  BY DEF BrowserOpens
<1>2. RunTyped(run') /\ run'.phase = "render"
  BY <1>1 DEF RunTyped, RunType, Phases
<1>3. Head(r.toRender).url \in Url /\ Head(r.toRender).depth \in Nat
  BY FirstPage
<1>4. ReqTyped(req', run')
  BY <1>2, <1>3, AskTyped DEF BrowserOpens, Ask, Asking
<1> QED
  BY <1>2, <1>4

LEMMA SitemapStepTyped ==
  ASSUME EngineTyped, ReadSitemap PROVE RunTyped(run') /\ ReqTyped(req', run')
<1> DEFINE m == Head(run.maps)
           rest == [run EXCEPT !.maps = Tail(@)]
<1>1. /\ RunTyped(run) /\ run.phase = "sitemaps" /\ req.at = "none"
      /\ run.maps \in Seq(Url) /\ run.fetched \subseteq Url
  BY DEF EngineTyped, RunTyped, RunType, ReadSitemap, Between
<1>2. CASE run' = [run EXCEPT !.phase = "crawl"] /\ UNCHANGED req
  BY <1>1, <1>2, PlainFields, StillNothing DEF Phases
<1>3. ASSUME run.maps # <<>> PROVE RunTyped(rest) /\ m \in Url
  <2>1. PICK s : s = Tail(run.maps) /\ s \in Seq(Url) /\ m \in Url
    BY <1>1, <1>3, HeadTailProperties
  <2>2. RunTyped([run EXCEPT !.maps = s])
    BY <1>1, <2>1, PlainFields
  <2> QED
    BY <2>1, <2>2
<1>4. CASE run.maps # <<>> /\ run' = rest /\ UNCHANGED req
  BY <1>1, <1>3, <1>4, StillNothing
<1>5. CASE run.maps # <<>> /\ run' = [rest EXCEPT !.fetched = @ \cup {m}] /\ Ask(m, 0)
  <2>1. RunTyped(rest) /\ rest.fetched \cup {m} \in SUBSET Url /\ rest.phase = "sitemaps"
    BY <1>1, <1>3, <1>5
  <2> HIDE DEF rest
  <2>2. RunTyped(run')
    BY <1>5, <2>1, PlainFields
  <2>3. run'.phase = "sitemaps"
    BY <1>5, <2>1 DEF RunTyped, RunType
  <2>4. m \in Url /\ 0 \in Nat
    BY <1>3, <1>5
  <2> HIDE DEF m
  <2>5. ReqTyped(req', run')
    BY <1>5, <2>3, <2>4, AskTyped DEF Ask, Asking
  <2> QED
    BY <2>2, <2>5
<1> QED
  BY <1>2, <1>4, <1>5 DEF ReadSitemap

LEMMA VisitTyped ==
  ASSUME EngineTyped, Visit \/ EndVisits PROVE RunTyped(run') /\ ReqTyped(req', run')
<1>1. RunTyped(run) /\ run.phase = "crawl" /\ req.at = "none" /\ run \in RunType
  BY DEF EngineTyped, RunTyped, Visit, EndVisits, Between
<1>2. CASE Visit
  <2>1. /\ run.queue # <<>> /\ run' = [run EXCEPT !.queue = Tail(@)]
        /\ Ask(Head(run.queue).url, Head(run.queue).depth)
    BY <1>2 DEF Visit
  <2>2. PICK u, n : /\ u = Head(run.queue).url /\ n = Head(run.queue).depth
                    /\ u \in run.seen /\ u \in Url /\ n \in Nat
    BY <1>1, <2>1, FirstPage
  <2>3. RunTyped(run') /\ run'.phase = "crawl" /\ run'.seen = run.seen
    BY <1>1, <2>1, FirstPage DEF RunType
  <2>4. ReqTyped(req', run')
    BY <2>1, <2>2, <2>3, AskTyped DEF Ask, Asking
  <2> QED
    BY <2>3, <2>4
<1>3. CASE EndVisits
  <2>1. CASE run.toRender # <<>> /\ BrowserOpens(run)
    BY <1>1, <2>1, BrowserOpensTyped
  <2>2. CASE run' = [run EXCEPT !.phase = "crawled"] /\ UNCHANGED req
    BY <1>1, <2>2, PlainFields, StillNothing DEF Phases
  <2> QED
    BY <1>3, <2>1, <2>2 DEF EndVisits
<1> QED
  BY <1>2, <1>3

LEMMA BrowserStepTyped ==
  ASSUME EngineTyped, BrowserAsks \/ EndRender PROVE RunTyped(run') /\ ReqTyped(req', run')
<1>1. /\ RunTyped(run) /\ run.phase = "render" /\ req.at = "none" /\ run.toRender # <<>>
      /\ run \in RunType
  BY DEF EngineTyped, RunTyped, BrowserAsks, EndRender, Between
<1>2. Head(run.toRender).url \in Url /\ Head(run.toRender).depth \in Nat
  BY <1>1, FirstPage
<1>3. CASE BrowserAsks
  <2>1. PICK u \in run.browser : /\ run' = [run EXCEPT !.browser = @ \ {u}]
                                 /\ Ask(u, Head(run.toRender).depth)
    BY <1>3 DEF BrowserAsks
  <2>2. u \in Url /\ run.browser \ {u} \in SUBSET Url
    BY <1>1 DEF RunType
  <2>3. RunTyped(run') /\ run'.phase = "render"
    <3>1. RunTyped([run EXCEPT !.browser = run.browser \ {u}])
      BY <1>1, <2>2, PlainFields
    <3> QED
      BY <1>1, <2>1, <3>1 DEF RunType
  <2>4. ReqTyped(req', run')
    BY <1>2, <2>1, <2>2, <2>3, AskTyped DEF Ask, Asking
  <2> QED
    BY <2>3, <2>4
<1>4. CASE EndRender
  <2> DEFINE depth == Head(run.toRender).depth + 1
             e == Enqueue(run, run.revealed, depth)
             done == [e EXCEPT !.toRender = Tail(@)]
  <2>1. \/ done.toRender # <<>> /\ BrowserOpens(done)
        \/ run' = [done EXCEPT !.phase = "crawl"] /\ UNCHANGED req
    BY <1>4 DEF EndRender
  <2>2. depth \in Nat /\ run.revealed \in SUBSET Url
    BY <1>1, <1>2 DEF RunType
  <2> HIDE DEF depth
  <2>3. RunTyped(e) /\ e.phase = "render" /\ e.toRender # <<>>
    BY <1>1, <2>2, Enqueued
  <2> HIDE DEF e
  <2>4. PICK s : s = Tail(e.toRender) /\ s \in Seq(PagesOf(e.seen, Nat)) /\ s \in Seq(PagesOf(Url, Nat))
    BY <2>3, HeadTailProperties DEF RunTyped, RunType
  <2>5. done = [e EXCEPT !.toRender = s]
    BY <2>4
  <2> HIDE DEF done
  <2>6. CASE s # <<>>
    <3>1. RunTyped(done) /\ done.toRender = s
      BY <2>3, <2>4, <2>5, <2>6 DEF RunTyped, RunType
    <3>2. CASE BrowserOpens(done)
      BY <2>6, <3>1, <3>2, BrowserOpensTyped
    <3>3. CASE run' = [done EXCEPT !.phase = "crawl"] /\ UNCHANGED req
      BY <1>1, <3>1, <3>3, PlainFields, StillNothing DEF Phases
    <3> QED
      BY <2>1, <3>2, <3>3
  <2>7. CASE s = <<>>
    <3>1. done.toRender = <<>>
      BY <2>3, <2>5, <2>7 DEF RunTyped, RunType
    <3>2. run' = [e EXCEPT !.toRender = s, !.phase = "crawl"] /\ UNCHANGED req
      BY <2>1, <2>5, <3>1
    <3>3. RunTyped(run')
      BY <2>3, <2>4, <3>2 DEF RunTyped, RunType, Phases
    <3> QED
      BY <1>1, <3>2, <3>3, StillNothing
  <2> QED
    BY <2>6, <2>7
<1> QED
  BY <1>3, <1>4

LEMMA PhaseStepTyped ==
  ASSUME EngineTyped, PhaseStep PROVE RunTyped(run') /\ ReqTyped(req', run')
<1>1. RunTyped(run) /\ run \in RunType
  BY DEF EngineTyped, RunTyped
<1>2. CASE AskRobots
  <2>1. /\ RunTyped(run') /\ run'.phase = "robots" /\ 0 \in Nat
        /\ req' = [at |-> "asked", url |-> Robots, depth |-> 0, halted |-> FALSE]
    BY <1>1, <1>2 DEF AskRobots, Between, Ask
  <2> QED
    BY <2>1, AskTyped DEF Asking
<1>3. CASE ShakeHands \/ ProbeActively
  <2>1. EntryUrl \in Url /\ 0 \in Nat
    BY SiteIs
  <2>2. run.phase \in {"tls", "active"} /\ req.at = "none"
    BY <1>3 DEF ShakeHands, ProbeActively, Between
  <2>3. CASE Ask(EntryUrl, 0) /\ UNCHANGED run
    BY <1>1, <2>1, <2>2, <2>3, AskTyped DEF Ask, Asking
  <2>4. CASE run' = [run EXCEPT !.phase = "done"] /\ UNCHANGED req
    BY <1>1, <2>2, <2>4, PlainFields, StillNothing DEF Phases
  <2>5. CASE run' = [run EXCEPT !.left = @ - 1] /\ UNCHANGED req
    <3>1. run.left - 1 \in Int
      BY <1>1 DEF RunType
    <3>2. RunTyped([run EXCEPT !.left = run.left - 1])
      BY <1>1, <3>1, PlainFields
    <3> QED
      BY <2>2, <2>5, <3>2, StillNothing
  <2> QED
    BY <1>3, <2>3, <2>4, <2>5 DEF ShakeHands, ProbeActively
<1> QED
  BY <1>2, <1>3, SitemapStepTyped, VisitTyped, BrowserStepTyped DEF PhaseStep

LEMMA CheckpointTyped ==
  ASSUME EngineTyped, Checkpoint PROVE RunTyped(run') /\ ReqTyped(req', run')
<1>1. RunTyped(run) /\ run \in RunType /\ req.at = "none" /\ UNCHANGED req
  BY DEF EngineTyped, RunTyped, Checkpoint, Between
<1>2. Handshakes \in Int /\ Probes \in Int
  BY EngineAssumption
<1>3. \/ \E why \in StopCodes : run' = [run EXCEPT !.phase = "done", !.stoppedBy = why]
      \/ run' = [run EXCEPT !.phase = "tls", !.left = Handshakes]
      \/ run' = [run EXCEPT !.phase = "active", !.left = Probes]
  BY DEF Checkpoint, StopCodes
<1>4. ASSUME NEW p \in {"done", "tls", "active"} PROVE RunTyped([run EXCEPT !.phase = p])
  <2>1. p \in Phases \ {"render"}
    BY DEF Phases
  <2> QED
    BY <1>1, <2>1, PlainFields
<1>5. CASE \E why \in StopCodes : run' = [run EXCEPT !.phase = "done", !.stoppedBy = why]
  <2>1. PICK why \in StopCodes : run' = [run EXCEPT !.phase = "done", !.stoppedBy = why]
    BY <1>5
  <2>2. PICK r : r = [run EXCEPT !.phase = "done"] /\ RunTyped(r)
    BY <1>4
  <2>3. RunTyped([r EXCEPT !.stoppedBy = why])
    BY <2>2, PlainFields
  <2>4. run' = [r EXCEPT !.stoppedBy = why]
    BY <2>1, <2>2
  <2> QED
    BY <1>1, <2>3, <2>4, StillNothing
<1>6. ASSUME NEW p \in {"tls", "active"}, NEW n \in Int, run' = [run EXCEPT !.phase = p, !.left = n]
      PROVE  RunTyped(run') /\ ReqTyped(req', run')
  <2>1. PICK r : r = [run EXCEPT !.phase = p] /\ RunTyped(r)
    BY <1>4
  <2>2. RunTyped([r EXCEPT !.left = n])
    BY <2>1, PlainFields
  <2>3. run' = [r EXCEPT !.left = n]
    BY <1>6, <2>1
  <2> QED
    BY <1>1, <2>2, <2>3, StillNothing
<1> QED
  BY <1>2, <1>3, <1>5, <1>6

LEMMA RequestStepTyped ==
  ASSUME EngineTyped, ReadControls \/ DropRequest \/ Authorize \/ Answer
  PROVE  RunTyped(run') /\ ReqTyped(req', run')
<1>1. RunTyped(run) /\ req.at # "none" /\ ReqTyped(req, run)
  BY DEF EngineTyped, ReadControls, DropRequest, Authorize, Answer
<1>2. \A res : RunTyped(Handled(res))
  BY <1>1, HandledTyped
<1>3. \A code, res : RunTyped(Stops(Handled(res), code))
  BY <1>2, StopsTyped
<1>4. ReqTyped(NoReq, run')
  BY NothingAsked
<1>5. \A where \in {"cleared", "sent"}, flag \in BOOLEAN :
        /\ ReqTyped([req EXCEPT !.at = where, !.halted = flag], run)
        /\ ReqTyped([req EXCEPT !.at = where], run)
  BY <1>1 DEF ReqTyped
<1>6. CASE ReadControls
  <2>1. \E flag \in BOOLEAN :
          \/ /\ run' = Stops([Handled("null") EXCEPT !.stopSeen = TRUE], "STOPPED") /\ req' = NoReq
          \/ run' = run /\ req' = [req EXCEPT !.at = "cleared", !.halted = flag]
    BY <1>6 DEF ReadControls
  <2>2. RunTyped(Stops([Handled("null") EXCEPT !.stopSeen = TRUE], "STOPPED"))
    <3>1. PICK r : r = Handled("null") /\ RunTyped(r)
      BY <1>2
    <3>2. RunTyped([r EXCEPT !.stopSeen = TRUE])
      BY <3>1, PlainFields
    <3> QED
      BY <3>1, <3>2, StopsTyped
  <2> QED
    BY <1>1, <1>4, <1>5, <2>1, <2>2
<1>7. CASE DropRequest
  BY <1>2, <1>4, <1>7 DEF DropRequest
<1>8. CASE Authorize
  <2>1. \/ req' = [req EXCEPT !.at = "sent"] /\ UNCHANGED run
        \/ \E code : run' = Stops(Handled(code), code) /\ req' = NoReq
    BY <1>8 DEF Authorize
  <2> QED
    BY <1>1, <1>3, <1>4, <1>5, <2>1
<1>9. CASE Answer
  <2>1. (\E res : run' = Handled(res)) /\ req' = NoReq
    BY <1>9 DEF Answer
  <2> QED
    BY <1>2, <1>4, <2>1
<1> QED
  BY <1>6, <1>7, <1>8, <1>9

LEMMA AroundTyped ==
  ASSUME EngineTyped, StartRun \/ EngineReturns \/ EngineDies
  PROVE  RunTyped(run') /\ ReqTyped(req', run')
<1>1. row.attempt \in Nat /\ run.attempt \in Nat
  BY DEF EngineTyped, RunTyped, RunType
<1>2. CASE StartRun
  BY <1>1, <1>2, NoRunTyped, StillNothing DEF StartRun, Phases
<1>3. CASE EngineReturns
  <2>1. req.at = "none"
    BY <1>3 DEF EngineReturns, EngineTyped, ReqTyped, Asking
  <2> QED
    BY <1>1, <1>3, <2>1, NoRunTyped, StillNothing DEF EngineReturns, Phases
<1>4. CASE EngineDies
  <2>1. run' = NoRun /\ req' = NoReq
    BY <1>4 DEF EngineDies
  <2>2. RunTyped(NoRun)
    <3>1. "none" \in Phases \ {"render"}
      BY DEF Phases
    <3> QED
      BY <1>1, <3>1, NoRunTyped
  <2> QED
    BY <2>1, <2>2, NothingAsked
<1> QED
  BY <1>2, <1>3, <1>4

LEMMA EngineTypedStep == EngineTyped /\ [EngineNext]_engineVars => EngineTyped'
<1> SUFFICES ASSUME EngineTyped, [EngineNext]_engineVars PROVE EngineTyped'
  OBVIOUS
<1>1. site' \in Sites
  <2>1. UNCHANGED site
    BY DEF EngineNext, engineVars, StartRun, PhaseStep, Checkpoint, ReadControls, DropRequest,
      Authorize, Answer, EngineReturns, EngineDies, PauseOrResume, SwitchKill, UnchangedButRun
  <2> QED
    BY <2>1 DEF EngineTyped
<1>2. row' \in [status : {"RUNNING", "PAUSED", "ENDED"}, attempt : Nat]
  <2>1. row \in [status : {"RUNNING", "PAUSED", "ENDED"}, attempt : Nat]
    BY DEF EngineTyped
  <2>2. CASE UNCHANGED row
    BY <2>1, <2>2
  <2>3. CASE EngineReturns \/ PauseOrResume \/ SwitchKill
    BY <2>1, <2>3 DEF EngineReturns, PauseOrResume, SwitchKill
  <2> QED
    BY <2>2, <2>3 DEF EngineNext, engineVars, StartRun, PhaseStep, Checkpoint, ReadControls,
      DropRequest, Authorize, Answer, EngineDies, UnchangedButRun
<1>3. RunTyped(run') /\ ReqTyped(req', run')
  <2>1. CASE UNCHANGED <<run, req>>
    BY <2>1 DEF EngineTyped
  <2>2. CASE UNCHANGED engineVars \/ PauseOrResume \/ SwitchKill
    BY <2>1, <2>2 DEF engineVars, PauseOrResume, SwitchKill
  <2> QED
    BY <2>2, PhaseStepTyped, CheckpointTyped, RequestStepTyped, AroundTyped DEF EngineNext
<1> QED
  BY <1>1, <1>2, <1>3, Zenon DEF EngineTyped, RunTyped, ReqTyped, RunType, PagesOf

LEMMA EngineTypedStart == EngineInit => EngineTyped
<1> SUFFICES ASSUME EngineInit PROVE EngineTyped
  OBVIOUS
<1>1. RunTyped(NoRun)
  <2>1. 0 \in Nat /\ "none" \in Phases \ {"render"}
    BY DEF Phases
  <2> QED
    BY <2>1, NoRunTyped
<1> QED
  BY <1>1, NothingAsked DEF EngineInit, EngineTyped

LEMMA EngineIsTyped == EngineTyped /\ EngineInv => EngineTypeOK
<1> SUFFICES ASSUME EngineTyped, EngineInv PROVE EngineTypeOK
  OBVIOUS
<1>1. /\ run \in RunType /\ run.crawled \subseteq run.seen
      /\ run.queue \in Seq(PagesOf(run.seen, 0..MaxDepth)) /\ run.toRender \in Seq(PagesOf(run.seen, Nat))
  BY DEF EngineTyped, RunTyped
<1>2. \A i \in DOMAIN run.queue : run.queue[i] \in PagesOf(run.seen, 0..MaxDepth)
  BY <1>1
<1>3. \A i \in DOMAIN run.toRender : run.toRender[i] \in PagesOf(run.seen, Nat)
  BY <1>1
<1>4. {q.url : q \in ToSet(run.queue) \cup ToSet(run.toRender)} \subseteq run.seen
      /\ \A q \in ToSet(run.queue) : q.depth \in 0..MaxDepth
  BY <1>2, <1>3 DEF ToSet, PagesOf
<1>5. /\ run.phase \in Phases /\ run.stoppedBy \in StopCodes /\ run.seen \subseteq Url
      /\ run.crawled \subseteq run.seen
  BY <1>1 DEF RunType
<1>6. req.at \in {"none", "asked", "cleared", "sent"} /\ (req.at # "none" => run.phase \in Asking)
  BY DEF EngineTyped, ReqTyped
<1>7. made \in Nat /\ ledger \in Nat /\ sent \in Nat /\ unledgered \in Nat
  BY DEF EngineInv
<1> QED
  BY <1>4, <1>5, <1>6, <1>7, Zenon DEF EngineTypeOK, Phases, Asking, StopCodes

\* The type invariant of the engine, for every site, limits, faults and resumes.
THEOREM EngineTypeHolds == EngineSpec => []EngineTypeOK
<1>1. EngineInit => EngineInv
  BY EngineInitInv
<1>2. EngineInv /\ [EngineNext]_engineVars => EngineInv'
  BY EngineStepInv
<1> QED
  BY <1>1, <1>2, EngineTypedStart, EngineTypedStep, EngineIsTyped, PTL DEF EngineSpec

-----------------------------------------------------------------------------
(* The pages near the entry, by the number of links that lead to them. *)

LEMMA LeastNat ==
  ASSUME NEW S \in SUBSET Nat, S # {}
  PROVE  \E n \in S : \A k \in S : n <= k
<1>1. PICK n \in S : \A k \in S : ~ (<<k, n>> \in OpToRel(<, Nat))
  BY NatLessThanWellFounded, WFMin
<1>2. \A k \in S : ~ (k < n)
  BY <1>1 DEF OpToRel
<1> QED
  BY <1>2

NextNear(robots, S) ==
  S \cup {v \in Url : Crawlable(robots, v) /\ \E u \in S : <<u, v>> \in site.links}
FirstNear(robots) == {u \in site.entry : Crawlable(robots, u)}
IsNear(N, robots) == /\ N[0] = FirstNear(robots)
                     /\ \A k \in Nat : N[k + 1] = NextNear(robots, N[k])

\* A function on the naturals that is what a step makes of it exists.
LEMMA Iterated ==
  ASSUME NEW robots
  PROVE  \E N : N = [k \in Nat |-> IF k = 0 THEN FirstNear(robots)
                                   ELSE NextNear(robots, N[k - 1])]
<1> DEFINE UpTo(g, n) == \A k \in 0..n : g[k] = IF k = 0 THEN FirstNear(robots)
                                                 ELSE NextNear(robots, g[k - 1])
<1>1. ASSUME NEW n \in Nat PROVE \E g : UpTo(g, n)
  <2> DEFINE Bad == {i \in Nat : ~ \E g : UpTo(g, i)}
  <2> SUFFICES ASSUME Bad # {} PROVE FALSE
    OBVIOUS
  <2>1. PICK i \in Bad : \A j \in Bad : i <= j
    BY LeastNat
  <2>2. CASE i = 0
    <3>1. UpTo([k \in 0..0 |-> FirstNear(robots)], 0)
      OBVIOUS
    <3> QED
      BY <2>1, <2>2, <3>1
  <2>3. CASE i # 0
    <3>1. i - 1 \in Nat /\ i \in Nat /\ i - 1 \notin Bad
      <4>1. Bad \subseteq Nat
        OBVIOUS
      <4> HIDE DEF Bad
      <4> QED
        BY <2>1, <2>3, <4>1
    <3>2. PICK g : UpTo(g, i - 1)
      BY <3>1
    <3> DEFINE h == [k \in 0..i |-> IF k = i THEN NextNear(robots, g[i - 1]) ELSE g[k]]
    <3>3. \A k \in 0..(i - 1) : h[k] = g[k]
      BY <3>1
    <3>4. h[i] = NextNear(robots, h[i - 1])
      BY <3>1, <3>3
    <3> HIDE DEF h
    <3>5. ASSUME NEW k \in 0..i
          PROVE  h[k] = IF k = 0 THEN FirstNear(robots) ELSE NextNear(robots, h[k - 1])
      <4>1. CASE k = i
        BY <2>3, <3>4, <4>1
      <4>2. CASE k = 0
        BY <2>3, <3>1, <3>2, <3>3, <4>2
      <4>3. CASE k # i /\ k # 0
        <5>1. k \in 0..(i - 1) /\ k - 1 \in 0..(i - 1)
          BY <3>1, <4>3
        <5> QED
          BY <3>2, <3>3, <4>3, <5>1
      <4> QED
        BY <4>1, <4>2, <4>3
    <3>6. UpTo(h, i)
      BY <3>5
    <3> QED
      BY <2>1, <3>6
  <2> QED
    BY <2>2, <2>3
<1>2. ASSUME NEW n \in Nat, NEW m \in Nat, NEW g, NEW h, UpTo(g, n), UpTo(h, m),
             NEW l \in Nat, l <= n, l <= m
      PROVE  g[l] = h[l]
  <2> DEFINE Bad == {i \in Nat : i <= n /\ i <= m /\ g[i] # h[i]}
  <2> SUFFICES ASSUME Bad # {} PROVE FALSE
    BY <1>2
  <2>1. PICK i \in Bad : \A j \in Bad : i <= j
    BY LeastNat
  <2>2. i \in 0..n /\ i \in 0..m /\ g[i] # h[i]
    OBVIOUS
  <2>3. CASE i = 0
    BY <1>2, <2>2, <2>3
  <2>4. CASE i # 0
    <3>1. i - 1 \in Nat /\ i - 1 <= n /\ i - 1 <= m /\ i - 1 \notin Bad
      BY <2>1, <2>2, <2>4
    <3>2. g[i - 1] = h[i - 1]
      BY <3>1
    <3> QED
      BY <1>2, <2>2, <2>4, <3>2
  <2> QED
    BY <2>3, <2>4
<1> DEFINE G(n) == CHOOSE g : UpTo(g, n)
           N == [k \in Nat |-> G(k)[k]]
<1>3. ASSUME NEW n \in Nat PROVE UpTo(G(n), n)
  BY <1>1
<1> HIDE DEF UpTo, G
<1>4. ASSUME NEW k \in Nat
      PROVE  N[k] = IF k = 0 THEN FirstNear(robots) ELSE NextNear(robots, N[k - 1])
  <2>1. G(k)[k] = IF k = 0 THEN FirstNear(robots) ELSE NextNear(robots, G(k)[k - 1])
    BY <1>3 DEF UpTo
  <2>2. ASSUME k # 0 PROVE N[k - 1] = G(k)[k - 1]
    <3>1. k - 1 \in Nat /\ k - 1 <= k
      BY <2>2
    <3>2. UpTo(G(k), k) /\ UpTo(G(k - 1), k - 1)
      BY <1>3, <3>1
    <3>3. G(k - 1)[k - 1] = G(k)[k - 1]
      BY <1>2, <3>1, <3>2
    <3> QED
      BY <3>1, <3>3
  <2> QED
    BY <2>1, <2>2
<1>5. N = [k \in Nat |-> IF k = 0 THEN FirstNear(robots) ELSE NextNear(robots, N[k - 1])]
  BY <1>4
<1> QED
  BY <1>5

LEMMA NearIs == IsNear(Near, run.robots)
<1> DEFINE Body(N) == [k \in Nat |-> IF k = 0 THEN FirstNear(run.robots)
                                     ELSE NextNear(run.robots, N[k - 1])]
<1>1. Near = CHOOSE N : N = Body(N)
  BY DEF Near, FirstNear, NextNear
<1>2. Near = Body(Near)
  BY <1>1, Iterated
<1>3. Near[0] = FirstNear(run.robots)
  BY <1>2
<1>4. ASSUME NEW k \in Nat PROVE Near[k + 1] = NextNear(run.robots, Near[k])
  BY <1>2
<1> QED
  BY <1>3, <1>4 DEF IsNear

\* It is the only one.
LEMMA NearAgrees ==
  ASSUME NEW robots, NEW N, NEW M, IsNear(N, robots), IsNear(M, robots)
  PROVE  \A k \in Nat : N[k] = M[k]
<1> DEFINE Bad == {k \in Nat : N[k] # M[k]}
<1> SUFFICES ASSUME Bad # {} PROVE FALSE
  OBVIOUS
<1>1. PICK k \in Bad : \A j \in Bad : k <= j
  BY LeastNat
<1>2. CASE k = 0
  BY <1>1, <1>2 DEF IsNear
<1>3. CASE k # 0
  <2>1. k - 1 \in Nat /\ k - 1 \notin Bad
    BY <1>1, <1>3
  <2>2. N[k - 1] = M[k - 1] /\ (k - 1) + 1 = k
    BY <2>1
  <2> QED
    BY <1>1, <2>1, <2>2 DEF IsNear
<1> QED
  BY <1>2, <1>3

-----------------------------------------------------------------------------
(* The frontier of a crawl: pages go through it by their depth. *)

Queued(r) == {r.queue[i].url : i \in 1..Len(r.queue)}
LinksOf(r, u) == {v \in Out(site.links, u) : Crawlable(r.robots, v)}

\* e is r with new pages seen, and s of them at the end of the queue.
AddsPages(e, r, urls, depth, new, s) ==
  /\ e.seen = r.seen \cup new /\ e.queue = r.queue \o s
  /\ \A u \in new : u \notin r.seen /\ Crawlable(r.robots, u) /\ depth <= MaxDepth
  /\ depth <= MaxDepth => \A u \in urls : Crawlable(r.robots, u) => u \in r.seen \cup new
  /\ \A i \in 1..Len(s) : s[i].url \in new /\ s[i].depth = depth
  /\ \A u \in new : \E i \in 1..Len(s) : s[i].url = u
  /\ e.robots = r.robots /\ e.crawled = r.crawled /\ e.phase = r.phase
  /\ e.toRender = r.toRender /\ e.clean = r.clean /\ e.stoppedBy = r.stoppedBy

LEMMA EnqueuedIs ==
  ASSUME NEW r, RunTyped(r), NEW urls \in SUBSET Url, NEW depth \in Nat,
         NEW e, e = Enqueue(r, urls, depth)
  PROVE  \E new \in SUBSET urls, s \in Seq(PagesOf(Url, {depth})) : AddsPages(e, r, urls, depth, new, s)
<1>1. PICK new : new = {u \in urls : depth <= MaxDepth /\ Crawlable(r.robots, u) /\ u \notin r.seen}
  OBVIOUS
<1>2. PICK pages : pages = {[url |-> u, depth |-> depth] : u \in new}
  OBVIOUS
<1>3. PICK s : s = SetToSeq(pages)
  OBVIOUS
<1>4. Enqueue(r, urls, depth) = [r EXCEPT !.seen = r.seen \cup new, !.queue = r.queue \o s]
  BY <1>1, <1>2, <1>3 DEF Enqueue, RunTyped, RunType
<1>5. new \subseteq Url /\ new \subseteq urls
  BY <1>1
<1>6. IsFiniteSet(pages)
  <2>1. IsFiniteSet(new)
    BY <1>5, EngineAssumption, FS_Subset
  <2> DEFINE g == [u \in new |-> [url |-> u, depth |-> depth]]
  <2>2. g \in Surjection(new, pages)
    BY <1>2 DEF Surjection
  <2> QED
    BY <2>1, <2>2, FS_Surjection
<1>7. s \in Seq(pages) /\ \A x \in pages : \E i \in 1..Len(s) : s[i] = x
  BY <1>3, <1>6, AllInSeq
<1>8. s \in Seq(PagesOf(Url, {depth}))
  <2>1. pages \subseteq PagesOf(Url, {depth})
    BY <1>2, <1>5 DEF PagesOf
  <2> QED
    BY <1>7, <2>1, SeqGrows
<1>9. \A i \in 1..Len(s) : s[i].url \in new /\ s[i].depth = depth
  <2>1. \A i \in 1..Len(s) : s[i] \in pages
    BY <1>7
  <2> QED
    BY <1>2, <2>1
<1>10. \A u \in new : \E i \in 1..Len(s) : s[i].url = u
  <2> SUFFICES ASSUME NEW u \in new PROVE \E i \in 1..Len(s) : s[i].url = u
    OBVIOUS
  <2>1. [url |-> u, depth |-> depth] \in pages
    BY <1>2
  <2>2. PICK i \in 1..Len(s) : s[i] = [url |-> u, depth |-> depth]
    BY <1>7, <2>1
  <2> QED
    BY <2>2
<1>11. /\ e.seen = r.seen \cup new /\ e.queue = r.queue \o s
       /\ e.robots = r.robots /\ e.crawled = r.crawled /\ e.phase = r.phase
       /\ e.toRender = r.toRender /\ e.clean = r.clean /\ e.stoppedBy = r.stoppedBy
  BY <1>4 DEF RunTyped, RunType
<1>12. /\ \A u \in new : u \notin r.seen /\ Crawlable(r.robots, u) /\ depth <= MaxDepth
       /\ depth <= MaxDepth => \A u \in urls : Crawlable(r.robots, u) => u \in r.seen \cup new
  BY <1>1
<1>13. new \in SUBSET urls
  BY <1>5
<1>14. AddsPages(e, r, urls, depth, new, s)
  BY <1>9, <1>10, <1>11, <1>12 DEF AddsPages
<1> QED
  BY <1>8, <1>13, <1>14

\* Every page that was seen was crawled, waits in the queue, or is being fetched (busy).
Sound(r, busy) ==
  \A u \in r.seen : Crawlable(r.robots, u) /\ (u \in r.crawled \/ u \in Queued(r) \/ u \in busy)

\* The links of a page that no longer waits have been seen.
Expanded(r, busy) ==
  \A u \in r.seen : u \in Queued(r) \/ u \in busy \/ LinksOf(r, u) \subseteq r.seen

\* All pages m links away have been seen; the queue holds n pages of at most that
\* depth, then deeper ones and late arrivals, which are not among them.
Levelled(r, N, m, n) ==
  /\ N[m] \subseteq r.seen /\ n \in 0..Len(r.queue)
  /\ \A i \in 1..Len(r.queue) :
       /\ r.queue[i].depth <= m + 1
       /\ i <= n => r.queue[i].depth <= m
       /\ i > n => r.queue[i].url \notin N[m]

Levels(r, busy, d, N) ==
  /\ Expanded(r, busy)
  /\ \E m, n \in Nat : m < MaxDepth /\ Levelled(r, N, m, n) /\ (busy # {} => d <= m)
Covers(r, N) == N[MaxDepth] \subseteq r.seen

LEMMA QueueIs ==
  ASSUME NEW r, RunTyped(r)
  PROVE  /\ r.queue \in Seq(PagesOf(Url, Nat)) /\ Len(r.queue) \in Nat
         /\ \A i \in 1..Len(r.queue) : r.queue[i].depth \in Nat
<1>1. r.queue \in Seq(PagesOf(Url, Nat))
  BY DEF RunTyped, RunType
<1>2. \A i \in 1..Len(r.queue) : r.queue[i] \in PagesOf(Url, Nat)
  BY <1>1
<1> QED
  BY <1>1, <1>2 DEF PagesOf

\* What enqueueing keeps: who is accounted for, whose links are, and the levels.
LEMMA EnqueueKeeps ==
  ASSUME NEW r, RunTyped(r), NEW urls \in SUBSET Url, NEW depth \in Nat, NEW busy,
         NEW e, e = Enqueue(r, urls, depth)
  PROVE  /\ Sound(r, busy) => Sound(e, busy)
         /\ Expanded(r, busy) => Expanded(e, busy)
         /\ \A N : \A m, n \in Nat : Levelled(r, N, m, n) /\ depth <= m + 1 => Levelled(e, N, m, n)
<1>a. PICK new \in SUBSET urls, s \in Seq(PagesOf(Url, {depth})) : AddsPages(e, r, urls, depth, new, s)
  BY EnqueuedIs
<1>1. /\ e.seen = r.seen \cup new /\ e.queue = r.queue \o s
      /\ \A u \in new : u \notin r.seen /\ Crawlable(r.robots, u) /\ depth <= MaxDepth
      /\ \A i \in 1..Len(s) : s[i].url \in new /\ s[i].depth = depth
      /\ \A u \in new : \E i \in 1..Len(s) : s[i].url = u
      /\ e.robots = r.robots /\ e.crawled = r.crawled
  BY <1>a DEF AddsPages
<1>2. PICK q : q = r.queue /\ q \in Seq(PagesOf(Url, Nat)) /\ Len(q) \in Nat
  BY QueueIs
<1>3. s \in Seq(PagesOf(Url, Nat)) /\ Len(s) \in Nat
  <2>1. PagesOf(Url, {depth}) \subseteq PagesOf(Url, Nat)
    BY DEF PagesOf
  <2>2. PICK S, T : S = PagesOf(Url, {depth}) /\ T = PagesOf(Url, Nat)
    OBVIOUS
  <2>3. s \in Seq(T)
    BY <1>1, <2>1, <2>2, SeqGrows
  <2> QED
    BY <2>2, <2>3
<1>4. /\ Len(e.queue) = Len(q) + Len(s)
      /\ \A i \in 1..Len(q) : e.queue[i] = q[i]
      /\ \A i \in 1..Len(s) : e.queue[Len(q) + i] = s[i]
      /\ \A i \in (Len(q) + 1)..Len(e.queue) : e.queue[i] = s[i - Len(q)] /\ i - Len(q) \in 1..Len(s)
  <2>1. e.queue = q \o s
    BY <1>1, <1>2
  <2> QED
    BY <1>2, <1>3, <2>1
<1>5. Queued(r) \subseteq Queued(e) /\ new \subseteq Queued(e)
  <2>1. ASSUME NEW u \in Queued(r) PROVE u \in Queued(e)
    <3>1. PICK i \in 1..Len(q) : q[i].url = u
      BY <1>2 DEF Queued
    <3>2. i \in 1..Len(e.queue) /\ e.queue[i].url = u
      BY <1>2, <1>3, <1>4, <3>1
    <3> QED
      BY <3>2 DEF Queued
  <2>2. ASSUME NEW u \in new PROVE u \in Queued(e)
    <3>1. PICK i \in 1..Len(s) : s[i].url = u
      BY <1>1
    <3>2. PICK j : j = Len(q) + i
      OBVIOUS
    <3>3. j \in 1..Len(e.queue) /\ e.queue[j].url = u
      BY <1>2, <1>3, <1>4, <3>1, <3>2
    <3> QED
      BY <3>3 DEF Queued
  <2> QED
    BY <2>1, <2>2
<1>6. ASSUME Sound(r, busy) PROVE Sound(e, busy)
  BY <1>1, <1>5, <1>6 DEF Sound
<1>7. ASSUME Expanded(r, busy) PROVE Expanded(e, busy)
  BY <1>1, <1>5, <1>7 DEF Expanded, LinksOf
<1>8. ASSUME NEW N, NEW m \in Nat, NEW n \in Nat, Levelled(r, N, m, n), depth <= m + 1
      PROVE  Levelled(e, N, m, n)
  <2>1. N[m] \subseteq r.seen /\ n \in 0..Len(q)
    BY <1>2, <1>8 DEF Levelled
  <2>2. ASSUME NEW i \in 1..Len(e.queue)
        PROVE  /\ e.queue[i].depth <= m + 1
               /\ i <= n => e.queue[i].depth <= m
               /\ i > n => e.queue[i].url \notin N[m]
    <3>1. CASE i \in 1..Len(q)
      BY <1>2, <1>4, <1>8, <3>1 DEF Levelled
    <3>2. CASE i \in (Len(q) + 1)..Len(e.queue)
      <4>1. e.queue[i].url \in new /\ e.queue[i].depth = depth
        BY <1>1, <1>4, <3>2
      <4>2. e.queue[i].url \notin N[m] /\ e.queue[i].depth <= m + 1
        BY <1>1, <1>8, <2>1, <4>1
      <4>3. i > n
        BY <1>2, <2>1, <3>2
      <4> QED
        BY <1>8, <4>2, <4>3
    <3> QED
      BY <1>2, <1>3, <1>4, <3>1, <3>2
  <2>3. N[m] \subseteq e.seen /\ n \in 0..Len(e.queue)
    BY <1>1, <1>2, <1>3, <1>4, <2>1
  <2> QED
    BY <2>2, <2>3 DEF Levelled
<1> QED
  BY <1>6, <1>7, <1>8

\* Once no page of a level waits, the next one has been seen.
LEMMA LevelDone ==
  ASSUME NEW r, RunTyped(r), NEW N, IsNear(N, r.robots), Expanded(r, {}),
         NEW m \in Nat, Levelled(r, N, m, 0)
  PROVE  N[m + 1] \subseteq r.seen /\ Levelled(r, N, m + 1, Len(r.queue))
<1>1. ASSUME NEW v \in N[m + 1], v \notin N[m] PROVE v \in r.seen
  <2>1. PICK u \in N[m] : v \in Url /\ Crawlable(r.robots, v) /\ <<u, v>> \in site.links
    BY <1>1 DEF IsNear, NextNear
  <2>2. v \in LinksOf(r, u)
    BY <2>1 DEF LinksOf, Out
  <2>3. u \in r.seen /\ \A i \in 1..Len(r.queue) : r.queue[i].url \notin N[m]
    BY QueueIs DEF Levelled
  <2>4. u \notin Queued(r)
    BY <2>1, <2>3 DEF Queued
  <2> QED
    BY <2>2, <2>3, <2>4 DEF Expanded
<1>2. N[m + 1] \subseteq r.seen
  BY <1>1 DEF Levelled
<1>3. Levelled(r, N, m + 1, Len(r.queue))
  BY <1>2, QueueIs DEF Levelled
<1> QED
  BY <1>2, <1>3

\* A crawl that takes the next page keeps its levels, or has seen all there is.
LEMMA PopKeeps ==
  ASSUME NEW r, RunTyped(r), r.queue # <<>>, NEW N, IsNear(N, r.robots), NEW d,
         NEW p, RunTyped(p), p.queue = Tail(r.queue), p.seen = r.seen, p.robots = r.robots,
         p.crawled = r.crawled
  PROVE  LET busy == {Head(r.queue).url} IN
         /\ Sound(r, {}) => Sound(p, busy)
         /\ Levels(r, {}, d, N) => Covers(p, N) \/ Levels(p, busy, Head(r.queue).depth, N)
<1>1. PICK q : q = r.queue /\ q \in Seq(PagesOf(Url, Nat)) /\ q # <<>> /\ Len(q) \in Nat
  BY QueueIs
<1>2. /\ Len(q) \in Nat \ {0} /\ Head(q) = q[1] /\ Len(p.queue) = Len(q) - 1
      /\ \A i \in 1..(Len(q) - 1) : p.queue[i] = q[i + 1]
  BY <1>1, HeadTailProperties
<1>3. PICK u, busy : u = q[1].url /\ busy = {u} /\ busy = {Head(r.queue).url}
  BY <1>1, <1>2
<1>4. \A x \in Queued(r) : x \in Queued(p) \/ x \in busy
  <2> SUFFICES ASSUME NEW i \in 1..Len(q), i # 1 PROVE q[i].url \in Queued(p)
    BY <1>1, <1>3 DEF Queued
  <2>1. PICK j : j = i - 1 /\ j + 1 = i /\ j \in 1..(Len(q) - 1)
    BY <1>1
  <2>2. j \in 1..Len(p.queue) /\ p.queue[j] = q[i]
    BY <1>2, <2>1
  <2> QED
    BY <2>2 DEF Queued
<1>5. ASSUME Sound(r, {}) PROVE Sound(p, busy)
  BY <1>4, <1>5 DEF Sound
<1>6. ASSUME Levels(r, {}, d, N)
      PROVE  Covers(p, N) \/ Levels(p, busy, Head(r.queue).depth, N)
  <2>1. Expanded(p, busy) /\ Expanded(r, {})
    BY <1>4, <1>6 DEF Levels, Expanded, LinksOf
  <2>2. ASSUME NEW m \in Nat, NEW n \in Nat, m < MaxDepth, Levelled(r, N, m, n), n # 0
        PROVE  Levels(p, busy, Head(r.queue).depth, N)
    <3>1. n - 1 \in Nat /\ n - 1 \in 0..Len(p.queue) /\ N[m] \subseteq p.seen
      BY <1>1, <1>2, <2>2 DEF Levelled
    <3>2. ASSUME NEW i \in 1..Len(p.queue)
          PROVE  /\ p.queue[i].depth <= m + 1
                 /\ i <= n - 1 => p.queue[i].depth <= m
                 /\ i > n - 1 => p.queue[i].url \notin N[m]
      <4>1. i + 1 \in 1..Len(q) /\ p.queue[i] = q[i + 1]
        BY <1>2
      <4>2. PICK j : j = i + 1 /\ j \in 1..Len(q) /\ p.queue[i] = q[j]
        BY <4>1
      <4>3. /\ q[j].depth <= m + 1 /\ (j <= n => q[j].depth <= m)
            /\ (j > n => q[j].url \notin N[m])
        BY <1>1, <2>2, <4>2 DEF Levelled
      <4> QED
        BY <4>2, <4>3
    <3>3. Levelled(p, N, m, n - 1)
      BY <3>1, <3>2 DEF Levelled
    <3>4. Head(r.queue).depth <= m
      BY <1>1, <1>2, <2>2 DEF Levelled
    <3> QED
      BY <2>1, <2>2, <3>1, <3>3, <3>4 DEF Levels
  <2>3. PICK m \in Nat, n \in Nat : m < MaxDepth /\ Levelled(r, N, m, n)
    BY <1>6 DEF Levels
  <2>4. CASE n = 0
    <3>1. N[m + 1] \subseteq r.seen /\ Levelled(r, N, m + 1, Len(q)) /\ MaxDepth \in Nat
      BY <1>1, <2>1, <2>3, <2>4, LevelDone, EngineAssumption
    <3>2. CASE m + 1 = MaxDepth
      BY <3>1, <3>2 DEF Covers
    <3>3. CASE m + 1 # MaxDepth
      <4>1. m + 1 \in Nat /\ m + 1 < MaxDepth /\ Len(q) # 0
        BY <1>2, <2>3, <3>1, <3>3
      <4> QED
        BY <1>1, <2>2, <3>1, <4>1
    <3> QED
      BY <3>2, <3>3
  <2> QED
    BY <2>2, <2>3, <2>4
<1> QED
  BY <1>3, <1>5, <1>6

\* A crawl that waits for nothing has seen all there is.
LEMMA DryCovers ==
  ASSUME NEW r, RunTyped(r), r.queue = <<>>, NEW N, IsNear(N, r.robots), NEW d, Levels(r, {}, d, N)
  PROVE  Covers(r, N)
<1>1. PICK m \in Nat, n \in Nat : m < MaxDepth /\ Levelled(r, N, m, n)
  BY DEF Levels
<1>2. \A u \in r.seen : LinksOf(r, u) \subseteq r.seen
  BY DEF Levels, Expanded, Queued
<1> DEFINE Bad == {k \in Nat : k >= m /\ ~ (N[k] \subseteq r.seen)}
<1>3. CASE Bad = {}
  BY <1>1, <1>3, EngineAssumption DEF Covers
<1>4. CASE Bad # {}
  <2>1. PICK k \in Bad : \A j \in Bad : k <= j
    BY <1>4, LeastNat
  <2>2. k # m
    BY <1>1, <2>1 DEF Levelled
  <2>3. k - 1 \in Nat /\ N[k - 1] \subseteq r.seen /\ k = (k - 1) + 1
    BY <2>1, <2>2
  <2>4. N[k] = NextNear(r.robots, N[k - 1])
    BY <2>3 DEF IsNear
  <2>5. N[k] \subseteq r.seen
    BY <1>2, <2>3, <2>4 DEF NextNear, LinksOf, Out
  <2> QED
    BY <2>1, <2>5
<1> QED
  BY <1>3, <1>4

SameFrontier(p, r) == /\ p.seen = r.seen /\ p.queue = r.queue
                      /\ p.crawled = r.crawled /\ p.robots = r.robots

LEMMA SameKeeps ==
  ASSUME NEW p, NEW r, SameFrontier(p, r)
  PROVE  /\ \A busy : Sound(r, busy) => Sound(p, busy)
         /\ \A N : Covers(r, N) => Covers(p, N)
         /\ \A N, busy, d : Levels(r, busy, d, N) => Levels(p, busy, d, N)
<1>1. Queued(p) = Queued(r) /\ \A u : LinksOf(p, u) = LinksOf(r, u)
  BY DEF SameFrontier, Queued, LinksOf
<1>2. ASSUME NEW busy, Sound(r, busy) PROVE Sound(p, busy)
  BY <1>1, <1>2 DEF Sound, SameFrontier
<1>3. ASSUME NEW N, NEW busy, NEW d, Levels(r, busy, d, N) PROVE Levels(p, busy, d, N)
  <2>1. Expanded(p, busy)
    BY <1>1, <1>3 DEF Levels, Expanded, SameFrontier
  <2>2. \A m, n \in Nat : Levelled(r, N, m, n) => Levelled(p, N, m, n)
    BY DEF Levelled, SameFrontier
  <2> QED
    BY <1>3, <2>1, <2>2 DEF Levels
<1> QED
  BY <1>2, <1>3 DEF Covers, SameFrontier

\* With robots.txt read, the entry is queued: the pages no link away.
LEMMA RobotsStart ==
  ASSUME EngineTyped, NEW r, RunTyped(r), r.queue = <<>>, r.seen = {}, NEW res,
         NEW p, p = AfterRobots(r, res), NEW N, IsNear(N, p.robots)
  PROVE  Sound(p, {}) /\ (Covers(p, N) \/ Levels(p, {}, 0, N)) /\ p.phase = "sitemaps"
         /\ p.clean = r.clean
<1> DEFINE robots == IF res \in {"null", "broken"} THEN "disallow_all"
                     ELSE IF res = "ok" THEN "rules" ELSE "none"
           maps == Append(IF robots = "rules" THEN site.sitemaps ELSE <<>>, Sitemap)
<1>1. PICK s : s = [r EXCEPT !.robots = robots]
  OBVIOUS
<1>2. PICK e : e = Enqueue(s, site.entry, 0)
  OBVIOUS
<1>3. p = [e EXCEPT !.phase = "sitemaps", !.maps = maps]
  BY <1>1, <1>2 DEF AfterRobots
<1>4. RunTyped(s) /\ s.queue = <<>> /\ s.seen = {} /\ s.clean = r.clean
  <2>1. robots \in {"none", "disallow_all", "rules"}
    OBVIOUS
  <2> HIDE DEF robots
  <2>2. RunTyped(s)
    BY <1>1, <2>1, PlainFields
  <2> QED
    BY <1>1, <2>2 DEF RunTyped, RunType
<1> HIDE DEF robots, maps
<1>5. PICK E : E = site.entry /\ E \in SUBSET Url
  BY SiteIs
<1>6. RunTyped(e)
  BY <1>2, <1>4, <1>5, Enqueued
<1>7. SameFrontier(p, e) /\ p.phase = "sitemaps" /\ p.clean = e.clean
  BY <1>3, <1>6 DEF SameFrontier, RunTyped, RunType
<1>8. PICK new \in SUBSET E, q \in Seq(PagesOf(Url, {0})) : AddsPages(e, s, E, 0, new, q)
  BY <1>2, <1>4, <1>5, EnqueuedIs
<1>9. /\ e.seen = new /\ e.queue = q /\ e.clean = r.clean /\ Len(q) \in Nat
      /\ e.robots = s.robots /\ \A u \in new : Crawlable(s.robots, u)
      /\ \A i \in 1..Len(q) : q[i].depth = 0
      /\ \A u \in E : Crawlable(s.robots, u) => u \in new
      /\ \A u \in new : \E i \in 1..Len(q) : q[i].url = u
  <2>1. <<>> \o q = q /\ Len(q) \in Nat /\ 0 <= MaxDepth
    BY EngineAssumption
  <2> QED
    BY <1>4, <1>8, <2>1 DEF AddsPages
<1>10. new \subseteq Queued(e)
  BY <1>9 DEF Queued
<1>11. Sound(e, {}) /\ Expanded(e, {})
  BY <1>9, <1>10 DEF Sound, Expanded
<1>12. N[0] \subseteq e.seen
  <2>1. N[0] = FirstNear(e.robots)
    BY <1>7 DEF IsNear, SameFrontier
  <2> QED
    BY <1>5, <1>9, <2>1 DEF FirstNear
<1>13. CASE MaxDepth = 0
  BY <1>7, <1>9, <1>11, <1>12, <1>13, SameKeeps DEF Covers
<1>14. CASE MaxDepth # 0
  <2>1. MaxDepth \in Nat /\ 0 < MaxDepth
    BY <1>14, EngineAssumption
  <2>2. Levelled(e, N, 0, Len(q))
    BY <1>9, <1>12 DEF Levelled
  <2>3. Levels(e, {}, 0, N)
    BY <1>9, <1>11, <2>1, <2>2 DEF Levels
  <2> QED
    BY <1>7, <1>9, <1>11, <2>3, SameKeeps
<1> QED
  BY <1>13, <1>14

\* A sitemap's links are queued as pages one link away, whatever they are.
LEMMA SitemapKeeps ==
  ASSUME EngineTyped, NEW r, RunTyped(r), NEW res, NEW p, p = AfterSitemap(r, res), Sound(r, {}), NEW N,
         Covers(r, N) \/ Levels(r, {}, 0, N)
  PROVE  Sound(p, {}) /\ (Covers(p, N) \/ Levels(p, {}, 0, N)) /\ p.phase = r.phase
         /\ p.clean = r.clean /\ p.robots = r.robots
<1>1. CASE res # "ok"
  BY <1>1 DEF AfterSitemap
<1>2. CASE res = "ok"
  <2>1. PICK urls : urls = Out(site.links, req.url) /\ urls \in SUBSET Url
    BY SiteIs
  <2>2. PICK e : e = Enqueue(r, urls, 1) /\ RunTyped(e)
    BY <2>1, Enqueued
  <2>3. PICK maps : p = [e EXCEPT !.maps = maps]
    BY <1>2, <2>1, <2>2 DEF AfterSitemap
  <2>4. SameFrontier(p, e) /\ p.phase = e.phase /\ p.clean = e.clean
    BY <2>2, <2>3 DEF SameFrontier, RunTyped, RunType
  <2>5. e.phase = r.phase /\ e.clean = r.clean /\ e.robots = r.robots /\ r.seen \subseteq e.seen
    <3>1. PICK new \in SUBSET urls, s \in Seq(PagesOf(Url, {1})) : AddsPages(e, r, urls, 1, new, s)
      BY <2>1, <2>2, EnqueuedIs
    <3> QED
      BY <3>1 DEF AddsPages
  <2>6. /\ Sound(e, {}) /\ (Expanded(r, {}) => Expanded(e, {}))
        /\ \A m, n \in Nat : Levelled(r, N, m, n) => Levelled(e, N, m, n)
    <3>1. \A m \in Nat : 1 <= m + 1
      OBVIOUS
    <3>2. 1 \in Nat
      OBVIOUS
    <3> QED
      BY <2>1, <2>2, <3>1, <3>2, EnqueueKeeps
  <2>7. Covers(e, N) \/ Levels(e, {}, 0, N)
    BY <2>5, <2>6 DEF Covers, Levels
  <2> QED
    BY <2>4, <2>5, <2>6, <2>7, SameKeeps DEF SameFrontier
<1> QED
  BY <1>1, <1>2

\* A level is kept by what is queued at most one link further.
LEMMA EnqueueLevels ==
  ASSUME NEW r, RunTyped(r), NEW urls \in SUBSET Url, NEW depth \in Nat,
         NEW e, e = Enqueue(r, urls, depth)
  PROVE  \A busy, N : \A d \in Nat :
           busy # {} /\ Levels(r, busy, d, N) /\ depth <= d + 1 => Levels(e, busy, d, N)
<1>1. ASSUME NEW busy
      PROVE  /\ Sound(r, busy) => Sound(e, busy)
             /\ Expanded(r, busy) => Expanded(e, busy)
             /\ \A N : \A m, n \in Nat : Levelled(r, N, m, n) /\ depth <= m + 1 => Levelled(e, N, m, n)
  BY EnqueueKeeps
<1>2. ASSUME NEW busy, NEW N, NEW d \in Nat, busy # {}, Levels(r, busy, d, N), depth <= d + 1
      PROVE  Levels(e, busy, d, N)
  <2>1. PICK m \in Nat, n \in Nat : m < MaxDepth /\ Levelled(r, N, m, n) /\ d <= m
    BY <1>2 DEF Levels
  <2>2. depth <= m + 1
    BY <1>2, <2>1
  <2> QED
    BY <1>1, <1>2, <2>1, <2>2 DEF Levels
<1> QED
  BY <1>2

\* A page that was fetched leaves its links in the queue, one link further, and where
\* it redirects to at its own depth.
LEMMA PageKeeps ==
  ASSUME EngineTyped, NEW r, RunTyped(r), req.url \in r.seen, req.depth \in Nat,
         NEW res \in Answered, NEW p, p = AfterPage(r, res), Sound(r, {req.url}),
         NEW N, Covers(r, N) \/ Levels(r, {req.url}, req.depth, N)
  PROVE  Sound(p, {}) /\ (Covers(p, N) \/ Levels(p, {}, 0, N)) /\ p.phase = r.phase
         /\ p.clean = r.clean /\ p.robots = r.robots
<1>u. PICK u, d : u = req.url /\ d = req.depth /\ d \in Nat /\ u \in r.seen
  OBVIOUS
<1>1. PICK onward, links, n : /\ onward = Out(site.redirects, u) /\ onward \in SUBSET Url
                              /\ links = Out(site.links, u) /\ links \in SUBSET Url
                              /\ n = d + 1 /\ n \in Nat
  BY <1>u, SiteIs
<1>b. PICK busy : /\ busy = {u} /\ busy = {req.url} /\ busy # {} /\ Sound(r, busy)
                  /\ Covers(r, N) \/ Levels(r, busy, d, N)
  BY <1>u
<1>2. PICK moved : moved = IF res = "moved" THEN Enqueue(r, onward, d) ELSE r
  OBVIOUS
<1>3. /\ RunTyped(moved) /\ Sound(moved, busy) /\ (Covers(moved, N) \/ Levels(moved, busy, d, N))
      /\ moved.phase = r.phase /\ moved.clean = r.clean /\ moved.robots = r.robots
      /\ u \in moved.seen
  <2>1. CASE res # "moved"
    BY <1>b, <1>u, <1>2, <2>1
  <2>2. CASE res = "moved"
    <3>1. moved = Enqueue(r, onward, d) /\ RunTyped(moved)
      BY <1>u, <1>1, <1>2, <2>2, Enqueued
    <3>2. d <= d + 1
      BY <1>u
    <3>3. PICK e : e = Enqueue(r, onward, d) /\ e = moved
      BY <3>1
    <3>4. /\ Covers(r, N) => Covers(e, N)
          /\ e.phase = r.phase /\ e.clean = r.clean /\ e.robots = r.robots /\ r.seen \subseteq e.seen
      <4>1. PICK new \in SUBSET onward, s \in Seq(PagesOf(Url, {d})) : AddsPages(e, r, onward, d, new, s)
        BY <1>u, <1>1, <3>3, EnqueuedIs
      <4> QED
        BY <4>1 DEF AddsPages, Covers
    <3>5. Levels(r, busy, d, N) => Levels(e, busy, d, N)
      BY <1>b, <1>u, <1>1, <3>2, <3>3, EnqueueLevels
    <3>6. Sound(r, busy) => Sound(e, busy)
      BY <1>u, <1>1, <3>3, EnqueueKeeps
    <3> QED
      BY <1>b, <1>u, <3>1, <3>3, <3>4, <3>5, <3>6
  <2> QED
    BY <2>1, <2>2
<1>4. PICK linked : linked = Enqueue(moved, links, n)
  OBVIOUS
<1>5. RunTyped(linked)
  BY <1>1, <1>3, <1>4, Enqueued
<1>6. /\ Sound(linked, busy) /\ (Covers(linked, N) \/ Levels(linked, busy, d, N))
      /\ linked.phase = r.phase /\ linked.clean = r.clean /\ linked.robots = r.robots
      /\ u \in linked.seen
      /\ n <= MaxDepth => \A v \in links : Crawlable(r.robots, v) => v \in linked.seen
  <2>1. n <= d + 1
    BY <1>1
  <2>2. PICK new \in SUBSET links, s \in Seq(PagesOf(Url, {n})) : AddsPages(linked, moved, links, n, new, s)
    BY <1>1, <1>3, <1>4, EnqueuedIs
  <2>3. /\ Covers(moved, N) => Covers(linked, N)
        /\ linked.phase = moved.phase /\ linked.clean = moved.clean
        /\ linked.robots = moved.robots /\ moved.seen \subseteq linked.seen
        /\ n <= MaxDepth => \A v \in links : Crawlable(moved.robots, v) => v \in linked.seen
    BY <2>2 DEF AddsPages, Covers
  <2>4. Sound(moved, busy) => Sound(linked, busy)
    BY <1>1, <1>3, <1>4, EnqueueKeeps
  <2>5. Levels(moved, busy, d, N) => Levels(linked, busy, d, N)
    BY <1>b, <1>u, <1>1, <1>3, <1>4, <2>1, EnqueueLevels
  <2> QED
    BY <1>3, <2>3, <2>4, <2>5
<1>7. PICK pages : p = [linked EXCEPT !.crawled = linked.crawled \cup {u}, !.toRender = pages]
  <2>1. PICK pages : p = [linked EXCEPT !.crawled = @ \cup {u}, !.toRender = pages]
    BY <1>u, <1>1, <1>2, <1>4 DEF AfterPage
  <2> QED
    BY <1>5, <2>1 DEF RunTyped, RunType
<1>8. /\ p.seen = linked.seen /\ p.queue = linked.queue /\ p.robots = linked.robots
      /\ p.crawled = linked.crawled \cup {u} /\ p.phase = linked.phase /\ p.clean = linked.clean
  BY <1>5, <1>7 DEF RunTyped, RunType
<1>9. Queued(p) = Queued(linked) /\ \A v : LinksOf(p, v) = LinksOf(linked, v)
  BY <1>8 DEF Queued, LinksOf
<1>10. Sound(p, {})
  BY <1>b, <1>6, <1>8, <1>9 DEF Sound
<1>11. CASE Covers(linked, N)
  BY <1>6, <1>8, <1>10, <1>11 DEF Covers
<1>12. CASE Levels(linked, busy, d, N)
  <2>1. PICK m \in Nat, k \in Nat : m < MaxDepth /\ Levelled(linked, N, m, k) /\ d <= m
    BY <1>b, <1>12 DEF Levels
  <2>2. n <= MaxDepth
    BY <1>u, <1>1, <2>1, EngineAssumption
  <2>3. LinksOf(p, u) \subseteq p.seen
    BY <1>1, <1>6, <1>8, <2>2 DEF LinksOf
  <2>4. Expanded(p, {})
    BY <1>b, <1>8, <1>9, <1>12, <2>3 DEF Levels, Expanded
  <2>5. Levelled(p, N, m, k)
    BY <1>8, <2>1 DEF Levelled
  <2>6. Levels(p, {}, 0, N)
    BY <2>1, <2>4, <2>5 DEF Levels
  <2> QED
    BY <1>6, <1>8, <1>10, <2>6
<1> QED
  BY <1>6, <1>11, <1>12

\* What the scripts revealed is queued after a crawl that has seen all there is.
LEMMA RevealedKeeps ==
  ASSUME NEW r, RunTyped(r), NEW urls \in SUBSET Url, NEW depth \in Nat,
         NEW e, e = Enqueue(r, urls, depth), Sound(r, {}), NEW N, Covers(r, N)
  PROVE  Sound(e, {}) /\ Covers(e, N) /\ e.clean = r.clean /\ e.robots = r.robots
<1>1. Sound(e, {})
  BY EnqueueKeeps
<1>2. PICK new \in SUBSET urls, s \in Seq(PagesOf(Url, {depth})) : AddsPages(e, r, urls, depth, new, s)
  BY EnqueuedIs
<1> QED
  BY <1>1, <1>2 DEF AddsPages, Covers

Crawling == {"sitemaps", "crawl", "render", "crawled", "tls", "active"}
Past == {"crawled", "tls", "active"}
Busy == IF run.phase = "crawl" /\ req.at # "none" THEN {req.url} ELSE {}

\* While nothing has failed: the frontier keeps its levels until it is dry; the
\* browser and what follows the crawl find that all there is has been seen.
CrawlHolds(r, busy, d, N, within) ==
  r.clean =>
    /\ r.phase = "robots" => r.queue = <<>> /\ r.seen = {}
    /\ r.phase \in Crawling => Sound(r, busy)
    /\ r.phase \in {"sitemaps", "crawl"} => Covers(r, N) \/ Levels(r, busy, d, N)
    /\ r.phase = "render" => Covers(r, N)
    /\ r.phase \in Past /\ within => r.queue = <<>> /\ Covers(r, N)

CrawlInv == \E N : IsNear(N, run.robots) /\ CrawlHolds(run, Busy, req.depth, N, WithinBudget(run))

LEMMA NearExists == ASSUME NEW robots PROVE \E N : IsNear(N, robots)
<1>1. PICK N : N = [k \in Nat |-> IF k = 0 THEN FirstNear(robots) ELSE NextNear(robots, N[k - 1])]
  BY Iterated
<1>2. N[0] = FirstNear(robots)
  BY <1>1
<1>3. ASSUME NEW k \in Nat PROVE N[k + 1] = NextNear(robots, N[k])
  BY <1>1
<1> QED
  BY <1>2, <1>3 DEF IsNear

LEMMA CrawlInvIs ==
  ASSUME UNCHANGED site, NEW N, IsNear(N, run'.robots),
         CrawlHolds(run', Busy', req'.depth, N, WithinBudget(run)')
  PROVE  CrawlInv'
<1>1. (IsNear(N, run.robots))'
  BY DEF IsNear, FirstNear, NextNear, Crawlable
<1>2. ASSUME NEW busy, Sound(run', busy) PROVE Sound(run, busy)'
  BY <1>2 DEF Sound, Crawlable, Queued
<1>3. ASSUME NEW busy, NEW d, Levels(run', busy, d, N) PROVE Levels(run, busy, d, N)'
  <2>1. Expanded(run, busy)'
    BY <1>3 DEF Levels, Expanded, Queued, LinksOf, Out, Crawlable
  <2>2. \A m, n \in Nat : Levelled(run', N, m, n) => Levelled(run, N, m, n)'
    BY DEF Levelled
  <2> QED
    BY <1>3, <2>1, <2>2 DEF Levels
<1>4. Covers(run', N) => Covers(run, N)'
  BY DEF Covers
<1>5. CrawlHolds(run, Busy, req.depth, N, WithinBudget(run))'
  BY <1>2, <1>3, <1>4 DEF CrawlHolds
<1> QED
  BY <1>1, <1>5 DEF CrawlInv

\* A run that failed somewhere, or is not crawling, has nothing to show.
LEMMA NothingToShow ==
  ASSUME UNCHANGED site, run'.phase \notin Crawling \cup {"robots"} \/ ~run'.clean
  PROVE  CrawlInv'
<1>1. PICK N : IsNear(N, run'.robots)
  BY NearExists
<1>2. ASSUME NEW b, NEW d, NEW w PROVE CrawlHolds(run', b, d, N, w)
  BY DEF CrawlHolds, Crawling, Past
<1> QED
  BY <1>1, <1>2, CrawlInvIs

LEMMA CrawlInvCovers == EngineTyped /\ CrawlInv => CrawlCovers
<1> SUFFICES ASSUME EngineTyped, CrawlInv, run.phase \in {"tls", "active"}, run.clean, WithinBudget(run)
             PROVE  Near[MaxDepth] \subseteq run.crawled
  BY DEF CrawlCovers
<1>1. PICK N : IsNear(N, run.robots) /\ CrawlHolds(run, Busy, req.depth, N, WithinBudget(run))
  BY DEF CrawlInv
<1>2. Busy = {}
  BY DEF Busy
<1>3. Sound(run, {}) /\ run.queue = <<>> /\ Covers(run, N)
  BY <1>1, <1>2 DEF CrawlHolds, Crawling, Past
<1>4. run.seen \subseteq run.crawled
  BY <1>3 DEF Sound, Queued
<1>5. Near[MaxDepth] = N[MaxDepth]
  BY <1>1, NearIs, NearAgrees, EngineAssumption
<1> QED
  BY <1>3, <1>4, <1>5 DEF Covers

\* No page is fetched: the depth does not matter.
LEMMA AnyDepth ==
  ASSUME NEW r, NEW d, NEW N, Levels(r, {}, d, N) PROVE \A x : Levels(r, {}, x, N)
BY DEF Levels

\* Only what is unexpected makes a run unclean.
LEMMA EnqueueClean ==
  ASSUME NEW r, "clean" \in DOMAIN r, NEW urls, NEW depth, NEW e, e = Enqueue(r, urls, depth)
  PROVE  e.clean = r.clean /\ "clean" \in DOMAIN e
<1>1. PICK seen, queue : e = [r EXCEPT !.seen = seen, !.queue = queue]
  BY DEF Enqueue
<1> QED
  BY <1>1

LEMMA CleanKept ==
  ASSUME NEW r, "clean" \in DOMAIN r, NEW res
  PROVE  /\ AfterRobots(r, res).clean = r.clean
         /\ AfterSitemap(r, res).clean = r.clean
         /\ AfterPage(r, res).clean = r.clean
<1>1. AfterRobots(r, res).clean = r.clean
  <2>1. PICK robots : robots = IF res \in {"null", "broken"} THEN "disallow_all"
                               ELSE IF res = "ok" THEN "rules" ELSE "none"
    OBVIOUS
  <2>2. PICK s, e, maps : /\ s = [r EXCEPT !.robots = robots] /\ e = Enqueue(s, site.entry, 0)
                          /\ AfterRobots(r, res) = [e EXCEPT !.phase = "sitemaps", !.maps = maps]
    BY <2>1 DEF AfterRobots
  <2>3. s.clean = r.clean /\ "clean" \in DOMAIN s
    BY <2>2
  <2>4. e.clean = s.clean /\ "clean" \in DOMAIN e
    BY <2>2, <2>3, EnqueueClean
  <2> QED
    BY <2>2, <2>3, <2>4
<1>2. AfterSitemap(r, res).clean = r.clean
  <2>1. CASE res # "ok"
    BY <2>1 DEF AfterSitemap
  <2>2. CASE res = "ok"
    <3>1. PICK e, maps : /\ e = Enqueue(r, Out(site.links, req.url), 1)
                         /\ AfterSitemap(r, res) = [e EXCEPT !.maps = maps]
      BY <2>2 DEF AfterSitemap
    <3>2. e.clean = r.clean /\ "clean" \in DOMAIN e
      BY <3>1, EnqueueClean
    <3> QED
      BY <3>1, <3>2
  <2> QED
    BY <2>1, <2>2
<1>3. AfterPage(r, res).clean = r.clean
  <2>1. PICK moved : moved = IF res = "moved" THEN Enqueue(r, Out(site.redirects, req.url), req.depth) ELSE r
    OBVIOUS
  <2>2. moved.clean = r.clean /\ "clean" \in DOMAIN moved
    <3>1. PICK e : e = Enqueue(r, Out(site.redirects, req.url), req.depth)
      OBVIOUS
    <3>2. e.clean = r.clean /\ "clean" \in DOMAIN e
      BY <3>1, EnqueueClean
    <3> QED
      BY <2>1, <3>1, <3>2
  <2>3. PICK linked : linked = Enqueue(moved, Out(site.links, req.url), req.depth + 1)
    OBVIOUS
  <2>4. linked.clean = moved.clean /\ "clean" \in DOMAIN linked
    BY <2>2, <2>3, EnqueueClean
  <2>5. PICK crawled, pages :
          AfterPage(r, res) = IF res \notin Answered THEN r
                              ELSE [linked EXCEPT !.crawled = crawled, !.toRender = pages]
    BY <2>1, <2>3 DEF AfterPage
  <2> QED
    BY <2>2, <2>4, <2>5
<1> QED
  BY <1>1, <1>2, <1>3

LEMMA HandledClean ==
  ASSUME EngineTyped, req.at # "none", NEW res, NEW p, p = Handled(res), p.clean
  PROVE  run.clean /\ res \in Answered \cup {"OUT_OF_SCOPE"}
<1> DEFINE c == run.clean /\ res \in Answered \cup {"OUT_OF_SCOPE"}
<1>1. PICK r : r = [run EXCEPT !.clean = c]
  OBVIOUS
<1>2. "clean" \in DOMAIN r /\ r.clean = c /\ r.phase \in Asking
  <2>1. c \in BOOLEAN
    BY DEF EngineTyped, RunTyped, RunType
  <2> HIDE DEF c
  <2> QED
    BY <1>1, <2>1 DEF EngineTyped, RunTyped, RunType, ReqTyped
<1>3. p = CASE r.phase = "robots" -> AfterRobots(r, res)
            [] r.phase = "sitemaps" -> AfterSitemap(r, res)
            [] r.phase = "crawl" -> AfterPage(r, res)
            [] r.phase = "render" -> AfterBrowser(r, res)
            [] r.phase = "tls" -> AfterHandshake(r, res)
            [] r.phase = "active" -> AfterProbe(r, res)
  BY <1>1 DEF Handled
<1> HIDE DEF c
<1>4. AfterBrowser(r, res).clean = r.clean
  BY <1>2 DEF AfterBrowser
<1>5. AfterHandshake(r, res).clean = r.clean /\ AfterProbe(r, res).clean = r.clean
  BY <1>2 DEF AfterHandshake, AfterProbe
<1>6. p.clean = r.clean
  <2>1. CASE r.phase \in {"robots", "sitemaps", "crawl"}
    <3>1. p \in {AfterRobots(r, res), AfterSitemap(r, res), AfterPage(r, res)}
      BY <1>3, <2>1
    <3> QED
      BY <1>2, <3>1, CleanKept
  <2>2. CASE r.phase \in {"render", "tls", "active"}
    BY <1>3, <1>4, <1>5, <2>2
  <2> QED
    BY <1>2, <2>1, <2>2 DEF Asking
<1> QED
  BY <1>2, <1>6 DEF c

\* What the run makes of an answer.
LEMMA HandledKeeps ==
  ASSUME EngineTyped, CrawlInv, req.at # "none", NEW res,
         run.clean /\ run.phase = "crawl" => res # "OUT_OF_SCOPE",
         NEW p, p = Handled(res), p.clean
  PROVE  /\ run.clean
         /\ \E N : IsNear(N, p.robots) /\ CrawlHolds(p, {}, 0, N, WithinBudget(run))
         /\ p.phase \in Past => p.stoppedBy = run.stoppedBy /\ p.crawled = run.crawled
<1> DEFINE c == run.clean /\ res \in Answered \cup {"OUT_OF_SCOPE"}
<1>1. PICK r : r = [run EXCEPT !.clean = c]
  OBVIOUS
<1>2. RunTyped(r) /\ SameFrontier(r, run) /\ r.phase = run.phase /\ r.clean = c
      /\ r.stoppedBy = run.stoppedBy
  <2>1. RunTyped(run) /\ c \in BOOLEAN
    BY DEF EngineTyped, RunTyped, RunType
  <2> HIDE DEF c
  <2>2. RunTyped(r)
    BY <1>1, <2>1, PlainFields
  <2> QED
    BY <1>1, <2>1, <2>2 DEF SameFrontier, RunTyped, RunType
<1>3. p = CASE r.phase = "robots" -> AfterRobots(r, res)
            [] r.phase = "sitemaps" -> AfterSitemap(r, res)
            [] r.phase = "crawl" -> AfterPage(r, res)
            [] r.phase = "render" -> AfterBrowser(r, res)
            [] r.phase = "tls" -> AfterHandshake(r, res)
            [] r.phase = "active" -> AfterProbe(r, res)
  BY <1>1 DEF Handled
<1>4. PICK N : IsNear(N, run.robots) /\ CrawlHolds(run, Busy, req.depth, N, WithinBudget(run))
  BY DEF CrawlInv
<1>5. run.phase \in Asking /\ (run.phase # "robots" => req.url \in Url) /\ req.depth \in Nat
      /\ (run.phase = "crawl" => req.url \in run.seen)
  BY DEF EngineTyped, ReqTyped
<1>c. c /\ run.clean
  BY HandledClean
<1>6. r.robots = run.robots /\ r.seen = run.seen /\ r.queue = run.queue /\ r.crawled = run.crawled
  BY <1>2 DEF SameFrontier
<1> HIDE DEF c
<1>7. CASE run.phase = "robots"
  <2>1. p = AfterRobots(r, res)
    BY <1>2, <1>3, <1>7
  <2>2. PICK M : IsNear(M, p.robots)
    BY NearExists
  <2>3. r.queue = <<>> /\ r.seen = {}
    BY <1>c, <1>4, <1>6, <1>7 DEF CrawlHolds
  <2>4. Sound(p, {}) /\ (Covers(p, M) \/ Levels(p, {}, 0, M)) /\ p.phase = "sitemaps"
    BY <1>2, <2>1, <2>2, <2>3, RobotsStart
  <2> QED
    BY <1>c, <2>2, <2>4 DEF CrawlHolds, Past
<1>8. CASE run.phase = "sitemaps"
  <2>1. p = AfterSitemap(r, res) /\ Busy = {}
    BY <1>2, <1>3, <1>8 DEF Busy
  <2>2. Sound(r, {}) /\ (Covers(r, N) \/ Levels(r, {}, 0, N))
    BY <1>c, <1>2, <1>4, <1>8, <2>1, SameKeeps, AnyDepth DEF CrawlHolds, Crawling
  <2>3. Sound(p, {}) /\ (Covers(p, N) \/ Levels(p, {}, 0, N)) /\ p.phase = r.phase
        /\ p.robots = r.robots
    BY <1>2, <2>1, <2>2, SitemapKeeps
  <2> QED
    BY <1>c, <1>2, <1>4, <1>6, <1>8, <2>3 DEF CrawlHolds, Past
<1>9. CASE run.phase = "crawl"
  <2>1. p = AfterPage(r, res) /\ Busy = {req.url}
    BY <1>2, <1>3, <1>9 DEF Busy
  <2>2. res \in Answered
    BY <1>9, <1>c DEF c
  <2>3. PICK u, d, b : u = req.url /\ d = req.depth /\ b = {u}
    OBVIOUS
  <2>4. Sound(run, b) /\ (Covers(run, N) \/ Levels(run, b, d, N))
    BY <1>c, <1>4, <1>9, <2>1, <2>3 DEF CrawlHolds, Crawling
  <2>5. Sound(r, b) /\ (Covers(r, N) \/ Levels(r, b, d, N))
    BY <1>2, <2>4, SameKeeps
  <2>6. Sound(p, {}) /\ (Covers(p, N) \/ Levels(p, {}, 0, N)) /\ p.phase = r.phase
        /\ p.robots = r.robots
    <3>1. req.url \in r.seen /\ req.depth \in Nat
      BY <1>5, <1>6, <1>9
    <3>2. Sound(r, {req.url}) /\ (Covers(r, N) \/ Levels(r, {req.url}, req.depth, N))
      BY <2>3, <2>5
    <3> QED
      BY <1>2, <2>1, <2>2, <3>1, <3>2, PageKeeps
  <2> QED
    BY <1>c, <1>2, <1>4, <1>6, <1>9, <2>6 DEF CrawlHolds, Past
<1>10. CASE run.phase \in {"render", "tls", "active"}
  <2>1. /\ SameFrontier(p, r) /\ p.clean = r.clean /\ p.stoppedBy = r.stoppedBy
        /\ p.phase = r.phase \/ p.phase = "failed"
    <3>1. \/ \E browser, revealed : p = [r EXCEPT !.browser = browser, !.revealed = revealed]
          \/ \E revealed : p = [r EXCEPT !.revealed = revealed]
          \/ p = [r EXCEPT !.phase = "failed"]
          \/ \E left : p = [r EXCEPT !.left = left]
          \/ p = r
      <4>1. CASE run.phase = "render"
        <5>1. p = AfterBrowser(r, res)
          BY <1>2, <1>3, <4>1
        <5>2. PICK some : some = IF res \in Answered THEN r.revealed \cup {req.url} ELSE r.revealed
          OBVIOUS
        <5>3. [r EXCEPT !.revealed = IF res \in Answered THEN @ \cup {req.url} ELSE @]
                = [r EXCEPT !.revealed = some]
          BY <5>2
        <5>4. CASE req.url # Head(r.toRender).url
          BY <5>1, <5>3, <5>4 DEF AfterBrowser
        <5>5. CASE req.url = Head(r.toRender).url /\ res \in Answered
          <6>1. p = [r EXCEPT !.browser = Out(site.fetches, Head(r.toRender).url) \ {Head(r.toRender).url},
                              !.revealed = Out(site.scripts, Head(r.toRender).url)]
            BY <5>1, <5>5, Zenon DEF AfterBrowser
          <6> QED
            BY <6>1
        <5>6. CASE req.url = Head(r.toRender).url /\ res \notin Answered
          BY <5>1, <5>6, Zenon DEF AfterBrowser
        <5> QED
          BY <5>4, <5>5, <5>6
      <4>2. CASE run.phase = "tls"
        <5>1. p = AfterHandshake(r, res)
          BY <1>2, <1>3, <4>2
        <5> QED
          BY <5>1 DEF AfterHandshake
      <4>3. CASE run.phase = "active"
        <5>1. p = AfterProbe(r, res)
          BY <1>2, <1>3, <4>3
        <5> QED
          BY <5>1 DEF AfterProbe
      <4> QED
        BY <1>10, <4>1, <4>2, <4>3
    <3> QED
      BY <1>2, <3>1 DEF SameFrontier, RunTyped, RunType
  <2>2. Busy = {} /\ p.queue = run.queue
    BY <1>6, <1>10, <2>1 DEF Busy, SameFrontier
  <2>3. Sound(run, {}) /\ (run.phase = "render" => Covers(run, N))
        /\ (run.phase \in Past /\ WithinBudget(run) => run.queue = <<>> /\ Covers(run, N))
    BY <1>c, <1>4, <1>10, <2>2 DEF CrawlHolds, Crawling
  <2>4. Sound(p, {}) /\ (Covers(run, N) => Covers(p, N)) /\ p.robots = run.robots
        /\ p.crawled = run.crawled
    BY <1>2, <1>6, <2>1, <2>3, SameKeeps DEF SameFrontier
  <2>5. CrawlHolds(p, {}, 0, N, WithinBudget(run))
    BY <1>2, <1>10, <2>1, <2>2, <2>3, <2>4 DEF CrawlHolds, Past, Crawling
  <2> QED
    BY <1>c, <1>2, <1>4, <2>1, <2>4, <2>5
<1> QED
  BY <1>5, <1>7, <1>8, <1>9, <1>10 DEF Asking

\* Less budget asks for less.
LEMMA HoldsWithin ==
  ASSUME NEW r, NEW N, NEW v, NEW w, NEW d, NEW busy,
         CrawlHolds(r, busy, d, N, v), r.phase \in Past /\ w => v
  PROVE  CrawlHolds(r, busy, d, N, w)
BY DEF CrawlHolds

LEMMA HoldsAtAnyDepth ==
  ASSUME NEW r, NEW N, NEW w, CrawlHolds(r, {}, 0, N, w)
  PROVE  \A d : CrawlHolds(r, {}, d, N, w)
BY AnyDepth DEF CrawlHolds

LEMMA HoldsOfSame ==
  ASSUME NEW p, NEW r, SameFrontier(p, r), p.phase = r.phase, p.clean = r.clean,
         NEW N, NEW w, CrawlHolds(r, {}, 0, N, w)
  PROVE  CrawlHolds(p, {}, 0, N, w)
BY SameKeeps DEF CrawlHolds, SameFrontier

LEMMA HandledStep ==
  ASSUME EngineTyped, CrawlInv, UNCHANGED <<site, made>>, req.at # "none", req' = NoReq,
         NEW res, NEW code, run' = Handled(res) \/ run' = Stops(Handled(res), code),
         run.clean /\ run.phase = "crawl" => res # "OUT_OF_SCOPE"
  PROVE  CrawlInv'
<1>1. PICK p : p = Handled(res) /\ RunTyped(p)
  BY HandledTyped
<1>2. /\ SameFrontier(run', p) /\ run'.phase = p.phase /\ run'.clean = p.clean
      /\ run'.stoppedBy = "null" => p.stoppedBy = "null"
  <2>1. run' = p \/ \E stop : run' = [p EXCEPT !.stoppedBy = stop] /\ (stop = "null" => p.stoppedBy = "null")
    <3>1. CASE run' = Stops(p, code)
      <4>1. PICK stop : /\ stop = IF \/ code \in {"KILL_SWITCH", "STOPPED"} /\ p.phase # "tls"
                                     \/ code = "CEILING" /\ p.phase \notin {"tls", "active"}
                                  THEN code ELSE p.stoppedBy
        OBVIOUS
      <4>2. run' = [p EXCEPT !.stoppedBy = stop]
        BY <3>1, <4>1 DEF Stops
      <4>3. stop = "null" => p.stoppedBy = "null"
        BY <4>1
      <4> QED
        BY <4>2, <4>3
    <3> QED
      BY <1>1, <3>1
  <2> QED
    BY <1>1, <2>1 DEF SameFrontier, RunTyped, RunType
<1>3. CASE ~p.clean
  BY <1>2, <1>3, NothingToShow
<1>4. CASE p.clean
  <2>1. PICK N : IsNear(N, p.robots) /\ CrawlHolds(p, {}, 0, N, WithinBudget(run))
    BY <1>1, <1>4, HandledKeeps
  <2>2. p.phase \in Past => p.stoppedBy = run.stoppedBy /\ p.crawled = run.crawled
    BY <1>1, <1>4, HandledKeeps
  <2>3. CrawlHolds(run', {}, 0, N, WithinBudget(run))
    BY <1>2, <2>1, HoldsOfSame
  <2>4. run'.phase \in Past /\ WithinBudget(run)' => WithinBudget(run)
    BY <1>2, <2>2 DEF WithinBudget, SameFrontier
  <2>5. PICK w : w = WithinBudget(run)'
    OBVIOUS
  <2>6. CrawlHolds(run', {}, 0, N, w)
    BY <2>3, <2>4, <2>5, HoldsWithin
  <2>7. Busy' = {} /\ run'.robots = p.robots
    BY <1>2 DEF Busy, NoReq, SameFrontier
  <2>8. CrawlHolds(run', Busy', req'.depth, N, WithinBudget(run)')
    BY <2>5, <2>6, <2>7, HoldsAtAnyDepth
  <2> QED
    BY <2>1, <2>7, <2>8, CrawlInvIs
<1> QED
  BY <1>3, <1>4

\* A step that leaves the run, and what it fetches, alone.
LEMMA RunStays ==
  ASSUME CrawlInv, UNCHANGED <<site, run>>, made \in Nat, made' \in Nat, made' >= made,
         Busy' = Busy, req'.depth = req.depth \/ Busy = {}
  PROVE  CrawlInv'
<1>1. PICK N : IsNear(N, run.robots) /\ CrawlHolds(run, Busy, req.depth, N, WithinBudget(run))
  BY DEF CrawlInv
<1>2. WithinBudget(run)' => WithinBudget(run)
  BY EngineAssumption DEF WithinBudget
<1>3. PICK w, d, b : w = WithinBudget(run)' /\ d = req'.depth /\ b = Busy
  OBVIOUS
<1>4. CrawlHolds(run, b, d, N, WithinBudget(run))
  <2>1. CASE req'.depth = req.depth
    BY <1>1, <1>3, <2>1
  <2>2. CASE Busy = {}
    BY <1>1, <1>3, <2>2, AnyDepth DEF CrawlHolds
  <2> QED
    BY <2>1, <2>2
<1>5. CrawlHolds(run, b, d, N, w)
  BY <1>2, <1>3, <1>4, HoldsWithin
<1> QED
  BY <1>1, <1>3, <1>5, CrawlInvIs

LEMMA RequestCrawls ==
  ASSUME EngineTyped, EngineInv, CrawlInv, ReadControls \/ DropRequest \/ Authorize \/ Answer
  PROVE  CrawlInv'
<1>1. UNCHANGED site /\ req.at # "none" /\ made \in Nat
  BY DEF ReadControls, DropRequest, Authorize, Answer, UnchangedButRun, EngineInv
<1>2. CASE ReadControls
  <2>1. UNCHANGED made
    BY <1>2 DEF ReadControls, UnchangedButRun
  <2>2. CASE run' = Stops([Handled("null") EXCEPT !.stopSeen = TRUE], "STOPPED")
    <3>1. PICK p : p = Handled("null") /\ RunTyped(p)
      BY <1>1, HandledTyped
    <3>2. ~p.clean
      <4>1. "null" \notin Answered \cup {"OUT_OF_SCOPE"}
        BY DEF Answered
      <4> QED
        BY <1>1, <3>1, <4>1, HandledClean
    <3>3. \E stop : run' = [p EXCEPT !.stopSeen = TRUE, !.stoppedBy = stop]
      BY <2>2, <3>1 DEF Stops
    <3>4. ~run'.clean
      BY <3>1, <3>2, <3>3 DEF RunTyped, RunType
    <3> QED
      BY <1>1, <3>4, NothingToShow
  <2>3. CASE \E flag \in BOOLEAN : run' = run /\ req' = [req EXCEPT !.at = "cleared", !.halted = flag]
    <3>1. req'.at = "cleared" /\ req'.url = req.url /\ req'.depth = req.depth
      BY <2>3 DEF EngineTyped, ReqTyped
    <3>2. Busy' = Busy
      BY <1>1, <2>3, <3>1 DEF Busy
    <3> QED
      BY <1>1, <2>1, <2>3, <3>1, <3>2, RunStays
  <2> QED
    BY <1>2, <2>2, <2>3 DEF ReadControls
<1>3. CASE DropRequest
  BY <1>1, <1>3, HandledStep DEF DropRequest, UnchangedButRun
<1>4. CASE Authorize
  <2>1. CASE req' = [req EXCEPT !.at = "sent"] /\ made' = made + 1 /\ UNCHANGED run
    <3>1. req'.at = "sent" /\ req'.url = req.url /\ req'.depth = req.depth
      BY <2>1 DEF EngineTyped, ReqTyped
    <3>2. Busy' = Busy
      BY <1>1, <2>1, <3>1 DEF Busy
    <3> QED
      BY <1>1, <2>1, <3>1, <3>2, RunStays
  <2>2. CASE \E dns : /\ run' = Stops(Handled(Refusal(dns)), Refusal(dns)) /\ req' = NoReq
                      /\ UNCHANGED made
    <3>1. PICK dns, code : /\ code = Refusal(dns) /\ run' = Stops(Handled(code), code)
                           /\ req' = NoReq /\ UNCHANGED made
      BY <2>2
    <3>2. ASSUME run.clean, run.phase = "crawl" PROVE code # "OUT_OF_SCOPE"
      <4>1. Busy = {req.url} /\ req.url \in run.seen
        BY <1>1, <3>2 DEF Busy, EngineTyped, ReqTyped
      <4>2. PICK b : b = Busy /\ Sound(run, b)
        BY <3>2 DEF CrawlInv, CrawlHolds, Crawling
      <4>3. req.url \in site.scope
        BY <4>1, <4>2 DEF Sound, Crawlable
      <4> QED
        BY <3>1, <4>3 DEF Refusal
    <3> QED
      BY <1>1, <3>1, <3>2, HandledStep
  <2> QED
    BY <1>4, <2>1, <2>2 DEF Authorize
<1>5. CASE Answer
  <2>1. PICK res : run' = Handled(res) /\ res # "OUT_OF_SCOPE" /\ req' = NoReq /\ UNCHANGED made
    BY <1>5 DEF Answer, SiteSays
  <2> QED
    BY <1>1, <2>1, HandledStep
<1> QED
  BY <1>2, <1>3, <1>4, <1>5

\* A step from phase to phase that leaves the frontier alone: to the browser and past
\* the crawl only when the frontier is dry, or the budget gone.
LEMMA PhaseMoves ==
  ASSUME EngineTyped, CrawlInv, UNCHANGED <<site, made>>, Busy = {}, Busy' = {},
         SameFrontier(run', run), run'.clean = run.clean, run'.stoppedBy = run.stoppedBy,
         \/ run'.phase = run.phase
         \/ run.phase = "sitemaps" /\ run'.phase = "crawl"
         \/ run.phase \in Past /\ run'.phase \in Past
         \/ run.phase = "crawl" /\ run'.phase = "render" /\ run.queue = <<>>
         \/ run.phase = "crawl" /\ run'.phase = "crawled" /\ (run.queue = <<>> \/ ~WithinBudget(run))
  PROVE  CrawlInv'
<1>1. CASE ~run'.clean
  BY <1>1, NothingToShow
<1>2. CASE run'.clean
  <2>1. PICK N : IsNear(N, run.robots) /\ CrawlHolds(run, {}, req.depth, N, WithinBudget(run))
    BY DEF CrawlInv
  <2>2. PICK w : w = WithinBudget(run)' /\ (w <=> WithinBudget(run))
    BY DEF WithinBudget, SameFrontier
  <2>3. /\ run.phase = "robots" => run.queue = <<>> /\ run.seen = {}
        /\ run.phase \in Crawling => Sound(run', {})
        /\ run.phase \in {"sitemaps", "crawl"} => Covers(run, N) \/ Levels(run, {}, 0, N)
        /\ run.phase = "render" => Covers(run', N)
        /\ run.phase \in Past /\ WithinBudget(run) => run.queue = <<>> /\ Covers(run', N)
    BY <1>2, <2>1, AnyDepth, SameKeeps DEF CrawlHolds
  <2>4. run.phase = "crawl" /\ run.queue = <<>> => Covers(run', N)
    <3>1. RunTyped(run)
      BY DEF EngineTyped
    <3> QED
      BY <2>1, <2>3, <3>1, DryCovers, SameKeeps
  <2>5. run.phase \in {"sitemaps", "crawl"} => Covers(run', N) \/ Levels(run', {}, 0, N)
    BY <2>3, SameKeeps
  <2>6. CrawlHolds(run', {}, 0, N, w)
    BY <2>2, <2>3, <2>4, <2>5 DEF CrawlHolds, Crawling, Past, SameFrontier
  <2> QED
    BY <2>1, <2>2, <2>6, HoldsAtAnyDepth, CrawlInvIs DEF SameFrontier
<1> QED
  BY <1>1, <1>2

LEMMA VisitCrawls == ASSUME EngineTyped, CrawlInv, Visit, UNCHANGED <<site, made>> PROVE CrawlInv'
<1>1. /\ RunTyped(run) /\ run.phase = "crawl" /\ req.at = "none" /\ run.queue # <<>>
      /\ run' = [run EXCEPT !.queue = Tail(@)]
      /\ Ask(Head(run.queue).url, Head(run.queue).depth)
  BY DEF EngineTyped, Visit, Between
<1>2. /\ RunTyped(run') /\ run'.queue = Tail(run.queue) /\ run'.seen = run.seen
      /\ run'.robots = run.robots /\ run'.crawled = run.crawled
      /\ run'.phase = "crawl" /\ run'.clean = run.clean
  <2>1. RunTyped(run')
    BY <1>1, FirstPage
  <2> QED
    BY <1>1, <2>1 DEF RunTyped, RunType
<1>3. Busy = {} /\ Busy' = {Head(run.queue).url} /\ req'.depth = Head(run.queue).depth
  BY <1>1, <1>2 DEF Busy, Ask
<1>4. CASE ~run'.clean
  BY <1>4, NothingToShow
<1>5. CASE run'.clean
  <2>1. PICK N : IsNear(N, run.robots) /\ CrawlHolds(run, {}, req.depth, N, WithinBudget(run))
    BY <1>3 DEF CrawlInv
  <2>2. PICK p, d, b : p = run' /\ d = Head(run.queue).depth /\ b = {Head(run.queue).url}
    OBVIOUS
  <2>3. Sound(run, {}) /\ (Covers(run, N) \/ Levels(run, {}, req.depth, N))
    BY <1>1, <1>2, <1>5, <2>1 DEF CrawlHolds, Crawling
  <2>4. /\ Sound(run, {}) => Sound(p, {Head(run.queue).url})
        /\ Levels(run, {}, req.depth, N)
             => Covers(p, N) \/ Levels(p, {Head(run.queue).url}, Head(run.queue).depth, N)
    BY <1>1, <1>2, <2>1, <2>2, PopKeeps
  <2>5. Sound(p, b) /\ (Covers(p, N) \/ Levels(p, b, d, N))
    BY <1>2, <2>2, <2>3, <2>4 DEF Covers
  <2>6. \A w : CrawlHolds(p, b, d, N, w)
    BY <1>2, <2>2, <2>5 DEF CrawlHolds, Past
  <2> QED
    BY <1>2, <1>3, <2>1, <2>2, <2>6, CrawlInvIs
<1> QED
  BY <1>4, <1>5

LEMMA RenderCrawls == ASSUME EngineTyped, CrawlInv, EndRender, UNCHANGED <<site, made>> PROVE CrawlInv'
<1>1. /\ RunTyped(run) /\ run.phase = "render" /\ req.at = "none" /\ run.toRender # <<>>
      /\ run.revealed \in SUBSET Url
  BY DEF EngineTyped, RunTyped, RunType, EndRender, Between
<1>2. PICK depth \in Nat : depth = Head(run.toRender).depth + 1
  <2>1. Head(run.toRender).depth \in Nat
    BY <1>1, FirstPage
  <2> QED
    BY <2>1
<1>3. PICK e : e = Enqueue(run, run.revealed, depth) /\ RunTyped(e)
  BY <1>1, <1>2, Enqueued
<1>4. PICK done : done = [e EXCEPT !.toRender = Tail(@)]
  OBVIOUS
<1>5. \/ done.toRender # <<>> /\ BrowserOpens(done)
      \/ run' = [done EXCEPT !.phase = "crawl"] /\ UNCHANGED req
  BY <1>2, <1>3, <1>4 DEF EndRender
<1>6. SameFrontier(run', e) /\ run'.clean = e.clean /\ run'.phase \in {"render", "crawl"}
      /\ (run'.phase = "crawl" => req'.at = "none")
  BY <1>1, <1>3, <1>4, <1>5 DEF BrowserOpens, SameFrontier, RunTyped, RunType
<1>7. Busy = {} /\ Busy' = {}
  BY <1>1, <1>6 DEF Busy
<1>8. CASE ~run'.clean
  BY <1>8, NothingToShow
<1>9. CASE run'.clean
  <2>1. PICK N : IsNear(N, run.robots) /\ CrawlHolds(run, {}, req.depth, N, WithinBudget(run))
    BY <1>7 DEF CrawlInv
  <2>2. e.clean = run.clean
    <3>1. "clean" \in DOMAIN run
      BY <1>1 DEF RunTyped, RunType
    <3> QED
      BY <1>3, <3>1, EnqueueClean
  <2>3. Sound(run, {}) /\ Covers(run, N)
    BY <1>1, <1>6, <1>9, <2>1, <2>2 DEF CrawlHolds, Crawling
  <2>4. Sound(e, {}) /\ Covers(e, N) /\ e.robots = run.robots
    BY <1>1, <1>3, <2>3, RevealedKeeps
  <2>5. Sound(run', {}) /\ Covers(run', N) /\ run'.robots = run.robots
    BY <1>6, <2>4, SameKeeps DEF SameFrontier
  <2>6. \A w : CrawlHolds(run', {}, 0, N, w)
    BY <1>6, <2>5 DEF CrawlHolds, Past
  <2> QED
    BY <1>7, <2>1, <2>5, <2>6, HoldsAtAnyDepth, CrawlInvIs
<1> QED
  BY <1>8, <1>9

LEMMA PhaseCrawls ==
  ASSUME EngineTyped, EngineInv, CrawlInv, PhaseStep
  PROVE  CrawlInv'
<1>1. /\ UNCHANGED <<site, made>> /\ req.at = "none" /\ Busy = {} /\ made \in Nat
      /\ RunTyped(run) /\ run \in RunType
  BY DEF PhaseStep, UnchangedButRun, AskRobots, ReadSitemap, Visit, EndVisits, BrowserAsks, EndRender,
     ShakeHands, ProbeActively, Between, Busy, EngineInv, EngineTyped, RunTyped
<1>2. CASE AskRobots \/ ShakeHands \/ (ProbeActively /\ UNCHANGED run)
  <2>1. UNCHANGED run /\ run.phase # "crawl"
    BY <1>2 DEF AskRobots, ShakeHands, ProbeActively, Between
  <2> QED
    BY <1>1, <2>1, RunStays DEF Busy
<1>3. CASE ProbeActively /\ ~ UNCHANGED run
  <2>1. run.phase = "active" /\ (run' = [run EXCEPT !.phase = "done"] \/ run' = [run EXCEPT !.left = @ - 1])
    BY <1>3 DEF ProbeActively, Between
  <2>2. CASE run' = [run EXCEPT !.phase = "done"]
    <3>1. run'.phase \notin Crawling \cup {"robots"}
      BY <1>1, <2>2 DEF RunType, Crawling
    <3> QED
      BY <1>1, <3>1, NothingToShow
  <2>3. CASE run' = [run EXCEPT !.left = @ - 1]
    <3>1. SameFrontier(run', run) /\ run'.phase = run.phase /\ run'.clean = run.clean
          /\ run'.stoppedBy = run.stoppedBy
      BY <1>1, <2>3 DEF RunType, SameFrontier
    <3> QED
      BY <1>1, <2>1, <3>1, PhaseMoves DEF Busy
  <2> QED
    BY <2>1, <2>2, <2>3
<1>4. CASE ReadSitemap
  <2>1. run.phase = "sitemaps"
    BY <1>4 DEF ReadSitemap, Between
  <2>2. \/ run' = [run EXCEPT !.phase = "crawl"] /\ UNCHANGED req
        \/ \E maps, fetched : run' = [run EXCEPT !.maps = maps, !.fetched = fetched]
    <3>1. PICK s, rest : s = Tail(run.maps) /\ rest = [run EXCEPT !.maps = s]
      OBVIOUS
    <3>2. \/ run' = [run EXCEPT !.phase = "crawl"] /\ UNCHANGED req
          \/ run' = rest
          \/ \E fetched : run' = [rest EXCEPT !.fetched = fetched]
      BY <1>4, <3>1 DEF ReadSitemap
    <3>3. rest = [run EXCEPT !.maps = s, !.fetched = run.fetched]
      BY <1>1, <3>1 DEF RunType
    <3>4. \A fetched : [rest EXCEPT !.fetched = fetched] = [run EXCEPT !.maps = s, !.fetched = fetched]
      BY <1>1, <3>1 DEF RunType
    <3>5. \A fetched : run' = [rest EXCEPT !.fetched = fetched]
                         => run' = [run EXCEPT !.maps = s, !.fetched = fetched]
      BY <3>4
    <3>6. run' = rest => run' = [run EXCEPT !.maps = s, !.fetched = run.fetched]
      BY <3>3
    <3> HIDE <3>3, <3>4
    <3> QED
      BY <3>2, <3>5, <3>6, Zenon
  <2>3. /\ SameFrontier(run', run) /\ run'.clean = run.clean /\ run'.stoppedBy = run.stoppedBy
        /\ run'.phase = "sitemaps" \/ (run'.phase = "crawl" /\ UNCHANGED req)
    BY <1>1, <2>1, <2>2 DEF RunType, SameFrontier
  <2>4. Busy' = {}
    BY <1>1, <2>3 DEF Busy
  <2> QED
    BY <1>1, <2>1, <2>3, <2>4, PhaseMoves
<1>5. CASE EndVisits
  <2>1. run.phase = "crawl" /\ (run.queue = <<>> \/ ~WithinBudget(run))
    BY <1>5 DEF EndVisits, Between
  <2>2. CASE WithinBudget(run) /\ BrowserOpens(run)
    <3>1. /\ SameFrontier(run', run) /\ run'.clean = run.clean /\ run'.stoppedBy = run.stoppedBy
          /\ run'.phase = "render"
      BY <1>1, <2>2 DEF RunType, SameFrontier, BrowserOpens
    <3> QED
      BY <1>1, <2>1, <2>2, <3>1, PhaseMoves DEF Busy
  <2>3. CASE run' = [run EXCEPT !.phase = "crawled"] /\ UNCHANGED req
    <3>1. /\ SameFrontier(run', run) /\ run'.clean = run.clean /\ run'.stoppedBy = run.stoppedBy
          /\ run'.phase = "crawled"
      BY <1>1, <2>3 DEF RunType, SameFrontier
    <3> QED
      BY <1>1, <2>1, <3>1, PhaseMoves DEF Busy
  <2> QED
    BY <1>5, <2>2, <2>3 DEF EndVisits
<1>6. CASE BrowserAsks
  <2>1. PICK browser : run' = [run EXCEPT !.browser = browser] /\ run.phase = "render"
    BY <1>6 DEF BrowserAsks, Between
  <2>2. /\ SameFrontier(run', run) /\ run'.clean = run.clean /\ run'.stoppedBy = run.stoppedBy
        /\ run'.phase = "render"
    BY <1>1, <2>1 DEF RunType, SameFrontier
  <2> QED
    BY <1>1, <2>1, <2>2, PhaseMoves DEF Busy
<1> QED
  BY <1>1, <1>2, <1>3, <1>4, <1>5, <1>6, VisitCrawls, RenderCrawls DEF PhaseStep

LEMMA CheckpointCrawls ==
  ASSUME EngineTyped, CrawlInv, Checkpoint PROVE CrawlInv'
<1>1. /\ UNCHANGED <<site, made, req>> /\ req.at = "none" /\ run.phase \in {"crawled", "tls"}
      /\ run \in RunType /\ Busy = {} /\ Busy' = {}
  BY DEF Checkpoint, Between, UnchangedButRun, EngineTyped, RunTyped, Busy
<1>2. \/ \E why : run' = [run EXCEPT !.phase = "done", !.stoppedBy = why]
      \/ run' = [run EXCEPT !.phase = "tls", !.left = Handshakes]
      \/ run' = [run EXCEPT !.phase = "active", !.left = Probes]
  BY DEF Checkpoint
<1>3. CASE \E why : run' = [run EXCEPT !.phase = "done", !.stoppedBy = why]
  <2>1. run'.phase \notin Crawling \cup {"robots"}
    BY <1>1, <1>3 DEF RunType, Crawling
  <2> QED
    BY <1>1, <2>1, NothingToShow
<1>4. CASE \E p \in {"tls", "active"} : \E n : run' = [run EXCEPT !.phase = p, !.left = n]
  <2>1. /\ SameFrontier(run', run) /\ run'.clean = run.clean /\ run'.stoppedBy = run.stoppedBy
        /\ run'.phase \in Past
    BY <1>1, <1>4 DEF RunType, SameFrontier, Past
  <2>2. run.phase \in Past
    BY <1>1 DEF Past
  <2> QED
    BY <1>1, <2>1, <2>2, PhaseMoves
<1> QED
  BY <1>2, <1>3, <1>4

LEMMA AroundCrawls ==
  ASSUME EngineTyped, EngineInv, CrawlInv,
         StartRun \/ EngineReturns \/ EngineDies \/ PauseOrResume \/ SwitchKill
  PROVE  CrawlInv'
<1>1. UNCHANGED site
  BY DEF StartRun, EngineReturns, EngineDies, PauseOrResume, SwitchKill
<1>2. CASE StartRun
  <2>1. /\ run'.phase = "robots" /\ run'.queue = <<>> /\ run'.seen = {}
    BY <1>2 DEF StartRun, NoRun
  <2>2. PICK N : IsNear(N, run'.robots)
    BY NearExists
  <2>3. \A b, d, w : CrawlHolds(run', b, d, N, w)
    BY <2>1 DEF CrawlHolds, Crawling, Past
  <2> QED
    BY <1>1, <2>2, <2>3, CrawlInvIs
<1>3. CASE EngineReturns \/ EngineDies
  <2>1. run'.phase \in {"over", "none"}
    <3>1. run' = NoRun \/ run' = [NoRun EXCEPT !.phase = "over", !.attempt = run.attempt]
      BY <1>3 DEF EngineReturns, EngineDies
    <3>2. "phase" \in DOMAIN NoRun /\ NoRun.phase = "none"
      BY DEF NoRun
    <3> QED
      BY <3>1, <3>2
  <2> QED
    BY <1>1, <2>1, NothingToShow DEF Crawling
<1>4. CASE PauseOrResume \/ SwitchKill
  <2>1. UNCHANGED <<run, req, made>> /\ made \in Nat
    BY <1>4 DEF PauseOrResume, SwitchKill, EngineInv
  <2> QED
    BY <1>1, <2>1, RunStays DEF Busy
<1> QED
  BY <1>2, <1>3, <1>4

LEMMA CrawlStep == EngineTyped /\ EngineInv /\ CrawlInv /\ [EngineNext]_engineVars => CrawlInv'
<1> SUFFICES ASSUME EngineTyped, EngineInv, CrawlInv, [EngineNext]_engineVars PROVE CrawlInv'
  OBVIOUS
<1>1. CASE UNCHANGED engineVars
  <2>1. UNCHANGED <<site, run, req, made>> /\ made \in Nat
    BY <1>1 DEF engineVars, EngineInv
  <2> QED
    BY <2>1, RunStays DEF Busy
<1> QED
  BY <1>1, PhaseCrawls, CheckpointCrawls, RequestCrawls, AroundCrawls DEF EngineNext

LEMMA CrawlStart == EngineInit => CrawlInv
<1> SUFFICES ASSUME EngineInit PROVE CrawlInv
  OBVIOUS
<1>1. run.phase = "none"
  BY DEF EngineInit, NoRun
<1>2. PICK N : IsNear(N, run.robots)
  BY NearExists
<1>3. \A b, d, w : CrawlHolds(run, b, d, N, w)
  BY <1>1 DEF CrawlHolds, Crawling, Past
<1> QED
  BY <1>2, <1>3 DEF CrawlInv

\* A crawl that nothing stopped and nothing failed in has fetched every page within
\* the depth limit: whatever robots.txt says, wherever sitemaps, redirects and
\* scripts lead, for every site and limit.
THEOREM CrawlHasCovered == EngineSpec => []CrawlCovers
<1>1. EngineInit => EngineInv
  BY EngineInitInv
<1>2. EngineInv /\ [EngineNext]_engineVars => EngineInv'
  BY EngineStepInv
<1> QED
  BY <1>1, <1>2, EngineTypedStart, EngineTypedStep, CrawlStart, CrawlStep, CrawlInvCovers, PTL
     DEF EngineSpec

-----------------------------------------------------------------------------
(* Sums over finite sets. *)

\* Induction over the subsets of a finite set, for a set of them: one holds what
\* holds of it less any of its elements.
LEMMA SubsetInduction ==
  ASSUME NEW S, IsFiniteSet(S), NEW Good, {} \in Good,
         \A T \in SUBSET S : T # {} /\ (\A x \in T : T \ {x} \in Good) => T \in Good
  PROVE  SUBSET S \subseteq Good
<1> DEFINE Bad == {T \in FiniteSubsetsOf(S) : T \notin Good}
<1>1. SUFFICES Bad = {}
  BY FS_FiniteSubsetsOfFinite
<1>2. SUFFICES ASSUME Bad # {} PROVE FALSE
  OBVIOUS
<1>3. PICK T \in Bad : \A U \in Bad : ~ (<<U, T>> \in StrictSubsetOrdering(S))
  <2>1. Bad \subseteq FiniteSubsetsOf(S)
    OBVIOUS
  <2> HIDE DEF Bad
  <2> QED
    BY <1>2, <2>1, FS_StrictSubsetOrderingWellFounded, WFMin
<1>4. T \subseteq S /\ IsFiniteSet(T) /\ T \notin Good
  BY <1>3 DEF FiniteSubsetsOf
<1>5. ASSUME NEW x \in T PROVE T \ {x} \in Good
  <2>1. T \ {x} \in FiniteSubsetsOf(S)
    BY <1>4, FS_RemoveElement DEF FiniteSubsetsOf
  <2>2. <<T \ {x}, T>> \in StrictSubsetOrdering(S)
    BY <1>4, <1>5 DEF StrictSubsetOrdering
  <2> QED
    BY <1>3, <2>1, <2>2
<1> QED
  BY <1>4, <1>5

\* The units that are counted when the values of f on T are added up.
Units(f, T) == UNION {{x} \X (1..f[x]) : x \in T}

LEMMA OneMore ==
  ASSUME NEW S, NEW f \in [S -> Nat], NEW T \in SUBSET S, NEW x \in T,
         IsFiniteSet(Units(f, T \ {x}))
  PROVE  /\ IsFiniteSet(Units(f, T))
         /\ Cardinality(Units(f, T)) = f[x] + Cardinality(Units(f, T \ {x}))
<1> DEFINE n == f[x]
           new == {x} \X (1..n)
           old == Units(f, T \ {x})
<1>1. Units(f, T) = new \cup old /\ new \cap old = {} /\ n \in Nat
  BY DEF Units
<1> HIDE DEF n
<1>2. IsFiniteSet(1..n) /\ Cardinality(1..n) = n
  <2>1. 1 \in Int /\ n \in Int
    BY <1>1
  <2>2. IsFiniteSet(1..n) /\ Cardinality(1..n) = IF 1 > n THEN 0 ELSE n - 1 + 1
    BY <2>1, FS_Interval
  <2> QED
    BY <1>1, <2>2
<1>3. IsFiniteSet(new) /\ Cardinality(new) = n
  <2>1. IsFiniteSet({x}) /\ Cardinality({x}) = 1
    BY FS_Singleton
  <2>2. IsFiniteSet(new) /\ Cardinality(new) = Cardinality({x}) * Cardinality(1..n)
    BY <1>2, <2>1, FS_Product, Zenon
  <2>3. 1 * n = n
    BY <1>1
  <2> QED
    BY <1>2, <2>1, <2>2, <2>3
<1> HIDE DEF new, old
<1>4. IsFiniteSet(old) /\ Cardinality(old) \in Nat
  BY FS_CardinalityType DEF old
<1>5. Cardinality(new \cap old) = 0
  BY <1>1, FS_EmptySet
<1>6. /\ IsFiniteSet(new \cup old)
      /\ Cardinality(new \cup old) = Cardinality(new) + Cardinality(old) - Cardinality(new \cap old)
  BY <1>3, <1>4, FS_Union
<1>7. Cardinality(new \cup old) = n + Cardinality(old)
  BY <1>1, <1>3, <1>4, <1>5, <1>6
<1> QED
  BY <1>1, <1>6, <1>7 DEF n, old

LEMMA UnitsFinite ==
  ASSUME NEW S, IsFiniteSet(S), NEW f \in [S -> Nat]
  PROVE  \A T \in SUBSET S : IsFiniteSet(Units(f, T)) /\ Cardinality(Units(f, T)) \in Nat
<1> DEFINE Good == {T \in SUBSET S : IsFiniteSet(Units(f, T))}
<1>1. {} \in Good
  <2>1. Units(f, {}) = {}
    BY DEF Units
  <2> QED
    BY <2>1, FS_EmptySet
<1>2. ASSUME NEW T \in SUBSET S, T # {}, \A x \in T : T \ {x} \in Good PROVE T \in Good
  BY <1>2, OneMore
<1> HIDE DEF Good
<1>3. SUBSET S \subseteq Good
  BY <1>1, <1>2, SubsetInduction
<1> QED
  BY <1>3, FS_CardinalityType DEF Good

\* A sum of naturals is the number of its units.
LEMMA SumIs ==
  ASSUME NEW S, IsFiniteSet(S), NEW f \in [S -> Nat]
  PROVE  SumFunction(f) = Cardinality(Units(f, S))
<1> DEFINE One(s) == CHOOSE x \in s : TRUE
           Adds(g) == g = [s \in SUBSET S |-> IF s = {} THEN 0 ELSE f[One(s)] + g[s \ {One(s)}]]
           count == [s \in SUBSET S |-> Cardinality(Units(f, s))]
<1>1. Units(f, {}) = {} /\ Cardinality({}) = 0
  BY FS_EmptySet DEF Units
<1>2. ASSUME NEW s \in SUBSET S, s # {}
      PROVE  /\ One(s) \in s /\ s \ {One(s)} \in SUBSET S
             /\ count[s] = f[One(s)] + count[s \ {One(s)}]
  <2>1. One(s) \in s /\ s \ {One(s)} \in SUBSET S
    BY <1>2
  <2> HIDE DEF One
  <2> QED
    BY <2>1, UnitsFinite, OneMore
<1>3. Adds(count)
  <2>1. \A s \in SUBSET S : count[s] = IF s = {} THEN 0 ELSE f[One(s)] + count[s \ {One(s)}]
    BY <1>1, <1>2
  <2> HIDE DEF One
  <2> QED
    BY <2>1
<1>4. ASSUME NEW g, Adds(g) PROVE g[S] = count[S]
  <2> DEFINE Good == {s \in SUBSET S : g[s] = count[s]}
  <2>1. \A s \in SUBSET S : g[s] = IF s = {} THEN 0 ELSE f[One(s)] + g[s \ {One(s)}]
    BY <1>4
  <2> HIDE DEF One, count
  <2>2. {} \in Good
    BY <1>1, <2>1 DEF count
  <2>3. ASSUME NEW s \in SUBSET S, s # {}, \A x \in s : s \ {x} \in Good PROVE s \in Good
    BY <1>2, <2>1, <2>3
  <2> HIDE DEF Good
  <2>4. SUBSET S \subseteq Good
    BY <2>2, <2>3, SubsetInduction
  <2> QED
    BY <2>4 DEF Good
<1>5. SumFunctionOnSet(f, S) = count[S]
  <2> HIDE DEF count
  <2> QED
    BY <1>3, <1>4 DEF SumFunctionOnSet, FoldFunctionOnSet, MapThenFoldSet
<1>6. SumFunction(f) = SumFunctionOnSet(f, S)
  BY DEF SumFunction
<1> QED
  BY <1>5, <1>6

\* The disjoint union of the sets A[x].
Parts(A, S) == UNION {{x} \X A[x] : x \in S}

LEMMA SumOfParts ==
  ASSUME NEW S, IsFiniteSet(S), NEW A, \A x \in S : IsFiniteSet(A[x])
  PROVE  /\ IsFiniteSet(Parts(A, S))
         /\ SumFunction([x \in S |-> Cardinality(A[x])]) = Cardinality(Parts(A, S))
<1> DEFINE f == [x \in S |-> Cardinality(A[x])]
           b == [x \in S |-> CHOOSE g : g \in Bijection(1..f[x], A[x])]
           to == [e \in Units(f, S) |-> <<e[1], b[e[1]][e[2]]>>]
<1>1. ASSUME NEW x \in S PROVE f[x] \in Nat /\ b[x] \in Bijection(1..f[x], A[x])
  <2>1. f[x] \in Nat /\ \E g : g \in Bijection(1..f[x], A[x])
    BY FS_CardinalityType DEF ExistsBijection
  <2> HIDE DEF f
  <2> QED
    BY <2>1
<1>2. f \in [S -> Nat]
  BY <1>1
<1> HIDE DEF f, b
<1>3. IsFiniteSet(Units(f, S)) /\ SumFunction(f) = Cardinality(Units(f, S))
  BY <1>2, SumIs, UnitsFinite
<1>4. \A e : e \in Units(f, S) <=> \E x \in S : \E k \in 1..f[x] : e = <<x, k>>
  BY DEF Units
<1>5. \A e : e \in Parts(A, S) <=> \E x \in S : \E a \in A[x] : e = <<x, a>>
  BY DEF Parts
<1>6. ASSUME NEW x \in S
      PROVE  /\ \A k \in 1..f[x] : b[x][k] \in A[x]
             /\ \A k, l \in 1..f[x] : b[x][k] = b[x][l] => k = l
             /\ \A a \in A[x] : \E k \in 1..f[x] : b[x][k] = a
  BY <1>1 DEF Bijection, Injection, Surjection, IsInjective
<1>7. ASSUME NEW e \in Units(f, S) PROVE to[e] \in Parts(A, S)
  BY <1>4, <1>5, <1>6
<1>8. ASSUME NEW e \in Units(f, S), NEW d \in Units(f, S), to[e] = to[d] PROVE e = d
  BY <1>4, <1>6, <1>8
<1>9. ASSUME NEW c \in Parts(A, S) PROVE \E e \in Units(f, S) : to[e] = c
  <2>1. PICK x \in S : \E a \in A[x] : c = <<x, a>>
    BY <1>5, <1>9
  <2>2. PICK a \in A[x] : c = <<x, a>>
    BY <2>1
  <2>3. PICK k \in 1..f[x] : b[x][k] = a
    BY <1>6
  <2>4. <<x, k>> \in Units(f, S) /\ to[<<x, k>>] = c
    BY <1>4, <2>2, <2>3
  <2> QED
    BY <2>4
<1>10. to \in Bijection(Units(f, S), Parts(A, S))
  <2>1. to \in [Units(f, S) -> Parts(A, S)]
    BY <1>7
  <2> HIDE DEF to
  <2> QED
    BY <1>8, <1>9, <2>1 DEF Bijection, Injection, Surjection, IsInjective
<1>11. IsFiniteSet(Parts(A, S)) /\ Cardinality(Parts(A, S)) = Cardinality(Units(f, S))
  BY <1>3, <1>10, FS_Bijection DEF ExistsBijection
<1> QED
  BY <1>3, <1>11 DEF f

\* Sets in a one-to-one correspondence have as many elements.
LEMMA SameNumber ==
  ASSUME NEW S, IsFiniteSet(S), NEW T, NEW g \in [S -> T],
         \A x, y \in S : g[x] = g[y] => x = y, \A z \in T : \E x \in S : g[x] = z
  PROVE  IsFiniteSet(T) /\ Cardinality(T) = Cardinality(S)
<1>1. g \in Bijection(S, T)
  BY DEF Bijection, Injection, Surjection, IsInjective
<1> QED
  BY <1>1, FS_Bijection DEF ExistsBijection

-----------------------------------------------------------------------------
(* What scans store, and what later readers make of it. *)

ScanRecords == [host : Host, reported : SUBSET RawFinding,
                rows : {Deduplicated(raw) : raw \in SUBSET RawFinding},
                diff : {Compared(new, old) : new \in SUBSET Prints, old \in SUBSET Prints}]

\* The scans of a target before the n-th scan, and what the last of them found.
Earlier(n) == {m \in ScansOf(scans[n].host) : m < n}
FoundBefore(n) == IF Earlier(n) = {} THEN {} ELSE Found(Max(Earlier(n)))

\* Each scan holds what was reported to it, each fingerprint once, and its diff is
\* against the scan before it.
StoredRight(n) ==
  /\ scans[n].rows = Deduplicated(scans[n].reported)
  /\ scans[n].diff = Compared(Found(n), FoundBefore(n))

ScansRight == scans \in Seq(ScanRecords) /\ \A n \in DOMAIN scans : StoredRight(n)

DecisionsTyped ==
  /\ decision \in [Host -> [Prints -> TriageStates \cup {"no row"}]]
  /\ archived \subseteq Host /\ decided \in 0..MaxDecisions

ResultsInv == ScansRight /\ DecisionsTyped

LEMMA PrintsFinite == IsFiniteSet(Prints)
<1> DEFINE g == [f \in RawFinding |-> FingerprintOf(f)]
<1>1. g \in Surjection(RawFinding, Prints)
  BY DEF Surjection, Prints
<1> QED
  BY <1>1, FS_Surjection, ResultsAssumption

\* One row per fingerprint: no milder than any of its group, which it counts.
LEMMA DeduplicatedIs ==
  ASSUME NEW raw \in SUBSET RawFinding
  PROVE  /\ DOMAIN Deduplicated(raw) = {FingerprintOf(f) : f \in raw}
         /\ \A p \in DOMAIN Deduplicated(raw) :
              LET group == {f \in raw : FingerprintOf(f) = p} IN
              /\ IsFiniteSet(group)
              /\ Deduplicated(raw)[p].severity \in Severities
              /\ \A f \in group : Deduplicated(raw)[p].severity >= f.severity
              /\ Deduplicated(raw)[p].occurrences = Cardinality(group)
<1>1. DOMAIN Deduplicated(raw) = {FingerprintOf(f) : f \in raw}
  BY DEF Deduplicated
<1>2. ASSUME NEW p \in DOMAIN Deduplicated(raw)
      PROVE  LET group == {f \in raw : FingerprintOf(f) = p} IN
              /\ IsFiniteSet(group)
              /\ Deduplicated(raw)[p].severity \in Severities
              /\ \A f \in group : Deduplicated(raw)[p].severity >= f.severity
              /\ Deduplicated(raw)[p].occurrences = Cardinality(group)
  <2> DEFINE group == {f \in raw : FingerprintOf(f) = p}
             severities == {f.severity : f \in group}
  <2>1. Deduplicated(raw)[p] = [severity |-> Max(severities), occurrences |-> Cardinality(group)]
    BY <1>1 DEF Deduplicated
  <2>2. IsFiniteSet(group) /\ group # {} /\ group \subseteq RawFinding
    <3>1. IsFiniteSet(raw) /\ group \subseteq raw
      BY ResultsAssumption, FS_Subset
    <3>2. group # {}
      BY <1>1
    <3> QED
      BY <3>1, <3>2, FS_Subset
  <2> HIDE DEF group
  <2>3. IsFiniteSet(severities) /\ severities # {} /\ severities \subseteq Severities
    <3> DEFINE g == [f \in group |-> f.severity]
    <3>1. g \in Surjection(group, severities)
      BY DEF Surjection
    <3> QED
      BY <2>2, <3>1, FS_Surjection, ResultsAssumption
  <2>4. Severities \subseteq Nat
    BY DEF Severities
  <2>5. \A f \in group : f.severity \in severities
    OBVIOUS
  <2> HIDE DEF severities
  <2>6. Max(severities) \in severities /\ \A y \in severities : Max(severities) >= y
    BY <2>3, <2>4, MaxIs
  <2> QED
    BY <2>1, <2>2, <2>3, <2>5, <2>6 DEF group
<1> QED
  BY <1>1, <1>2

LEMMA ScanIs ==
  ASSUME ScansRight, NEW n \in DOMAIN scans
  PROVE  /\ n \in Nat \ {0} /\ scans[n] \in ScanRecords /\ scans[n].host \in Host
         /\ scans[n].reported \subseteq RawFinding /\ StoredRight(n)
         /\ Found(n) = {FingerprintOf(f) : f \in scans[n].reported}
         /\ Found(n) \subseteq Prints /\ IsFiniteSet(Found(n))
<1>1. n \in Nat \ {0} /\ scans[n] \in ScanRecords /\ StoredRight(n)
  BY DEF ScansRight
<1>2. scans[n].host \in Host /\ scans[n].reported \subseteq RawFinding
  BY <1>1 DEF ScanRecords
<1>3. Found(n) = {FingerprintOf(f) : f \in scans[n].reported}
  BY <1>1, <1>2, DeduplicatedIs DEF StoredRight, Found
<1>4. Found(n) \subseteq Prints
  BY <1>2, <1>3 DEF Prints
<1> QED
  BY <1>1, <1>2, <1>3, <1>4, PrintsFinite, FS_Subset

\* The scans of a target that come before another one, and the last of them.
LEMMA EarlierIs ==
  ASSUME ScansRight, NEW S, S \subseteq DOMAIN scans
  PROVE  S \subseteq Nat /\ IsFiniteSet(S) /\ (S # {} => Max(S) \in S /\ \A m \in S : m <= Max(S))
<1>1. DOMAIN scans = 1..Len(scans) /\ Len(scans) \in Nat
  BY DEF ScansRight
<1>2. S \subseteq Nat /\ \A m \in S : m <= Len(scans)
  BY <1>1
<1>3. IsFiniteSet(S)
  BY <1>1, <1>2, FS_BoundedSetOfNaturals
<1>4. ASSUME S # {} PROVE Max(S) \in S /\ \A m \in S : Max(S) >= m
  BY <1>2, <1>3, <1>4, MaxIs
<1> QED
  BY <1>2, <1>3, <1>4

LEMMA ResultsStart == ResultsInit => ResultsInv
<1> SUFFICES ASSUME ResultsInit PROVE ResultsInv
  OBVIOUS
<1>1. ScansRight
  <2>1. scans = <<>>
    BY DEF ResultsInit
  <2> QED
    BY <2>1 DEF ScansRight
<1>2. DecisionsTyped
  <2>1. MaxDecisions \in Nat /\ decided = 0
    BY ResultsAssumption DEF ResultsInit
  <2>2. archived = {} /\ decision \in [Host -> [Prints -> TriageStates \cup {"no row"}]]
    BY DEF ResultsInit
  <2>3. decided \in 0..MaxDecisions
    BY <2>1
  <2> QED
    BY <2>2, <2>3, Zenon DEF DecisionsTyped
<1> QED
  BY <1>1, <1>2 DEF ResultsInv

LEMMA StoreKeeps == ASSUME ScansRight, NEW h \in Host, StoreResults(h) PROVE ScansRight'
<1>1. PICK L \in Nat : L = Len(scans) /\ DOMAIN scans = 1..L
  BY DEF ScansRight
<1>2. PICK raw \in SUBSET RawFinding :
        scans' = Append(scans, [host |-> h, reported |-> raw, rows |-> Deduplicated(raw),
                     diff |-> Compared(DOMAIN Deduplicated(raw), PreviousPrints(h))])
  BY DEF StoreResults
<1> DEFINE new == [host |-> h, reported |-> raw, rows |-> Deduplicated(raw),
                   diff |-> Compared(DOMAIN Deduplicated(raw), PreviousPrints(h))]
<1>3. new \in ScanRecords
  <2>1. PreviousPrints(h) \subseteq Prints
    BY EarlierIs, ScanIs DEF PreviousPrints, ScansOf
  <2>2. DOMAIN Deduplicated(raw) \subseteq Prints
    <3>1. DOMAIN Deduplicated(raw) = {FingerprintOf(f) : f \in raw}
      BY DeduplicatedIs
    <3> QED
      BY <3>1 DEF Prints
  <2>3. /\ Deduplicated(raw) \in {Deduplicated(r) : r \in SUBSET RawFinding}
        /\ Compared(DOMAIN Deduplicated(raw), PreviousPrints(h)) \in
             {Compared(a, b) : a \in SUBSET Prints, b \in SUBSET Prints}
    BY <2>1, <2>2
  <2> QED
    BY <2>3 DEF ScanRecords
<1>4. /\ new.host = h /\ new.reported = raw /\ new.rows = Deduplicated(raw)
      /\ new.diff = Compared(DOMAIN Deduplicated(raw), PreviousPrints(h))
  OBVIOUS
<1>5. scans' = Append(scans, new)
  BY <1>2
<1> HIDE DEF new
<1>6. /\ scans' \in Seq(ScanRecords) /\ DOMAIN scans' = 1..L + 1 /\ scans'[L + 1] = new
      /\ \A n \in 1..L : scans'[n] = scans[n]
  BY <1>1, <1>3, <1>5 DEF ScansRight
<1>7. ASSUME NEW n \in 1..L PROVE StoredRight(n)'
  <2>1. Earlier(n)' = Earlier(n) /\ Earlier(n) \subseteq 1..L
    BY <1>1, <1>6 DEF Earlier, ScansOf
  <2>2. \A m \in 1..L : Found(m)' = Found(m)
    BY <1>6 DEF Found
  <2>3. FoundBefore(n)' = FoundBefore(n)
    BY <2>1, <2>2, <1>1, EarlierIs DEF FoundBefore
  <2> QED
    BY <1>1, <1>6, <2>2, <2>3 DEF ScansRight, StoredRight
<1>8. StoredRight(L + 1)'
  <2>1. Earlier(L + 1)' = ScansOf(h) /\ ScansOf(h) \subseteq 1..L
    <3>1. Earlier(L + 1)' = {m \in {k \in 1..L + 1 : scans'[k].host = h} : m < L + 1}
      BY <1>4, <1>6 DEF Earlier, ScansOf
    <3>2. ScansOf(h) = {k \in 1..L : scans[k].host = h}
      BY <1>1 DEF ScansOf
    <3>3. \A k : (k \in 1..L + 1 /\ k < L + 1) <=> k \in 1..L
      BY <1>1
    <3> QED
      BY <1>6, <3>1, <3>2, <3>3
  <2>2. \A m \in 1..L : Found(m)' = Found(m)
    BY <1>6 DEF Found
  <2>3. FoundBefore(L + 1)' = PreviousPrints(h)
    BY <2>1, <2>2, <1>1, EarlierIs DEF FoundBefore, PreviousPrints
  <2>4. /\ Found(L + 1)' = DOMAIN Deduplicated(raw) /\ scans'[L + 1].reported = raw
        /\ scans'[L + 1].rows = Deduplicated(raw)
        /\ scans'[L + 1].diff = Compared(DOMAIN Deduplicated(raw), PreviousPrints(h))
    BY <1>4, <1>6 DEF Found
  <2> QED
    BY <2>3, <2>4 DEF StoredRight
<1>9. \A n \in 1..L + 1 : n \in 1..L \/ n = L + 1
  BY <1>1
<1> QED
  BY <1>6, <1>7, <1>8, <1>9 DEF ScansRight

\* The members of a finite set of numbers, by their rank.
LEMMA NthInOrder ==
  ASSUME NEW S, IsFiniteSet(S),
         \A m, n \in S : m # n => m < n \/ n < m, \A n \in S : ~(n < n),
         \A m, n, o \in S : m < n /\ n < o => m < o
  PROVE  /\ Cardinality(S) \in Nat
         /\ \A i \in 1..Cardinality(S) : Nth(S, i) \in S
         /\ \A i, j \in 1..Cardinality(S) : i < j => Nth(S, i) < Nth(S, j)
         /\ \A n \in S : \E i \in 1..Cardinality(S) : Nth(S, i) = n
<1> DEFINE K == Cardinality(S)
           lower(n) == {m \in S : m < n}
           rank == [n \in S |-> Cardinality(lower(n)) + 1]
<1>1. K \in Nat
  BY FS_CardinalityType
<1>2. ASSUME NEW n \in S
      PROVE  /\ IsFiniteSet(lower(n)) /\ Cardinality(lower(n)) \in Nat
             /\ rank[n] = Cardinality(lower(n)) + 1 /\ rank[n] \in 1..K
  <2>1. lower(n) \subseteq S \ {n} /\ IsFiniteSet(S \ {n}) /\ Cardinality(S \ {n}) = K - 1
    BY FS_RemoveElement
  <2>2. IsFiniteSet(lower(n)) /\ Cardinality(lower(n)) \in Nat /\ Cardinality(lower(n)) <= K - 1
    BY <2>1, FS_Subset, FS_CardinalityType
  <2>3. rank[n] = Cardinality(lower(n)) + 1
    OBVIOUS
  <2> HIDE DEF lower, rank, K
  <2> QED
    BY <2>2, <2>3, <1>1
<1> HIDE DEF rank, K
<1>3. ASSUME NEW n \in S, NEW o \in S, n < o
      PROVE  rank[n] < rank[o]
  <2>1. lower(n) \subseteq lower(o) /\ n \in lower(o) /\ n \notin lower(n)
    BY <1>3
  <2>2. Cardinality(lower(n)) <= Cardinality(lower(o)) /\ Cardinality(lower(n)) # Cardinality(lower(o))
    BY <2>1, <1>2, FS_Subset
  <2> HIDE DEF lower
  <2> QED
    BY <2>2, <1>2
<1>4. ASSUME NEW n \in S, NEW o \in S, rank[n] = rank[o]
      PROVE  n = o
  <2> HIDE DEF lower
  <2>1. rank[n] \in Nat /\ rank[o] \in Nat
    BY <1>1, <1>2
  <2> QED
    BY <1>3, <1>4, <2>1
<1>5. rank \in Surjection(S, 1..K)
  <2>1. IsFiniteSet(1..K) /\ Cardinality(1..K) = K
    BY <1>1, FS_Interval
  <2>2. rank \in Injection(S, 1..K)
    BY <1>2, <1>4 DEF Injection, IsInjective, rank
  <2> QED
    BY <2>1, <2>2, FS_Injection DEF K
<1>6. ASSUME NEW i \in 1..K PROVE Nth(S, i) \in S /\ rank[Nth(S, i)] = i
  <2>1. PICK n \in S : rank[n] = i
    BY <1>5 DEF Surjection
  <2>2. Nth(S, i) = CHOOSE m \in S : Cardinality(lower(m)) = i - 1
    BY DEF Nth
  <2> HIDE DEF lower
  <2>3. Cardinality(lower(n)) = i - 1
    BY <2>1, <1>1, <1>2
  <2>4. Nth(S, i) \in S /\ Cardinality(lower(Nth(S, i))) = i - 1
    BY <2>2, <2>3
  <2> QED
    BY <2>4, <1>1, <1>2
<1>7. ASSUME NEW i \in 1..K, NEW j \in 1..K, i < j PROVE Nth(S, i) < Nth(S, j)
  <2> HIDE DEF lower
  <2>1. rank[Nth(S, i)] = i /\ rank[Nth(S, j)] = j /\ i # j /\ ~(j < i)
    BY <1>1, <1>6, <1>7
  <2>2. Nth(S, i) # Nth(S, j) /\ ~(Nth(S, j) < Nth(S, i))
    BY <2>1, <1>3, <1>6
  <2> QED
    BY <2>2, <1>6
<1>8. ASSUME NEW n \in S PROVE \E i \in 1..K : Nth(S, i) = n
  BY <1>2, <1>4, <1>6
<1> QED
  BY <1>1, <1>6, <1>7, <1>8 DEF K

LEMMA NthIs ==
  ASSUME NEW S, S \subseteq Nat, IsFiniteSet(S)
  PROVE  /\ Cardinality(S) \in Nat
         /\ \A i \in 1..Cardinality(S) : Nth(S, i) \in S
         /\ \A i, j \in 1..Cardinality(S) : i < j => Nth(S, i) < Nth(S, j)
         /\ \A n \in S : \E i \in 1..Cardinality(S) : Nth(S, i) = n
<1>1. /\ \A m, n \in S : m # n => m < n \/ n < m
      /\ \A n \in S : ~(n < n)
      /\ \A m, n, o \in S : m < n /\ n < o => m < o
  OBVIOUS
<1> QED
  BY <1>1, NthInOrder

LEMMA DeleteKeeps == ASSUME ScansRight, NEW h \in Host, DeleteHost(h) PROVE ScansRight'
<1>1. PICK L \in Nat : L = Len(scans) /\ DOMAIN scans = 1..L
  BY DEF ScansRight
<1>2. PICK S : S = Staying(h) /\ S \subseteq 1..L /\ S \subseteq Nat /\ IsFiniteSet(S)
  BY <1>1, EarlierIs DEF Staying
<1>3. PICK nth : nth = [i \in 1..Cardinality(S) |-> Nth(S, i)]
  OBVIOUS
<1>4. PICK K \in Nat : /\ K = Cardinality(S) /\ nth \in [1..K -> S]
                       /\ \A i, j \in 1..K : i < j => nth[i] < nth[j]
                       /\ \A n \in S : \E i \in 1..K : nth[i] = n
  BY <1>2, <1>3, NthIs
<1>5. scans' = [i \in 1..K |-> scans[nth[i]]]
  BY <1>2, <1>3, <1>4 DEF DeleteHost
<1>6. ASSUME NEW i \in 1..K
      PROVE  /\ nth[i] \in 1..L /\ nth[i] \in S /\ scans'[i] = scans[nth[i]]
             /\ scans[nth[i]].host # h /\ Found(i)' = Found(nth[i])
  BY <1>2, <1>4, <1>5 DEF Staying, Found
<1>7. scans' \in Seq(ScanRecords) /\ DOMAIN scans' = 1..K
  <2>1. \A i \in 1..K : scans[nth[i]] \in ScanRecords
    BY <1>1, <1>6 DEF ScansRight
  <2> QED
    BY <1>5, <2>1
<1>8. ASSUME NEW i \in 1..K PROVE FoundBefore(i)' = FoundBefore(nth[i])
  <2>1. PICK E, F : E = Earlier(i)' /\ F = Earlier(nth[i])
    OBVIOUS
  <2>2. \A m : m \in E <=> m \in 1..K /\ m < i /\ scans[nth[m]].host = scans[nth[i]].host
    BY <1>6, <1>7, <2>1 DEF Earlier, ScansOf
  <2>3. \A n : n \in F <=> n \in 1..L /\ n < nth[i] /\ scans[n].host = scans[nth[i]].host
    BY <1>1, <2>1 DEF Earlier, ScansOf
  <2>4. \A m \in E : nth[m] \in F
    BY <1>4, <1>6, <2>2, <2>3
  <2>5. ASSUME NEW n \in F PROVE \E m \in E : nth[m] = n
    <3>1. n \in S
      BY <1>1, <1>2, <1>6, <2>3 DEF Staying
    <3>2. PICK m \in 1..K : nth[m] = n
      BY <1>4, <3>1
    <3>3. nth[m] \in Nat /\ nth[i] \in Nat /\ nth[m] < nth[i]
      BY <1>6, <2>3, <3>2
    <3>4. ~(i < m) /\ i # m
      BY <1>4, <3>3
    <3> QED
      BY <2>2, <2>3, <3>2, <3>4
  <2>6. CASE E = {}
    BY <2>1, <2>5, <2>6 DEF FoundBefore
  <2>7. CASE E # {}
    <3>1. F # {} /\ E \subseteq 1..K /\ F \subseteq 1..L
      BY <2>2, <2>3, <2>4, <2>7
    <3>2. E \subseteq Nat /\ IsFiniteSet(E)
      BY <3>1, FS_BoundedSetOfNaturals
    <3>3. Max(E) \in E /\ \A m \in E : Max(E) >= m
      BY <2>7, <3>2, MaxIs
    <3>4. F \subseteq Nat /\ Max(F) \in F /\ \A n \in F : n <= Max(F)
      BY <1>1, <3>1, EarlierIs
    <3>5. PICK m \in E : nth[m] = Max(F)
      BY <2>5, <3>4
    <3>6. nth[Max(E)] \in F /\ nth[Max(E)] <= nth[m] /\ Max(E) >= m /\ m \in 1..K /\ Max(E) \in 1..K
      BY <2>4, <3>1, <3>3, <3>4, <3>5
    <3>7. m = Max(E)
      <4>1. ~(m < Max(E))
        BY <1>4, <1>6, <3>6
      <4> QED
        BY <3>6, <4>1
    <3>8. Found(Max(E))' = Found(Max(F))
      BY <1>6, <3>5, <3>6, <3>7
    <3> QED
      BY <2>1, <2>7, <3>1, <3>8 DEF FoundBefore
  <2> QED
    BY <2>6, <2>7
<1>9. ASSUME NEW i \in 1..K PROVE StoredRight(i)'
  <2>1. StoredRight(nth[i])
    BY <1>1, <1>6 DEF ScansRight
  <2> QED
    BY <1>6, <1>8, <2>1 DEF StoredRight
<1> QED
  BY <1>7, <1>9 DEF ScansRight

LEMMA ResultsSteps == ResultsInv /\ [ResultsNext]_resultsVars => ResultsInv'
<1> SUFFICES ASSUME ResultsInv, [ResultsNext]_resultsVars PROVE ResultsInv'
  OBVIOUS
<1>2. ScansRight'
  <2>1. CASE UNCHANGED scans
    BY <2>1 DEF ResultsInv, ScansRight, StoredRight, FoundBefore, Earlier, ScansOf, Found
  <2> QED
    BY <2>1, StoreKeeps, DeleteKeeps DEF ResultsInv, ResultsNext, resultsVars, ArchiveHost, Decide
<1>3. DecisionsTyped'
  <2>1. MaxDecisions \in Nat
    BY ResultsAssumption
  <2>2. decided' \in 0..MaxDecisions
    <3>1. \/ decided' = decided
          \/ decided < MaxDecisions /\ decided' = decided + 1
      BY DEF ResultsNext, resultsVars, StoreResults, ArchiveHost, DeleteHost, Decide
    <3>2. decided \in 0..MaxDecisions
      BY DEF ResultsInv, DecisionsTyped
    <3> QED
      BY <2>1, <3>1, <3>2
  <2>3. archived' \subseteq Host
    BY DEF ResultsInv, DecisionsTyped, ResultsNext, resultsVars, StoreResults, ArchiveHost, DeleteHost, Decide
  <2>4. decision' \in [Host -> [Prints -> TriageStates \cup {"no row"}]]
    <3>1. decision \in [Host -> [Prints -> TriageStates \cup {"no row"}]]
      BY DEF ResultsInv, DecisionsTyped
    <3>2. \/ decision' = decision
          \/ \E h \in Host, p \in Prints, state \in TriageStates :
               decision' = [decision EXCEPT ![h][p] = state]
          \/ \E h \in Host : decision' = [decision EXCEPT ![h] = [p \in Prints |-> "no row"]]
      BY DEF ResultsNext, resultsVars, StoreResults, ArchiveHost, DeleteHost, Decide
    <3>3. ASSUME NEW h \in Host, NEW p \in Prints, NEW state \in TriageStates,
                 decision' = [decision EXCEPT ![h][p] = state]
          PROVE  decision' \in [Host -> [Prints -> TriageStates \cup {"no row"}]]
      <4>1. [decision[h] EXCEPT ![p] = state] \in [Prints -> TriageStates \cup {"no row"}]
        BY <3>1
      <4> QED
        BY <3>1, <3>3, <4>1
    <3>4. ASSUME NEW h \in Host, decision' = [decision EXCEPT ![h] = [p \in Prints |-> "no row"]]
          PROVE  decision' \in [Host -> [Prints -> TriageStates \cup {"no row"}]]
      BY <3>1, <3>4
    <3> QED
      BY <3>1, <3>2, <3>3, <3>4
  <2> QED
    BY <2>2, <2>3, <2>4 DEF DecisionsTyped
<1> QED
  BY <1>2, <1>3 DEF ResultsInv

\* The diff of the n-th scan, as the sets it names.
LEMMA DiffIs ==
  ASSUME ResultsInv, NEW n \in DOMAIN scans
  PROVE  /\ DOMAIN scans[n].diff = Found(n) \cup FoundBefore(n)
         /\ \A p \in DOMAIN scans[n].diff : scans[n].diff[p] \in AnyDiff
         /\ DiffAs(n, "NEW") = Found(n) \ FoundBefore(n)
         /\ DiffAs(n, "PERSISTING") = Found(n) \cap FoundBefore(n)
         /\ DiffAs(n, "RESOLVED") = FoundBefore(n) \ Found(n)
<1>1. PICK now, before, d : /\ now = Found(n) /\ before = FoundBefore(n) /\ d = scans[n].diff
                            /\ d = Compared(now, before)
  BY ScanIs DEF ResultsInv, StoredRight
<1>2. /\ DOMAIN d = now \cup before
      /\ \A p \in now \cup before :
           /\ d[p] \in AnyDiff
           /\ d[p] = "NEW" <=> p \in now \ before
           /\ d[p] = "PERSISTING" <=> p \in now \cap before
           /\ d[p] = "RESOLVED" <=> p \in before \ now
  BY <1>1 DEF Compared, AnyDiff
<1> QED
  BY <1>1, <1>2 DEF DiffAs

\* What the n-th scan stores of a fingerprint it found.
LEMMA RowIs ==
  ASSUME ResultsInv, NEW n \in DOMAIN scans, NEW p \in Found(n)
  PROVE  LET group == {f \in scans[n].reported : FingerprintOf(f) = p} IN
         /\ IsFiniteSet(group) /\ scans[n].rows[p].occurrences = Cardinality(group)
         /\ scans[n].rows[p].severity \in Severities
         /\ \A f \in group : scans[n].rows[p].severity >= f.severity
         /\ p \in Prints /\ p \in DOMAIN scans[n].diff /\ scans[n].diff[p] \in AnyDiff
<1>1. /\ scans[n].reported \in SUBSET RawFinding /\ Found(n) \subseteq Prints
      /\ scans[n].rows = Deduplicated(scans[n].reported)
  BY ScanIs DEF ResultsInv, StoredRight
<1>2. p \in DOMAIN Deduplicated(scans[n].reported)
  BY <1>1 DEF Found
<1>3. p \in DOMAIN scans[n].diff /\ scans[n].diff[p] \in AnyDiff
  BY DiffIs
<1> QED
  BY <1>1, <1>2, <1>3, DeduplicatedIs

LEMMA NothingIsLost == ResultsInv => NothingLost
<1> SUFFICES ASSUME ResultsInv, NEW n \in DOMAIN scans
             PROVE  /\ SumFunction([p \in Found(n) |-> scans[n].rows[p].occurrences])
                         = Cardinality(scans[n].reported)
                    /\ \A f \in scans[n].reported :
                         scans[n].rows[FingerprintOf(f)].severity >= f.severity
  BY DEF NothingLost
<1>1. PICK raw \in SUBSET RawFinding :
        raw = scans[n].reported /\ Found(n) = {FingerprintOf(f) : f \in raw}
  BY ScanIs DEF ResultsInv
<1>2. IsFiniteSet(Found(n)) /\ IsFiniteSet(raw)
  BY ScanIs, ResultsAssumption, FS_Subset DEF ResultsInv
<1> DEFINE A == [p \in Found(n) |-> {f \in raw : FingerprintOf(f) = p}]
           g == [f \in raw |-> <<FingerprintOf(f), f>>]
<1>3. ASSUME NEW p \in Found(n)
      PROVE  IsFiniteSet(A[p]) /\ scans[n].rows[p].occurrences = Cardinality(A[p])
  BY <1>1, RowIs
<1>4. \A c : c \in Parts(A, Found(n)) <=> \E f \in raw : c = <<FingerprintOf(f), f>>
  <2>1. \A c : c \in Parts(A, Found(n)) <=> \E p \in Found(n) : \E f \in A[p] : c = <<p, f>>
    BY DEF Parts
  <2>2. \A p \in Found(n) : \A f : f \in A[p] <=> f \in raw /\ FingerprintOf(f) = p
    OBVIOUS
  <2> HIDE DEF A
  <2> QED
    BY <1>1, <2>1, <2>2
<1>5. [p \in Found(n) |-> scans[n].rows[p].occurrences] = [p \in Found(n) |-> Cardinality(A[p])]
  BY <1>3
<1>6. /\ g \in [raw -> Parts(A, Found(n))]
      /\ \A x, y \in raw : g[x] = g[y] => x = y
      /\ \A z \in Parts(A, Found(n)) : \E x \in raw : g[x] = z
  BY <1>4
<1> HIDE DEF A, g
<1>7. Cardinality(Parts(A, Found(n))) = Cardinality(raw)
  BY <1>2, <1>6, SameNumber
<1>8. SumFunction([p \in Found(n) |-> Cardinality(A[p])]) = Cardinality(Parts(A, Found(n)))
  BY <1>2, <1>3, SumOfParts
<1>9. \A f \in raw : scans[n].rows[FingerprintOf(f)].severity >= f.severity
  BY <1>1, RowIs
<1> QED
  BY <1>1, <1>5, <1>7, <1>8, <1>9

\* The last scan of a target before another is next to it.
LEMMA LastEarlier ==
  ASSUME ResultsInv, NEW n \in DOMAIN scans
  PROVE  /\ \A m \in DOMAIN scans : Adjacent(m, n) => m \in Earlier(n) /\ m = Max(Earlier(n))
         /\ Earlier(n) # {} =>
              /\ Max(Earlier(n)) \in Earlier(n) /\ Adjacent(Max(Earlier(n)), n)
              /\ \A k \in Earlier(n) : k <= Max(Earlier(n))
<1>1. DOMAIN scans \subseteq Nat /\ Earlier(n) \subseteq DOMAIN scans
  BY EarlierIs DEF Earlier, ScansOf, ResultsInv
<1>2. /\ Earlier(n) \subseteq Nat
      /\ Earlier(n) # {} =>
           Max(Earlier(n)) \in Earlier(n) /\ \A k \in Earlier(n) : k <= Max(Earlier(n))
  BY <1>1, EarlierIs DEF ResultsInv
<1>3. \A m : m \in Earlier(n) <=> m \in DOMAIN scans /\ scans[m].host = scans[n].host /\ m < n
  BY DEF Earlier, ScansOf
<1>4. ASSUME NEW m \in DOMAIN scans, Adjacent(m, n) PROVE m \in Earlier(n) /\ m = Max(Earlier(n))
  <2>1. m \in Earlier(n)
    BY <1>3, <1>4 DEF Adjacent
  <2>2. PICK k : k = Max(Earlier(n)) /\ k \in Earlier(n) /\ m <= k
    BY <1>2, <2>1
  <2>3. k \in DOMAIN scans /\ scans[k].host = scans[n].host /\ k < n
    BY <1>3, <2>2
  <2>4. k <= m \/ k >= n
    BY <1>4, <2>3 DEF Adjacent, ScansOf
  <2> QED
    BY <1>1, <2>1, <2>2, <2>3, <2>4
<1>5. ASSUME Earlier(n) # {} PROVE Adjacent(Max(Earlier(n)), n)
  <2>1. PICK k : k = Max(Earlier(n)) /\ k \in Earlier(n) /\ \A j \in Earlier(n) : j <= k
    BY <1>2, <1>5
  <2>2. \A j \in ScansOf(scans[n].host) : j <= k \/ j >= n
    BY <1>1, <1>3, <2>1 DEF ScansOf
  <2> QED
    BY <1>3, <2>1, <2>2 DEF Adjacent
<1> QED
  BY <1>2, <1>4, <1>5

LEMMA DiffsAreChained == ResultsInv => DiffsChain
<1> SUFFICES ASSUME ResultsInv, NEW m \in DOMAIN scans, NEW n \in DOMAIN scans, Adjacent(m, n)
             PROVE  /\ Found(n) = (Found(m) \ DiffAs(n, "RESOLVED")) \cup DiffAs(n, "NEW")
                    /\ DiffAs(n, "PERSISTING") \subseteq Found(m)
                    /\ DiffAs(n, "RESOLVED") \subseteq Found(m)
  BY DEF DiffsChain
<1>1. FoundBefore(n) = Found(m)
  BY LastEarlier DEF FoundBefore
<1>2. /\ DiffAs(n, "NEW") = Found(n) \ Found(m) /\ DiffAs(n, "RESOLVED") = Found(m) \ Found(n)
      /\ DiffAs(n, "PERSISTING") = Found(n) \cap Found(m)
  BY <1>1, DiffIs
<1> QED
  BY <1>2

LEMMA ResolvedIsShown == ResultsInv => ResolvedAreShown
<1> SUFFICES ASSUME ResultsInv, NEW n \in DOMAIN scans
             PROVE  /\ {r[2] : r \in ResolvedSince(n)} = DiffAs(n, "RESOLVED")
                    /\ \A r \in ResolvedSince(n) : Adjacent(r[1], n)
  BY DEF ResolvedAreShown
<1> DEFINE earlier(p) == {m \in Earlier(n) : p \in Found(m)}
           last == Max(Earlier(n))
<1>2. DiffAs(n, "RESOLVED") = FoundBefore(n) \ Found(n)
  BY DiffIs
<1>3. ResolvedSince(n) = {<<Max(earlier(p)), p>> : p \in {q \in DiffAs(n, "RESOLVED") : earlier(q) # {}}}
  <2>1. \A p : {m \in ScansOf(scans[n].host) : m < n /\ p \in Found(m)} = earlier(p)
    BY DEF Earlier
  <2> QED
    BY <2>1 DEF ResolvedSince, DiffAs
<1>4. ASSUME NEW p \in DiffAs(n, "RESOLVED")
      PROVE  earlier(p) # {} /\ Max(earlier(p)) = last /\ Adjacent(last, n)
  <2>1. Earlier(n) # {} /\ p \in Found(last)
    BY <1>2 DEF FoundBefore
  <2>2. last \in earlier(p) /\ Adjacent(last, n) /\ \A k \in earlier(p) : k <= last
    BY <2>1, LastEarlier
  <2>3. earlier(p) \subseteq DOMAIN scans
    BY DEF Earlier, ScansOf
  <2> HIDE DEF earlier, last
  <2>4. /\ earlier(p) \subseteq Nat /\ Max(earlier(p)) \in earlier(p)
        /\ \A k \in earlier(p) : k <= Max(earlier(p))
    BY <2>2, <2>3, EarlierIs DEF ResultsInv
  <2>5. Max(earlier(p)) <= last /\ last <= Max(earlier(p)) /\ Max(earlier(p)) \in Nat /\ last \in Nat
    BY <2>2, <2>4
  <2> QED
    BY <2>2, <2>5
<1> HIDE DEF earlier, last
<1>5. ResolvedSince(n) = {<<last, p>> : p \in DiffAs(n, "RESOLVED")}
  <2> DEFINE resolved == {q \in DiffAs(n, "RESOLVED") : earlier(q) # {}}
  <2>1. resolved = DiffAs(n, "RESOLVED")
    BY <1>4
  <2> QED
    BY <1>3, <1>4, <2>1
<1>6. ASSUME NEW r \in ResolvedSince(n) PROVE r[2] \in DiffAs(n, "RESOLVED") /\ Adjacent(r[1], n)
  BY <1>4, <1>5
<1>7. ASSUME NEW p \in DiffAs(n, "RESOLVED") PROVE \E r \in ResolvedSince(n) : r[2] = p
  <2>1. <<last, p>> \in ResolvedSince(n) /\ <<last, p>>[2] = p
    BY <1>5
  <2> QED
    BY <2>1
<1> QED
  BY <1>6, <1>7

\* A scan's findings that need work: their triage state is actionable.
ToDo(n) == {p \in Found(n) : TriageOf(scans[n].host, p) \in Actionable}
SeverityIn(n, p) == scans[n].rows[p].severity

\* The findings list and the report read the same state of a finding: the filter
\* of the one passes what the other takes.
LEMMA SameState ==
  ASSUME ResultsInv, NEW h \in Host, NEW p \in Prints, NEW states \in SUBSET TriageStates
  PROVE  /\ PassesTriage(h, p, states) <=> TriageOf(h, p) \in states
         /\ TriageOf(h, p) \in TriageStates
<1>1. decision[h][p] \in TriageStates \cup {"no row"}
  BY DEF ResultsInv, DecisionsTyped
<1>2. "no row" \notin TriageStates /\ "OPEN" \in TriageStates
  BY DEF TriageStates
<1> QED
  BY <1>1, <1>2 DEF PassesTriage, TriageOf

\* What the list shows of a set of scans, row by row.
LEMMA ListedIs ==
  ASSUME ResultsInv, NEW scope \in SUBSET DOMAIN scans, NEW severities,
         NEW states \in SUBSET TriageStates
  PROVE  \A r : r \in Listed(scope, severities, states, AnyDiff) <=>
           \E n \in scope : \E p \in Found(n) :
             r = <<n, p>> /\ SeverityIn(n, p) \in severities /\ TriageOf(scans[n].host, p) \in states
<1>1. ASSUME NEW n \in scope, NEW p \in Found(n)
      PROVE  /\ scans[n].diff[p] \in AnyDiff
             /\ PassesTriage(scans[n].host, p, states) <=> TriageOf(scans[n].host, p) \in states
  <2>1. n \in DOMAIN scans
    OBVIOUS
  <2>2. scans[n].host \in Host /\ p \in Prints /\ scans[n].diff[p] \in AnyDiff
    BY <2>1, ScanIs, RowIs DEF ResultsInv
  <2> QED
    BY <2>2, SameState
<1> QED
  BY <1>1 DEF Listed, SeverityIn

LEMMA PostureIs ==
  ASSUME ResultsInv
  PROVE  Posture \subseteq DOMAIN scans /\ IsFiniteSet(Posture)
<1>1. ASSUME NEW h, ScansOf(h) # {} PROVE Max(ScansOf(h)) \in DOMAIN scans
  <2>1. ScansOf(h) \subseteq DOMAIN scans
    BY DEF ScansOf
  <2> QED
    BY <1>1, <2>1, EarlierIs DEF ResultsInv
<1>2. Posture \subseteq DOMAIN scans
  BY <1>1 DEF Posture
<1> QED
  BY <1>2, EarlierIs DEF ResultsInv

LEMMA ToDoIs ==
  ASSUME ResultsInv, NEW n \in DOMAIN scans
  PROVE  /\ IsFiniteSet(ToDo(n)) /\ \A p \in ToDo(n) : SeverityIn(n, p) \in Severities
         /\ Summary(n, ReportFindings(n, 0, {})).actionable = Cardinality(ToDo(n))
         /\ Summary(n, ReportFindings(n, 0, {})).highest =
              IF ToDo(n) = {} THEN -1 ELSE Max({SeverityIn(n, p) : p \in ToDo(n)})
<1>1. \A p \in Found(n) : SeverityIn(n, p) \in Severities
  BY RowIs DEF SeverityIn
<1>2. ReportFindings(n, 0, {}) = Found(n)
  <2>1. \A s \in Severities : s >= 0
    BY DEF Severities
  <2> QED
    BY <1>1, <2>1 DEF ReportFindings, SeverityIn
<1>3. IsFiniteSet(ToDo(n))
  BY ScanIs, FS_Subset DEF ToDo, ResultsInv
<1>4. /\ Summary(n, Found(n)).actionable = Cardinality(ToDo(n))
      /\ Summary(n, Found(n)).highest =
           IF ToDo(n) = {} THEN -1 ELSE Max({SeverityIn(n, p) : p \in ToDo(n)})
  BY DEF Summary, ToDo, SeverityIn
<1> QED
  BY <1>1, <1>2, <1>3, <1>4 DEF ToDo

LEMMA PostureIsAgreed == ResultsInv => PostureAgrees
<1> SUFFICES ASSUME ResultsInv PROVE PostureAgrees
  OBVIOUS
<1> DEFINE todo == [n \in Posture |-> ToDo(n)]
           rows == Parts(todo, Posture)
           shown == [s \in Severities |-> Listed(Posture, {s}, Actionable, AnyDiff)]
           g == [r \in rows |-> <<SeverityIn(r[1], r[2]), r>>]
<1>1. Posture \subseteq DOMAIN scans /\ IsFiniteSet(Posture)
  BY PostureIs
<1>2. \A n \in Posture : IsFiniteSet(todo[n]) /\ \A p \in todo[n] : SeverityIn(n, p) \in Severities
  BY <1>1, ToDoIs
<1>3. \A r : r \in rows <=> \E n \in Posture : \E p \in todo[n] : r = <<n, p>>
  BY DEF Parts
<1>4. Actionable \subseteq TriageStates
  BY DEF Actionable, TriageStates
<1>5. ASSUME NEW s
      PROVE  \A r : r \in Listed(Posture, {s}, Actionable, AnyDiff) <=>
               \E n \in Posture : \E p \in todo[n] : r = <<n, p>> /\ SeverityIn(n, p) = s
  BY <1>1, <1>4, ListedIs DEF ToDo
<1>6. IsFiniteSet(rows) /\ SumFunction([n \in Posture |-> Cardinality(todo[n])]) = Cardinality(rows)
  <2> HIDE DEF todo
  <2> QED
    BY <1>1, <1>2, SumOfParts
<1>7. ASSUME NEW s PROVE IsFiniteSet(Listed(Posture, {s}, Actionable, AnyDiff))
  <2>1. Listed(Posture, {s}, Actionable, AnyDiff) \subseteq rows
    <3> HIDE DEF todo, rows
    <3>1. PICK list : list = Listed(Posture, {s}, Actionable, AnyDiff)
      OBVIOUS
    <3>2. \A r : r \in list <=>
            \E n \in Posture : \E p \in todo[n] : r = <<n, p>> /\ SeverityIn(n, p) = s
      BY <1>5, <3>1
    <3> QED
      BY <1>3, <3>1, <3>2
  <2> QED
    BY <1>6, <2>1, FS_Subset
<1>8. IsFiniteSet(Severities)
  <2>1. 0 \in Int /\ 4 \in Int
    OBVIOUS
  <2>2. IsFiniteSet(0..4)
    BY <2>1, FS_Interval
  <2> QED
    BY <2>2 DEF Severities
<1> HIDE DEF todo, rows
<1>9. SumFunction([s \in Severities |-> Cardinality(shown[s])]) = Cardinality(Parts(shown, Severities))
  <2>1. \A s \in Severities : IsFiniteSet(shown[s])
    BY <1>7
  <2> HIDE DEF shown
  <2> QED
    BY <1>8, <2>1, SumOfParts
<1>10. /\ g \in [rows -> Parts(shown, Severities)]
       /\ \A q, r \in rows : g[q] = g[r] => q = r
       /\ \A c \in Parts(shown, Severities) : \E r \in rows : g[r] = c
  <2>1. \A c : c \in Parts(shown, Severities) <=> \E s \in Severities : \E r \in shown[s] : c = <<s, r>>
    <3> HIDE DEF shown
    <3> QED
      BY DEF Parts
  <2>2. \A s \in Severities : \A r : r \in shown[s] <=>
          \E n \in Posture : \E p \in todo[n] : r = <<n, p>> /\ SeverityIn(n, p) = s
    BY <1>5
  <2> HIDE DEF shown
  <2>3. ASSUME NEW r \in rows PROVE g[r] \in Parts(shown, Severities)
    <3>1. PICK n \in Posture : \E p \in todo[n] : r = <<n, p>>
      BY <1>3
    <3>2. PICK p \in todo[n] : r = <<n, p>>
      BY <3>1
    <3>3. SeverityIn(n, p) \in Severities /\ r \in shown[SeverityIn(n, p)] /\ g[r] = <<SeverityIn(n, p), r>>
      BY <1>2, <2>2, <3>2
    <3> QED
      BY <2>1, <3>3
  <2>4. ASSUME NEW c \in Parts(shown, Severities) PROVE \E r \in rows : g[r] = c
    <3>1. PICK s \in Severities : \E r \in shown[s] : c = <<s, r>>
      BY <2>1
    <3>2. PICK r \in shown[s] : c = <<s, r>>
      BY <3>1
    <3>3. r \in rows /\ g[r] = c
      BY <1>3, <2>2, <3>2
    <3> QED
      BY <3>3
  <2>5. g \in [rows -> Parts(shown, Severities)]
    BY <2>3
  <2> QED
    BY <2>4, <2>5
<1> HIDE DEF shown, g
<1>11. Cardinality(Parts(shown, Severities)) = Cardinality(rows)
  BY <1>6, <1>10, SameNumber
<1>12. [s \in Severities |-> PostureCount(s)] = [s \in Severities |-> Cardinality(shown[s])]
  BY DEF PostureCount, shown
<1>13. [n \in Posture |-> Summary(n, ReportFindings(n, 0, {})).actionable]
         = [n \in Posture |-> Cardinality(todo[n])]
  BY <1>1, ToDoIs DEF todo
<1>14. ASSUME NEW n \in Posture, Summary(n, ReportFindings(n, 0, {})).highest >= 0
       PROVE  PostureCount(Summary(n, ReportFindings(n, 0, {})).highest) > 0
  <2> DEFINE highest == Summary(n, ReportFindings(n, 0, {})).highest
             found == {SeverityIn(n, p) : p \in ToDo(n)}
  <2>1. /\ highest = IF ToDo(n) = {} THEN -1 ELSE Max(found)
        /\ IsFiniteSet(ToDo(n)) /\ \A p \in ToDo(n) : SeverityIn(n, p) \in Severities
    BY <1>1, ToDoIs
  <2>2. highest >= 0
    BY <1>14
  <2> HIDE DEF highest, found
  <2>3. ToDo(n) # {} /\ highest = Max(found)
    BY <2>1, <2>2
  <2>4. IsFiniteSet(found) /\ found # {} /\ found \subseteq Nat
    <3> DEFINE f == [p \in ToDo(n) |-> SeverityIn(n, p)]
    <3>1. f \in Surjection(ToDo(n), found)
      BY DEF Surjection, found
    <3>2. Severities \subseteq Nat
      BY DEF Severities
    <3>3. found # {} /\ found \subseteq Nat
      BY <2>1, <2>3, <3>2 DEF found
    <3> QED
      BY <2>1, <3>1, <3>3, FS_Surjection
  <2>5. highest \in found
    BY <2>3, <2>4, MaxIs
  <2>6. PICK p \in todo[n] : SeverityIn(n, p) = highest
    BY <2>5 DEF found, todo
  <2>7. <<n, p>> \in Listed(Posture, {highest}, Actionable, AnyDiff)
    BY <1>5, <2>6
  <2>8. Cardinality(Listed(Posture, {highest}, Actionable, AnyDiff)) > 0
    <3> DEFINE list == Listed(Posture, {highest}, Actionable, AnyDiff)
    <3>1. IsFiniteSet(list) /\ list # {}
      BY <1>7, <2>7
    <3> HIDE DEF list
    <3>2. Cardinality(list) \in Nat /\ Cardinality(list) # 0
      BY <3>1, FS_CardinalityType, FS_EmptySet
    <3> QED
      BY <3>2 DEF list
  <2> QED
    BY <2>8 DEF PostureCount, highest
<1> QED
  BY <1>6, <1>9, <1>11, <1>12, <1>13, <1>14 DEF PostureAgrees

\* A report's trend ends with its own scan.
LEMMA TrendEnds == ASSUME ResultsInv, NEW n \in DOMAIN scans PROVE Max(Trend(n)) = n
<1> DEFINE upTo == {m \in ScansOf(scans[n].host) : m <= n}
<1>1. Trend(n) = {m \in upTo : Cardinality({k \in upTo : k > m}) < TrendScans}
  BY DEF Trend
<1>2. DOMAIN scans \subseteq Nat /\ upTo \subseteq DOMAIN scans /\ n \in upTo
  <2>1. DOMAIN scans \subseteq Nat
    BY EarlierIs DEF ResultsInv
  <2> QED
    BY <2>1 DEF ScansOf
<1>3. {k \in upTo : k > n} = {}
  BY <1>2
<1>4. Cardinality({k \in upTo : k > n}) < TrendScans
  BY <1>3, FS_EmptySet, ResultsAssumption
<1> DEFINE T == Trend(n)
<1>5. n \in T /\ T \subseteq DOMAIN scans /\ \A m \in T : m <= n
  BY <1>1, <1>2, <1>4
<1> HIDE DEF upTo, T
<1>6. T \subseteq Nat /\ Max(T) \in T /\ \A m \in T : m <= Max(T)
  BY <1>5, EarlierIs DEF ResultsInv
<1>7. Max(T) <= n /\ n <= Max(T) /\ Max(T) \in Nat /\ n \in Nat
  BY <1>5, <1>6
<1> QED
  BY <1>7 DEF T

LEMMA ReportsAreAgreed == ResultsInv => ReportsAgree
<1> SUFFICES ASSUME ResultsInv, NEW n \in DOMAIN scans, NEW minimum \in {f.severity : f \in RawFinding},
                    NEW states \in (SUBSET Actionable) \cup {{"FALSE_POSITIVE"}}
             PROVE  /\ Listed({n}, minimum..4, IF states = {} THEN TriageStates ELSE states, AnyDiff)
                         = {n} \X ReportFindings(n, minimum, states)
                    /\ states = {} =>
                         TrendTotal(Max(Trend(n)), minimum)
                           = Summary(n, ReportFindings(n, minimum, states)).total
                    /\ \A p \in ReportFindings(n, minimum, states) :
                         Cardinality(SeenIn(scans[n].host, p)) >= 1
  BY DEF ReportsAgree
<1> DEFINE asked == IF states = {} THEN TriageStates ELSE states
           list == Listed({n}, minimum..4, asked, AnyDiff)
           findings == ReportFindings(n, minimum, states)
<1>1. asked \in SUBSET TriageStates /\ minimum \in 0..4
  <2>1. minimum \in 0..4
    BY ResultsAssumption DEF Severities
  <2>2. Actionable \subseteq TriageStates /\ "FALSE_POSITIVE" \in TriageStates
    BY DEF Actionable, TriageStates
  <2>3. states \in SUBSET Actionable \/ states = {"FALSE_POSITIVE"}
    OBVIOUS
  <2>4. states \subseteq TriageStates
    BY <2>2, <2>3
  <2> QED
    BY <2>1, <2>4
<1>2. ASSUME NEW p \in Found(n)
      PROVE  /\ SeverityIn(n, p) \in minimum..4 <=> SeverityIn(n, p) >= minimum
             /\ TriageOf(scans[n].host, p) \in asked
                  <=> states = {} \/ TriageOf(scans[n].host, p) \in states
  <2>1. SeverityIn(n, p) \in 0..4
    BY RowIs DEF SeverityIn, Severities
  <2>2. TriageOf(scans[n].host, p) \in TriageStates
    <3>1. scans[n].host \in Host /\ p \in Prints
      BY ScanIs, RowIs DEF ResultsInv
    <3> QED
      BY <3>1, SameState
  <2>3. SeverityIn(n, p) \in minimum..4 <=> SeverityIn(n, p) >= minimum
    BY <1>1, <2>1
  <2> QED
    BY <2>2, <2>3
<1>3. \A r : r \in list <=>
        \E p \in Found(n) : /\ r = <<n, p>> /\ SeverityIn(n, p) \in minimum..4
                            /\ TriageOf(scans[n].host, p) \in asked
  <2> HIDE DEF asked
  <2>1. {n} \in SUBSET DOMAIN scans
    OBVIOUS
  <2> QED
    BY <1>1, <2>1, ListedIs
<1>4. \A p : p \in findings <=> /\ p \in Found(n) /\ SeverityIn(n, p) >= minimum
                                /\ states = {} \/ TriageOf(scans[n].host, p) \in states
  BY DEF ReportFindings, SeverityIn
<1> HIDE DEF asked, list, findings
<1>5. list = {n} \X findings
  BY <1>2, <1>3, <1>4
<1>6. ASSUME states = {}
      PROVE  TrendTotal(Max(Trend(n)), minimum) = Summary(n, findings).total
  <2>1. findings = {p \in Found(n) : scans[n].rows[p].severity >= minimum}
    BY <1>4, <1>6 DEF SeverityIn
  <2> QED
    BY <2>1, TrendEnds DEF TrendTotal, Summary
<1>7. ASSUME NEW p \in findings PROVE Cardinality(SeenIn(scans[n].host, p)) >= 1
  <2> DEFINE seen == SeenIn(scans[n].host, p)
  <2>1. n \in seen /\ seen \subseteq DOMAIN scans
    BY <1>4 DEF SeenIn, ScansOf
  <2> HIDE DEF seen
  <2>2. IsFiniteSet(seen) /\ seen # {}
    BY <2>1, EarlierIs DEF ResultsInv
  <2>3. Cardinality(seen) \in Nat /\ Cardinality(seen) # 0
    BY <2>2, FS_CardinalityType, FS_EmptySet
  <2> QED
    BY <2>3 DEF seen
<1> QED
  BY <1>5, <1>6, <1>7 DEF asked, list, findings

LEMMA ResultsAreTyped == ResultsInv => ResultsTypeOK
<1> SUFFICES ASSUME ResultsInv PROVE ResultsTypeOK
  OBVIOUS
<1>1. ASSUME NEW n \in DOMAIN scans
      PROVE  scans[n].host \in Host /\ Found(n) \subseteq Prints /\ Found(n) \subseteq DOMAIN scans[n].diff
  BY ScanIs, DiffIs DEF ResultsInv
<1> QED
  BY <1>1, Zenon DEF ResultsTypeOK, ResultsInv, DecisionsTyped

\* What is stored of a scan and what is made of it later agree.
THEOREM ResultsHold == ResultsSpec => [](ResultsTypeOK /\ ResultsAgree)
<1>1. ResultsInv => ResultsTypeOK /\ ResultsAgree
  BY ResultsAreTyped, NothingIsLost, DiffsAreChained, ResolvedIsShown, PostureIsAgreed, ReportsAreAgreed
     DEF ResultsAgree
<1> QED
  BY <1>1, ResultsStart, ResultsSteps, PTL DEF ResultsSpec

-----------------------------------------------------------------------------
(* The parts together: each behaves as it does alone. *)

LEMMA ServicesParts ==
  ServicesSpec => ReportsSpec /\ MailSpec /\ TriageSpec /\ EngineSpec /\ ResultsSpec
<1>1. ServicesInit => ReportsInit /\ MailInit /\ TriageInit /\ EngineInit /\ ResultsInit
  BY DEF ServicesInit
<1>2. [ServicesNext]_servicesVars =>
        /\ [ReportsNext]_reportVars /\ [MailNext]_mailVars
        /\ [TriageNext]_triageVars /\ [EngineNext]_engineVars /\ [ResultsNext]_resultsVars
  BY DEF ServicesNext, servicesVars
<1> QED
  BY <1>1, <1>2, PTL DEF ServicesSpec, ReportsSpec, MailSpec, TriageSpec, EngineSpec, ResultsSpec

\* The type invariants of the five parts hold when they run side by side.
THEOREM ServicesTypeHolds == ServicesSpec => []ServicesTypeOK
<1> QED
  BY ServicesParts, ReportsTypeHolds, MailTypeHolds, TriageTypeHolds, EngineTypeHolds,
     ResultsHold, PTL DEF ServicesTypeOK

\* What works behind the API keeps its promises when the parts run side by side: the
\* books of the outbox, the projection of the triage, the request budget, the kill
\* switch and the reach of the engine, and what the diffs, the postures and the
\* reports say of the findings a scan stored.
THEOREM ServicesHold ==
  ServicesSpec => [](/\ OutboxHonest /\ ProjectionIsLatest
                     /\ BudgetRespected /\ OneAfterHalt /\ CrawlCovers /\ ResultsAgree)
<1> QED
  BY ServicesParts, OutboxHolds, ProjectionHolds, BudgetHolds, HaltStops,
     CrawlHasCovered, ResultsHold, PTL

\* And the reports theirs, while no worker loses its lock in the middle of a report and
\* no answer of the queue is lost.
THEOREM ReportsKept ==
  ASSUME ReportFaults \cap {"lock_lost", "reply_lost"} = {}
  PROVE  ServicesSpec => [](RetentionKept /\ ToldOnce)
<1>1. "lock_lost" \notin ReportFaults
  OBVIOUS
<1> QED
  BY <1>1, ServicesParts, RetentionHolds, ToldOnceHolds, PTL

=============================================================================
