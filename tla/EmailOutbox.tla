------------------------------ MODULE EmailOutbox ------------------------------
(* Transactional email: one inline attempt, the outbox row that records its    *)
(* failure, and the drains that retry what is due, started by the scheduler or *)
(* by an operator. SMTP cannot join a transaction, so a delivery and the       *)
(* statement that records it are two steps.                                    *)
EXTENDS Integers, Sequences, SequencesExt, FiniteSets

CONSTANTS
  Mail,          \* messages, each sent once by the code that composes it
  Scheduled,     \* the drain the scheduler starts, one process at a time
  Operators,     \* drains started by hand (bun run email:retry)
  MaxAttempts,   \* MAX_ATTEMPTS
  BatchSize, MaxPasses,
  MailFaults,    \* the kinds of fault that may happen, "by_hand" among them
  MaxMailFaults

Drain == {Scheduled} \cup Operators

ASSUME MailAssumption ==
  /\ MaxAttempts \in Nat \ {0, 1} /\ BatchSize \in Nat \ {0}
  /\ MaxPasses \in Nat \ {0} /\ MaxMailFaults \in Nat
  /\ IsFiniteSet(Mail) /\ Scheduled \notin Operators

VARIABLES
  sender,        \* where sendEmail of each message has got to
  outbox,        \* email_outbox
  delivered,     \* how often the relay accepted each message
  drain,         \* the retry processes
  unmarked,      \* deliveries whose markSent failed or never ran
  overlapped,    \* whether two drains have run at the same time
  mailFaults

mailVars == <<sender, outbox, delivered, drain, unmarked, overlapped, mailFaults>>

NoMailRow == [status |-> "NONE", attempts |-> 0, wait |-> 0]
Terminal == {"SENT", "DEAD_LETTER"}
Stopped == [pc |-> "off", pass |-> 0, batch |-> <<>>, size |-> 0]

MailInit ==
  /\ sender = [m \in Mail |-> "new"]
  /\ outbox = [m \in Mail |-> NoMailRow]
  /\ delivered = [m \in Mail |-> 0]
  /\ drain = [d \in Drain |-> Stopped]
  /\ unmarked = [m \in Mail |-> 0] /\ overlapped = FALSE
  /\ mailFaults = 0

MailFault(kind) ==
  /\ kind \in MailFaults /\ mailFaults < MaxMailFaults
  /\ mailFaults' = mailFaults + 1

\* base * 2^(attempts - 1), in minutes.
BackoffMinutes(attempts) == 2 ^ (attempts - 1)

----------------------------------------------------------------------------
(* sendEmail: never awaited, never throws. *)

\* The relay may refuse at any time: that is what the outbox is for, and costs
\* no fault.
SendInline(m) ==
  /\ sender[m] = "new"
  /\ \/ /\ delivered' = [delivered EXCEPT ![m] = @ + 1]
        /\ sender' = [sender EXCEPT ![m] = "done"]
     \/ /\ sender' = [sender EXCEPT ![m] = "failed"]
        /\ UNCHANGED delivered
  /\ UNCHANGED <<outbox, drain, unmarked, overlapped, mailFaults>>

\* recordFailedEmail; when the insert fails too, a log line is all that is left.
RecordFailed(m) ==
  /\ sender[m] = "failed"
  /\ sender' = [sender EXCEPT ![m] = "done"]
  /\ \/ /\ outbox' = [outbox EXCEPT ![m] =
             [status |-> "FAILED", attempts |-> 1, wait |-> BackoffMinutes(1)]]
        /\ UNCHANGED mailFaults
     \/ MailFault("record_fails") /\ UNCHANGED outbox
  /\ UNCHANGED <<delivered, drain, unmarked, overlapped>>

----------------------------------------------------------------------------
(* A drain: passes over the due rows until one is not full. *)

MayStart(d) == drain[d].pc = "off"

StartDrain(d) ==
  /\ MayStart(d)
  /\ drain' = [drain EXCEPT ![d] = [Stopped EXCEPT !.pc = "query"]]
  /\ overlapped' = (overlapped \/ \E other \in Drain \ {d} : drain[other].pc # "off")
  /\ IF d = Scheduled THEN UNCHANGED mailFaults ELSE MailFault("by_hand")
  /\ UNCHANGED <<sender, outbox, delivered, unmarked>>

\* Mutant: whatever is in the outbox is due.
Due_AnyStatus == {m \in Mail : outbox[m].status # "NONE" /\ outbox[m].wait = 0}

Due == {m \in Mail : outbox[m].status = "FAILED" /\ outbox[m].wait = 0}

\* The rows are read whole here and acted on later: each carries the attempts
\* it had at the query. Order among overdue rows is left open.
SelectDue(d) ==
  /\ drain[d].pc = "query"
  /\ \E batch \in SetToSeqs(Due) :
       LET taken == SubSeq(batch, 1, IF Len(batch) < BatchSize THEN Len(batch) ELSE BatchSize)
       IN drain' = [drain EXCEPT ![d].pc = "next", ![d].size = Len(taken),
            ![d].batch = [i \in DOMAIN taken |->
                            [mail |-> taken[i], attempts |-> outbox[taken[i]].attempts]]]
  /\ UNCHANGED <<sender, outbox, delivered, unmarked, overlapped, mailFaults>>

Current(d) == drain[d].batch[1]

Deliver(d) ==
  /\ drain[d].pc = "next" /\ drain[d].batch # <<>>
  /\ \/ /\ delivered' = [delivered EXCEPT ![Current(d).mail] = @ + 1]
        /\ unmarked' = [unmarked EXCEPT ![Current(d).mail] = @ + 1]
        /\ drain' = [drain EXCEPT ![d].pc = "mark"]
     \/ /\ drain' = [drain EXCEPT ![d].pc = "count"]
        /\ UNCHANGED <<delivered, unmarked>>
  /\ UNCHANGED <<sender, outbox, overlapped, mailFaults>>

Advance(d) == [drain EXCEPT ![d].pc = "next", ![d].batch = Tail(@)]
Exists(m) == outbox[m].status # "NONE"

\* markSent; its failure is logged and the drain goes on to the next row.
MarkSent(d) == LET m == Current(d).mail IN
  /\ drain[d].pc = "mark"
  /\ \/ /\ Exists(m)
        /\ outbox' = [outbox EXCEPT ![m].status = "SENT"]
        /\ unmarked' = [unmarked EXCEPT ![m] = @ - 1]
        /\ UNCHANGED mailFaults
     \/ /\ ~Exists(m) /\ UNCHANGED <<outbox, unmarked, mailFaults>>
     \/ MailFault("mark_fails") /\ UNCHANGED <<outbox, unmarked>>
  /\ drain' = Advance(d)
  /\ UNCHANGED <<sender, delivered, overlapped>>

\* Mutant: the refusal is not counted.
Retried_Uncounted(attempts) == [status |-> "FAILED", attempts |-> attempts, wait |-> BackoffMinutes(attempts)]

\* markRetryFailed: counts from the attempts read by the query.
Retried(attempts) ==
  [status |-> IF attempts + 1 >= MaxAttempts THEN "DEAD_LETTER" ELSE "FAILED",
   attempts |-> attempts + 1, wait |-> BackoffMinutes(attempts + 1)]

\* Its failure is not caught: the drain ends there.
CountFailure(d) == LET m == Current(d).mail IN
  /\ drain[d].pc = "count"
  /\ \/ /\ Exists(m)
        /\ outbox' = [outbox EXCEPT ![m] = Retried(Current(d).attempts)]
        /\ drain' = Advance(d) /\ UNCHANGED mailFaults
     \/ /\ ~Exists(m)
        /\ drain' = [drain EXCEPT ![d] = Stopped] /\ UNCHANGED <<outbox, mailFaults>>
     \/ /\ MailFault("count_fails")
        /\ drain' = [drain EXCEPT ![d] = Stopped] /\ UNCHANGED outbox
  /\ UNCHANGED <<sender, delivered, unmarked, overlapped>>

\* Another pass while the last one was full, MAX_PASSES at most.
PassEnds(d) ==
  /\ drain[d].pc = "next" /\ drain[d].batch = <<>>
  /\ drain' = IF drain[d].size < BatchSize \/ drain[d].pass + 1 = MaxPasses
              THEN [drain EXCEPT ![d] = Stopped]
              ELSE [drain EXCEPT ![d].pc = "query", ![d].pass = @ + 1]
  /\ UNCHANGED <<sender, outbox, delivered, unmarked, overlapped, mailFaults>>

DrainDies(d) ==
  /\ drain[d].pc # "off" /\ MailFault("dies")
  /\ drain' = [drain EXCEPT ![d] = Stopped]
  /\ UNCHANGED <<sender, outbox, delivered, unmarked, overlapped>>

----------------------------------------------------------------------------
(* Time and retention. *)

MinutePasses ==
  /\ \E m \in Mail : outbox[m].wait > 0
  /\ outbox' = [m \in Mail |-> [outbox[m] EXCEPT !.wait = IF @ > 0 THEN @ - 1 ELSE 0]]
  /\ UNCHANGED <<sender, delivered, drain, unmarked, overlapped, mailFaults>>

\* purge-retention deletes terminal rows, whatever a drain still holds of them.
PurgeOutbox ==
  /\ \E m \in Mail : outbox[m].status \in Terminal
  /\ outbox' = [m \in Mail |->
       IF outbox[m].status \in Terminal THEN NoMailRow ELSE outbox[m]]
  /\ UNCHANGED <<sender, delivered, drain, unmarked, overlapped, mailFaults>>

DrainStep(d) ==
  SelectDue(d) \/ Deliver(d) \/ MarkSent(d) \/ CountFailure(d) \/ PassEnds(d)

MailNext ==
  \/ \E m \in Mail : SendInline(m) \/ RecordFailed(m)
  \/ \E d \in Drain : StartDrain(d) \/ DrainStep(d) \/ DrainDies(d)
  \/ MinutePasses \/ PurgeOutbox

----------------------------------------------------------------------------
(* Properties. *)

MailTypeOK ==
  /\ sender \in [Mail -> {"new", "failed", "done"}]
  /\ \A m \in Mail : LET row == outbox[m] IN
       /\ row.status \in Terminal \cup {"NONE", "FAILED"}
       /\ row.attempts \in 0..MaxAttempts
       /\ row.wait \in 0..BackoffMinutes(MaxAttempts)
  /\ \A d \in Drain :
       /\ drain[d].pc \in {"off", "query", "next", "mark", "count"}
       /\ drain[d].pass \in 0..MaxPasses - 1 /\ drain[d].size \in 0..BatchSize
       /\ Len(drain[d].batch) <= BatchSize

\* While drains do not overlap, a message goes out a second time only if the row
\* could not be marked after the first: what retryPendingEmails claims of its
\* at-least-once delivery.
TwiceOnlyIfUnmarked == ~overlapped => \A m \in Mail : delivered[m] <= 1 + unmarked[m]

\* A row of a delivered message is never parked, and never due again, unless its
\* mark was lost (again while drains do not overlap); attempts count the refusals, one by one.
BooksHonest == ~overlapped => \A m \in Mail :
  /\ outbox[m].status \in {"FAILED", "DEAD_LETTER"} => delivered[m] = unmarked[m]
  /\ (outbox[m].status = "DEAD_LETTER") => outbox[m].attempts = MaxAttempts

\* Both: what the outbox says of a message is what happened to it.
OutboxHonest == TwiceOnlyIfUnmarked /\ BooksHonest

\* A recorded failure is retried until the message is sent or parked: no row
\* stays due for ever behind a full batch, a dead drain or a lost mark.
MailSettles == \A m \in Mail :
  (outbox[m].status = "FAILED") ~> (outbox[m].status \in Terminal)
=============================================================================
