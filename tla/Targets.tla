-------------------------------- MODULE Targets --------------------------------
(* Registration of targets, the challenge that proves control of an origin, the *)
(* limits on how often it may be asked, the administrator's blocklist, and the  *)
(* verdict whether a target may be scanned.                                     *)
(*                                                                              *)
(* A handler reads its row once and acts on that copy across Redis calls, DNS   *)
(* and an HTTP probe; each of them is a step, and the owner of the origin, the  *)
(* administrator and other requests move between them.                          *)
EXTENDS Integers, FiniteSets

CONSTANTS
  Origin,          \* canonical origins, all of one organisation
  Address,
  Hostings,        \* the sets of addresses an origin may resolve to
  Private,         \* those classifyAddress refuses
  Entry,           \* blocklist entries, each a CIDR over one address
  Covers,          \* [Entry -> Address]
  Verifier,        \* POST /targets/:id/verify requests
  Registrar,       \* other requests to the targets router
  MaxPerHour,      \* MAX_ATTEMPTS_PER_HOUR
  MaxInFlight,     \* MAX_CONCURRENT_PER_ORG
  ValidDays,       \* VERIFICATION_VALIDITY_DAYS
  LastDay,         \* bound of the calendar
  MaxRows,         \* bound on the registrations of one origin
  MaxAttempts,     \* bound on the verify requests sent
  MaxOutside,      \* bound on what happens around the verify requests
  TargetFaults,    \* kinds of fault: "redis", "dies"
  MaxTargetFaults,
  NoOrigin

ASSUME TargetsAssumption ==
  /\ Hostings \subseteq SUBSET Address /\ Hostings # {}
  /\ Private \subseteq Address /\ Covers \in [Entry -> Address]
  /\ NoOrigin \notin Origin /\ IsFiniteSet(Origin) /\ IsFiniteSet(Address)
  /\ \A n \in {MaxPerHour, MaxInFlight, ValidDays, LastDay, MaxRows,
               MaxAttempts, MaxOutside, MaxTargetFaults} : n \in Nat

VARIABLES
  target,        \* the row of each origin
  registrar,     \* what each registrar has read
  zone,          \* the owner's DNS and web server: addresses and token served
  blocklist,     \* status of each entry
  verifier,      \* the verify requests
  limiter,       \* the Redis keys: cooldown, hourly, inflight (count and TTL)
  proofs,        \* every challenge that succeeded: registration, addresses, day
  day, attempts, outside, targetFaults

targetVars == <<target, registrar, zone, blocklist, verifier, limiter,
                proofs, day, attempts, outside, targetFaults>>

\* A row's `id` counts the registrations of its origin; the token is unique to it.
NoTarget == [id |-> 0, exists |-> FALSE, status |-> "PENDING", expires |-> 0,
             ips |-> {}, archived |-> FALSE]
NoRequest == [pc |-> "idle", origin |-> NoOrigin, id |-> 0, ips |-> {}]
Unset == [count |-> 0, ttl |-> FALSE]

TargetsInit ==
  /\ target = [o \in Origin |-> NoTarget]
  /\ registrar = [r \in Registrar |-> NoRequest]
  /\ zone \in [Origin -> [ips : Hostings, token : {0}]]
  /\ blocklist = [e \in Entry |-> "absent"]
  /\ verifier = [v \in Verifier |-> NoRequest]
  /\ limiter = [cooldown |-> [o \in Origin |-> FALSE],
                hourly |-> [o \in Origin |-> Unset], inflight |-> Unset]
  /\ proofs = {} /\ day = 0 /\ attempts = 0 /\ outside = 0 /\ targetFaults = 0

TargetFault(kind) ==
  /\ kind \in TargetFaults /\ targetFaults < MaxTargetFaults
  /\ targetFaults' = targetFaults + 1

OutsideStep == outside < MaxOutside /\ outside' = outside + 1

----------------------------------------------------------------------------
(* The address gate. *)

Blocked == {Covers[e] : e \in {x \in Entry : blocklist[x] = "active"}}

\* classifyOrigin resolves the host and refuses if any address is.
Classifies(o) == zone[o].ips # {} /\ zone[o].ips \cap (Private \cup Blocked) = {}

\* isScannable, at read time, against the blocklist of that time.
IsScannable(row) ==
  /\ row.exists /\ ~row.archived
  /\ row.status = "VERIFIED" /\ row.expires > day
  /\ row.ips # {} /\ row.ips \cap Blocked = {}

----------------------------------------------------------------------------
(* Registration, scope, archive and delete. *)

UnchangedButTarget == UNCHANGED <<zone, blocklist, verifier, limiter, proofs, day, attempts, targetFaults>>

\* POST /targets: the gate, then findUnique, then create.
CheckRegistration(r, o) ==
  /\ registrar[r].pc = "idle" /\ target[o].id < MaxRows
  /\ Classifies(o) /\ ~target[o].exists
  /\ registrar' = [registrar EXCEPT ![r] = [NoRequest EXCEPT !.pc = "create", !.origin = o]]
  /\ OutsideStep /\ UNCHANGED target /\ UnchangedButTarget

\* The unique key on (organisation, origin) refuses the second of two creates.
CreateTarget(r) == LET o == registrar[r].origin IN
  /\ registrar[r].pc = "create"
  /\ target' = IF target[o].exists THEN target
               ELSE [target EXCEPT ![o] = [NoTarget EXCEPT !.id = target[o].id + 1,
                                                           !.exists = TRUE]]
  /\ registrar' = [registrar EXCEPT ![r] = NoRequest]
  /\ UNCHANGED outside /\ UnchangedButTarget

\* Archive and delete read the owned row first and then name it by id.
FindOwned(r, o) ==
  /\ registrar[r].pc = "idle" /\ target[o].exists
  /\ \E pc \in {"archive", "delete"} : registrar' = [registrar EXCEPT ![r] =
       [NoRequest EXCEPT !.pc = pc, !.origin = o, !.id = target[o].id]]
  /\ OutsideStep /\ UNCHANGED target /\ UnchangedButTarget

RowIs(o, id) == target[o].exists /\ target[o].id = id

ArchiveTarget(r) == LET o == registrar[r].origin IN
  /\ registrar[r].pc = "archive"
  /\ target' = IF RowIs(o, registrar[r].id)
               THEN [target EXCEPT ![o].archived = TRUE] ELSE target
  /\ registrar' = [registrar EXCEPT ![r] = NoRequest]
  /\ UNCHANGED outside /\ UnchangedButTarget

DeleteTarget(r) == LET o == registrar[r].origin IN
  /\ registrar[r].pc = "delete"
  /\ target' = IF RowIs(o, registrar[r].id)
               THEN [target EXCEPT ![o] = [NoTarget EXCEPT !.id = target[o].id]]
               ELSE target
  /\ registrar' = [registrar EXCEPT ![r] = NoRequest]
  /\ UNCHANGED outside /\ UnchangedButTarget

----------------------------------------------------------------------------
(* Verification. *)

VerifierAt(v, pc) == [verifier EXCEPT ![v].pc = pc]
UnchangedButLimits == UNCHANGED <<target, registrar, zone, blocklist, proofs, day,
  outside>>

\* The row is read and refused if archived; it is not read again. The cooldown
\* key is looked at in the next step and set three calls later.
StartVerify(v, o) ==
  /\ verifier[v].pc = "idle" /\ attempts < MaxAttempts
  /\ target[o].exists /\ ~target[o].archived
  /\ attempts' = attempts + 1
  /\ verifier' = [verifier EXCEPT ![v] =
       [pc |-> "cooldown", origin |-> o, id |-> target[o].id, ips |-> {}]]
  /\ UnchangedButLimits /\ UNCHANGED <<limiter, targetFaults>>

\* incrementInWindow: INCR, and EXPIRE when the key has no TTL, in one script.
Incremented(window) == [count |-> window.count + 1, ttl |-> TRUE]

\* Mutant: the counter is read and SET, which drops the expiry.
Decremented_Set(window) == [count |-> window.count - 1, ttl |-> FALSE]

Decremented(window) == [window EXCEPT !.count = @ - 1]

LookAtCooldown(v) ==
  /\ verifier[v].pc = "cooldown"
  /\ verifier' = IF limiter.cooldown[verifier[v].origin]
                 THEN [verifier EXCEPT ![v] = NoRequest] ELSE VerifierAt(v, "hourly")
  /\ UnchangedButLimits /\ UNCHANGED <<limiter, attempts, targetFaults>>

WithinHour(window) == Incremented(window).count <= MaxPerHour

CountHourly(v) == LET o == verifier[v].origin  window == limiter.hourly[o] IN
  /\ verifier[v].pc = "hourly"
  /\ limiter' = [limiter EXCEPT !.hourly[o] = Incremented(window)]
  /\ IF WithinHour(window)
     THEN verifier' = VerifierAt(v, "inflight")
     ELSE verifier' = [verifier EXCEPT ![v] = NoRequest]
  /\ UnchangedButLimits /\ UNCHANGED <<attempts, targetFaults>>

CountInFlight(v) == LET window == Incremented(limiter.inflight) IN
  /\ verifier[v].pc = "inflight"
  /\ limiter' = [limiter EXCEPT !.inflight = window]
  /\ verifier' = VerifierAt(v, IF window.count > MaxInFlight THEN "giveback" ELSE "chill")
  /\ UnchangedButLimits /\ UNCHANGED <<attempts, targetFaults>>

SetCooldown(v) ==
  /\ verifier[v].pc = "chill"
  /\ limiter' = [limiter EXCEPT !.cooldown[verifier[v].origin] = TRUE]
  /\ verifier' = VerifierAt(v, "classify")
  /\ UnchangedButLimits /\ UNCHANGED <<attempts, targetFaults>>

\* DECR, on refusal and on release: on an expired key it leaves -1 and no TTL.
GiveBack(v) ==
  /\ verifier[v].pc \in {"giveback", "release"}
  /\ limiter' = [limiter EXCEPT !.inflight = Decremented(@)]
  /\ verifier' = [verifier EXCEPT ![v] = NoRequest]
  /\ UnchangedButLimits /\ UNCHANGED <<attempts, targetFaults>>

\* Redis fails: acquiring fails closed and leaks what it counted; a release that
\* fails is swallowed.
RedisFails(v) ==
  /\ verifier[v].pc \in {"cooldown", "hourly", "inflight", "chill", "giveback", "release"}
  /\ TargetFault("redis")
  /\ verifier' = [verifier EXCEPT ![v] = NoRequest]
  /\ UnchangedButLimits /\ UNCHANGED <<limiter, attempts>>

UnchangedButVerdict == UNCHANGED <<registrar, zone, blocklist, limiter, day, attempts, outside, targetFaults>>

\* The address gate again: these are the addresses that will be committed.
ClassifyAgain(v) == LET o == verifier[v].origin IN
  /\ verifier[v].pc = "classify"
  /\ verifier' = IF Classifies(o)
                 THEN [verifier EXCEPT ![v].pc = "probe", ![v].ips = zone[o].ips]
                 ELSE VerifierAt(v, "failed")
  /\ UNCHANGED <<target, proofs>> /\ UnchangedButVerdict

\* checkDnsTxt or checkWellKnown: the token of the row as it was read.
TokenServed(v) == zone[verifier[v].origin].token = verifier[v].id

Probe(v) ==
  /\ verifier[v].pc = "probe"
  /\ IF TokenServed(v)
     THEN /\ verifier' = VerifierAt(v, "verified")
          /\ proofs' = proofs \cup {[origin |-> verifier[v].origin,
               id |-> verifier[v].id, ips |-> verifier[v].ips, day |-> day]}
     ELSE verifier' = VerifierAt(v, "failed") /\ UNCHANGED proofs
  /\ UNCHANGED target /\ UnchangedButVerdict

\* The lookup fails or times out whatever is published.
ProbeFails(v) ==
  /\ verifier[v].pc = "probe" /\ verifier' = VerifierAt(v, "failed")
  /\ UNCHANGED <<target, proofs>> /\ UnchangedButVerdict

\* Mutant: a proof extends the validity of the one before.
Verified_Extends(row, ips) ==
  [row EXCEPT !.status = "VERIFIED", !.ips = ips,
              !.expires = (IF @ > day THEN @ ELSE day) + ValidDays]

\* Both writes name the row by its id and look at nothing else of it. A row that
\* is gone makes the update throw; the slot is released either way.
Verified(row, ips) ==
  [row EXCEPT !.status = "VERIFIED", !.expires = day + ValidDays, !.ips = ips]

RecordSuccess(v) == LET o == verifier[v].origin IN
  /\ verifier[v].pc = "verified"
  /\ target' = IF RowIs(o, verifier[v].id)
               THEN [target EXCEPT ![o] = Verified(@, verifier[v].ips)] ELSE target
  /\ verifier' = VerifierAt(v, "release")
  /\ UNCHANGED proofs /\ UnchangedButVerdict

RecordFailure(v) == LET o == verifier[v].origin IN
  /\ verifier[v].pc = "failed"
  /\ target' = IF RowIs(o, verifier[v].id)
               THEN [target EXCEPT ![o].status = "FAILED"] ELSE target
  /\ verifier' = VerifierAt(v, "release")
  /\ UNCHANGED proofs /\ UnchangedButVerdict

VerifierDies(v) ==
  /\ verifier[v].pc # "idle" /\ TargetFault("dies")
  /\ verifier' = [verifier EXCEPT ![v] = NoRequest]
  /\ UnchangedButLimits /\ UNCHANGED <<limiter, attempts>>

----------------------------------------------------------------------------
(* Time, the owner of the origin, and the administrator. *)

UnchangedButLimiter == UNCHANGED <<target, registrar, zone, blocklist, verifier,
  proofs, day, attempts, targetFaults>>

CooldownEnds(o) ==
  /\ limiter.cooldown[o]
  /\ limiter' = [limiter EXCEPT !.cooldown[o] = FALSE]
  /\ OutsideStep /\ UnchangedButLimiter

HourEnds(o) ==
  /\ limiter.hourly[o].ttl
  /\ limiter' = [limiter EXCEPT !.hourly[o] = Unset]
  /\ OutsideStep /\ UnchangedButLimiter

\* 120 s after the first increment, whoever is still in flight.
InFlightExpires ==
  /\ limiter.inflight.ttl
  /\ limiter' = [limiter EXCEPT !.inflight = Unset]
  /\ UNCHANGED outside /\ UnchangedButLimiter

\* Days are long against a request: none passes between a probe and its write.
DayEnds ==
  /\ day < LastDay /\ \A v \in Verifier : verifier[v].pc # "verified"
  /\ day' = day + 1 /\ OutsideStep
  /\ UNCHANGED <<target, registrar, zone, blocklist, verifier, limiter, proofs, attempts, targetFaults>>

\* The owner publishes the token of a registration, takes it down, or moves.
OwnerChangesZone(o) ==
  /\ \/ \E id \in 0..target[o].id : zone' = [zone EXCEPT ![o].token = id]
     \/ \E ips \in Hostings : zone' = [zone EXCEPT ![o].ips = ips]
  /\ zone' # zone /\ OutsideStep
  /\ UNCHANGED <<target, registrar, blocklist, verifier, limiter, proofs,
       day, attempts, targetFaults>>

\* createBlocklistEntry, updateBlocklistEntry, deleteBlocklistEntry.
AdministerBlocklist(e) ==
  /\ \/ blocklist[e] = "absent" /\ blocklist' = [blocklist EXCEPT ![e] = "active"]
     \/ blocklist[e] = "active" /\ blocklist' = [blocklist EXCEPT ![e] = "inactive"]
     \/ blocklist[e] = "inactive" /\ blocklist' = [blocklist EXCEPT ![e] = "active"]
     \/ blocklist[e] # "absent" /\ blocklist' = [blocklist EXCEPT ![e] = "absent"]
  /\ OutsideStep
  /\ UNCHANGED <<target, registrar, zone, verifier, limiter, proofs,
       day, attempts, targetFaults>>

RegistrarStep(r) ==
  \/ \E o \in Origin : CheckRegistration(r, o) \/ FindOwned(r, o)
  \/ CreateTarget(r) \/ ArchiveTarget(r) \/ DeleteTarget(r)
VerifyStep(v) ==
  \/ LookAtCooldown(v) \/ CountHourly(v) \/ CountInFlight(v) \/ SetCooldown(v)
  \/ GiveBack(v) \/ ClassifyAgain(v) \/ Probe(v) \/ ProbeFails(v)
  \/ RecordSuccess(v) \/ RecordFailure(v)
KeysExpire == InFlightExpires \/ \E o \in Origin : CooldownEnds(o) \/ HourEnds(o)

TargetsNext ==
  \/ \E r \in Registrar : RegistrarStep(r)
  \/ \E v \in Verifier : VerifyStep(v) \/ RedisFails(v) \/ VerifierDies(v)
                          \/ \E o \in Origin : StartVerify(v, o)
  \/ KeysExpire \/ DayEnds
  \/ \E o \in Origin : OwnerChangesZone(o)
  \/ \E e \in Entry : AdministerBlocklist(e)

TargetsSpec == TargetsInit /\ [][TargetsNext]_targetVars

----------------------------------------------------------------------------
(* Properties. *)

TargetsTypeOK ==
  /\ \A o \in Origin : LET row == target[o] IN
       /\ row.id \in Nat /\ row.exists \in BOOLEAN /\ row.archived \in BOOLEAN
       /\ row.status \in {"PENDING", "VERIFIED", "FAILED"}
       /\ row.expires \in Nat /\ row.ips \in SUBSET Address
  /\ \A v \in Verifier : verifier[v].pc \in {"idle", "cooldown", "hourly",
       "inflight", "chill", "giveback", "classify", "probe", "verified", "failed",
       "release"}
  /\ blocklist \in [Entry -> {"absent", "active", "inactive"}]
  /\ limiter.cooldown \in [Origin -> BOOLEAN] /\ limiter.inflight.ttl \in BOOLEAN
  /\ day \in 0..LastDay /\ attempts \in 0..MaxAttempts

\* A target that may be scanned was proved, under this registration and within
\* the validity of a proof, for exactly the addresses a scan of it will reach:
\* over deletes and new registrations, stale reads, late failures, archives.
ScannableProven == \A o \in Origin : IsScannable(target[o]) =>
  \E p \in proofs : /\ p.origin = o /\ p.id = target[o].id
                    /\ p.ips = target[o].ips /\ day < p.day + ValidDays
                    /\ p.ips \cap Private = {}

\* A slot that is held comes back: the counter is never left above nothing without
\* an expiry, whoever died, lost Redis or gave back after the key had expired, so the
\* organisation is not locked out for ever (acquireVerificationSlot).
CounterExpires == limiter.inflight.count > 0 => limiter.inflight.ttl
=============================================================================
