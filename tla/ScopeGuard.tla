------------------------------- MODULE ScopeGuard -------------------------------
(* The addresses a scan may reach: the forms an address is written in, the fixed  *)
(* refusals, the administrator's blocklist and the set recorded at verification.  *)
(* They are asked when a target is verified, before a scan starts and before      *)
(* every request, of answers that DNS gives anew each time.                       *)
EXTENDS Integers, FiniteSets

CONSTANTS
  Answers,        \* what DNS may say of the target's host: sets of addresses
  Pattern,        \* what may stand in the blocklist
  Refused,        \* the numbers classifyIpv4 and classifyIpv6 refuse
  MaxMoves        \* bound on what owners and administrators do

\* Few bits stand for the 32 and the 128; 6to4 is a half of the IPv6 numbers.
Width(family) == IF family = 4 THEN 2 ELSE 3
SixToFour == 4
Numbers == [family : {4}, value : 0..3] \cup [family : {6}, value : 0..7]

\* An address as it is written: IPv4, the IPv4-mapped or -compatible IPv6 form of
\* one, the 6to4 address of one, or IPv6.
Written == [form : {"v4", "mapped", "6to4", "v6"}, n : 0..3]

ASSUME GuardAssumption ==
  /\ \A answer \in Answers : answer \subseteq Written
  /\ Refused \subseteq Numbers /\ MaxMoves \in Nat

VARIABLES
  dns,            \* the addresses the host resolves to
  listing,        \* network_blocklist: the status of each pattern
  resolved,       \* what a verification in progress has resolved and let through
  ranges,         \* verifiedIpRanges
  crawl,          \* how far a scan got, and the snapshot it took
  contacted,      \* the addresses its last request may have gone to
  moves

guardVars == <<dns, listing, resolved, ranges, crawl, contacted, moves>>

NoCrawl == [at |-> "none", ips |-> {}, list |-> {}]

GuardInit ==
  /\ dns \in Answers /\ listing = [p \in Pattern |-> "absent"]
  /\ resolved = {} /\ ranges = {} /\ crawl = NoCrawl /\ contacted = {} /\ moves = 0

----------------------------------------------------------------------------
(* The rules. *)

\* classifyAddress, normalised: mapped and compatible forms are the IPv4 address.
NumberOf(a) ==
  IF a.form \in {"v4", "mapped"} THEN [family |-> 4, value |-> a.n]
  ELSE [family |-> 6, value |-> IF a.form = "6to4" THEN SixToFour + a.n ELSE a.n]

NumbersOf(ips) == {NumberOf(a) : a \in ips}

Embedded(a) == [family |-> 4, value |-> a.n]

\* Mutant: the verdict of classifyAddress alone.
IsBlockedAddress_Verdict(a) == NumberOf(a) \in Refused

\* isBlockedAddress: also a 6to4 address of a refused IPv4 one.
IsBlockedAddress(a) ==
  NumberOf(a) \in Refused \/ (a.form = "6to4" /\ Embedded(a) \in Refused)

\* classifyResolvedAddresses: one refused address refuses the host.
AllAllowed(ips) == ips # {} /\ NumbersOf(ips) \cap Refused = {}

Network(value, hostBits) == (value \div 2 ^ hostBits) * 2 ^ hostBits

\* parseBlocklistPattern: a prefix is measured against the width of the normalised
\* base, a range has two ends of one family in order; REGEX is not offered.
Evaluable(p) ==
  \/ p.type = "HOST_SUFFIX"
  \/ p.type = "CIDR" /\ p.bits <= Width(NumberOf(p.base).family)
  \/ /\ p.type = "IP_RANGE" /\ NumberOf(p.from).family = NumberOf(p.to).family
     /\ NumberOf(p.from).value <= NumberOf(p.to).value

\* The matchers: a hostname or an address that hits.
Hits(p, named, numbers) ==
  \/ p.type = "HOST_SUFFIX" /\ named /\ p.coversHost
  \/ /\ p.type = "CIDR"
     /\ LET base == NumberOf(p.base)  hostBits == Width(base.family) - p.bits
        IN \E x \in numbers : /\ x.family = base.family
                              /\ Network(x.value, hostBits) = Network(base.value, hostBits)
  \/ /\ p.type = "IP_RANGE"
     /\ \E x \in numbers : /\ x.family = NumberOf(p.from).family
                            /\ x.value \in NumberOf(p.from).value..NumberOf(p.to).value

\* matchBlocklist: an entry that cannot be evaluated blocks.
MatchBlocklist(named, numbers, list) == \E p \in list : ~Evaluable(p) \/ Hits(p, named, numbers)

\* ipsMatchVerified: every address; an empty set admits none.
WithinVerified(ips, verified) == ips # {} /\ NumbersOf(ips) \subseteq verified

\* Mutant: the guard matches addresses only.
Evaluate_NoHost(ips, verified, list) ==
  /\ verified # {} /\ ips # {} /\ \A a \in ips : ~IsBlockedAddress(a)
  /\ ~MatchBlocklist(FALSE, NumbersOf(ips), list) /\ WithinVerified(ips, verified)

\* evaluate, from the verified set on; what comes before is the engine's.
Evaluate(ips, verified, list) ==
  /\ verified # {} /\ ips # {} /\ \A a \in ips : ~IsBlockedAddress(a)
  /\ ~MatchBlocklist(TRUE, NumbersOf(ips), list) /\ WithinVerified(ips, verified)

Active == {p \in Pattern : listing[p] = "active"}

\* isScannable, of what it says about addresses.
Scannable == ranges # {} /\ ~MatchBlocklist(TRUE, ranges, Active)

----------------------------------------------------------------------------
(* The owner and the administrators. *)

Move == moves < MaxMoves /\ moves' = moves + 1

OwnerMoves ==
  /\ \E answer \in Answers : answer # dns /\ dns' = answer
  /\ Move /\ UNCHANGED <<listing, resolved, ranges, crawl, contacted>>

\* createBlocklistEntry refuses what cannot be evaluated; a row written around it
\* is the other way in.
AddPattern(p) ==
  /\ listing[p] = "absent" /\ (Evaluable(p) \/ p.type = "REGEX")
  /\ listing' = [listing EXCEPT ![p] = "active"]
  /\ Move /\ UNCHANGED <<dns, resolved, ranges, crawl, contacted>>

\* updateBlocklistEntry, deleteBlocklistEntry
ChangePattern(p) ==
  /\ listing[p] # "absent"
  /\ \E status \in {"absent", "active", "inactive"} \ {listing[p]} :
       listing' = [listing EXCEPT ![p] = status]
  /\ Move /\ UNCHANGED <<dns, resolved, ranges, crawl, contacted>>

----------------------------------------------------------------------------
(* Verification: resolved and let through once, recorded after the challenge. *)

ClassifyOrigin ==
  /\ resolved = {} /\ AllAllowed(dns) /\ ~MatchBlocklist(TRUE, NumbersOf(dns), Active)
  /\ resolved' = dns
  /\ UNCHANGED <<dns, listing, ranges, crawl, contacted, moves>>

\* The challenge may fail; then the ranges stay as they were.
EndVerification ==
  /\ resolved # {} /\ resolved' = {}
  /\ ranges' \in {ranges, NumbersOf(resolved)}
  /\ UNCHANGED <<dns, listing, crawl, contacted, moves>>

----------------------------------------------------------------------------
(* A scan: admitted by the API, picked up, run from a snapshot. *)

AdmitScan ==
  /\ crawl.at = "none" /\ Scannable
  /\ crawl' = [NoCrawl EXCEPT !.at = "admitted"]
  /\ UNCHANGED <<dns, listing, resolved, ranges, contacted, moves>>

\* discover reads the scan and its target; the factory then reads the blocklist.
ReadTarget ==
  /\ crawl.at = "admitted"
  /\ crawl' = [crawl EXCEPT !.at = "read", !.ips = ranges]
  /\ UNCHANGED <<dns, listing, resolved, ranges, contacted, moves>>

LoadBlocklist ==
  /\ crawl.at = "read"
  /\ crawl' = [crawl EXCEPT !.at = "runs", !.list = Active]
  /\ UNCHANGED <<dns, listing, resolved, ranges, contacted, moves>>

\* authorize resolves anew and evaluates; dispatch pins to one of those addresses.
Request ==
  /\ crawl.at = "runs"
  /\ contacted' = IF Evaluate(dns, crawl.ips, crawl.list) THEN dns ELSE {}
  /\ UNCHANGED <<dns, listing, resolved, ranges, crawl, moves>>

EndScan ==
  /\ crawl.at # "none" /\ crawl' = NoCrawl /\ contacted' = {}
  /\ UNCHANGED <<dns, listing, resolved, ranges, moves>>

GuardNext ==
  \/ OwnerMoves \/ \E p \in Pattern : AddPattern(p) \/ ChangePattern(p)
  \/ ClassifyOrigin \/ EndVerification
  \/ AdmitScan \/ ReadTarget \/ LoadBlocklist \/ Request \/ EndScan

GuardSpec == GuardInit /\ [][GuardNext]_guardVars

----------------------------------------------------------------------------
(* Properties. *)

GuardTypeOK ==
  /\ dns \in Answers /\ listing \in [Pattern -> {"absent", "active", "inactive"}]
  /\ resolved \subseteq Written /\ ranges \subseteq Numbers /\ contacted \subseteq Written
  /\ crawl.at \in {"none", "admitted", "read", "runs"} /\ crawl.ips \subseteq Numbers
  /\ crawl.list \subseteq Pattern /\ moves \in 0..MaxMoves

\* Whatever DNS answers and whenever the blocklist or the recorded addresses change,
\* a request goes only to an address the verification recorded, that neither is
\* refused nor leads to a refused one, and that nothing listed when the run began
\* covers (authorize, evaluate).
ContactsPermitted ==
  \A a \in contacted :
    /\ NumberOf(a) \in crawl.ips \ Refused
    /\ a.form = "6to4" => Embedded(a) \notin Refused
    /\ \A p \in crawl.list : Evaluable(p) /\ ~Hits(p, TRUE, {NumberOf(a)})

\* "One implementation, so those answers cannot disagree": while DNS says what was
\* verified, the guard admits exactly the targets the API calls scannable, a 6to4
\* address of a refused one apart, which only the guard looks into.
AnswersAgree ==
  NumbersOf(dns) = ranges /\ ~(\E a \in dns : a.form = "6to4" /\ Embedded(a) \in Refused)
    => (Scannable <=> Evaluate(dns, ranges, Active))
=============================================================================
