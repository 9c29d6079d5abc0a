----------------------------- MODULE MCScanSystem -----------------------------
(* Instances of ScanSystem for TLC. *)
EXTENDS ScanSystem, TLC

CONSTANTS s1, s2, s3, t1, t2, o1, h1, h2, h3, w1, w2, r1

\* One organisation, s1 and s2 on one target.
MCTargetOf == [s \in Scan |-> IF s \in {s1, s2} THEN t1 ELSE t2]
MCOrgOf == [t \in Target |-> o1]
Quota1 == [o \in Org |-> 1]
Quota2 == [o \in Org |-> 2]

Processes == Permutations(Handler) \cup Permutations(Worker)
=============================================================================
