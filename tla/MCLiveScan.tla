------------------------------ MODULE MCLiveScan ------------------------------
(* Instances of LiveScan for TLC. *)
EXTENDS LiveScan

CONSTANT f1

=============================================================================
