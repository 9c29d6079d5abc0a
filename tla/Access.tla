--------------------------------- MODULE Access ---------------------------------
(* Who may do what to whom: accounts and their administration, the targets an      *)
(* organisation has proved to control, and the addresses a scan of one may reach.  *)
(* They share no state, so a behaviour follows one of them and a run explores the  *)
(* sum of their states.                                                           *)
EXTENDS Accounts, Targets, ScopeGuard

VARIABLE area   \* the part a behaviour follows

accessVars == <<area, accountVars, targetVars, guardVars>>

AccessInit ==
  /\ area \in {"accounts", "targets", "guard"}
  /\ AccountsInit /\ TargetsInit /\ GuardInit
  /\ area # "targets" => \A o \in Origin : zone[o].ips = CHOOSE h \in Hostings : TRUE
  /\ area # "guard" => dns = CHOOSE answer \in Answers : TRUE

AccessNext ==
  /\ UNCHANGED area
  /\ \/ area = "accounts" /\ AccountsNext /\ UNCHANGED <<targetVars, guardVars>>
     \/ area = "targets" /\ TargetsNext /\ UNCHANGED <<accountVars, guardVars>>
     \/ area = "guard" /\ GuardNext /\ UNCHANGED <<accountVars, targetVars>>

AccessSpec == AccessInit /\ [][AccessNext]_accessVars

\* Type invariant of the three parts.
AccessTypeOK == AccountsTypeOK /\ TargetsTypeOK /\ GuardTypeOK
=============================================================================
