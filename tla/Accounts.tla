------------------------------- MODULE Accounts -------------------------------
(* Accounts: sign-up and the organisation it creates, sign-in and the hook that *)
(* refuses a suspended account, administrators changing the accounts of others, *)
(* and the grant from the deployment host. Better Auth is external; its writes  *)
(* and this code's hooks are separate statements, and so are the checks of an   *)
(* administration request and the change it makes.                              *)
EXTENDS Integers, FiniteSets

CONSTANTS
  User,
  SignIn,          \* sign-ins, each of which may leave a session
  AdminCall,       \* administration requests in progress
  MaxChanges,      \* bound on the administration requests
  AccountFaults,   \* "hook_fails", "delete_fails", "signup_dies", "audit_fails"
  MaxAccountFaults,
  NoUser

ASSUME AccountsAssumption ==
  /\ IsFiniteSet(User) /\ NoUser \notin User /\ IsFiniteSet(AdminCall)
  /\ MaxChanges \in Nat /\ MaxAccountFaults \in Nat

VARIABLES
  account,         \* user and member rows
  signUp,          \* how far the sign-up of each account got
  signIn,          \* sign-ins in progress and the sessions they left
  adminCall,       \* administration requests
  audited,         \* suspension records written per account
  raced,           \* sign-ins that were past the hook when their user was suspended
  crossed,         \* whether two administration requests, or a suspension and a
                   \* sign-in, have been in progress at once
  granted,         \* whether the host has granted a first administrator
  changes, accountFaults

accountVars == <<account, signUp, signIn, adminCall, audited, raced, crossed,
                 granted, changes, accountFaults>>

NoAccount == [exists |-> FALSE, confirmed |-> FALSE, role |-> "ANALYST",
              twoFactor |-> FALSE, suspended |-> FALSE, member |-> FALSE]
NoSignIn == [pc |-> "none", user |-> NoUser, org |-> FALSE]
NoCall == [pc |-> "idle", actor |-> NoUser, subject |-> NoUser, op |-> "none",
           before |-> NoAccount]

AccountsInit ==
  /\ account = [u \in User |-> NoAccount]
  /\ signUp = [u \in User |-> "none"]
  /\ signIn = [i \in SignIn |-> NoSignIn]
  /\ adminCall = [q \in AdminCall |-> NoCall]
  /\ audited = [u \in User |-> [on |-> 0, off |-> 0]]
  /\ raced = {} /\ crossed = FALSE /\ granted = FALSE
  /\ changes = 0 /\ accountFaults = 0

AccountFault(kind) ==
  /\ kind \in AccountFaults /\ accountFaults < MaxAccountFaults
  /\ accountFaults' = accountFaults + 1

----------------------------------------------------------------------------
(* Sign-up: the user row, then the hook that gives it an organisation. *)

UnchangedButSignUp == UNCHANGED <<signIn, adminCall, audited, raced, crossed,
  granted, changes>>

SignUp(u) ==
  /\ signUp[u] = "none"
  /\ account' = [account EXCEPT ![u] = [NoAccount EXCEPT !.exists = TRUE]]
  /\ signUp' = [signUp EXCEPT ![u] = "hook"]
  /\ UnchangedButSignUp /\ UNCHANGED accountFaults

\* One transaction for the organisation and its member. If it fails the user is
\* deleted again (a second attempt makes another user), unless that fails too,
\* which is swallowed.
CreateOrganization(u) ==
  /\ signUp[u] = "hook"
  /\ \/ /\ account' = [account EXCEPT ![u].member = TRUE]
        /\ signUp' = [signUp EXCEPT ![u] = "done"]
        /\ UNCHANGED accountFaults
     \/ /\ AccountFault("hook_fails")
        /\ account' = [account EXCEPT ![u] = NoAccount]
        /\ signUp' = [signUp EXCEPT ![u] = "gone"]
     \/ /\ \E kind \in {"delete_fails", "signup_dies"} : AccountFault(kind)
        /\ signUp' = [signUp EXCEPT ![u] = "broken"]
        /\ UNCHANGED account
  /\ UnchangedButSignUp

\* The code arrives by mail, so not before sign-up has answered; signing in to
\* an unconfirmed account sends another.
ConfirmEmail(u) ==
  /\ signUp[u] \in {"done", "broken"} /\ ~account[u].confirmed
  /\ account' = [account EXCEPT ![u].confirmed = TRUE]
  /\ UNCHANGED <<signUp, accountFaults>> /\ UnchangedButSignUp

\* Turned on or off in the security settings.
SetTwoFactor(u) ==
  /\ \E i \in SignIn : signIn[i].pc = "session" /\ signIn[i].user = u
  /\ account' = [account EXCEPT ![u].twoFactor = ~@]
  /\ UNCHANGED <<signUp, accountFaults>> /\ UnchangedButSignUp

----------------------------------------------------------------------------
(* Sign-in: databaseHooks.session.create.before, then Better Auth's insert. *)

UnchangedButSignIn == UNCHANGED <<account, signUp, adminCall, audited, raced,
  crossed, granted, changes, accountFaults>>

MaySignIn(row) == row.exists /\ row.confirmed /\ ~row.suspended

SessionHook(i, u) ==
  /\ signIn[i].pc = "none" /\ MaySignIn(account[u])
  /\ signIn' = [signIn EXCEPT ![i] =
       [pc |-> "hooked", user |-> u, org |-> account[u].member]]
  /\ UnchangedButSignIn

InsertSession(i) ==
  /\ signIn[i].pc = "hooked"
  /\ signIn' = [signIn EXCEPT ![i].pc = "session"]
  /\ UnchangedButSignIn

\* Signing out, or the session's expiry.
EndSession(i) ==
  /\ signIn[i].pc = "session"
  /\ signIn' = [signIn EXCEPT ![i] = NoSignIn]
  /\ UNCHANGED <<account, signUp, adminCall, audited, crossed, granted, changes,
       accountFaults>>
  /\ raced' = raced \ {i}

----------------------------------------------------------------------------
(* Administration requests: requireAuth, requireAdmin, changeAccount. *)

UnchangedButCall == UNCHANGED <<signUp, granted>>
CallAt(q, pc) == [adminCall EXCEPT ![q].pc = pc]

\* requireAuth: a session with an active organisation.
Authenticate(q) ==
  /\ adminCall[q].pc = "idle" /\ changes < MaxChanges
  /\ \E i \in SignIn : /\ signIn[i].pc = "session" /\ signIn[i].org
                       /\ adminCall' = [adminCall EXCEPT ![q] =
                            [NoCall EXCEPT !.pc = "role", !.actor = signIn[i].user]]
  /\ changes' = changes + 1
  /\ crossed' = (crossed \/ \E r \in AdminCall \ {q} : adminCall[r].pc # "idle")
  /\ UNCHANGED <<account, signIn, audited, raced, accountFaults>> /\ UnchangedButCall

Guarded(q, pc, holds, next) ==
  /\ adminCall[q].pc = pc
  /\ adminCall' = IF holds THEN CallAt(q, next) ELSE [adminCall EXCEPT ![q] = NoCall]
  /\ UNCHANGED <<account, signIn, audited, raced, crossed, changes, accountFaults>>
  /\ UnchangedButCall

\* resolveRole, once per request; requireAdmin then reads the two-factor flag.
ReadRole(q) == Guarded(q, "role", account[adminCall[q].actor].role = "ADMIN", "two_factor")
RequireTwoFactor(q) ==
  Guarded(q, "two_factor", account[adminCall[q].actor].twoFactor, "find")

\* Mutant: administrators may change their own account.
MayChange_Own(actor, subject) == TRUE

MayChange(actor, subject) == subject # actor

FindUser(q) ==
  /\ adminCall[q].pc = "find"
  /\ \E u \in User, op \in {"promote", "demote", "suspend", "unsuspend"} :
       /\ MayChange(adminCall[q].actor, u) /\ account[u].exists
       /\ adminCall' = [adminCall EXCEPT ![q].pc = "apply", ![q].subject = u,
                          ![q].op = op, ![q].before = account[u]]
  /\ UNCHANGED <<account, signIn, audited, raced, crossed, changes, accountFaults>>
  /\ UnchangedButCall

\* The account is the caller's own or there is none: 409 or 404.
RefuseChange(q) ==
  /\ adminCall[q].pc = "find"
  /\ adminCall' = [adminCall EXCEPT ![q] = NoCall]
  /\ UNCHANGED <<account, signIn, audited, raced, crossed, changes, accountFaults>>
  /\ UnchangedButCall

\* Mutant: what is asked of the route is stored as the role.
RoleOf_AsAsked(op) == IF op = "promote" THEN "ADMIN" ELSE op

RoleOf(op) == IF op = "promote" THEN "ADMIN" ELSE "ANALYST"

\* changeRole compares with the row it read before; the update names the user
\* only, and throws if there is none any more.
ApplyRole(q) == LET call == adminCall[q] IN
  /\ call.pc = "apply" /\ call.op \in {"promote", "demote"}
  /\ adminCall' = [adminCall EXCEPT ![q] = NoCall]
  /\ account' = IF call.before.role = RoleOf(call.op) \/ ~account[call.subject].exists
                THEN account
                ELSE [account EXCEPT ![call.subject].role = RoleOf(call.op)]
  /\ UNCHANGED <<signIn, audited, raced, crossed, changes, accountFaults>>
  /\ UnchangedButCall

\* Mutant: suspending again is recorded again.
Suspends_Again(row) == row.exists

\* updateMany where suspendedAt is null, and every session, in one transaction.
Suspends(row) == row.exists /\ ~row.suspended

SessionsEnded(u) == [i \in SignIn |->
  IF signIn[i].user = u /\ signIn[i].pc = "session" THEN NoSignIn ELSE signIn[i]]
Hooked(u) == {i \in SignIn : signIn[i].user = u /\ signIn[i].pc = "hooked"}

ApplySuspend(q) == LET call == adminCall[q]  u == call.subject IN
  /\ call.pc = "apply" /\ call.op = "suspend"
  /\ IF Suspends(account[u])
     THEN /\ account' = [account EXCEPT ![u].suspended = TRUE]
          /\ signIn' = SessionsEnded(u)
          /\ raced' = raced \cup Hooked(u) /\ crossed' = (crossed \/ Hooked(u) # {})
          /\ adminCall' = CallAt(q, "audit")
     ELSE /\ adminCall' = [adminCall EXCEPT ![q] = NoCall]
          /\ UNCHANGED <<account, signIn, raced, crossed>>
  /\ UNCHANGED <<audited, changes, accountFaults>> /\ UnchangedButCall

ApplyUnsuspend(q) == LET call == adminCall[q]  u == call.subject IN
  /\ call.pc = "apply" /\ call.op = "unsuspend"
  /\ IF account[u].suspended
     THEN /\ account' = [account EXCEPT ![u].suspended = FALSE]
          /\ adminCall' = CallAt(q, "audit")
     ELSE adminCall' = [adminCall EXCEPT ![q] = NoCall] /\ UNCHANGED account
  /\ UNCHANGED <<signIn, audited, raced, crossed, changes, accountFaults>>
  /\ UnchangedButCall

\* writeAudit; a failed write is logged and the request answers all the same.
AuditChange(q) == LET u == adminCall[q].subject IN
  /\ adminCall[q].pc = "audit"
  /\ \/ /\ audited' = IF adminCall[q].op = "suspend"
                      THEN [audited EXCEPT ![u].on = @ + 1]
                      ELSE [audited EXCEPT ![u].off = @ + 1]
        /\ UNCHANGED accountFaults
     \/ AccountFault("audit_fails") /\ UNCHANGED audited
  /\ adminCall' = [adminCall EXCEPT ![q] = NoCall]
  /\ UNCHANGED <<account, signIn, raced, crossed, changes>> /\ UnchangedButCall

\* grantAdminFromHost: reads, refuses, updates by id.
MayGrant(row) ==
  row.exists /\ row.confirmed /\ ~row.suspended /\ row.role # "ADMIN"

GrantAdmin(u) ==
  /\ ~granted /\ MayGrant(account[u])
  /\ granted' = TRUE
  /\ account' = [account EXCEPT ![u].role = "ADMIN"]
  /\ UNCHANGED <<signUp, signIn, adminCall, audited, raced, crossed, changes,
       accountFaults>>

AdminCallStep(q) ==
  \/ Authenticate(q) \/ ReadRole(q) \/ RequireTwoFactor(q) \/ FindUser(q)
  \/ RefuseChange(q) \/ ApplyRole(q) \/ ApplySuspend(q) \/ ApplyUnsuspend(q)
  \/ AuditChange(q)

AccountsNext ==
  \/ \E u \in User : SignUp(u) \/ CreateOrganization(u) \/ ConfirmEmail(u)
                      \/ SetTwoFactor(u) \/ GrantAdmin(u)
                      \/ \E i \in SignIn : SessionHook(i, u)
  \/ \E i \in SignIn : InsertSession(i) \/ EndSession(i)
  \/ \E q \in AdminCall : AdminCallStep(q)

----------------------------------------------------------------------------
(* Properties. *)

AccountsTypeOK ==
  /\ account \in [User -> [exists : BOOLEAN, confirmed : BOOLEAN,
       role : {"ADMIN", "ANALYST"}, twoFactor : BOOLEAN, suspended : BOOLEAN,
       member : BOOLEAN]]
  /\ signUp \in [User -> {"none", "hook", "done", "broken", "gone"}]
  /\ \A i \in SignIn : signIn[i].pc \in {"none", "hooked", "session"}
  /\ \A q \in AdminCall : adminCall[q].pc \in
       {"idle", "role", "two_factor", "find", "apply", "audit"}
  /\ raced \subseteq SignIn

ActiveAdmin == \E u \in User : account[u].role = "ADMIN" /\ ~account[u].suspended

\* While requests do not cross each other, or a sign-in a suspension, no sequence
\* of them removes the last administrator who may sign in.
AdminRemains == granted /\ ~crossed => ActiveAdmin

\* A suspension is immediate: the only session a suspended account can hold is
\* one whose sign-in had passed the hook when the account was suspended.
SuspendedSignedOut == \A i \in SignIn :
  signIn[i].pc = "session" /\ account[signIn[i].user].suspended => i \in raced

\* One record for each suspension and each lifting of one, over concurrent and
\* repeated requests, apart from the records whose write failed.
Under(u, op) == Cardinality({q \in AdminCall :
  adminCall[q].pc = "audit" /\ adminCall[q].subject = u /\ adminCall[q].op = op})
SuspensionsAudited == accountFaults = 0 => \A u \in User :
  audited[u].on + Under(u, "suspend") =
    audited[u].off + Under(u, "unsuspend") + (IF account[u].suspended THEN 1 ELSE 0)

\* Both, of every history of requests, repeated and concurrent.
SuspensionsHold == SuspendedSignedOut /\ SuspensionsAudited
=============================================================================
