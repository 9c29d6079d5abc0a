---------------------------- MODULE Access_proofs ----------------------------
(* Theorems about who may do what to whom: accounts and their administrators,     *)
(* targets and their verification, and the addresses a scan may reach.             *)
EXTENDS Access, FiniteSetTheorems, TLAPS

-----------------------------------------------------------------------------
(***************************************************************************)
(* Theorems about Accounts, for every set of users, sign-ins and requests.  *)
(***************************************************************************)

AccountsSpec == AccountsInit /\ [][AccountsNext]_accountVars

AccountRows == [exists : BOOLEAN, confirmed : BOOLEAN,
                role : {"ADMIN", "ANALYST"}, twoFactor : BOOLEAN,
                suspended : BOOLEAN, member : BOOLEAN]
Progress == {"none", "hook", "done", "broken", "gone"}
SignIns == [pc : {"none", "hooked", "session"}, user : User \cup {NoUser},
            org : BOOLEAN]
Calls == [pc : {"idle", "role", "two_factor", "find", "apply", "audit"},
          actor : User \cup {NoUser}, subject : User \cup {NoUser},
          op : {"none", "promote", "demote", "suspend", "unsuspend"},
          before : AccountRows]
Counts == [on : Nat, off : Nat]

AccountsTyped ==
  /\ account \in [User -> AccountRows]
  /\ signUp \in [User -> Progress]
  /\ signIn \in [SignIn -> SignIns]
  /\ adminCall \in [AdminCall -> Calls]
  /\ audited \in [User -> Counts]
  /\ raced \in SUBSET SignIn
  /\ crossed \in BOOLEAN /\ granted \in BOOLEAN
  /\ accountFaults \in Nat

(***************************************************************************)
(* What an edit leaves of a row and of a request.                           *)
(***************************************************************************)
Registered == [NoAccount EXCEPT !.exists = TRUE]

LEMMA NoRow ==
  /\ NoAccount \in AccountRows /\ Registered \in AccountRows
  /\ ~NoAccount.exists /\ ~NoAccount.confirmed /\ ~NoAccount.suspended
  /\ Registered.exists /\ ~Registered.confirmed /\ ~Registered.suspended
BY DEF NoAccount, Registered, AccountRows

Joined(row)    == [row EXCEPT !.member = TRUE]
Confirmed(row) == [row EXCEPT !.confirmed = TRUE]
Flipped(row)   == [row EXCEPT !.twoFactor = ~row.twoFactor]
Barred(row)   == [row EXCEPT !.suspended = TRUE]
Lifted(row)    == [row EXCEPT !.suspended = FALSE]
Titled(row, role) == [row EXCEPT !.role = role]

SameRight(new, row) == new.role = row.role /\ new.suspended = row.suspended
SameProof(new, row) == new.exists = row.exists /\ new.confirmed = row.confirmed

LEMMA RowEdited ==
  ASSUME NEW row \in AccountRows
  PROVE  /\ Joined(row) \in AccountRows
         /\ SameRight(Joined(row), row) /\ SameProof(Joined(row), row)
         /\ Confirmed(row) \in AccountRows
         /\ SameRight(Confirmed(row), row) /\ Confirmed(row).exists = row.exists
         /\ Flipped(row) \in AccountRows
         /\ SameRight(Flipped(row), row) /\ SameProof(Flipped(row), row)
         /\ Barred(row) \in AccountRows
         /\ Barred(row).suspended /\ Barred(row).role = row.role
         /\ SameProof(Barred(row), row)
         /\ Lifted(row) \in AccountRows
         /\ ~Lifted(row).suspended /\ Lifted(row).role = row.role
         /\ SameProof(Lifted(row), row)
         /\ \A role \in {"ADMIN", "ANALYST"} :
              /\ Titled(row, role) \in AccountRows /\ Titled(row, role).role = role
              /\ Titled(row, role).suspended = row.suspended
              /\ SameProof(Titled(row, role), row)
<1> USE DEF AccountRows, SameRight, SameProof
<1>1. /\ Joined(row) \in AccountRows
      /\ SameRight(Joined(row), row) /\ SameProof(Joined(row), row)
  BY DEF Joined
<1>2. /\ Confirmed(row) \in AccountRows
      /\ SameRight(Confirmed(row), row) /\ Confirmed(row).exists = row.exists
  BY DEF Confirmed
<1>3. /\ Flipped(row) \in AccountRows
      /\ SameRight(Flipped(row), row) /\ SameProof(Flipped(row), row)
  BY DEF Flipped
<1>4. /\ Barred(row) \in AccountRows /\ Barred(row).suspended
      /\ Barred(row).role = row.role /\ SameProof(Barred(row), row)
  BY DEF Barred
<1>5. /\ Lifted(row) \in AccountRows /\ ~Lifted(row).suspended
      /\ Lifted(row).role = row.role /\ SameProof(Lifted(row), row)
  BY DEF Lifted
<1>6. ASSUME NEW role \in {"ADMIN", "ANALYST"}
      PROVE  /\ Titled(row, role) \in AccountRows /\ Titled(row, role).role = role
             /\ Titled(row, role).suspended = row.suspended
             /\ SameProof(Titled(row, role), row)
  BY DEF Titled
<1> HIDE DEF AccountRows, SameRight, SameProof
<1> QED
  BY <1>1, <1>2, <1>3, <1>4, <1>5, <1>6

\* How each operation changes the accounts.
LEMMA AccountEdits ==
  /\ \A u \in User :
       /\ SignUp(u) => account' = [account EXCEPT ![u] = Registered]
       /\ CreateOrganization(u) => account' \in {account,
            [account EXCEPT ![u] = Joined(account[u])], [account EXCEPT ![u] = NoAccount]}
       /\ ConfirmEmail(u) => account' = [account EXCEPT ![u] = Confirmed(account[u])]
       /\ SetTwoFactor(u) => account' = [account EXCEPT ![u] = Flipped(account[u])]
       /\ GrantAdmin(u) => account' = [account EXCEPT ![u] = Titled(account[u], "ADMIN")]
  /\ \A q \in AdminCall : LET u == adminCall[q].subject IN
       /\ ApplyRole(q) => account' \in {account,
            [account EXCEPT ![u] = Titled(account[u], RoleOf(adminCall[q].op))]}
       /\ ApplySuspend(q) => account' \in {account, [account EXCEPT ![u] = Barred(account[u])]}
       /\ ApplyUnsuspend(q) => account' \in {account, [account EXCEPT ![u] = Lifted(account[u])]}
<1>1. \A u \in User :
       /\ SignUp(u) => account' = [account EXCEPT ![u] = Registered]
       /\ CreateOrganization(u) => account' \in {account,
            [account EXCEPT ![u] = Joined(account[u])], [account EXCEPT ![u] = NoAccount]}
       /\ ConfirmEmail(u) => account' = [account EXCEPT ![u] = Confirmed(account[u])]
       /\ SetTwoFactor(u) => account' = [account EXCEPT ![u] = Flipped(account[u])]
       /\ GrantAdmin(u) => account' = [account EXCEPT ![u] = Titled(account[u], "ADMIN")]
  BY DEF SignUp, CreateOrganization, ConfirmEmail, SetTwoFactor, GrantAdmin,
         Registered, Joined, Confirmed, Flipped, Titled
<1>2. \A q \in AdminCall : LET u == adminCall[q].subject IN
       /\ ApplyRole(q) => account' \in {account,
            [account EXCEPT ![u] = Titled(account[u], RoleOf(adminCall[q].op))]}
       /\ ApplySuspend(q) => account' \in {account, [account EXCEPT ![u] = Barred(account[u])]}
       /\ ApplyUnsuspend(q) => account' \in {account, [account EXCEPT ![u] = Lifted(account[u])]}
  BY DEF ApplyRole, ApplySuspend, ApplyUnsuspend, Titled, Barred, Lifted
<1> QED
  BY <1>1, <1>2

\* Only these touch the accounts.
LEMMA AccountsLeft ==
  ASSUME [AccountsNext]_accountVars
  PROVE  \/ UNCHANGED account
         \/ \E u \in User : \/ SignUp(u) \/ CreateOrganization(u) \/ ConfirmEmail(u)
                            \/ SetTwoFactor(u) \/ GrantAdmin(u)
         \/ \E q \in AdminCall : ApplyRole(q) \/ ApplySuspend(q) \/ ApplyUnsuspend(q)
BY DEF AccountsNext, accountVars, AdminCallStep, SessionHook, InsertSession,
       EndSession, UnchangedButSignIn, Authenticate, ReadRole, RequireTwoFactor,
       Guarded, FindUser, RefuseChange, AuditChange

LEMMA AccountsStayTyped ==
  ASSUME account \in [User -> AccountRows], [AccountsNext]_accountVars,
         \A q \in AdminCall : adminCall[q].pc = "apply" => adminCall[q].subject \in User
  PROVE  account' \in [User -> AccountRows]
<1>1. ASSUME NEW u \in User, \/ SignUp(u) \/ CreateOrganization(u) \/ ConfirmEmail(u)
                             \/ SetTwoFactor(u) \/ GrantAdmin(u)
      PROVE  account' \in [User -> AccountRows]
  <2>1. /\ {Joined(account[u]), Confirmed(account[u]), Flipped(account[u]),
            Titled(account[u], "ADMIN"), NoAccount, Registered} \subseteq AccountRows
    BY RowEdited, NoRow
  <2> QED
    BY <1>1, <2>1, AccountEdits
<1>2. ASSUME NEW q \in AdminCall, ApplyRole(q) \/ ApplySuspend(q) \/ ApplyUnsuspend(q)
      PROVE  account' \in [User -> AccountRows]
  <2>1. PICK u \in User : u = adminCall[q].subject
    BY <1>2 DEF ApplyRole, ApplySuspend, ApplyUnsuspend
  <2>2. RoleOf(adminCall[q].op) \in {"ADMIN", "ANALYST"}
    BY DEF RoleOf
  <2>3. {Titled(account[u], RoleOf(adminCall[q].op)), Barred(account[u]),
         Lifted(account[u])} \subseteq AccountRows
    BY <2>2, RowEdited
  <2> QED
    BY <1>2, <2>1, <2>3, AccountEdits
<1> QED
  BY <1>1, <1>2, AccountsLeft

LEMMA EmptyRequest ==
  NoSignIn \in SignIns /\ NoCall \in Calls /\ NoSignIn.pc = "none" /\ NoCall.pc = "idle"
<1>1. NoSignIn \in SignIns /\ NoSignIn.pc = "none"
  BY DEF NoSignIn, SignIns
<1>2. NoCall \in Calls /\ NoCall.pc = "idle"
  BY NoRow DEF NoCall, Calls
<1> QED
  BY <1>1, <1>2

LEMMA TypedInit == AccountsInit => AccountsTyped
<1> SUFFICES ASSUME AccountsInit PROVE AccountsTyped
  OBVIOUS
<1>1. audited \in [User -> Counts]
  BY DEF AccountsInit, Counts
<1>2. account \in [User -> AccountRows]
  BY NoRow DEF AccountsInit
<1>3. signIn \in [SignIn -> SignIns] /\ adminCall \in [AdminCall -> Calls]
  BY EmptyRequest DEF AccountsInit
<1> QED
  BY <1>1, <1>2, <1>3 DEF AccountsInit, AccountsTyped, Progress

LEMMA TypedStep ==
  ASSUME AccountsTyped, [AccountsNext]_accountVars,
         \A q \in AdminCall : adminCall[q].pc = "apply" => adminCall[q].subject \in User
  PROVE  AccountsTyped'
<1> USE DEF AccountsTyped, AccountFault
<1>0. account' \in [User -> AccountRows]
  BY AccountsStayTyped
<1> DEFINE Rest ==
      /\ signUp' \in [User -> Progress]
      /\ signIn' \in [SignIn -> SignIns]
      /\ adminCall' \in [AdminCall -> Calls]
      /\ audited' \in [User -> Counts]
      /\ raced' \in SUBSET SignIn
      /\ crossed' \in BOOLEAN /\ granted' \in BOOLEAN
      /\ accountFaults' \in Nat
<1>1. ASSUME NEW u \in User, \/ SignUp(u) \/ CreateOrganization(u) \/ ConfirmEmail(u)
                             \/ SetTwoFactor(u) \/ GrantAdmin(u)
      PROVE  Rest
  <2>1. signUp' \in [User -> Progress]
    BY <1>1
    DEF SignUp, CreateOrganization, ConfirmEmail, SetTwoFactor, GrantAdmin, Progress
  <2>2. accountFaults' \in Nat
    BY <1>1
    DEF SignUp, CreateOrganization, ConfirmEmail, SetTwoFactor, GrantAdmin
  <2> QED
    BY <1>1, <2>1, <2>2
    DEF SignUp, CreateOrganization, ConfirmEmail, SetTwoFactor, GrantAdmin,
        UnchangedButSignUp
<1>2. ASSUME NEW u \in User, NEW i \in SignIn, SessionHook(i, u) PROVE Rest
  <2>1. account[u].member \in BOOLEAN
    BY DEF AccountRows
  <2>2. signIn' \in [SignIn -> SignIns]
    BY <1>2, <2>1 DEF SessionHook, SignIns
  <2> QED
    BY <1>2, <2>2 DEF SessionHook, UnchangedButSignIn
<1>3. ASSUME NEW i \in SignIn, InsertSession(i) \/ EndSession(i) PROVE Rest
  <2>1. signIn' \in [SignIn -> SignIns]
    BY <1>3, EmptyRequest DEF InsertSession, EndSession, SignIns
  <2> QED
    BY <1>3, <2>1 DEF InsertSession, EndSession, UnchangedButSignIn
<1>4. ASSUME NEW q \in AdminCall, AdminCallStep(q) PROVE Rest
  <2> USE DEF UnchangedButCall
  <2>1. ASSUME NEW pc \in {"role", "two_factor", "find", "apply", "audit"},
               adminCall' = CallAt(q, pc)
        PROVE  adminCall' \in [AdminCall -> Calls]
    BY <2>1 DEF CallAt, Calls
  <2>2. CASE Authenticate(q)
    <3>1. PICK i \in SignIn :
            adminCall' = [adminCall EXCEPT ![q] =
              [NoCall EXCEPT !.pc = "role", !.actor = signIn[i].user]]
      BY <2>2 DEF Authenticate
    <3>2. signIn[i].user \in User \cup {NoUser}
      BY DEF SignIns
    <3>3. [NoCall EXCEPT !.pc = "role", !.actor = signIn[i].user] \in Calls
      BY EmptyRequest, <3>2 DEF Calls
    <3>4. crossed' \in BOOLEAN
      BY <2>2 DEF Authenticate
    <3> QED
      BY <2>2, <3>1, <3>3, <3>4 DEF Authenticate
  <2>3. CASE ReadRole(q) \/ RequireTwoFactor(q)
    <3>1. adminCall' \in [AdminCall -> Calls]
      BY <2>1, <2>3, EmptyRequest DEF ReadRole, RequireTwoFactor, Guarded
    <3> QED
      BY <2>3, <3>1 DEF ReadRole, RequireTwoFactor, Guarded
  <2>4. CASE FindUser(q)
    <3>1. PICK u \in User, op \in {"promote", "demote", "suspend", "unsuspend"} :
            adminCall' = [adminCall EXCEPT ![q].pc = "apply", ![q].subject = u,
                            ![q].op = op, ![q].before = account[u]]
      BY <2>4 DEF FindUser
    <3>2. account[u] \in AccountRows /\ adminCall[q] \in Calls
      OBVIOUS
    <3>3. [adminCall[q] EXCEPT !.pc = "apply", !.subject = u, !.op = op,
             !.before = account[u]] \in Calls
      BY <3>2 DEF Calls
    <3>4. adminCall' \in [AdminCall -> Calls]
      BY <3>1, <3>3
    <3> QED
      BY <2>4, <3>4 DEF FindUser
  <2>5. CASE RefuseChange(q) \/ ApplyRole(q)
    BY <2>5, EmptyRequest DEF RefuseChange, ApplyRole
  <2>6. CASE ApplySuspend(q)
    <3>1. signIn' \in [SignIn -> SignIns]
      BY <2>6, EmptyRequest DEF ApplySuspend, SessionsEnded
    <3>2. adminCall' \in [AdminCall -> Calls]
      BY <2>1, <2>6, EmptyRequest DEF ApplySuspend
    <3>3. raced' \in SUBSET SignIn /\ crossed' \in BOOLEAN
      BY <2>6 DEF ApplySuspend, Hooked
    <3> QED
      BY <2>6, <3>1, <3>2, <3>3 DEF ApplySuspend
  <2>7. CASE ApplyUnsuspend(q)
    <3>1. adminCall' \in [AdminCall -> Calls]
      BY <2>1, <2>7, EmptyRequest DEF ApplyUnsuspend
    <3> QED
      BY <2>7, <3>1 DEF ApplyUnsuspend
  <2>8. CASE AuditChange(q)
    <3>1. audited' \in [User -> Counts]
      BY <2>8 DEF AuditChange, Counts
    <3> QED
      BY <2>8, EmptyRequest, <3>1 DEF AuditChange
  <2> QED
    BY <1>4, <2>2, <2>3, <2>4, <2>5, <2>6, <2>7, <2>8 DEF AdminCallStep
<1>5. CASE UNCHANGED accountVars
  BY <1>5 DEF accountVars
<1>6. Rest
  BY <1>1, <1>2, <1>3, <1>4, <1>5 DEF AccountsNext
<1> QED
  BY <1>0, <1>6

(***************************************************************************)
(* Who acts.  A sign-in and a request belong to an account whose sign-up    *)
(* has answered, and that never changes again.                              *)
(***************************************************************************)
Answered(u) == signUp[u] \in {"done", "broken"}

RowsLocated ==
  \A u \in User :
    /\ account[u].confirmed => Answered(u)
    /\ account[u].exists <=> signUp[u] \in {"hook", "done", "broken"}
    /\ account[u].suspended => account[u].exists

SignInsLocated ==
  \A i \in SignIn : signIn[i].pc # "none" =>
    signIn[i].user \in User /\ Answered(signIn[i].user)

CallsLocated ==
  \A q \in AdminCall :
    /\ adminCall[q].pc # "idle" =>
         adminCall[q].actor \in User /\ Answered(adminCall[q].actor)
    /\ adminCall[q].pc \in {"apply", "audit"} =>
         adminCall[q].subject \in User /\ adminCall[q].subject # adminCall[q].actor
    /\ adminCall[q].pc = "audit" => adminCall[q].op \in {"suspend", "unsuspend"}

AccountsBase == AccountsTyped /\ RowsLocated /\ SignInsLocated /\ CallsLocated

LEMMA AnswerStays ==
  ASSUME AccountsTyped, [AccountsNext]_accountVars, NEW u \in User, Answered(u)
  PROVE  signUp'[u] \in {"done", "broken"}
<1>1. CASE UNCHANGED signUp
  BY <1>1 DEF Answered
<1>2. CASE \E v \in User : SignUp(v) \/ CreateOrganization(v)
  BY <1>2 DEF SignUp, CreateOrganization, Answered, AccountsTyped
<1> QED
  BY <1>1, <1>2
  DEF AccountsNext, accountVars, ConfirmEmail, SetTwoFactor, GrantAdmin,
      AdminCallStep, SessionHook, InsertSession, EndSession, UnchangedButSignIn,
      Authenticate, ReadRole, RequireTwoFactor, Guarded, FindUser, RefuseChange,
      ApplyRole, ApplySuspend, ApplyUnsuspend, AuditChange, UnchangedButCall

\* The parts of the step that leave sign-ups or accounts alone.
LEMMA SignUpLeft ==
  ASSUME [AccountsNext]_accountVars
  PROVE  UNCHANGED signUp \/ \E v \in User : SignUp(v) \/ CreateOrganization(v)
BY DEF AccountsNext, accountVars, ConfirmEmail, SetTwoFactor, GrantAdmin,
       AdminCallStep, SessionHook, InsertSession, EndSession, UnchangedButSignIn,
       Authenticate, ReadRole, RequireTwoFactor, Guarded, FindUser, RefuseChange,
       ApplyRole, ApplySuspend, ApplyUnsuspend, AuditChange, UnchangedButCall

LEMMA RowsLocatedStep ==
  ASSUME AccountsBase, [AccountsNext]_accountVars
  PROVE  RowsLocated'
<1> USE DEF AccountsBase, AccountsTyped, RowsLocated, Answered
<1>1. ASSUME NEW v \in User, SignUp(v) PROVE RowsLocated'
  BY <1>1, NoRow, AccountEdits DEF SignUp
<1>2. ASSUME NEW v \in User, CreateOrganization(v) PROVE RowsLocated'
  <2>1. \/ account' = [account EXCEPT ![v] = Joined(account[v])] /\ signUp' = [signUp EXCEPT ![v] = "done"]
        \/ account' = [account EXCEPT ![v] = NoAccount] /\ signUp' = [signUp EXCEPT ![v] = "gone"]
        \/ UNCHANGED account /\ signUp' = [signUp EXCEPT ![v] = "broken"]
    BY <1>2 DEF CreateOrganization, Joined
  <2>2. signUp[v] = "hook"
    BY <1>2 DEF CreateOrganization
  <2> QED
    BY <2>1, <2>2, NoRow, RowEdited DEF SameRight, SameProof
<1>3. ASSUME NEW v \in User, ConfirmEmail(v) \/ SetTwoFactor(v) \/ GrantAdmin(v)
      PROVE  RowsLocated'
  <2>1. UNCHANGED signUp /\ (ConfirmEmail(v) => signUp[v] \in {"done", "broken"})
    BY <1>3 DEF ConfirmEmail, SetTwoFactor, GrantAdmin
  <2> QED
    BY <1>3, <2>1, AccountEdits, RowEdited DEF SameRight, SameProof
<1>4. ASSUME NEW q \in AdminCall, ApplyRole(q) \/ ApplySuspend(q) \/ ApplyUnsuspend(q)
      PROVE  RowsLocated'
  <2>1. PICK u \in User : u = adminCall[q].subject
    BY <1>4 DEF ApplyRole, ApplySuspend, ApplyUnsuspend, CallsLocated
  <2>2. RoleOf(adminCall[q].op) \in {"ADMIN", "ANALYST"}
    BY DEF RoleOf
  <2>3. UNCHANGED signUp
    BY <1>4 DEF ApplyRole, ApplySuspend, ApplyUnsuspend, UnchangedButCall
  <2>4. ApplySuspend(q) /\ account' # account => account[u].exists
    BY <2>1 DEF ApplySuspend, Suspends
  <2> QED
    BY <1>4, <2>1, <2>2, <2>3, <2>4, AccountEdits, RowEdited DEF SameRight, SameProof
<1>5. CASE UNCHANGED <<account, signUp>>
  BY <1>5
<1> QED
  BY <1>1, <1>2, <1>3, <1>4, <1>5, AccountsLeft, SignUpLeft

LEMMA SignInsLocatedStep ==
  ASSUME AccountsBase, [AccountsNext]_accountVars
  PROVE  SignInsLocated'
<1> USE DEF AccountsBase, AccountsTyped, SignInsLocated, Answered
<1>1. ASSUME \A i \in SignIn : signIn'[i].pc # "none" =>
               signIn'[i].user \in User /\ Answered(signIn'[i].user)
      PROVE  SignInsLocated'
  BY <1>1, AnswerStays
<1>2. CASE UNCHANGED signIn
  BY <1>1, <1>2
<1>3. ASSUME NEW i \in SignIn, NEW u \in User, SessionHook(i, u)
      PROVE  SignInsLocated'
  <2>1. Answered(u)
    BY <1>3 DEF SessionHook, MaySignIn, RowsLocated
  <2> QED
    BY <1>1, <1>3, <2>1 DEF SessionHook
<1>4. ASSUME NEW i \in SignIn, InsertSession(i) \/ EndSession(i)
      PROVE  SignInsLocated'
  BY <1>1, <1>4, EmptyRequest DEF InsertSession, EndSession, SignIns
<1>5. ASSUME NEW q \in AdminCall, ApplySuspend(q) PROVE SignInsLocated'
  BY <1>1, <1>5, EmptyRequest DEF ApplySuspend, SessionsEnded
<1> QED
  BY <1>2, <1>3, <1>4, <1>5
  DEF AccountsNext, accountVars, SignUp, CreateOrganization, ConfirmEmail,
      SetTwoFactor, GrantAdmin, UnchangedButSignUp, AdminCallStep, Authenticate,
      ReadRole, RequireTwoFactor, Guarded, FindUser, RefuseChange, ApplyRole,
      ApplyUnsuspend, AuditChange

\* A request moves on, is over, starts for a session's user, or takes a subject.
CallMoved(q) ==
  \/ \E pc \in {"two_factor", "find"} :
       adminCall[q].pc # "idle" /\ adminCall' = CallAt(q, pc)
  \/ adminCall' = [adminCall EXCEPT ![q] = NoCall]
  \/ \E i \in SignIn : /\ signIn[i].pc = "session"
                       /\ adminCall' = [adminCall EXCEPT ![q] =
                            [NoCall EXCEPT !.pc = "role", !.actor = signIn[i].user]]
  \/ \E u \in User, op \in {"promote", "demote", "suspend", "unsuspend"} :
       /\ adminCall[q].pc = "find" /\ u # adminCall[q].actor
       /\ adminCall' = [adminCall EXCEPT ![q].pc = "apply", ![q].subject = u,
                          ![q].op = op, ![q].before = account[u]]
  \/ /\ adminCall[q].pc = "apply" /\ adminCall[q].op \in {"suspend", "unsuspend"}
     /\ adminCall' = CallAt(q, "audit")

LEMMA CallsLeft ==
  ASSUME [AccountsNext]_accountVars
  PROVE  UNCHANGED adminCall \/ \E q \in AdminCall : CallMoved(q)
<1>1. ASSUME NEW q \in AdminCall, AdminCallStep(q) PROVE CallMoved(q)
  BY <1>1
  DEF AdminCallStep, CallMoved, Authenticate, ReadRole, RequireTwoFactor, Guarded,
      FindUser, MayChange, RefuseChange, ApplyRole, ApplySuspend, ApplyUnsuspend,
      AuditChange
<1> QED
  BY <1>1
  DEF AccountsNext, accountVars, SignUp, CreateOrganization, ConfirmEmail,
      SetTwoFactor, GrantAdmin, UnchangedButSignUp, SessionHook, InsertSession,
      EndSession, UnchangedButSignIn

LEMMA CallsLocatedStep ==
  ASSUME AccountsBase, [AccountsNext]_accountVars
  PROVE  CallsLocated'
<1> USE DEF AccountsBase, AccountsTyped, CallsLocated, Answered
<1> DEFINE Kept(c) ==
      /\ c.pc # "idle" => c.actor \in User /\ Answered(c.actor)
      /\ c.pc \in {"apply", "audit"} => c.subject \in User /\ c.subject # c.actor
      /\ c.pc = "audit" => c.op \in {"suspend", "unsuspend"}
<1>1. ASSUME \A q \in AdminCall : Kept(adminCall'[q]) PROVE CallsLocated'
  BY <1>1, AnswerStays
<1>2. \A q \in AdminCall : Kept(adminCall[q])
  OBVIOUS
<1>3. ASSUME NEW q \in AdminCall, CallMoved(q) PROVE Kept(adminCall'[q])
  <2>1. CASE adminCall' = [adminCall EXCEPT ![q] = NoCall]
    BY <2>1, EmptyRequest
  <2>2. ASSUME NEW pc \in {"two_factor", "find", "audit"}, adminCall' = CallAt(q, pc),
               adminCall[q].pc # "idle",
               pc = "audit" => /\ adminCall[q].pc = "apply"
                               /\ adminCall[q].op \in {"suspend", "unsuspend"}
        PROVE  Kept(adminCall'[q])
    BY <2>2 DEF CallAt, Calls
  <2>3. ASSUME NEW i \in SignIn, signIn[i].pc = "session",
               adminCall' = [adminCall EXCEPT ![q] =
                 [NoCall EXCEPT !.pc = "role", !.actor = signIn[i].user]]
        PROVE  Kept(adminCall'[q])
    BY <2>3, EmptyRequest DEF SignInsLocated, Calls
  <2>4. ASSUME NEW u \in User, NEW op, adminCall[q].pc = "find", u # adminCall[q].actor,
               adminCall' = [adminCall EXCEPT ![q].pc = "apply", ![q].subject = u,
                               ![q].op = op, ![q].before = account[u]]
        PROVE  Kept(adminCall'[q])
    BY <2>4 DEF Calls
  <2> QED
    BY <1>3, <2>1, <2>2, <2>3, <2>4 DEF CallMoved
<1>4. ASSUME NEW q \in AdminCall, CallMoved(q), NEW r \in AdminCall \ {q}
      PROVE  adminCall'[r] = adminCall[r]
  BY <1>4 DEF CallMoved, CallAt
<1> HIDE DEF Kept
<1> QED
  BY <1>1, <1>2, <1>3, <1>4, CallsLeft

LEMMA AccountsBaseInvariant == AccountsSpec => []AccountsBase
<1>1. AccountsInit => AccountsBase
  <2> SUFFICES ASSUME AccountsInit PROVE AccountsBase
    OBVIOUS
  <2>1. RowsLocated
    BY NoRow DEF AccountsInit, RowsLocated
  <2>2. SignInsLocated /\ CallsLocated
    BY EmptyRequest DEF AccountsInit, SignInsLocated, CallsLocated
  <2> QED
    BY <2>1, <2>2, TypedInit DEF AccountsBase
<1>2. AccountsBase /\ [AccountsNext]_accountVars => AccountsBase'
  BY TypedStep, RowsLocatedStep, SignInsLocatedStep, CallsLocatedStep
  DEF AccountsBase, CallsLocated
<1> QED
  BY <1>1, <1>2, PTL DEF AccountsSpec

(***************************************************************************)
(* Suspensions.  A sign-in past the hook is in doubt as much as a session.  *)
(***************************************************************************)
SignedOut ==
  \A i \in SignIn :
    signIn[i].pc # "none" /\ account[signIn[i].user].suspended => i \in raced

\* Only a suspension suspends.
LEMMA NewlySuspended ==
  ASSUME AccountsBase, [AccountsNext]_accountVars, NEW u \in User,
         account'[u].suspended, ~account[u].suspended
  PROVE  \E q \in AdminCall : ApplySuspend(q) /\ adminCall[q].subject = u
<1> USE DEF AccountsBase, AccountsTyped
<1>1. ASSUME NEW v \in User, \/ SignUp(v) \/ CreateOrganization(v) \/ ConfirmEmail(v)
                             \/ SetTwoFactor(v) \/ GrantAdmin(v)
      PROVE  FALSE
  <2> USE AccountEdits, RowEdited DEF SameRight
  <2>1. CASE SignUp(v)
    BY <2>1, NoRow
  <2>2. CASE CreateOrganization(v)
    BY <2>2, NoRow
  <2>3. CASE ConfirmEmail(v) \/ SetTwoFactor(v)
    BY <2>3
  <2>4. CASE GrantAdmin(v)
    BY <2>4
  <2> QED
    BY <1>1, <2>1, <2>2, <2>3, <2>4
<1>2. ASSUME NEW q \in AdminCall, ApplyRole(q) \/ ApplyUnsuspend(q)
      PROVE  FALSE
  <2>1. adminCall[q].subject \in User /\ RoleOf(adminCall[q].op) \in {"ADMIN", "ANALYST"}
    BY <1>2 DEF ApplyRole, ApplyUnsuspend, CallsLocated, RoleOf
  <2> QED
    BY <1>2, <2>1, RowEdited, AccountEdits
<1>3. ASSUME NEW q \in AdminCall, ApplySuspend(q) PROVE adminCall[q].subject = u
  BY <1>3, AccountEdits
<1> QED
  BY <1>1, <1>2, <1>3, AccountsLeft

LEMMA SignedOutStep ==
  ASSUME AccountsBase, SignedOut, [AccountsNext]_accountVars
  PROVE  SignedOut'
<1> USE DEF AccountsBase, AccountsTyped, SignedOut
<1> SUFFICES ASSUME NEW i \in SignIn, signIn'[i].pc # "none",
                    account'[signIn'[i].user].suspended
             PROVE  i \in raced'
  OBVIOUS
<1>1. signIn'[i].user \in User
  BY SignInsLocatedStep DEF SignInsLocated
<1>2. ASSUME NEW q \in AdminCall, ApplySuspend(q) PROVE i \in raced'
  <2>1. CASE UNCHANGED <<account, signIn, raced>>
    BY <2>1
  <2>2. CASE /\ signIn' = SessionsEnded(adminCall[q].subject)
             /\ raced' = raced \cup Hooked(adminCall[q].subject)
    <3>1. signIn'[i] = signIn[i]
      BY <2>2, EmptyRequest DEF SessionsEnded
    <3>2. CASE signIn[i].user = adminCall[q].subject
      <4>1. signIn[i].pc = "hooked"
        BY <2>2, <3>1, <3>2, EmptyRequest DEF SessionsEnded, SignIns
      <4> QED
        BY <2>2, <3>2, <4>1 DEF Hooked
    <3>3. CASE signIn[i].user # adminCall[q].subject
      <4>1. account'[signIn[i].user] = account[signIn[i].user]
        BY <1>1, <1>2, <3>1, <3>3, AccountEdits
      <4> QED
        BY <2>2, <3>1, <4>1
    <3> QED
      BY <3>2, <3>3
  <2> QED
    BY <1>2, <2>1, <2>2 DEF ApplySuspend
<1>3. CASE ~\E q \in AdminCall : ApplySuspend(q)
  <2>1. account[signIn'[i].user].suspended
    BY <1>1, <1>3, NewlySuspended
  <2>2. CASE UNCHANGED <<signIn, raced>>
    BY <2>1, <2>2
  <2>3. ASSUME NEW j \in SignIn, NEW u \in User, SessionHook(j, u) PROVE i \in raced'
    BY <2>1, <2>3 DEF SessionHook, MaySignIn, UnchangedButSignIn
  <2>4. ASSUME NEW j \in SignIn, InsertSession(j) \/ EndSession(j) PROVE i \in raced'
    <3>1. CASE InsertSession(j)
      BY <2>1, <2>4, <3>1 DEF InsertSession, UnchangedButSignIn, SignIns
    <3>2. CASE EndSession(j)
      BY <2>1, <2>4, <3>2, EmptyRequest DEF EndSession
    <3> QED
      BY <2>4, <3>1, <3>2
  <2> QED
    BY <1>3, <2>2, <2>3, <2>4
    DEF AccountsNext, accountVars, SignUp, CreateOrganization, ConfirmEmail,
        SetTwoFactor, GrantAdmin, UnchangedButSignUp, AdminCallStep, Authenticate,
        ReadRole, RequireTwoFactor, Guarded, FindUser, RefuseChange, ApplyRole,
        ApplyUnsuspend, AuditChange
<1> QED
  BY <1>2, <1>3

(***************************************************************************)
(* The last administrator.                                                  *)
(***************************************************************************)
Entitled(u) == account[u].role = "ADMIN" /\ ~account[u].suspended

\* While nothing crossed, one request is in progress, its actor may sign in and,
\* once its role was read, is an administrator; and there is one to begin with.
Orderly ==
  ~crossed =>
    /\ raced = {}
    /\ \A q, r \in AdminCall :
         adminCall[q].pc # "idle" /\ adminCall[r].pc # "idle" => q = r
    /\ \A q \in AdminCall :
         /\ adminCall[q].pc # "idle" => ~account[adminCall[q].actor].suspended
         /\ adminCall[q].pc \in {"two_factor", "find", "apply"} =>
              account[adminCall[q].actor].role = "ADMIN"
    /\ granted => \E u \in User : Answered(u) /\ Entitled(u)

AccountsInv == AccountsBase /\ SignedOut /\ Orderly

\* Whoever does not sign up and is not the subject of a change keeps role and
\* standing, or gains the role.
LEMMA OthersKeep ==
  ASSUME AccountsBase, [AccountsNext]_accountVars, NEW u \in User, Answered(u),
         \A q \in AdminCall : adminCall[q].pc = "apply" => adminCall[q].subject # u
  PROVE  /\ account'[u].suspended = account[u].suspended
         /\ account[u].role = "ADMIN" => account'[u].role = "ADMIN"
<1> USE DEF AccountsBase, AccountsTyped
<1>1. ASSUME NEW v \in User, SignUp(v) \/ CreateOrganization(v)
      PROVE  account'[u] = account[u]
  BY <1>1, AccountEdits DEF SignUp, CreateOrganization, Answered
<1>2. ASSUME NEW v \in User, ConfirmEmail(v) \/ SetTwoFactor(v) \/ GrantAdmin(v)
      PROVE  /\ account'[u].suspended = account[u].suspended
             /\ account[u].role = "ADMIN" => account'[u].role = "ADMIN"
  BY <1>2, RowEdited, AccountEdits DEF SameRight
<1>3. ASSUME NEW q \in AdminCall, ApplyRole(q) \/ ApplySuspend(q) \/ ApplyUnsuspend(q)
      PROVE  account'[u] = account[u]
  <2>1. adminCall[q].subject # u
    BY <1>3 DEF ApplyRole, ApplySuspend, ApplyUnsuspend
  <2> QED
    BY <1>3, <2>1, AccountEdits
<1> QED
  BY <1>1, <1>2, <1>3, AccountsLeft

\* What crossed stays crossed, and what is raced did.
LEMMA CrossedStays ==
  ASSUME AccountsTyped, [AccountsNext]_accountVars, ~crossed'
  PROVE  /\ ~crossed
         /\ raced' \subseteq raced
         /\ \A q \in AdminCall : Authenticate(q) =>
              \A r \in AdminCall \ {q} : adminCall[r].pc = "idle"
<1>1. ASSUME NEW q \in AdminCall, Authenticate(q)
      PROVE  /\ ~crossed /\ raced' \subseteq raced
             /\ \A r \in AdminCall \ {q} : adminCall[r].pc = "idle"
  BY <1>1 DEF Authenticate, AccountsTyped
<1>2. ASSUME NEW q \in AdminCall, ApplySuspend(q)
      PROVE  ~crossed /\ raced' \subseteq raced
  BY <1>2 DEF ApplySuspend, AccountsTyped
<1>3. ASSUME NEW i \in SignIn, EndSession(i) PROVE ~crossed /\ raced' \subseteq raced
  BY <1>3 DEF EndSession
<1>4. CASE UNCHANGED <<crossed, raced>>
  BY <1>1, <1>4
<1> QED
  BY <1>1, <1>2, <1>3, <1>4
  DEF AccountsNext, accountVars, SignUp, CreateOrganization, ConfirmEmail,
      SetTwoFactor, GrantAdmin, UnchangedButSignUp, SessionHook, InsertSession,
      UnchangedButSignIn, AdminCallStep, ReadRole, RequireTwoFactor, Guarded,
      FindUser, RefuseChange, ApplyRole, ApplyUnsuspend, AuditChange

\* Where a request in progress comes from.
LEMMA CallComesFrom ==
  ASSUME AccountsBase, [AccountsNext]_accountVars, NEW q \in AdminCall,
         adminCall'[q].pc # "idle"
  PROVE  \/ /\ Authenticate(q) /\ adminCall'[q].pc = "role" /\ UNCHANGED account
            /\ \E i \in SignIn : /\ signIn[i].pc = "session"
                                 /\ adminCall'[q].actor = signIn[i].user
         \/ /\ adminCall[q].pc # "idle" /\ adminCall'[q].actor = adminCall[q].actor
            /\ adminCall'[q].pc \in {"two_factor", "find", "apply"} =>
                 \/ adminCall[q].pc \in {"two_factor", "find", "apply"}
                 \/ account[adminCall[q].actor].role = "ADMIN"
<1> USE DEF AccountsBase, AccountsTyped
<1>1. CASE UNCHANGED adminCall
  BY <1>1
<1>2. ASSUME NEW r \in AdminCall \ {q}, AdminCallStep(r) PROVE adminCall'[q] = adminCall[q]
  BY <1>2
  DEF AdminCallStep, Authenticate, ReadRole, RequireTwoFactor, Guarded, FindUser,
      RefuseChange, ApplyRole, ApplySuspend, ApplyUnsuspend, AuditChange, CallAt
<1>3. CASE Authenticate(q)
  <2>1. PICK i \in SignIn :
          /\ signIn[i].pc = "session"
          /\ adminCall' = [adminCall EXCEPT ![q] =
               [NoCall EXCEPT !.pc = "role", !.actor = signIn[i].user]]
    BY <1>3 DEF Authenticate
  <2>2. adminCall'[q].pc = "role" /\ adminCall'[q].actor = signIn[i].user
    BY <2>1, EmptyRequest DEF Calls
  <2> QED
    BY <1>3, <2>1, <2>2 DEF Authenticate
<1>4. CASE ReadRole(q) \/ RequireTwoFactor(q)
  BY <1>4, EmptyRequest DEF ReadRole, RequireTwoFactor, Guarded, CallAt, Calls
<1>5. CASE FindUser(q)
  <2>1. PICK u \in User, op \in {"promote", "demote", "suspend", "unsuspend"} :
          adminCall' = [adminCall EXCEPT ![q].pc = "apply", ![q].subject = u,
                          ![q].op = op, ![q].before = account[u]]
    BY <1>5 DEF FindUser
  <2>2. adminCall[q].pc = "find"
    BY <1>5 DEF FindUser
  <2>3. adminCall'[q].actor = adminCall[q].actor
    BY <2>1 DEF Calls
  <2> QED
    BY <2>2, <2>3
<1>6. CASE RefuseChange(q) \/ ApplyRole(q) \/ AuditChange(q)
  BY <1>6, EmptyRequest DEF RefuseChange, ApplyRole, AuditChange
<1>7. CASE ApplySuspend(q) \/ ApplyUnsuspend(q)
  BY <1>7, EmptyRequest DEF ApplySuspend, ApplyUnsuspend, CallAt, Calls
<1> QED
  BY <1>1, <1>2, <1>3, <1>4, <1>5, <1>6, <1>7
  DEF AccountsNext, accountVars, SignUp, CreateOrganization, ConfirmEmail,
      SetTwoFactor, GrantAdmin, UnchangedButSignUp, SessionHook, InsertSession,
      EndSession, UnchangedButSignIn, AdminCallStep

LEMMA OrderlyStep ==
  ASSUME AccountsInv, [AccountsNext]_accountVars
  PROVE  Orderly'
<1> USE DEF AccountsInv
<1> SUFFICES ASSUME ~crossed' PROVE Orderly'
  BY DEF Orderly
<1>0. AccountsBase /\ AccountsTyped /\ CallsLocated /\ SignInsLocated
  BY DEF AccountsBase
<1>1. ~crossed /\ raced = {} /\ raced' = {}
  BY <1>0, CrossedStays DEF Orderly
<1>2. \A q, r \in AdminCall :
        adminCall[q].pc # "idle" /\ adminCall[r].pc # "idle" => q = r
  BY <1>1 DEF Orderly
<1>3. ASSUME NEW q \in AdminCall, NEW r \in AdminCall,
             adminCall'[q].pc # "idle", adminCall'[r].pc # "idle"
      PROVE  q = r
  <2>1. ASSUME NEW a \in AdminCall, NEW b \in AdminCall, a # b, Authenticate(a),
               adminCall'[b].pc # "idle"
        PROVE  FALSE
    <3>1. adminCall[b].pc = "idle"
      BY <1>0, <2>1, CrossedStays
    <3>2. adminCall'[b] = adminCall[b]
      BY <2>1 DEF Authenticate
    <3> QED
      BY <2>1, <3>1, <3>2
  <2>2. Authenticate(q) \/ adminCall[q].pc # "idle"
    BY <1>0, <1>3, CallComesFrom
  <2>3. Authenticate(r) \/ adminCall[r].pc # "idle"
    BY <1>0, <1>3, CallComesFrom
  <2> QED
    BY <1>2, <1>3, <2>1, <2>2, <2>3
\* The actor of a request that goes on keeps role and standing.
<1>4. ASSUME NEW q \in AdminCall, adminCall[q].pc # "idle"
      PROVE  LET u == adminCall[q].actor IN
             /\ u \in User /\ Answered(u) /\ ~account'[u].suspended
             /\ account[u].role = "ADMIN" => account'[u].role = "ADMIN"
  <2>1. PICK u \in User : u = adminCall[q].actor /\ Answered(u)
    BY <1>0, <1>4 DEF CallsLocated
  <2>2. ~account[u].suspended
    BY <1>1, <1>4, <2>1 DEF Orderly
  <2>3. \A r \in AdminCall : adminCall[r].pc = "apply" => adminCall[r].subject # u
    BY <1>0, <1>2, <1>4, <2>1 DEF CallsLocated
  <2>4. /\ account'[u].suspended = account[u].suspended
        /\ account[u].role = "ADMIN" => account'[u].role = "ADMIN"
    BY <1>0, <2>1, <2>3, OthersKeep
  <2> QED
    BY <2>1, <2>2, <2>4
<1>5. ASSUME NEW q \in AdminCall, adminCall'[q].pc # "idle"
      PROVE  /\ ~account'[adminCall'[q].actor].suspended
             /\ adminCall'[q].pc \in {"two_factor", "find", "apply"} =>
                  account'[adminCall'[q].actor].role = "ADMIN"
  <2>1. CASE /\ adminCall'[q].pc = "role" /\ UNCHANGED account
             /\ \E i \in SignIn : /\ signIn[i].pc = "session"
                                  /\ adminCall'[q].actor = signIn[i].user
    BY <1>1, <2>1 DEF SignedOut
  <2>2. CASE /\ adminCall[q].pc # "idle" /\ adminCall'[q].actor = adminCall[q].actor
             /\ adminCall'[q].pc \in {"two_factor", "find", "apply"} =>
                  \/ adminCall[q].pc \in {"two_factor", "find", "apply"}
                  \/ account[adminCall[q].actor].role = "ADMIN"
    BY <1>1, <1>4, <2>2 DEF Orderly
  <2> QED
    BY <1>0, <1>5, <2>1, <2>2, CallComesFrom
<1>6. ASSUME granted'
      PROVE  \E u \in User : Answered(u)' /\ Entitled(u)'
  <2>1. ASSUME NEW u \in User, Answered(u), account'[u].role = "ADMIN",
               ~account'[u].suspended
        PROVE  \E v \in User : Answered(v)' /\ Entitled(v)'
    <3>1. Answered(u)' /\ Entitled(u)'
      BY <1>0, <2>1, AnswerStays DEF Answered, Entitled
    <3> QED
      BY <3>1
  <2>2. ASSUME NEW v \in User, GrantAdmin(v)
        PROVE  \E u \in User : Answered(u)' /\ Entitled(u)'
    <3>1. /\ account[v].confirmed /\ ~account[v].suspended
          /\ account' = [account EXCEPT ![v] = Titled(account[v], "ADMIN")]
      BY <2>2, AccountEdits DEF GrantAdmin, MayGrant
    <3>2. Answered(v) /\ account[v] \in AccountRows
      BY <1>0, <3>1 DEF AccountsBase, RowsLocated, AccountsTyped
    <3>3. account'[v] = Titled(account[v], "ADMIN")
      BY <1>0, <3>1 DEF AccountsTyped
    <3>4. account'[v].role = "ADMIN" /\ ~account'[v].suspended
      BY <3>1, <3>2, <3>3, RowEdited
    <3> QED
      BY <2>1, <3>2, <3>4
  <2>3. CASE ~\E v \in User : GrantAdmin(v)
    <3>1. granted
      BY <1>6, <2>3
      DEF AccountsNext, accountVars, SignUp, CreateOrganization, ConfirmEmail,
          SetTwoFactor, UnchangedButSignUp, SessionHook, InsertSession, EndSession,
          UnchangedButSignIn, AdminCallStep, Authenticate, ReadRole,
          RequireTwoFactor, Guarded, FindUser, RefuseChange, ApplyRole,
          ApplySuspend, ApplyUnsuspend, AuditChange, UnchangedButCall
    <3>2. PICK u \in User : Answered(u) /\ Entitled(u)
      BY <1>1, <3>1 DEF Orderly
    <3>3. CASE \E q \in AdminCall : adminCall[q].pc = "apply"
      <4>1. PICK q \in AdminCall : adminCall[q].pc = "apply"
        BY <3>3
      <4>2. account[adminCall[q].actor].role = "ADMIN"
        BY <1>1, <4>1 DEF Orderly
      <4>3. PICK a \in User : a = adminCall[q].actor
        BY <1>4, <4>1
      <4> QED
        BY <1>4, <2>1, <4>1, <4>2, <4>3
    <3>4. CASE ~\E q \in AdminCall : adminCall[q].pc = "apply"
      BY <1>0, <2>1, <3>2, <3>4, OthersKeep DEF Entitled
    <3> QED
      BY <3>3, <3>4
  <2> QED
    BY <2>2, <2>3
<1> QED
  BY <1>1, <1>3, <1>5, <1>6 DEF Orderly

LEMMA AccountsInvariant == AccountsSpec => []AccountsInv
<1>1. AccountsInit => SignedOut /\ Orderly
  <2> SUFFICES ASSUME AccountsInit PROVE SignedOut /\ Orderly
    OBVIOUS
  <2>1. SignedOut
    BY EmptyRequest DEF AccountsInit, SignedOut
  <2>2. Orderly
    BY EmptyRequest DEF AccountsInit, Orderly
  <2> QED
    BY <2>1, <2>2
<1>2. AccountsInv /\ [AccountsNext]_accountVars /\ AccountsBase' => AccountsInv'
  BY SignedOutStep, OrderlyStep DEF AccountsInv
<1>3. AccountsBase /\ SignedOut /\ Orderly => AccountsInv
  BY DEF AccountsInv
<1> QED
  BY <1>1, <1>2, <1>3, AccountsBaseInvariant, PTL DEF AccountsSpec

\* However many requests and sign-ins there are: as long as none crosses another,
\* the deployment keeps an administrator who may sign in.
THEOREM AdminHolds == AccountsSpec => []AdminRemains
<1>1. AccountsInv => AdminRemains
  BY DEF AccountsInv, Orderly, AdminRemains, ActiveAdmin, Entitled
<1> QED
  BY <1>1, AccountsInvariant, PTL

(***************************************************************************)
(* The records of suspensions.                                              *)
(***************************************************************************)
Pending(u, op) ==
  {q \in AdminCall : /\ adminCall[q].pc = "audit" /\ adminCall[q].subject = u
                     /\ adminCall[q].op = op}

LEMMA PendingFinite ==
  ASSUME NEW u, NEW op
  PROVE  /\ IsFiniteSet(Pending(u, op)) /\ Cardinality(Pending(u, op)) \in Nat
         /\ Under(u, op) = Cardinality(Pending(u, op))
<1>1. Pending(u, op) \in SUBSET AdminCall
  BY DEF Pending
<1>2. IsFiniteSet(Pending(u, op))
  BY <1>1, AccountsAssumption, FS_Subset
<1>3. Under(u, op) = Cardinality(Pending(u, op))
  BY DEF Under, Pending
<1> QED
  BY <1>2, <1>3, FS_CardinalityType

\* What the change of one row and of one request does to the count.
Marked(row) == IF row.suspended THEN 1 ELSE 0

Balanced(u) ==
  audited[u].on + Under(u, "suspend") =
    audited[u].off + Under(u, "unsuspend") + Marked(account[u])

\* A step that neither suspends, lifts nor records.
LEMMA BalanceLeft ==
  ASSUME AccountsTyped, NEW u \in User, Balanced(u), UNCHANGED audited,
         account'[u].suspended = account[u].suspended,
         \A q \in AdminCall :
           \/ adminCall'[q] = adminCall[q]
           \/ adminCall[q].pc # "audit" /\ adminCall'[q].pc # "audit"
  PROVE  Balanced(u)'
<1>1. \A op : Pending(u, op)' = Pending(u, op)
  BY DEF Pending
<1>2. \A op : Under(u, op)' = Under(u, op)
  BY <1>1 DEF Under, Pending
<1> QED
  BY <1>2 DEF Balanced, Marked

LEMMA FaultsStay ==
  ASSUME AccountsTyped, [AccountsNext]_accountVars, accountFaults' = 0
  PROVE  accountFaults = 0
<1>1. UNCHANGED accountFaults \/ accountFaults' = accountFaults + 1
  BY DEF AccountsNext, accountVars, SignUp, CreateOrganization, ConfirmEmail,
         SetTwoFactor, GrantAdmin, SessionHook, InsertSession, EndSession,
         UnchangedButSignIn, AdminCallStep, Authenticate, ReadRole,
         RequireTwoFactor, Guarded, FindUser, RefuseChange, ApplyRole,
         ApplySuspend, ApplyUnsuspend, AuditChange, AccountFault
<1> QED
  BY <1>1 DEF AccountsTyped

LEMMA BalanceStep ==
  ASSUME AccountsBase, [AccountsNext]_accountVars, accountFaults' = 0,
         \A u \in User : Balanced(u)
  PROVE  accountFaults = 0 /\ \A u \in User : Balanced(u)'
<1> USE DEF AccountsBase
<1> DEFINE Goal == accountFaults = 0 /\ \A u \in User : Balanced(u)'
           Calm(u) == account'[u].suspended = account[u].suspended
<1>typed. AccountsTyped
  OBVIOUS
<1>1. ASSUME UNCHANGED <<audited, adminCall>>, \A u \in User : Calm(u), accountFaults = 0
      PROVE  Goal
  BY <1>1, BalanceLeft
<1>2. ASSUME NEW v \in User, SignUp(v) PROVE Goal
  <2>1. \A u \in User : Calm(u)
    BY <1>2, <1>typed, NoRow, AccountEdits DEF SignUp, AccountsTyped, RowsLocated, AccountRows
  <2> QED
    BY <1>1, <1>2, <2>1 DEF SignUp, UnchangedButSignUp
<1>3. ASSUME NEW v \in User, CreateOrganization(v) PROVE Goal
  <2>1. accountFaults = 0 /\ account' = [account EXCEPT ![v] = Joined(account[v])]
    BY <1>3, <1>typed DEF CreateOrganization, AccountFault, AccountsTyped, Joined
  <2>2. \A u \in User : Calm(u)
    BY <1>typed, <2>1, RowEdited DEF AccountsTyped, SameRight
  <2> QED
    BY <1>1, <1>3, <2>1, <2>2 DEF CreateOrganization, UnchangedButSignUp
<1>4. ASSUME NEW v \in User, ConfirmEmail(v) \/ SetTwoFactor(v) \/ GrantAdmin(v)
      PROVE  Goal
  <2>1. \A u \in User : Calm(u)
    BY <1>4, <1>typed, RowEdited, AccountEdits DEF AccountsTyped, SameRight
  <2> QED
    BY <1>1, <1>4, <2>1 DEF ConfirmEmail, SetTwoFactor, GrantAdmin, UnchangedButSignUp
<1>5. ASSUME NEW i \in SignIn, \/ InsertSession(i) \/ EndSession(i)
                               \/ \E u \in User : SessionHook(i, u)
      PROVE  Goal
  BY <1>1, <1>5 DEF InsertSession, EndSession, SessionHook, UnchangedButSignIn
<1>6. ASSUME NEW q \in AdminCall, \/ Authenticate(q) \/ ReadRole(q) \/ RequireTwoFactor(q)
                                  \/ FindUser(q) \/ RefuseChange(q) \/ ApplyRole(q)
      PROVE  Goal
  <2>1. UNCHANGED <<audited, accountFaults>>
    BY <1>6
    DEF Authenticate, ReadRole, RequireTwoFactor, Guarded, FindUser, RefuseChange,
        ApplyRole
  <2>2. \A u \in User : Calm(u)
    <3>1. CASE ApplyRole(q)
      <4>1. adminCall[q].subject \in User /\ RoleOf(adminCall[q].op) \in {"ADMIN", "ANALYST"}
        BY <3>1 DEF ApplyRole, CallsLocated, RoleOf
      <4> QED
        BY <3>1, <4>1, <1>typed, RowEdited, AccountEdits DEF AccountsTyped
    <3> QED
      BY <1>6, <3>1
      DEF Authenticate, ReadRole, RequireTwoFactor, Guarded, FindUser, RefuseChange
  <2>3. ASSUME NEW r \in AdminCall \ {q} PROVE adminCall'[r] = adminCall[r]
    <3>1. CASE Authenticate(q)
      <4>1. PICK i \in SignIn : adminCall' = [adminCall EXCEPT ![q] =
              [NoCall EXCEPT !.pc = "role", !.actor = signIn[i].user]]
        BY <3>1 DEF Authenticate
      <4> QED
        BY <2>3, <4>1, <1>typed DEF AccountsTyped
    <3>2. CASE FindUser(q)
      <4>1. PICK u \in User, o \in {"promote", "demote", "suspend", "unsuspend"} :
              adminCall' = [adminCall EXCEPT ![q].pc = "apply", ![q].subject = u,
                              ![q].op = o, ![q].before = account[u]]
        BY <3>2 DEF FindUser
      <4> QED
        BY <2>3, <4>1, <1>typed DEF AccountsTyped
    <3>3. CASE ReadRole(q) \/ RequireTwoFactor(q)
      BY <2>3, <3>3, <1>typed
      DEF ReadRole, RequireTwoFactor, Guarded, CallAt, AccountsTyped
    <3>4. CASE RefuseChange(q) \/ ApplyRole(q)
      BY <2>3, <3>4, <1>typed DEF RefuseChange, ApplyRole, AccountsTyped
    <3> QED
      BY <1>6, <3>1, <3>2, <3>3, <3>4
  <2>4. adminCall[q].pc # "audit"
    BY <1>6
    DEF Authenticate, ReadRole, RequireTwoFactor, Guarded, FindUser, RefuseChange,
        ApplyRole
  <2>5. adminCall'[q].pc # "audit"
    <3>1. adminCall \in [AdminCall -> Calls]
      BY <1>typed DEF AccountsTyped
    <3>2. CASE Authenticate(q)
      <4>1. PICK i \in SignIn : adminCall' = [adminCall EXCEPT ![q] =
              [NoCall EXCEPT !.pc = "role", !.actor = signIn[i].user]]
        BY <3>2 DEF Authenticate
      <4> QED
        BY <3>1, <4>1, EmptyRequest DEF Calls
    <3>3. CASE FindUser(q)
      <4>1. PICK u \in User, op \in {"promote", "demote", "suspend", "unsuspend"} :
              adminCall' = [adminCall EXCEPT ![q].pc = "apply", ![q].subject = u,
                              ![q].op = op, ![q].before = account[u]]
        BY <3>3 DEF FindUser
      <4> QED
        BY <3>1, <4>1 DEF Calls
    <3> QED
      BY <1>6, <3>1, <3>2, <3>3, EmptyRequest
      DEF ReadRole, RequireTwoFactor, Guarded, RefuseChange, ApplyRole, CallAt, Calls
  <2> QED
    BY <1>typed, <2>1, <2>2, <2>3, <2>4, <2>5, BalanceLeft
\* A request that is about to record one, and the row it has written.
<1>7. ASSUME NEW q \in AdminCall, ApplySuspend(q) \/ ApplyUnsuspend(q) PROVE Goal
  <2>op. PICK op \in {"suspend", "unsuspend"} : op = adminCall[q].op
    BY <1>7 DEF ApplySuspend, ApplyUnsuspend
  <2>1. PICK v \in User : v = adminCall[q].subject
    BY <1>7 DEF ApplySuspend, ApplyUnsuspend, CallsLocated
  <2>2. adminCall[q].pc = "apply" /\ UNCHANGED <<audited, accountFaults>>
    BY <1>7 DEF ApplySuspend, ApplyUnsuspend
  <2>3. CASE UNCHANGED account /\ adminCall' = [adminCall EXCEPT ![q] = NoCall]
    BY <1>typed, <2>2, <2>3, EmptyRequest, BalanceLeft DEF AccountsTyped
  <2>4. CASE /\ adminCall' = CallAt(q, "audit")
             /\ \/ /\ op = "suspend" /\ ~account[v].suspended
                   /\ account' = [account EXCEPT ![v] = Barred(account[v])]
                \/ /\ op = "unsuspend" /\ account[v].suspended
                   /\ account' = [account EXCEPT ![v] = Lifted(account[v])]
    <3>1. /\ adminCall'[q].pc = "audit" /\ adminCall'[q].subject = v /\ adminCall'[q].op = op
          /\ \A r \in AdminCall \ {q} : adminCall'[r] = adminCall[r]
      BY <1>typed, <2>op, <2>1, <2>4 DEF CallAt, AccountsTyped, Calls
    <3>2. ASSUME NEW u \in User \ {v} PROVE account'[u] = account[u]
      <4>1. \/ account' = [account EXCEPT ![v] = Barred(account[v])]
            \/ account' = [account EXCEPT ![v] = Lifted(account[v])]
        BY <2>4
      <4> QED
        BY <4>1, <3>2, <1>typed DEF AccountsTyped
    <3>3. ASSUME NEW u \in User \ {v} PROVE Balanced(u)'
      <4>1. \A o : Pending(u, o)' = Pending(u, o)
        BY <2>2, <3>1, <3>3 DEF Pending
      <4>2. \A o : Under(u, o)' = Under(u, o)
        BY <4>1 DEF Under, Pending
      <4> QED
        BY <2>2, <3>2, <3>3, <4>2 DEF Balanced, Marked
    <3>4. Balanced(v)'
      <4>1. Pending(v, op)' = Pending(v, op) \cup {q} /\ q \notin Pending(v, op)
        BY <2>2, <3>1 DEF Pending
      <4>2. \A o : o # op => Pending(v, o)' = Pending(v, o)
        BY <2>2, <3>1 DEF Pending
      <4>3. Cardinality(Pending(v, op)') = Cardinality(Pending(v, op)) + 1
        BY <4>1, PendingFinite, FS_AddElement
      <4>4. /\ Under(v, op)' = Under(v, op) + 1
            /\ \A o : o # op => Under(v, o)' = Under(v, o)
        BY <4>2, <4>3 DEF Under, Pending
      <4>5. /\ Under(v, "suspend") \in Nat /\ Under(v, "unsuspend") \in Nat
            /\ audited[v].on \in Nat /\ audited[v].off \in Nat
        BY <1>typed, PendingFinite DEF AccountsTyped, Counts
      <4>6. account[v] \in AccountRows /\ Balanced(v)
        BY <1>typed DEF AccountsTyped
      <4>7. CASE op = "suspend"
        <5>1. Marked(account[v]) = 0 /\ Marked(account'[v]) = 1
          BY <1>typed, <2>4, <4>6, <4>7, RowEdited DEF Marked, AccountsTyped
        <5> QED
          BY <2>2, <4>4, <4>5, <4>6, <4>7, <5>1 DEF Balanced
      <4>8. CASE op = "unsuspend"
        <5>1. Marked(account[v]) = 1 /\ Marked(account'[v]) = 0
          BY <1>typed, <2>4, <4>6, <4>8, RowEdited DEF Marked, AccountsTyped
        <5> QED
          BY <2>2, <4>4, <4>5, <4>6, <4>8, <5>1 DEF Balanced
      <4> QED
        BY <2>4, <4>7, <4>8
    <3> QED
      BY <2>2, <3>3, <3>4
  <2> QED
    <3>1. CASE ApplySuspend(q)
      BY <3>1, <2>op, <2>1, <2>3, <2>4 DEF ApplySuspend, Suspends, Barred
    <3>2. CASE ApplyUnsuspend(q)
      BY <3>2, <2>op, <2>1, <2>3, <2>4 DEF ApplyUnsuspend, Lifted
    <3> QED
      BY <1>7, <3>1, <3>2
<1>8. ASSUME NEW q \in AdminCall, AuditChange(q) PROVE Goal
  <2>op. PICK op \in {"suspend", "unsuspend"} : op = adminCall[q].op
    BY <1>8 DEF AuditChange, CallsLocated
  <2>1. PICK v \in User : v = adminCall[q].subject
    BY <1>8 DEF AuditChange, CallsLocated
  <2>2. /\ adminCall[q].pc = "audit"
        /\ UNCHANGED account /\ adminCall' = [adminCall EXCEPT ![q] = NoCall]
    BY <1>8 DEF AuditChange, CallsLocated
  <2>3. /\ accountFaults = 0
        /\ audited' = IF op = "suspend" THEN [audited EXCEPT ![v].on = @ + 1]
                                        ELSE [audited EXCEPT ![v].off = @ + 1]
    BY <1>8, <1>typed, <2>op, <2>1 DEF AuditChange, AccountFault, AccountsTyped
  <2>4. /\ adminCall'[q].pc # "audit"
        /\ \A r \in AdminCall \ {q} : adminCall'[r] = adminCall[r]
    BY <1>typed, <2>2, EmptyRequest DEF AccountsTyped
  <2>5. ASSUME NEW u \in User \ {v} PROVE Balanced(u)'
    <3>1. \A o : Pending(u, o)' = Pending(u, o)
      BY <2>1, <2>2, <2>4, <2>5 DEF Pending
    <3>2. \A o : Under(u, o)' = Under(u, o)
      BY <3>1 DEF Under, Pending
    <3>3. audited'[u] = audited[u]
      BY <1>typed, <2>3, <2>5 DEF AccountsTyped
    <3> QED
      BY <2>2, <2>5, <3>2, <3>3 DEF Balanced, Marked
  <2>6. Balanced(v)'
    <3>1. Pending(v, op)' = Pending(v, op) \ {q} /\ q \in Pending(v, op)
      BY <2>op, <2>1, <2>2, <2>4 DEF Pending
    <3>2. \A o : o # op => Pending(v, o)' = Pending(v, o)
      BY <2>op, <2>1, <2>2, <2>4 DEF Pending
    <3>3. Cardinality(Pending(v, op)') = Cardinality(Pending(v, op)) - 1
      BY <3>1, PendingFinite, FS_RemoveElement
    <3>4. /\ Under(v, op)' = Under(v, op) - 1
          /\ \A o : o # op => Under(v, o)' = Under(v, o)
      BY <3>2, <3>3 DEF Under, Pending
    <3>5. /\ Under(v, "suspend") \in Nat /\ Under(v, "unsuspend") \in Nat
          /\ audited[v].on \in Nat /\ audited[v].off \in Nat
      BY <1>typed, PendingFinite DEF AccountsTyped, Counts
    <3>6. /\ op = "suspend" => /\ audited'[v].on = audited[v].on + 1
                               /\ audited'[v].off = audited[v].off
          /\ op = "unsuspend" => /\ audited'[v].off = audited[v].off + 1
                                 /\ audited'[v].on = audited[v].on
      BY <1>typed, <2>3 DEF AccountsTyped, Counts
    <3>7. Marked(account'[v]) = Marked(account[v]) /\ Marked(account[v]) \in Nat
      BY <2>2 DEF Marked
    <3>8. Balanced(v)
      OBVIOUS
    <3> QED
      BY <2>2, <3>4, <3>5, <3>6, <3>7, <3>8 DEF Balanced
  <2> QED
    BY <2>3, <2>5, <2>6
<1>9. CASE UNCHANGED accountVars
  BY <1>1, <1>9 DEF accountVars
<1> QED
  BY <1>2, <1>3, <1>4, <1>5, <1>6, <1>7, <1>8, <1>9 DEF AccountsNext, AdminCallStep

Audited == accountFaults = 0 => \A u \in User : Balanced(u)

\* For any accounts, sign-ins and requests: a suspended account holds no session
\* but one that was past the hook, and each suspension and lifting has one record.
THEOREM SuspensionsAlways == AccountsSpec => []SuspensionsHold
<1>1. AccountsInit => Audited
  <2> SUFFICES ASSUME AccountsInit, NEW u \in User PROVE Balanced(u)
    BY DEF Audited
  <2>1. \A op : Pending(u, op) = {}
    BY EmptyRequest DEF AccountsInit, Pending
  <2>2. \A op : Under(u, op) = 0
    BY <2>1, FS_EmptySet DEF Under, Pending
  <2>3. Marked(account[u]) = 0
    BY NoRow DEF AccountsInit, Marked
  <2> QED
    BY <2>2, <2>3 DEF AccountsInit, Balanced
<1>2. AccountsInv /\ Audited /\ [AccountsNext]_accountVars => Audited'
  <2> SUFFICES ASSUME AccountsInv, Audited, [AccountsNext]_accountVars, accountFaults' = 0
               PROVE  \A u \in User : Balanced(u)'
    BY DEF Audited
  <2>1. accountFaults = 0
    BY FaultsStay DEF AccountsInv, AccountsBase
  <2> QED
    BY <2>1, BalanceStep DEF AccountsInv, Audited
<1>3. AccountsInv /\ Audited => SuspensionsHold
  BY DEF AccountsInv, SignedOut, Audited, Balanced, Marked, SuspensionsHold,
         SuspendedSignedOut, SuspensionsAudited
<1> QED
  BY <1>1, <1>2, <1>3, AccountsInvariant, PTL DEF AccountsSpec

-----------------------------------------------------------------------------
(* For any number of origins, requests, limits and faults: a target that may be    *)
(* scanned was proved for the addresses it is scanned at, and the counter of the   *)
(* requests in flight never stays above nothing without an expiry.                 *)

RowType == [id : Int, exists : BOOLEAN, status : {"PENDING", "VERIFIED", "FAILED"},
            expires : Int, ips : SUBSET Address, archived : BOOLEAN]
Places == {"idle", "create", "archive", "delete", "cooldown", "hourly", "inflight", "chill",
           "giveback", "classify", "probe", "verified", "failed", "release"}
RequestType == [pc : Places, origin : Origin \cup {NoOrigin}, id : Int, ips : SUBSET Address]
WindowType == [count : Int, ttl : BOOLEAN]

\* What the steps need of the shape of the state.
Shape ==
  /\ target \in [Origin -> RowType]
  /\ registrar \in [Registrar -> RequestType]
  /\ verifier \in [Verifier -> RequestType]
  /\ \A v \in Verifier : verifier[v].pc # "idle" => verifier[v].origin \in Origin
  /\ \A o \in Origin : zone[o].ips \in SUBSET Address
  /\ limiter \in [cooldown : [Origin -> BOOLEAN], hourly : [Origin -> WindowType],
                  inflight : WindowType]
  /\ day \in Int

\* A challenge that succeeded for registration `id` of `o`, at these addresses.
Proved(p, o, id, ips) ==
  p \in proofs /\ p.origin = o /\ p.id = id /\ p.ips = ips /\ p.ips \cap Private = {}

\* The evidence of a verified row, and of a request about to write one.
RowProved(o) == target[o].status = "VERIFIED" =>
  \E p \in proofs : /\ Proved(p, o, target[o].id, target[o].ips)
                    /\ target[o].expires = p.day + ValidDays /\ p.day \in Int
RequestProved(v) ==
  /\ verifier[v].pc = "probe" => verifier[v].ips \cap Private = {}
  /\ verifier[v].pc = "verified" =>
       \E p \in proofs : /\ Proved(p, verifier[v].origin, verifier[v].id, verifier[v].ips)
                         /\ p.day = day

TargetsInv ==
  /\ Shape /\ CounterExpires
  /\ \A o \in Origin : RowProved(o)
  /\ \A v \in Verifier : RequestProved(v)

(* Records the actions build. *)
LEMMA RequestMade ==
  ASSUME NEW pc \in Places, NEW o \in Origin, NEW id \in Int
  PROVE  /\ NoRequest \in RequestType
         /\ [NoRequest EXCEPT !.pc = pc, !.origin = o] \in RequestType
         /\ [NoRequest EXCEPT !.pc = pc, !.origin = o, !.id = id] \in RequestType
         /\ [pc |-> pc, origin |-> o, id |-> id, ips |-> {}] \in RequestType
<1>1. NoRequest \in RequestType
  BY DEF NoRequest, RequestType, Places
<1>2. [NoRequest EXCEPT !.pc = pc, !.origin = o] \in RequestType
  BY <1>1 DEF RequestType
<1>3. [NoRequest EXCEPT !.pc = pc, !.origin = o, !.id = id] \in RequestType
  BY <1>1 DEF RequestType
<1>4. [pc |-> pc, origin |-> o, id |-> id, ips |-> {}] \in RequestType
  BY DEF RequestType
<1> QED BY <1>1, <1>2, <1>3, <1>4

LEMMA RequestMoved ==
  ASSUME NEW q \in RequestType, NEW pc \in Places
  PROVE  LET moved == [q EXCEPT !.pc = pc]
         IN  /\ moved \in RequestType /\ moved.pc = pc
             /\ moved.origin = q.origin /\ moved.id = q.id /\ moved.ips = q.ips
BY DEF RequestType, Places

LEMMA RowMade ==
  ASSUME NEW id \in Int
  PROVE  LET gone == [NoTarget EXCEPT !.id = id]
             new  == [NoTarget EXCEPT !.id = id + 1, !.exists = TRUE]
         IN  /\ gone \in RowType /\ gone.status = "PENDING"
             /\ new \in RowType /\ new.status = "PENDING"
<1>1. NoTarget \in RowType /\ NoTarget.status = "PENDING"
  BY DEF NoTarget, RowType
<1>2. \A row \in RowType, n \in Int : LET gone == [row EXCEPT !.id = n]
                                     IN  gone \in RowType /\ gone.status = row.status
  BY DEF RowType
<1>3. \A row \in RowType, n \in Int : LET new == [row EXCEPT !.id = n, !.exists = TRUE]
                                     IN  new \in RowType /\ new.status = row.status
  BY DEF RowType
<1>4. id + 1 \in Int
  OBVIOUS
<1> QED BY <1>1, <1>2, <1>3, <1>4

LEMMA RowChanged ==
  ASSUME NEW row \in RowType
  PROVE  /\ row.id \in Int /\ [row EXCEPT !.archived = TRUE] \in RowType
         /\ [row EXCEPT !.status = "FAILED"] \in RowType
         /\ LET kept == [row EXCEPT !.archived = TRUE]
            IN  /\ kept.status = row.status /\ kept.id = row.id /\ kept.ips = row.ips
                /\ kept.expires = row.expires
BY DEF RowType

LEMMA WindowMade ==
  ASSUME NEW window \in WindowType
  PROVE  /\ Incremented(window) \in WindowType /\ Incremented(window).ttl
         /\ Decremented(window) \in WindowType /\ Decremented(window).ttl = window.ttl
         /\ Decremented(window).count = window.count - 1
         /\ Unset \in WindowType /\ Unset.count = 0
BY DEF Incremented, Decremented, Unset, WindowType

LEMMA TargetsInitInv == ASSUME TargetsInit PROVE TargetsInv
<1> USE TargetsAssumption DEF TargetsInit
<1>1. Shape
  <2>1. target \in [Origin -> RowType]
    BY DEF RowType, NoTarget
  <2>2. registrar \in [Registrar -> RequestType] /\ verifier \in [Verifier -> RequestType]
    BY DEF RequestType, Places, NoRequest
  <2>3. \A v \in Verifier : verifier[v].pc = "idle"
    BY DEF NoRequest
  <2>4. \A o \in Origin : zone[o].ips \in SUBSET Address
    OBVIOUS
  <2>5. limiter \in [cooldown : [Origin -> BOOLEAN], hourly : [Origin -> WindowType],
                    inflight : WindowType] /\ day \in Int
    BY DEF WindowType, Unset
  <2> QED BY <2>1, <2>2, <2>3, <2>4, <2>5 DEF Shape
<1>2. CounterExpires
  BY DEF CounterExpires, Unset
<1>3. \A o \in Origin : RowProved(o)
  BY DEF RowProved, NoTarget
<1>4. \A v \in Verifier : RequestProved(v)
  BY DEF RequestProved, NoRequest
<1> QED BY <1>1, <1>2, <1>3, <1>4 DEF TargetsInv

\* A step that changes neither rows, proofs nor the day keeps every row proved, and
\* every request it does not move forward.
LEMMA RowsKept ==
  ASSUME UNCHANGED <<target, proofs>>, NEW o \in Origin, RowProved(o)
  PROVE  RowProved(o)'
BY DEF RowProved, Proved

LEMMA RequestKept ==
  ASSUME UNCHANGED <<proofs, day>>, NEW v \in Verifier, RequestProved(v),
         verifier'[v] = verifier[v] \/ verifier'[v].pc \notin {"probe", "verified"}
  PROVE  RequestProved(v)'
BY DEF RequestProved, Proved

\* Registration, archive and delete: a new row is pending, a row that is gone too.
LEMMA RegistrarKeepsInv ==
  ASSUME TargetsInv, NEW r \in Registrar, RegistrarStep(r)
  PROVE  TargetsInv'
<1> DEFINE o == registrar[r].origin
<1> USE DEF TargetsInv
<1>1. /\ UNCHANGED <<zone, verifier, limiter, proofs, day>>
  BY DEF RegistrarStep, CheckRegistration, FindOwned, CreateTarget, ArchiveTarget,
    DeleteTarget, UnchangedButTarget
<1>2. /\ target' \in [Origin -> RowType] /\ registrar' \in [Registrar -> RequestType]
      /\ \A q \in Origin : target'[q] = target[q] \/ target'[q].status = "PENDING"
           \/ target'[q] = [target[q] EXCEPT !.archived = TRUE]
  <2> USE DEF Shape
  <2>1. CASE \E q \in Origin : CheckRegistration(r, q)
    <3>1. PICK q \in Origin : CheckRegistration(r, q)
      BY <2>1
    <3>2. [NoRequest EXCEPT !.pc = "create", !.origin = q] \in RequestType
      BY RequestMade DEF Places
    <3> QED BY <3>1, <3>2 DEF CheckRegistration
  <2>2. CASE \E q \in Origin : FindOwned(r, q)
    <3>1. PICK q \in Origin : FindOwned(r, q)
      BY <2>2
    <3>2. \A pc \in {"archive", "delete"} :
            [NoRequest EXCEPT !.pc = pc, !.origin = q, !.id = target[q].id] \in RequestType
      BY RequestMade, RowChanged DEF Places
    <3> QED BY <3>1, <3>2 DEF FindOwned
  <2>3. NoRequest \in RequestType
    BY DEF NoRequest, RequestType, Places
  <2>4. CASE CreateTarget(r)
    <3>1. o \in Origin =>
            LET new == [NoTarget EXCEPT !.id = target[o].id + 1, !.exists = TRUE]
            IN  new \in RowType /\ new.status = "PENDING"
      BY RowMade, RowChanged
    <3>2. target' \in [Origin -> RowType]
      BY <3>1, <2>4 DEF CreateTarget
    <3> QED BY <2>3, <2>4, <3>1, <3>2 DEF CreateTarget
  <2>5. CASE ArchiveTarget(r)
    <3>1. \A row \in RowType : [row EXCEPT !.archived = TRUE] \in RowType
      BY RowChanged
    <3> QED BY <2>3, <2>5, <3>1 DEF ArchiveTarget
  <2>6. CASE DeleteTarget(r)
    <3>1. o \in Origin => LET gone == [NoTarget EXCEPT !.id = target[o].id]
                          IN  gone \in RowType /\ gone.status = "PENDING"
      BY RowMade, RowChanged
    <3> QED BY <2>3, <2>6, <3>1 DEF DeleteTarget
  <2> QED BY <2>1, <2>2, <2>4, <2>5, <2>6 DEF RegistrarStep
<1>3. Shape' /\ CounterExpires'
  BY <1>1, <1>2 DEF Shape, CounterExpires
<1>4. ASSUME NEW q \in Origin PROVE RowProved(q)'
  <2>1. CASE target'[q] = target[q]
    BY <1>1, <2>1 DEF RowProved, Proved
  <2>2. CASE target'[q].status = "PENDING"
    BY <2>2 DEF RowProved
  <2>3. CASE target'[q] = [target[q] EXCEPT !.archived = TRUE]
    BY <1>1, <2>3, RowChanged DEF RowProved, Proved, Shape
  <2> QED BY <1>2, <2>1, <2>2, <2>3
<1>5. ASSUME NEW v \in Verifier PROVE RequestProved(v)'
  BY <1>1, RequestKept
<1> QED BY <1>3, <1>4, <1>5

\* The limits, the deaths and the outages move a request only between places
\* that hold no evidence.
LEMMA LimitsKeepInv ==
  ASSUME TargetsInv, NEW v \in Verifier,
         \/ LookAtCooldown(v) \/ CountHourly(v) \/ CountInFlight(v) \/ SetCooldown(v)
         \/ GiveBack(v) \/ RedisFails(v) \/ VerifierDies(v)
         \/ \E o \in Origin : StartVerify(v, o)
  PROVE  TargetsInv'
<1> USE DEF TargetsInv
<1>1. UNCHANGED <<target, registrar, zone, proofs, day>>
  BY DEF LookAtCooldown, CountHourly, CountInFlight, SetCooldown, GiveBack, RedisFails,
    VerifierDies, StartVerify, UnchangedButLimits
<1>2. /\ verifier' \in [Verifier -> RequestType]
      /\ \A w \in Verifier : w # v => verifier'[w] = verifier[w]
      /\ verifier'[v].pc \notin {"probe", "verified"}
      /\ verifier'[v].pc # "idle" => verifier'[v].origin \in Origin
  <2> USE DEF Shape
  <2>1. CASE \E o \in Origin : StartVerify(v, o)
    <3>1. PICK o \in Origin : StartVerify(v, o)
      BY <2>1
    <3>2. LET new == [pc |-> "cooldown", origin |-> o, id |-> target[o].id, ips |-> {}]
          IN  new \in RequestType /\ new.pc = "cooldown" /\ new.origin = o
      BY RequestMade, RowChanged DEF Places
    <3> QED BY <3>1, <3>2 DEF StartVerify
  <2>2. CASE /\ verifier[v].pc # "idle"
             /\ \E pc \in {"hourly", "inflight", "chill", "giveback", "classify"} :
                  verifier' = VerifierAt(v, pc)
    <3>1. PICK pc \in {"hourly", "inflight", "chill", "giveback", "classify"} :
                 verifier' = [verifier EXCEPT ![v] = [verifier[v] EXCEPT !.pc = pc]]
      BY <2>2 DEF VerifierAt
    <3>2. LET moved == [verifier[v] EXCEPT !.pc = pc]
          IN  moved \in RequestType /\ moved.pc = pc /\ moved.origin = verifier[v].origin
      <4>1. pc \in Places /\ verifier[v] \in RequestType
        BY DEF Places
      <4> QED BY <4>1, RequestMoved
    <3> QED BY <2>2, <3>1, <3>2
  <2>3. CASE verifier' = [verifier EXCEPT ![v] = NoRequest]
    <3>1. NoRequest \in RequestType /\ NoRequest.pc = "idle"
      BY DEF NoRequest, RequestType, Places
    <3> QED BY <2>3, <3>1
  <2> QED BY <2>1, <2>2, <2>3 DEF LookAtCooldown, CountHourly, CountInFlight, SetCooldown,
        GiveBack, RedisFails, VerifierDies
<1>3. limiter' \in [cooldown : [Origin -> BOOLEAN], hourly : [Origin -> WindowType],
                    inflight : WindowType] /\ CounterExpires'
  <2> USE DEF Shape, CounterExpires
  <2>1. CASE UNCHANGED limiter
    BY <2>1
  <2>2. CASE CountHourly(v)
    BY <2>2, WindowMade DEF CountHourly
  <2>3. CASE CountInFlight(v)
    BY <2>3, WindowMade DEF CountInFlight
  <2>4. CASE SetCooldown(v)
    BY <2>4 DEF SetCooldown
  <2>5. CASE GiveBack(v)
    <3>1. limiter.inflight \in WindowType /\ limiter.inflight.count \in Int
      BY DEF WindowType
    <3>2. limiter' = [limiter EXCEPT !.inflight = Decremented(limiter.inflight)]
      BY <2>5 DEF GiveBack
    <3> QED BY <3>1, <3>2, WindowMade
  <2> QED BY <2>1, <2>2, <2>3, <2>4, <2>5
            DEF LookAtCooldown, RedisFails, VerifierDies, StartVerify
<1>4. Shape' /\ CounterExpires'
  BY <1>1, <1>2, <1>3 DEF Shape
<1>5. ASSUME NEW o \in Origin PROVE RowProved(o)'
  BY <1>1, RowsKept
<1>6. ASSUME NEW w \in Verifier PROVE RequestProved(w)'
  BY <1>1, <1>2, RequestKept
<1> QED BY <1>4, <1>5, <1>6

\* The addresses a request carries passed the gate; a probe that succeeds is a proof.
LEMMA ProbeKeepsInv ==
  ASSUME TargetsInv, NEW v \in Verifier, ClassifyAgain(v) \/ Probe(v) \/ ProbeFails(v)
  PROVE  TargetsInv'
<1> USE DEF TargetsInv
<1>1. UNCHANGED <<target, registrar, zone, limiter, day>> /\ proofs \subseteq proofs'
  BY DEF ClassifyAgain, Probe, ProbeFails, UnchangedButVerdict
<1>2. /\ verifier' \in [Verifier -> RequestType]
      /\ \A w \in Verifier : w # v => verifier'[w] = verifier[w]
      /\ verifier'[v].origin = verifier[v].origin /\ verifier[v].pc # "idle"
  <2> USE DEF Shape
  <2>1. CASE \E pc \in {"failed", "verified"} : verifier' = VerifierAt(v, pc)
    <3>1. PICK pc \in {"failed", "verified"} :
                 verifier' = [verifier EXCEPT ![v] = [verifier[v] EXCEPT !.pc = pc]]
      BY <2>1 DEF VerifierAt
    <3>2. pc \in Places /\ verifier[v] \in RequestType /\ verifier[v].pc # "idle"
      BY DEF Places, ClassifyAgain, Probe, ProbeFails
    <3>3. LET moved == [verifier[v] EXCEPT !.pc = pc]
          IN  moved \in RequestType /\ moved.origin = verifier[v].origin
      BY <3>2, RequestMoved
    <3> QED BY <3>1, <3>2, <3>3
  <2>2. CASE ClassifyAgain(v) /\ Classifies(verifier[v].origin)
    <3>1. verifier' = [verifier EXCEPT ![v] =
            [verifier[v] EXCEPT !.pc = "probe", !.ips = zone[verifier[v].origin].ips]]
      BY <2>2 DEF ClassifyAgain
    <3>2. \A q \in RequestType, ips \in SUBSET Address :
            LET new == [q EXCEPT !.pc = "probe", !.ips = ips]
            IN  new \in RequestType /\ new.origin = q.origin
      BY DEF RequestType, Places
    <3>3. verifier[v].pc # "idle" /\ verifier[v].origin \in Origin
      BY <2>2 DEF ClassifyAgain
    <3>4. verifier[v] \in RequestType /\ zone[verifier[v].origin].ips \in SUBSET Address
      BY <3>3
    <3> QED BY <3>1, <3>2, <3>3, <3>4
  <2> QED BY <2>1, <2>2 DEF ClassifyAgain, Probe, ProbeFails
<1>3. Shape' /\ CounterExpires'
  BY <1>1, <1>2 DEF Shape, CounterExpires
<1>4. ASSUME NEW o \in Origin PROVE RowProved(o)'
  BY <1>1 DEF RowProved, Proved
<1>5. ASSUME NEW w \in Verifier PROVE RequestProved(w)'
  <2>1. CASE w # v
    BY <1>1, <1>2, <2>1 DEF RequestProved, Proved
  <2>2. CASE w = v /\ ClassifyAgain(v)
    BY <1>1, <2>2 DEF RequestProved, ClassifyAgain, Classifies, VerifierAt, Shape, RequestType, Places
  <2>3. CASE w = v /\ ProbeFails(v)
    BY <2>3 DEF RequestProved, ProbeFails, VerifierAt, Shape, RequestType, Places
  <2>4. CASE w = v /\ Probe(v) /\ TokenServed(v)
    <3> DEFINE proof == [origin |-> verifier[v].origin, id |-> verifier[v].id,
                         ips |-> verifier[v].ips, day |-> day]
    <3>1. proof \in proofs' /\ verifier'[v] = [verifier[v] EXCEPT !.pc = "verified"]
      BY <2>4 DEF Probe, VerifierAt, Shape
    <3>2. verifier[v].ips \cap Private = {}
      BY <2>4 DEF RequestProved, Probe
    <3>3. Proved(proof, verifier[v].origin, verifier[v].id, verifier[v].ips)'
      BY <1>1, <3>1, <3>2, <2>4 DEF Proved, Shape, RequestType, Places
    <3> QED BY <1>1, <3>1, <3>3, <2>4 DEF RequestProved, Shape, RequestType, Places
  <2>5. CASE w = v /\ Probe(v) /\ ~TokenServed(v)
    BY <2>5 DEF RequestProved, Probe, VerifierAt, Shape, RequestType, Places
  <2> QED BY <2>1, <2>2, <2>3, <2>4, <2>5
<1> QED BY <1>3, <1>4, <1>5

\* A success writes what its own proof says; a failure only takes VERIFIED away.
LEMMA RecordKeepsInv ==
  ASSUME TargetsInv, NEW v \in Verifier, RecordSuccess(v) \/ RecordFailure(v)
  PROVE  TargetsInv'
<1> USE DEF TargetsInv
<1>1. UNCHANGED <<registrar, zone, limiter, day, proofs>>
  BY DEF RecordSuccess, RecordFailure, UnchangedButVerdict
<1>2. verifier' = [verifier EXCEPT ![v].pc = "release"] /\ verifier[v].pc # "idle"
  BY DEF RecordSuccess, RecordFailure, VerifierAt
<1>3. target' \in [Origin -> RowType]
  <2> DEFINE q == verifier[v].origin
  <2> USE DEF Shape
  <2>1. q \in Origin /\ target[q] \in RowType
    BY <1>2
  <2>2. [target[q] EXCEPT !.status = "FAILED"] \in RowType
    BY <2>1, RowChanged
  <2>3. Verified(target[q], verifier[v].ips) \in RowType
    <3>1. day + ValidDays \in Int /\ verifier[v].ips \in SUBSET Address
      BY TargetsAssumption DEF RequestType
    <3> QED BY <2>1, <3>1 DEF Verified, RowType
  <2> QED BY <2>1, <2>2, <2>3 DEF RecordSuccess, RecordFailure
<1>4. Shape' /\ CounterExpires'
  BY <1>1, <1>2, <1>3 DEF Shape, RequestType, Places, CounterExpires
<1>5. ASSUME NEW o \in Origin PROVE RowProved(o)'
  <2>1. CASE target'[o] = target[o]
    BY <1>1, <2>1 DEF RowProved, Proved
  <2>2. CASE RecordFailure(v) /\ target'[o] # target[o]
    BY <2>2 DEF RecordFailure, RowProved, Shape, RowType
  <2>3. CASE RecordSuccess(v) /\ target'[o] # target[o]
    <3>1. /\ o = verifier[v].origin /\ target[o].id = verifier[v].id
          /\ target'[o].id = target[o].id /\ target'[o].ips = verifier[v].ips
          /\ target'[o].expires = day + ValidDays
      BY <2>3 DEF RecordSuccess, RowIs, Verified, Shape, RowType
    <3>2. PICK p \in proofs : /\ Proved(p, o, target[o].id, verifier[v].ips) /\ p.day = day
      BY <2>3, <3>1 DEF RecordSuccess, RequestProved
    <3> QED BY <1>1, <3>1, <3>2 DEF RowProved, Proved, Shape
  <2> QED BY <2>1, <2>2, <2>3
<1>6. ASSUME NEW w \in Verifier PROVE RequestProved(w)'
  BY <1>1, <1>2, RequestKept DEF Shape, RequestType, Places
<1> QED BY <1>4, <1>5, <1>6

\* Time, owners and administrators: no day passes between a proof and its write.
LEMMA OutsideKeepsInv ==
  ASSUME TargetsInv, KeysExpire \/ DayEnds \/ (\E o \in Origin : OwnerChangesZone(o))
                     \/ \E e \in Entry : AdministerBlocklist(e)
  PROVE  TargetsInv'
<1> USE DEF TargetsInv
<1>1. UNCHANGED <<target, registrar, verifier, proofs>>
  BY DEF KeysExpire, CooldownEnds, HourEnds, InFlightExpires, DayEnds, OwnerChangesZone,
    AdministerBlocklist, UnchangedButLimiter
<1>2. /\ day' \in Int /\ \A o \in Origin : zone'[o].ips \in SUBSET Address
      /\ day' = day \/ \A v \in Verifier : verifier[v].pc # "verified"
  <2>1. CASE \E o \in Origin : OwnerChangesZone(o)
    <3>1. PICK q \in Origin : OwnerChangesZone(q)
      BY <2>1
    <3>2. CASE \E id \in 0..target[q].id : zone' = [zone EXCEPT ![q].token = id]
      BY <3>1, <3>2 DEF OwnerChangesZone, Shape
    <3>3. CASE \E ips \in Hostings : zone' = [zone EXCEPT ![q].ips = ips]
      BY <3>1, <3>3, TargetsAssumption DEF OwnerChangesZone, Shape
    <3> QED BY <3>1, <3>2, <3>3 DEF OwnerChangesZone
  <2>2. CASE UNCHANGED zone
    BY <2>2 DEF KeysExpire, CooldownEnds, HourEnds, InFlightExpires, DayEnds,
      OwnerChangesZone, AdministerBlocklist, UnchangedButLimiter, Shape
  <2> QED BY <2>1, <2>2 DEF KeysExpire, CooldownEnds, HourEnds, InFlightExpires, DayEnds,
      AdministerBlocklist, UnchangedButLimiter
<1>3. limiter' \in [cooldown : [Origin -> BOOLEAN], hourly : [Origin -> WindowType],
                    inflight : WindowType] /\ CounterExpires'
  <2> USE DEF Shape, CounterExpires
  <2>1. Unset \in WindowType /\ Unset.count = 0
    BY DEF Unset, WindowType
  <2>2. ASSUME NEW o \in Origin, CooldownEnds(o)
        PROVE  limiter' = [limiter EXCEPT !.cooldown = [limiter.cooldown EXCEPT ![o] = FALSE]]
    BY <2>2 DEF CooldownEnds
  <2>3. ASSUME NEW o \in Origin, HourEnds(o)
        PROVE  limiter' = [limiter EXCEPT !.hourly = [limiter.hourly EXCEPT ![o] = Unset]]
    BY <2>3 DEF HourEnds
  <2>4. InFlightExpires => limiter' = [limiter EXCEPT !.inflight = Unset]
    BY DEF InFlightExpires
  <2>5. CASE UNCHANGED limiter
    BY <2>5
  <2>6. CASE KeysExpire
    <3>1. CASE InFlightExpires
      BY <2>1, <2>4, <3>1
    <3>2. CASE \E o \in Origin : CooldownEnds(o)
      <4>1. PICK o \in Origin : CooldownEnds(o)
        BY <3>2
      <4>2. [limiter.cooldown EXCEPT ![o] = FALSE] \in [Origin -> BOOLEAN]
        OBVIOUS
      <4> QED BY <2>2, <4>1, <4>2
    <3>3. CASE \E o \in Origin : HourEnds(o)
      BY <2>1, <2>3, <3>3
    <3> QED BY <2>6, <3>1, <3>2, <3>3 DEF KeysExpire
  <2> QED BY <2>5, <2>6 DEF DayEnds, OwnerChangesZone, AdministerBlocklist
<1>4. Shape' /\ CounterExpires'
  BY <1>1, <1>2, <1>3 DEF Shape
<1>5. ASSUME NEW o \in Origin PROVE RowProved(o)'
  BY <1>1, RowsKept
<1>6. ASSUME NEW v \in Verifier PROVE RequestProved(v)'
  BY <1>1, <1>2 DEF RequestProved, Proved
<1> QED BY <1>4, <1>5, <1>6

LEMMA TargetsStepInv == ASSUME TargetsInv, [TargetsNext]_targetVars PROVE TargetsInv'
<1>1. CASE UNCHANGED targetVars
  BY <1>1 DEF TargetsInv, targetVars, Shape, CounterExpires, RowProved, RequestProved, Proved
<1>2. CASE TargetsNext
  BY <1>2, RegistrarKeepsInv, LimitsKeepInv, ProbeKeepsInv, RecordKeepsInv, OutsideKeepsInv
    DEF TargetsNext, VerifyStep
<1> QED BY <1>1, <1>2

LEMMA InvProves == ASSUME TargetsInv PROVE ScannableProven
<1> SUFFICES ASSUME NEW o \in Origin, IsScannable(target[o])
    PROVE \E p \in proofs : /\ p.origin = o /\ p.id = target[o].id
                            /\ p.ips = target[o].ips /\ day < p.day + ValidDays
                            /\ p.ips \cap Private = {}
  BY DEF ScannableProven
<1>1. PICK p \in proofs : /\ Proved(p, o, target[o].id, target[o].ips)
                          /\ target[o].expires = p.day + ValidDays
  BY DEF TargetsInv, RowProved, IsScannable
<1> QED BY <1>1 DEF Proved, IsScannable

\* A target that may be scanned has a proof of this registration, still valid, for
\* exactly its addresses, whatever interleaves with the verification (verifyTarget).
THEOREM ScannableIsProven == TargetsSpec => []ScannableProven
<1>1. TargetsInit => TargetsInv
  BY TargetsInitInv
<1>2. TargetsInv /\ [TargetsNext]_targetVars => TargetsInv'
  BY TargetsStepInv
<1>3. TargetsInv => ScannableProven
  BY InvProves
<1> QED BY <1>1, <1>2, <1>3, PTL DEF TargetsSpec

\* The counter of the requests in flight is above nothing only while an expiry is
\* set on it, so a slot that is lost comes back (acquireVerificationSlot).
THEOREM CounterComesBack == TargetsSpec => []CounterExpires
<1>1. TargetsInit => TargetsInv
  BY TargetsInitInv
<1>2. TargetsInv /\ [TargetsNext]_targetVars => TargetsInv'
  BY TargetsStepInv
<1>3. TargetsInv => CounterExpires
  BY DEF TargetsInv
<1> QED BY <1>1, <1>2, <1>3, PTL DEF TargetsSpec

-----------------------------------------------------------------------------
(* For all answers of DNS, all blocklists and all refused numbers: what a request  *)
(* is let through to was permitted, and the API and the guard answer alike.        *)

\* What the verification in progress holds and what was recorded passed the gate;
\* only a run that has its snapshot has contacted anything, under that snapshot.
GuardInv ==
  /\ NumbersOf(resolved) \cap Refused = {} /\ ranges \cap Refused = {}
  /\ crawl.at # "runs" => contacted = {}
  /\ contacted # {} => Evaluate(contacted, crawl.ips, crawl.list)

LEMMA GuardInitInv == ASSUME GuardInit PROVE GuardInv
BY DEF GuardInit, GuardInv, NumbersOf, NoCrawl

\* Owners and administrators touch nothing the invariant speaks of.
LEMMA MovesKeepInv ==
  ASSUME GuardInv, OwnerMoves \/ \E p \in Pattern : AddPattern(p) \/ ChangePattern(p)
  PROVE  GuardInv'
BY DEF GuardInv, OwnerMoves, AddPattern, ChangePattern, NumbersOf, Evaluate,
  MatchBlocklist, WithinVerified

LEMMA VerificationKeepsInv ==
  ASSUME GuardInv, ClassifyOrigin \/ EndVerification
  PROVE  GuardInv'
<1>1. UNCHANGED <<crawl, contacted>>
  BY DEF ClassifyOrigin, EndVerification
<1>2. (crawl.at # "runs" => contacted = {})' /\ (contacted # {} => Evaluate(contacted, crawl.ips, crawl.list))'
  BY <1>1 DEF GuardInv, Evaluate, MatchBlocklist, WithinVerified, NumbersOf
<1>3. CASE ClassifyOrigin
  BY <1>2, <1>3 DEF GuardInv, ClassifyOrigin, AllAllowed, NumbersOf
<1>4. CASE EndVerification
  <2>1. NumbersOf(resolved') = {}
    BY <1>4 DEF EndVerification, NumbersOf
  <2>2. ranges' \cap Refused = {}
    BY <1>4 DEF EndVerification, GuardInv
  <2> QED BY <1>2, <2>1, <2>2 DEF GuardInv
<1> QED BY <1>3, <1>4

LEMMA CrawlKeepsInv ==
  ASSUME GuardInv, AdmitScan \/ ReadTarget \/ LoadBlocklist \/ EndScan
  PROVE  GuardInv'
<1>1. UNCHANGED <<resolved, ranges>>
  BY DEF AdmitScan, ReadTarget, LoadBlocklist, EndScan
<1>2. contacted' = {}
  BY DEF GuardInv, AdmitScan, ReadTarget, LoadBlocklist, EndScan
<1> QED BY <1>1, <1>2 DEF GuardInv, NumbersOf

LEMMA RequestKeepsInv == ASSUME GuardInv, Request PROVE GuardInv'
<1>1. UNCHANGED <<resolved, ranges, crawl>> /\ crawl.at = "runs"
  BY DEF Request
<1>2. contacted' # {} => contacted' = dns /\ Evaluate(dns, crawl.ips, crawl.list)
  BY DEF Request
<1> QED BY <1>1, <1>2 DEF GuardInv, NumbersOf, Evaluate, MatchBlocklist, WithinVerified

LEMMA GuardStepInv == ASSUME GuardInv, [GuardNext]_guardVars PROVE GuardInv'
<1>1. CASE UNCHANGED guardVars
  BY <1>1 DEF GuardInv, guardVars, NumbersOf, Evaluate, MatchBlocklist, WithinVerified
<1>2. CASE GuardNext
  BY <1>2, MovesKeepInv, VerificationKeepsInv, CrawlKeepsInv, RequestKeepsInv DEF GuardNext
<1> QED BY <1>1, <1>2

\* One address of several is matched when all of them are.
LEMMA OneOfAll ==
  ASSUME NEW p, NEW numbers, NEW x \in numbers, Hits(p, TRUE, {x})
  PROVE  Hits(p, TRUE, numbers)
BY DEF Hits

LEMMA InvPermits == ASSUME GuardInv PROVE ContactsPermitted
<1> SUFFICES ASSUME NEW a \in contacted
    PROVE  /\ NumberOf(a) \in crawl.ips \ Refused
           /\ a.form = "6to4" => Embedded(a) \notin Refused
           /\ \A p \in crawl.list : Evaluable(p) /\ ~Hits(p, TRUE, {NumberOf(a)})
  BY DEF ContactsPermitted
<1>1. Evaluate(contacted, crawl.ips, crawl.list)
  BY DEF GuardInv
<1>2. NumberOf(a) \in NumbersOf(contacted)
  BY DEF NumbersOf
<1>3. NumberOf(a) \in crawl.ips
  BY <1>1, <1>2 DEF Evaluate, WithinVerified
<1>4. NumberOf(a) \notin Refused /\ (a.form = "6to4" => Embedded(a) \notin Refused)
  BY <1>1 DEF Evaluate, IsBlockedAddress
<1>5. ASSUME NEW p \in crawl.list PROVE Evaluable(p) /\ ~Hits(p, TRUE, {NumberOf(a)})
  <2>1. Evaluable(p) /\ ~Hits(p, TRUE, NumbersOf(contacted))
    BY <1>1 DEF Evaluate, MatchBlocklist
  <2> QED BY <1>2, <2>1, OneOfAll
<1> QED BY <1>3, <1>4, <1>5

LEMMA InvAgrees == ASSUME GuardInv PROVE AnswersAgree
<1> SUFFICES ASSUME NumbersOf(dns) = ranges,
                    ~(\E a \in dns : a.form = "6to4" /\ Embedded(a) \in Refused)
    PROVE  Scannable <=> Evaluate(dns, ranges, Active)
  BY DEF AnswersAgree
<1>1. ranges # {} <=> dns # {}
  BY DEF NumbersOf
<1>2. \A a \in dns : NumberOf(a) \in ranges
  BY DEF NumbersOf
<1>3. \A a \in dns : ~IsBlockedAddress(a)
  BY <1>2 DEF GuardInv, IsBlockedAddress
<1>4. dns # {} => WithinVerified(dns, ranges)
  BY DEF WithinVerified
<1> QED BY <1>1, <1>3, <1>4 DEF Scannable, Evaluate

\* A request goes only to an address that was recorded, is not refused and was not
\* listed when the run began, whatever DNS says at whatever moment (evaluate).
THEOREM ContactsHold == GuardSpec => []ContactsPermitted
<1>1. GuardInit => GuardInv
  BY GuardInitInv
<1>2. GuardInv /\ [GuardNext]_guardVars => GuardInv'
  BY GuardStepInv
<1>3. GuardInv => ContactsPermitted
  BY InvPermits
<1> QED BY <1>1, <1>2, <1>3, PTL DEF GuardSpec

\* isScannable and evaluate say the same of a target whose addresses are those that
\* were verified, for every blocklist (matchBlocklist).
THEOREM AnswersHold == GuardSpec => []AnswersAgree
<1>1. GuardInit => GuardInv
  BY GuardInitInv
<1>2. GuardInv /\ [GuardNext]_guardVars => GuardInv'
  BY GuardStepInv
<1>3. GuardInv => AnswersAgree
  BY InvAgrees
<1> QED BY <1>1, <1>2, <1>3, PTL DEF GuardSpec

-----------------------------------------------------------------------------
(* Types, and the three parts together. *)

LEMMA AccountsTypeHolds == AccountsSpec => []AccountsTypeOK
<1>1. AccountsBase => AccountsTypeOK
  BY DEF AccountsBase, AccountsTyped, AccountsTypeOK, AccountRows, Progress, SignIns, Calls
<1> QED
  BY <1>1, AccountsBaseInvariant, PTL

Stops == {"idle", "cooldown", "hourly", "inflight", "chill", "giveback", "classify", "probe",
          "verified", "failed", "release"}

\* What the type invariant says of the targets beyond their shape.
TargetsRanges ==
  /\ \A v \in Verifier : verifier[v].pc \in Stops
  /\ \A o \in Origin : target[o].id \in Nat /\ target[o].expires \in Nat
  /\ blocklist \in [Entry -> {"absent", "active", "inactive"}]
  /\ day \in 0..LastDay /\ attempts \in 0..MaxAttempts

LEMMA RangesStart == ASSUME TargetsInit PROVE TargetsRanges
<1>1. \A o \in Origin : target[o].id = 0 /\ target[o].expires = 0
  BY DEF TargetsInit, NoTarget
<1>2. day = 0 /\ attempts = 0 /\ blocklist = [e \in Entry |-> "absent"]
  BY DEF TargetsInit
<1>3. LastDay \in Nat /\ MaxAttempts \in Nat
  BY TargetsAssumption
<1>4. \A v \in Verifier : verifier[v].pc = "idle"
  BY DEF TargetsInit, NoRequest
<1> QED
  BY <1>1, <1>2, <1>3, <1>4 DEF TargetsRanges, Stops

\* A row that is written keeps its id or takes the next one; an expiry is set from
\* a day that has come.
LEMMA RowsInRange ==
  ASSUME TargetsInv, TargetsRanges, [TargetsNext]_targetVars
  PROVE  \A o \in Origin : target'[o].id \in Nat /\ target'[o].expires \in Nat
<1>1. /\ target \in [Origin -> RowType]
      /\ \A o \in Origin : target[o].id \in Nat /\ target[o].expires \in Nat
      /\ day \in Nat /\ day + ValidDays \in Nat
  BY TargetsAssumption DEF TargetsInv, Shape, TargetsRanges
<1>2. CASE UNCHANGED target
  BY <1>1, <1>2
<1>3. ASSUME NEW r \in Registrar, CreateTarget(r) \/ ArchiveTarget(r) \/ DeleteTarget(r),
             NEW o \in Origin
      PROVE  target'[o].id \in Nat /\ target'[o].expires \in Nat
  <2>1. NoTarget = [id |-> 0, exists |-> FALSE, status |-> "PENDING", expires |-> 0,
                    ips |-> {}, archived |-> FALSE]
    BY DEF NoTarget
  <2>2. CASE target'[o] = target[o]
    BY <1>1, <2>2
  <2>3. CASE target'[o] = [NoTarget EXCEPT !.id = target[o].id + 1, !.exists = TRUE]
    BY <1>1, <2>1, <2>3
  <2>4. CASE target'[o] = [target[o] EXCEPT !.archived = TRUE]
    BY <1>1, <2>4, RowChanged DEF RowType
  <2>5. CASE target'[o] = [NoTarget EXCEPT !.id = target[o].id]
    BY <1>1, <2>1, <2>5
  <2> QED
    BY <1>1, <1>3, <2>2, <2>3, <2>4, <2>5 DEF CreateTarget, ArchiveTarget, DeleteTarget
<1>4. ASSUME NEW v \in Verifier, RecordSuccess(v) \/ RecordFailure(v), NEW o \in Origin
      PROVE  target'[o].id \in Nat /\ target'[o].expires \in Nat
  <2>1. CASE target'[o] = target[o]
    BY <1>1, <2>1
  <2>2. CASE target'[o] = [target[o] EXCEPT !.status = "FAILED"]
    BY <1>1, <2>2 DEF RowType
  <2>3. CASE \E ips : target'[o] = Verified(target[o], ips)
    BY <1>1, <2>3 DEF Verified, RowType
  <2> QED
    BY <1>1, <1>4, <2>1, <2>2, <2>3 DEF RecordSuccess, RecordFailure
<1> QED
  BY <1>2, <1>3, <1>4 DEF TargetsNext, targetVars, RegistrarStep, CheckRegistration, FindOwned,
    VerifyStep, LookAtCooldown, CountHourly, CountInFlight, SetCooldown, GiveBack, RedisFails,
    VerifierDies, StartVerify, ClassifyAgain, Probe, ProbeFails, KeysExpire, InFlightExpires,
    CooldownEnds, HourEnds, DayEnds, OwnerChangesZone, AdministerBlocklist, UnchangedButLimits,
    UnchangedButLimiter, UnchangedButVerdict

LEMMA StopsKept ==
  ASSUME TargetsInv, TargetsRanges, [TargetsNext]_targetVars
  PROVE  \A v \in Verifier : verifier'[v].pc \in Stops
<1>1. verifier \in [Verifier -> RequestType] /\ \A v \in Verifier : verifier[v].pc \in Stops
  BY DEF TargetsInv, Shape, TargetsRanges
<1>2. CASE UNCHANGED verifier
  BY <1>1, <1>2
<1>3. ASSUME NEW v \in Verifier, NEW pc \in Stops, verifier' = VerifierAt(v, pc)
      PROVE  \A w \in Verifier : verifier'[w].pc \in Stops
  BY <1>1, <1>3 DEF VerifierAt, RequestType
<1>4. ASSUME NEW v \in Verifier, NEW q, q.pc \in Stops, verifier' = [verifier EXCEPT ![v] = q]
      PROVE  \A w \in Verifier : verifier'[w].pc \in Stops
  BY <1>1, <1>4
<1>5. NoRequest.pc \in Stops
  BY DEF NoRequest, Stops
<1>6. ASSUME NEW v \in Verifier, NEW o \in Origin, StartVerify(v, o)
      PROVE  \A w \in Verifier : verifier'[w].pc \in Stops
  <2> DEFINE q == [pc |-> "cooldown", origin |-> o, id |-> target[o].id, ips |-> {}]
  <2>1. q.pc \in Stops /\ verifier' = [verifier EXCEPT ![v] = q]
    BY <1>6 DEF StartVerify, Stops
  <2> HIDE DEF q
  <2> QED
    BY <1>4, <2>1
<1>7. ASSUME NEW v \in Verifier, ClassifyAgain(v)
      PROVE  \A w \in Verifier : verifier'[w].pc \in Stops
  <2>1. verifier[v] \in RequestType
    BY <1>1
  <2> DEFINE q == [verifier[v] EXCEPT !.pc = "probe", !.ips = zone[verifier[v].origin].ips]
  <2>2. q.pc \in Stops
    BY <2>1 DEF RequestType, Stops
  <2>3. CASE Classifies(verifier[v].origin)
    <3>1. verifier' = [verifier EXCEPT ![v] = q]
      BY <1>1, <1>7, <2>3 DEF ClassifyAgain
    <3> HIDE DEF q
    <3> QED
      BY <1>4, <2>2, <3>1
  <2>4. CASE ~Classifies(verifier[v].origin)
    BY <1>3, <1>7, <2>4 DEF ClassifyAgain, Stops
  <2> QED
    BY <2>3, <2>4
<1>8. ASSUME NEW v \in Verifier, VerifyStep(v) \/ RedisFails(v) \/ VerifierDies(v)
      PROVE  \A w \in Verifier : verifier'[w].pc \in Stops
  <2>1. \/ verifier' = [verifier EXCEPT ![v] = NoRequest]
        \/ \E pc \in Stops : verifier' = VerifierAt(v, pc)
        \/ ClassifyAgain(v)
    BY <1>8 DEF VerifyStep, LookAtCooldown, CountHourly, CountInFlight, SetCooldown, GiveBack,
      RedisFails, VerifierDies, Probe, ProbeFails, RecordSuccess, RecordFailure, Stops
  <2> QED
    BY <1>3, <1>4, <1>5, <1>7, <2>1
<1> QED
  BY <1>2, <1>6, <1>8 DEF TargetsNext, targetVars, RegistrarStep, CheckRegistration, FindOwned,
    CreateTarget, ArchiveTarget, DeleteTarget, UnchangedButTarget, KeysExpire, InFlightExpires,
    CooldownEnds, HourEnds, DayEnds, OwnerChangesZone, AdministerBlocklist, UnchangedButLimiter

LEMMA RangesKept ==
  ASSUME TargetsInv, TargetsRanges, [TargetsNext]_targetVars
  PROVE  TargetsRanges'
<1>1. day' = day \/ (day < LastDay /\ day' = day + 1)
  BY DEF TargetsNext, targetVars, RegistrarStep, CheckRegistration, FindOwned, CreateTarget,
    ArchiveTarget, DeleteTarget, UnchangedButTarget, VerifyStep, LookAtCooldown, CountHourly,
    CountInFlight, SetCooldown, GiveBack, RedisFails, VerifierDies, StartVerify, ClassifyAgain,
    Probe, ProbeFails, RecordSuccess, RecordFailure, KeysExpire, InFlightExpires, CooldownEnds,
    HourEnds, DayEnds, OwnerChangesZone, AdministerBlocklist, UnchangedButLimits,
    UnchangedButLimiter, UnchangedButVerdict
<1>2. attempts' = attempts \/ (attempts < MaxAttempts /\ attempts' = attempts + 1)
  BY DEF TargetsNext, targetVars, RegistrarStep, CheckRegistration, FindOwned, CreateTarget,
    ArchiveTarget, DeleteTarget, UnchangedButTarget, VerifyStep, LookAtCooldown, CountHourly,
    CountInFlight, SetCooldown, GiveBack, RedisFails, VerifierDies, StartVerify, ClassifyAgain,
    Probe, ProbeFails, RecordSuccess, RecordFailure, KeysExpire, InFlightExpires, CooldownEnds,
    HourEnds, DayEnds, OwnerChangesZone, AdministerBlocklist, UnchangedButLimits,
    UnchangedButLimiter, UnchangedButVerdict
<1>3. \/ UNCHANGED blocklist
      \/ \E e \in Entry, s \in {"absent", "active", "inactive"} :
           blocklist' = [blocklist EXCEPT ![e] = s]
  BY DEF TargetsNext, targetVars, RegistrarStep, CheckRegistration, FindOwned, CreateTarget,
    ArchiveTarget, DeleteTarget, UnchangedButTarget, VerifyStep, LookAtCooldown, CountHourly,
    CountInFlight, SetCooldown, GiveBack, RedisFails, VerifierDies, StartVerify, ClassifyAgain,
    Probe, ProbeFails, RecordSuccess, RecordFailure, KeysExpire, InFlightExpires, CooldownEnds,
    HourEnds, DayEnds, OwnerChangesZone, AdministerBlocklist, UnchangedButLimits,
    UnchangedButLimiter, UnchangedButVerdict
<1>4. LastDay \in Nat /\ MaxAttempts \in Nat
  BY TargetsAssumption
<1>5. day' \in 0..LastDay /\ attempts' \in 0..MaxAttempts
  BY <1>1, <1>2, <1>4 DEF TargetsRanges
<1>6. blocklist' \in [Entry -> {"absent", "active", "inactive"}]
  BY <1>3 DEF TargetsRanges
<1> QED
  BY <1>5, <1>6, RowsInRange, StopsKept DEF TargetsRanges

LEMMA TargetsTypeHolds == TargetsSpec => []TargetsTypeOK
<1>1. TargetsInit => TargetsInv /\ TargetsRanges
  BY TargetsInitInv, RangesStart
<1>2. TargetsInv /\ TargetsRanges /\ [TargetsNext]_targetVars => (TargetsInv /\ TargetsRanges)'
  BY TargetsStepInv, RangesKept
<1>3. ASSUME TargetsInv, TargetsRanges PROVE TargetsTypeOK
  <2>1. Shape
    BY <1>3 DEF TargetsInv
  <2>2. ASSUME NEW o \in Origin
        PROVE  /\ target[o].exists \in BOOLEAN /\ target[o].archived \in BOOLEAN
               /\ target[o].status \in {"PENDING", "VERIFIED", "FAILED"}
               /\ target[o].ips \in SUBSET Address
    BY <2>1 DEF Shape, RowType
  <2>3. \A v \in Verifier : verifier[v].pc \in Stops
    BY <1>3 DEF TargetsRanges
  <2>4. limiter.cooldown \in [Origin -> BOOLEAN] /\ limiter.inflight.ttl \in BOOLEAN
    BY <2>1 DEF Shape, WindowType
  <2>5. ASSUME NEW o \in Origin PROVE target[o].id \in Nat /\ target[o].expires \in Nat
    BY <1>3 DEF TargetsRanges
  <2>6. /\ blocklist \in [Entry -> {"absent", "active", "inactive"}]
        /\ day \in 0..LastDay /\ attempts \in 0..MaxAttempts
    BY <1>3 DEF TargetsRanges
  <2>7. \A o \in Origin : LET row == target[o] IN
          /\ row.id \in Nat /\ row.exists \in BOOLEAN /\ row.archived \in BOOLEAN
          /\ row.status \in {"PENDING", "VERIFIED", "FAILED"}
          /\ row.expires \in Nat /\ row.ips \in SUBSET Address
    BY <2>2, <2>5
  <2>8. \A v \in Verifier : verifier[v].pc \in {"idle", "cooldown", "hourly", "inflight", "chill",
          "giveback", "classify", "probe", "verified", "failed", "release"}
    BY <2>3 DEF Stops
  <2> QED
    BY <2>4, <2>6, <2>7, <2>8 DEF TargetsTypeOK
<1> QED
  BY <1>1, <1>2, <1>3, PTL DEF TargetsSpec

LEMMA NumbersWritten == \A a \in Written : NumberOf(a) \in Numbers
<1> SUFFICES ASSUME NEW a \in Written PROVE NumberOf(a) \in Numbers
  OBVIOUS
<1>1. a.form \in {"v4", "mapped", "6to4", "v6"} /\ a.n \in 0..3
  BY DEF Written
<1>2. CASE a.form \in {"v4", "mapped"}
  BY <1>1, <1>2 DEF NumberOf, Numbers
<1>3. CASE a.form = "6to4"
  BY <1>1, <1>3 DEF NumberOf, Numbers, SixToFour
<1>4. CASE a.form = "v6"
  BY <1>1, <1>4 DEF NumberOf, Numbers
<1> QED
  BY <1>1, <1>2, <1>3, <1>4

GuardTypes ==
  /\ GuardTypeOK
  /\ crawl \in [at : {"none", "admitted", "read", "runs"}, ips : SUBSET Numbers, list : SUBSET Pattern]

LEMMA GuardTypeHolds == GuardSpec => []GuardTypeOK
<1>1. NoCrawl \in [at : {"none", "admitted", "read", "runs"}, ips : SUBSET Numbers, list : SUBSET Pattern]
  BY DEF NoCrawl
<1>2. GuardInit => GuardTypes
  BY <1>1, GuardAssumption DEF GuardInit, GuardTypes, GuardTypeOK
<1>3. ASSUME GuardTypes, [GuardNext]_guardVars PROVE GuardTypes'
  <2> USE <1>1, <1>3, GuardAssumption
  <2>1. CASE OwnerMoves
    BY <2>1 DEF OwnerMoves, Move, GuardTypes, GuardTypeOK
  <2>2. ASSUME NEW p \in Pattern, AddPattern(p) \/ ChangePattern(p) PROVE GuardTypes'
    BY <2>2 DEF AddPattern, ChangePattern, Move, GuardTypes, GuardTypeOK
  <2>3. CASE ClassifyOrigin
    BY <2>3 DEF ClassifyOrigin, GuardTypes, GuardTypeOK
  <2>4. CASE EndVerification
    <3>1. NumbersOf(resolved) \subseteq Numbers
      BY NumbersWritten DEF NumbersOf, GuardTypes, GuardTypeOK
    <3> QED
      BY <2>4, <3>1 DEF EndVerification, GuardTypes, GuardTypeOK
  <2>5. CASE AdmitScan
    BY <2>5 DEF AdmitScan, GuardTypes, GuardTypeOK
  <2>6. CASE ReadTarget
    BY <2>6 DEF ReadTarget, GuardTypes, GuardTypeOK
  <2>7. CASE LoadBlocklist
    BY <2>7 DEF LoadBlocklist, Active, GuardTypes, GuardTypeOK
  <2>8. CASE Request
    BY <2>8 DEF Request, GuardTypes, GuardTypeOK
  <2>9. CASE EndScan
    BY <2>9 DEF EndScan, GuardTypes, GuardTypeOK
  <2>10. CASE UNCHANGED guardVars
    BY <2>10 DEF guardVars, GuardTypes, GuardTypeOK
  <2> QED
    BY <2>1, <2>2, <2>3, <2>4, <2>5, <2>6, <2>7, <2>8, <2>9, <2>10 DEF GuardNext
<1>4. GuardTypes => GuardTypeOK
  BY DEF GuardTypes
<1> QED
  BY <1>2, <1>3, <1>4, PTL DEF GuardSpec

LEMMA AccessParts == AccessSpec => AccountsSpec /\ TargetsSpec /\ GuardSpec
<1>1. AccessInit => AccountsInit /\ TargetsInit /\ GuardInit
  BY DEF AccessInit
<1>2. [AccessNext]_accessVars =>
        [AccountsNext]_accountVars /\ [TargetsNext]_targetVars /\ [GuardNext]_guardVars
  BY DEF AccessNext, accessVars
<1> QED
  BY <1>1, <1>2, PTL DEF AccessSpec, AccountsSpec, TargetsSpec, GuardSpec

\* Rows, requests, limits and snapshots are what the tables, Redis and the code take
\* them for, in all three parts.
THEOREM AccessTypeHolds == AccessSpec => []AccessTypeOK
<1>1. AccountsTypeOK /\ TargetsTypeOK /\ GuardTypeOK => AccessTypeOK
  BY DEF AccessTypeOK
<1> QED
  BY <1>1, AccessParts, AccountsTypeHolds, TargetsTypeHolds, GuardTypeHolds, PTL

\* Who may do what to whom: what holds of each part holds of the three together.
THEOREM AccessHolds ==
  AccessSpec => [](/\ AdminRemains /\ SuspensionsHold /\ ScannableProven /\ CounterExpires
                   /\ ContactsPermitted /\ AnswersAgree)
<1> QED
  BY AccessParts, AdminHolds, SuspensionsAlways, ScannableIsProven, CounterComesBack, ContactsHold,
     AnswersHold, PTL

=============================================================================
